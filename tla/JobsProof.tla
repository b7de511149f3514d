--------------------------- MODULE JobsProof ---------------------------
(***************************************************************************)
(* What is proved about jobs, for any number of them: the daemon's roster  *)
(* of runtimes (DaemonJobs: RosterSound, Accounted, WaitSound) and the     *)
(* routing of their events to the SEAL chains (SealRouting: ClosedOnce,    *)
(* LiveHooksSealed).  The two specifications share no variable.            *)
(***************************************************************************)
EXTENDS DaemonJobs, SealRouting, FiniteSetTheorems, WellFoundedInduction, TLAPS

\* A runtime that was started has an id, and only a started one is recorded.
Started ==
    \A r \in Runtimes :
        /\ rt[r].st # "none" => rt[r].id \in Ids
        /\ rt[r].known => rt[r].st # "none"

\* A cache entry is about a recorded runtime and lies under that runtime's id.
EntriesOwn ==
    \A i \in Ids : cache[i] # NoEntry =>
        /\ cache[i].st # "none"
        /\ cache[i].rt \in Runtimes
        /\ rt[cache[i].rt].known
        /\ rt[cache[i].rt].id = i

\* The runtimes the actor owns are recorded; each has its entry, or none under its id
\* if the last write failed.  A recorded runtime that runs and was not told to end has
\* its entry, owned or not, if the last write did not fail.
OwnEntry ==
    \A r \in Runtimes :
        /\ r \in jobs => rt[r].known
        /\ r \in jobs /\ r \in torn => cache[rt[r].id] = NoEntry
        /\ r \in jobs /\ r \notin torn => cache[rt[r].id] # NoEntry /\ cache[rt[r].id].rt = r
        /\ Current(r) /\ r \notin torn => cache[rt[r].id] = Entry("detached", r)

\* Two owned runtimes have different ids, and ids to come are above theirs.
OwnedIds ==
    \A r \in jobs :
        /\ rt[r].id < next_id
        /\ \A s \in jobs : rt[r].id = rt[s].id => r = s

\* Ids to come are above the cached ones.
IdsAhead == up => \A i \in Ids : cache[i] # NoEntry => i < next_id

\* The runtime being recorded has an id of its own.
StartingFresh ==
    starting # None =>
        /\ up
        /\ rt[starting].st # "none"
        /\ ~rt[starting].known
        /\ rt[starting].id < next_id
        /\ cache[rt[starting].id] = NoEntry
        /\ \A r \in jobs : rt[r].id # rt[starting].id

\* A daemon that is down owns nothing.
DownEmpty == ~up => jobs = {} /\ starting = None

\* Who waits, waits for a recorded runtime.
WaitsForKnown == w.at # "idle" => w.rt \in Runtimes /\ rt[w.rt].known

RosterInv ==
    /\ TypeOK /\ Started /\ EntriesOwn /\ OwnEntry /\ OwnedIds /\ IdsAhead /\ StartingFresh
    /\ DownEmpty /\ WaitsForKnown

\* The records the module builds have their types.
LEMMA Records ==
    /\ NoEntry \in EntryType
    /\ NoWait \in WaitType
    /\ NoRuntime \in RuntimeType
    /\ \A r \in Runtimes, st \in {"detached", "done", "stopped"} : Entry(st, r) \in EntryType
  BY JobsConstants DEF NoEntry, EntryType, NoWait, WaitType, NoRuntime, RuntimeType, Entry

\* An entry is told from no entry, and by its runtime.
LEMMA Entries ==
    /\ \A r \in Runtimes, st \in {"detached", "done", "stopped"} :
          Entry(st, r) # NoEntry /\ Entry(st, r).st = st /\ Entry(st, r).rt = r
    /\ NoEntry.rt = None /\ NoEntry.st = "none"
  BY JobsConstants DEF NoEntry, Entry

\* What is written of an owned job is an entry about it.
LEMMA JobInfoEntry ==
    ASSUME NEW r \in Runtimes
    PROVE  /\ JobInfo(r) \in EntryType /\ JobInfo(r) # NoEntry /\ JobInfo(r).rt = r
           /\ JobInfo(r).st # "none"
           /\ Running(r) => JobInfo(r) = Entry("detached", r)
  BY Entries, Records DEF JobInfo

\* A write leaves the new entry, none or the old one.
LEMMA OutcomeOf ==
    ASSUME NEW how, NEW e, NEW old
    PROVE  Outcome(how, e, old) \in {e, NoEntry, old}
  BY DEF Outcome

\* RosterInv holds at the start.
LEMMA RosterInit == Init => RosterInv
<1>. SUFFICES ASSUME Init PROVE RosterInv
  OBVIOUS
<1>1. TypeOK
  BY Records, JobsConstants DEF Init, TypeOK, Ids
<1>2. \A r \in Runtimes : rt[r].st = "none" /\ ~rt[r].known /\ ~Current(r)
  BY DEF Init, NoRuntime, Current, Running
<1>3. WaitsForKnown
  BY DEF Init, NoWait, WaitsForKnown
<1>4. StartingFresh /\ DownEmpty /\ OwnedIds
  BY DEF Init, StartingFresh, DownEmpty, OwnedIds
<1>. QED
  BY <1>1, <1>2, <1>3, <1>4 DEF Init, RosterInv, Started, EntriesOwn, OwnEntry, IdsAhead

-----------------------------------------------------------------------------
(* Reaping *)

\* The entries of the owned jobs W after they are written: each job's own entry has
\* one of the outcomes, the other entries are as they were.
LEMMA SavedEntry ==
    ASSUME RosterInv, NEW W, W \subseteq jobs, NEW how
    PROVE  /\ \A r \in W : /\ rt[r].id \in Ids
                           /\ Saved(W, how)[rt[r].id] \in {JobInfo(r), NoEntry, cache[rt[r].id]}
           /\ \A i \in Ids : (\A r \in W : rt[r].id # i) => Saved(W, how)[i] = cache[i]
           /\ \A i \in Ids : Saved(W, how)[i] \in EntryType
           /\ Saved(W, how) = [i \in Ids |-> Saved(W, how)[i]]
<1>0. jobs \subseteq Runtimes /\ cache \in [Ids -> EntryType]
  BY DEF RosterInv, TypeOK
<1>1. \A r \in W : rt[r].id \in Ids
  BY <1>0 DEF RosterInv, OwnEntry, Started
<1>2. ASSUME NEW r \in W
      PROVE  Saved(W, how)[rt[r].id] \in {JobInfo(r), NoEntry, cache[rt[r].id]}
  <2>1. \A s \in W : rt[s].id = rt[r].id => s = r
    BY DEF RosterInv, OwnedIds
  <2>2. (CHOOSE s \in W : rt[s].id = rt[r].id) = r
    BY <2>1
  <2>3. Saved(W, how)[rt[r].id] = Outcome(how[r], JobInfo(r), cache[rt[r].id])
    BY <1>1, <2>2 DEF Saved
  <2>. QED BY <2>3, OutcomeOf
<1>3. \A i \in Ids : (\A r \in W : rt[r].id # i) => Saved(W, how)[i] = cache[i]
  BY DEF Saved
<1>4. ASSUME NEW i \in Ids PROVE Saved(W, how)[i] \in EntryType
  <2>1. CASE \E r \in W : rt[r].id = i
    BY <1>0, <1>2, <2>1, Records, JobInfoEntry
  <2>2. CASE \A r \in W : rt[r].id # i
    BY <1>0, <1>3, <2>2
  <2>. QED BY <2>1, <2>2
<1>5. Saved(W, how) = [i \in Ids |-> Saved(W, how)[i]]
  BY DEF Saved
<1>. QED BY <1>1, <1>2, <1>3, <1>4, <1>5

\* What the writes leave of a runtime's entry: nothing, and then the runtime is torn,
\* or an entry about it; an entry of one that is not written to stays.
LEMMA SavedOwn ==
    ASSUME RosterInv, NEW W, W \subseteq jobs, NEW how
    PROVE  /\ \A r \in W : \/ r \in TornBy(W, how) /\ Saved(W, how)[rt[r].id] = NoEntry
                           \/ /\ r \notin TornBy(W, how)
                              /\ Saved(W, how)[rt[r].id] # NoEntry
                              /\ Saved(W, how)[rt[r].id].rt = r
           /\ \A r \in Runtimes \ W : /\ r \in TornBy(W, how) <=> r \in torn
                                      /\ r \in jobs => Saved(W, how)[rt[r].id] = cache[rt[r].id]
           /\ \A i \in Ids : cache[i] # NoEntry /\ cache[i].rt \notin W
                             => Saved(W, how)[i] = cache[i]
           /\ TornBy(W, how) \subseteq Runtimes
<1>0. jobs \subseteq Runtimes /\ torn \subseteq Runtimes
  BY DEF RosterInv, TypeOK
<1>1. ASSUME NEW r \in W
      PROVE  \/ r \in TornBy(W, how) /\ Saved(W, how)[rt[r].id] = NoEntry
             \/ /\ r \notin TornBy(W, how)
                /\ Saved(W, how)[rt[r].id] # NoEntry
                /\ Saved(W, how)[rt[r].id].rt = r
  <2>1. r \in TornBy(W, how) <=> Saved(W, how)[rt[r].id] = NoEntry
    BY DEF TornBy
  <2>2. cache[rt[r].id] # NoEntry => cache[rt[r].id].rt = r
    BY <1>0 DEF RosterInv, OwnEntry
  <2>3. JobInfo(r).rt = r
    BY <1>0, JobInfoEntry
  <2>. QED BY <2>1, <2>2, <2>3, SavedEntry
<1>2. ASSUME NEW r \in Runtimes \ W
      PROVE  /\ r \in TornBy(W, how) <=> r \in torn
             /\ r \in jobs => Saved(W, how)[rt[r].id] = cache[rt[r].id]
  <2>1. r \in jobs => rt[r].id \in Ids /\ \A s \in W : rt[s].id # rt[r].id
    BY DEF RosterInv, OwnedIds, OwnEntry, Started
  <2>. QED BY <2>1, SavedEntry DEF TornBy
<1>3. ASSUME NEW i \in Ids, cache[i] # NoEntry, cache[i].rt \notin W
      PROVE  Saved(W, how)[i] = cache[i]
  <2>1. \A r \in W : rt[r].id # i
    BY <1>0, <1>3 DEF RosterInv, OwnEntry
  <2>. QED BY <2>1, SavedEntry
<1>. QED BY <1>0, <1>1, <1>2, <1>3 DEF TornBy

\* The actor goes on, or the daemon dies.
OnOrDown ==
    \/ UNCHANGED <<up, starting>>
    \/ up' = FALSE /\ jobs' = {} /\ starting' = None

\* A request that reaps and collects keeps the invariant but for w, and so does a
\* daemon that dies in it.
LEMMA ReapStep ==
    ASSUME RosterInv, Ready, NEW W, Dead \subseteq W, W \subseteq jobs, NEW how, NEW out,
           out \subseteq GcDrops(Saved(W, how)),
           cache' = [i \in Ids |-> IF i \in out THEN NoEntry ELSE Saved(W, how)[i]],
           torn' = TornBy(W, how), jobs' \subseteq jobs \ Dead, OnOrDown,
           UNCHANGED <<next_id, rt>>, TypeOK', WaitsForKnown'
    PROVE  RosterInv'
<1>. DEFINE c == Saved(W, how)
<1>0. /\ jobs \subseteq Runtimes /\ W \subseteq Runtimes /\ starting = None /\ up
      /\ up \in BOOLEAN /\ rt \in [Runtimes -> RuntimeType]
      /\ \A i \in Ids : cache'[i] = IF i \in out THEN NoEntry ELSE c[i]
  BY DEF RosterInv, TypeOK, Ready
<1>. HIDE DEF c
<1>1. ASSUME NEW i \in Ids, c[i] # NoEntry
      PROVE  \/ cache[i] # NoEntry /\ c[i] = cache[i]
             \/ /\ c[i].st # "none" /\ c[i].rt \in W /\ rt[c[i].rt].id = i
  <2>1. CASE \A r \in W : rt[r].id # i
    BY <1>1, <2>1, SavedEntry DEF c
  <2>2. CASE \E r \in W : rt[r].id = i
    <3>1. PICK r \in W : rt[r].id = i
      BY <2>2
    <3>2. c[i] \in {JobInfo(r), NoEntry, cache[i]}
      BY <3>1, SavedEntry DEF c
    <3>. QED BY <1>0, <1>1, <3>1, <3>2, JobInfoEntry
  <2>. QED BY <2>1, <2>2
<1>2. EntriesOwn'
  <2>1. \A r \in W : rt[r].known
    BY <1>0 DEF RosterInv, OwnEntry
  <2>. QED BY <1>0, <1>1, <2>1 DEF RosterInv, EntriesOwn
<1>3. \A i \in Ids : c[i] # NoEntry => i < next_id
  BY <1>0, <1>1 DEF RosterInv, IdsAhead, OwnedIds
<1>4. IdsAhead' /\ OwnedIds' /\ StartingFresh' /\ DownEmpty' /\ Started'
  BY <1>0, <1>3 DEF RosterInv, IdsAhead, OwnedIds, StartingFresh, DownEmpty, Started, OnOrDown
<1>5. ASSUME NEW r \in Runtimes, r \in jobs \ Dead
      PROVE  cache'[rt[r].id] = c[rt[r].id] /\ rt[r].id \in Ids /\ Running(r)
  <2>1. rt[r].id \in Ids /\ Running(r)
    BY <1>5 DEF RosterInv, OwnEntry, Started, Dead
  <2>2. rt[r].id \in LiveIds
    BY <1>5 DEF LiveIds
  <2>. QED BY <1>0, <2>1, <2>2 DEF GcDrops, c
<1>6. ASSUME NEW r \in Runtimes, r \in jobs'
      PROVE  /\ rt'[r].known
             /\ r \in torn' => cache'[rt'[r].id] = NoEntry
             /\ r \notin torn' => cache'[rt'[r].id] # NoEntry /\ cache'[rt'[r].id].rt = r
  <2>1. r \in jobs \ Dead
    BY <1>6
  <2>2. cache'[rt[r].id] = c[rt[r].id] /\ rt[r].known
    BY <1>5, <2>1 DEF RosterInv, OwnEntry
  <2>3. CASE r \in W
    BY <2>2, <2>3, SavedOwn DEF c
  <2>4. CASE r \notin W
    BY <2>1, <2>2, <2>4, SavedOwn DEF c, RosterInv, OwnEntry
  <2>. QED BY <2>3, <2>4
<1>7. ASSUME NEW r \in Runtimes, Current(r)', r \notin torn'
      PROVE  cache'[rt'[r].id] = Entry("detached", r)
  <2>1. Current(r) /\ Running(r) /\ r \notin Dead /\ rt[r].id \in Ids
    BY <1>7 DEF Current, Running, Dead, RosterInv, Started
  <2>2. CASE r \in W
    <3>1. c[rt[r].id] # NoEntry /\ c[rt[r].id] \in {JobInfo(r), NoEntry, cache[rt[r].id]}
      BY <1>7, <2>2, SavedEntry, SavedOwn DEF c
    <3>2. cache[rt[r].id] # NoEntry => cache[rt[r].id] = Entry("detached", r)
      BY <2>1, <2>2 DEF RosterInv, OwnEntry
    <3>3. c[rt[r].id] = Entry("detached", r)
      BY <2>1, <3>1, <3>2, JobInfoEntry
    <3>. QED BY <1>5, <2>1, <2>2, <3>3
  <2>3. CASE r \notin W
    <3>1. cache[rt[r].id] = Entry("detached", r)
      BY <1>7, <2>1, <2>3, SavedOwn DEF RosterInv, OwnEntry
    <3>2. c[rt[r].id] = Entry("detached", r)
      <4>1. cache[rt[r].id] # NoEntry /\ cache[rt[r].id].rt \notin W
        BY <2>3, <3>1, Entries
      <4>2. \A i \in Ids : cache[i] # NoEntry /\ cache[i].rt \notin W => c[i] = cache[i]
        BY SavedOwn DEF c
      <4>. QED BY <2>1, <3>1, <4>1, <4>2
    <3>3. ~Corpse(c[rt[r].id]) /\ c[rt[r].id].st # "stopped"
      BY <2>1, <3>2, Entries DEF Corpse
    <3>4. rt[r].id \notin out
      BY <3>3 DEF GcDrops, c
    <3>. QED BY <1>0, <2>1, <3>2, <3>4
  <2>. QED BY <2>2, <2>3
<1>8. OwnEntry'
  BY <1>6, <1>7 DEF OwnEntry
<1>. QED
  BY <1>2, <1>4, <1>8 DEF RosterInv

\* What is written and collected is typed, and so is the trail.
LEMMA ReapTypes ==
    ASSUME RosterInv, NEW W, W \subseteq jobs, NEW how, NEW out, NEW told,
           Collect(Saved(W, how), out, told)
    PROVE  /\ cache' \in [Ids -> EntryType] /\ TornBy(W, how) \subseteq Runtimes
           /\ trail' \in [Runtimes -> SUBSET AuditEvents]
           /\ \A r \in Runtimes : trail[r] \subseteq trail'[r]
           /\ \A i \in told, r \in Runtimes : Saved(W, how)[i].rt = r => "gc" \in trail'[r]
<1>1. cache' \in [Ids -> EntryType]
  <2>1. \A i \in Ids : Saved(W, how)[i] \in EntryType
    BY SavedEntry
  <2>. QED BY <2>1, Records DEF Collect
<1>2. trail \in [Runtimes -> SUBSET AuditEvents]
  BY DEF RosterInv, TypeOK
<1>3. /\ \A r \in Runtimes : ReapTrail[r] \in SUBSET AuditEvents /\ trail[r] \subseteq ReapTrail[r]
  BY <1>2 DEF ReapTrail, AuditEvents
<1>4. /\ trail' \in [Runtimes -> SUBSET AuditEvents]
      /\ \A r \in Runtimes : trail[r] \subseteq trail'[r]
      /\ \A i \in told, r \in Runtimes : Saved(W, how)[i].rt = r => "gc" \in trail'[r]
  <2>. HIDE DEF ReapTrail
  <2>. QED BY <1>3 DEF Collect, AuditEvents
<1>. QED BY <1>1, <1>4, SavedOwn

\* The ids a list collects are among those a gc would.
LEMMA ListGc == \A c : ListDrops(c) \subseteq GcDrops(c)
  BY DEF ListDrops, GcDrops

-----------------------------------------------------------------------------
(* The other requests *)

\* A runtime changes in what it is told, in whether it runs and whether it is
\* recorded, and keeps its id.
LEMMA RuntimeChange ==
    ASSUME RosterInv, NEW r \in Runtimes, NEW x \in RuntimeType, rt' = [rt EXCEPT ![r] = x]
    PROVE  /\ rt' \in [Runtimes -> RuntimeType]
           /\ \A s \in Runtimes : rt'[s] = IF s = r THEN x ELSE rt[s]
  BY DEF RosterInv, TypeOK

\* Hit leaves ids and records alone, and a runtime that was hit is not current.
LEMMA HitChange ==
    ASSUME RosterInv, NEW r \in Runtimes, Hit(r)
    PROVE  /\ rt' \in [Runtimes -> RuntimeType]
           /\ \A s \in Runtimes : /\ rt'[s].id = rt[s].id /\ rt'[s].known = rt[s].known
                                  /\ rt'[s].st = rt[s].st
                                  /\ Current(s)' => Current(s) /\ s # r
                                  /\ rt[s].hit => rt'[s].hit
<1>1. rt[r] \in RuntimeType /\ rt \in [Runtimes -> RuntimeType]
  BY DEF RosterInv, TypeOK
<1>2. CASE ~Running(r)
  BY <1>1, <1>2 DEF Hit, Current, Running
<1>3. CASE Running(r)
  <2>. DEFINE x == [rt[r] EXCEPT !.hit = TRUE]
  <2>1. x \in RuntimeType
    BY <1>1, Zenon DEF RuntimeType
  <2>2. /\ x.id = rt[r].id /\ x.known = rt[r].known /\ x.st = rt[r].st /\ x.hit
    BY <1>1 DEF RuntimeType
  <2>3. rt' = [rt EXCEPT ![r] = x]
    BY <1>3 DEF Hit
  <2>. HIDE DEF x
  <2>4. \A s \in Runtimes : rt'[s] = IF s = r THEN x ELSE rt[s]
    BY <2>1, <2>3, RuntimeChange
  <2>. QED BY <2>1, <2>2, <2>3, <2>4, RuntimeChange DEF Current, Running
<1>. QED BY <1>2, <1>3

\* One entry is removed, kept or replaced by one for its own runtime, which is no
\* longer owned and was told to end or has ended.
LEMMA EndJob ==
    ASSUME RosterInv, NEW r \in Runtimes, NEW i \in Ids, Ready, Hit(r),
           rt[r].known, rt[r].id = i, cache[i] # NoEntry => cache[i].rt = r,
           NEW e \in {NoEntry, cache[i], Entry("stopped", r)},
           r \in jobs \/ cache[i] # NoEntry,
           cache' = [cache EXCEPT ![i] = e],
           jobs' \subseteq jobs \ {r}, torn' \subseteq Runtimes, torn' \ {r} = torn \ {r},
           OnOrDown, trail' \in [Runtimes -> SUBSET AuditEvents], silent' \subseteq Runtimes,
           crashes' \in 0 .. MaxCrashes, UNCHANGED <<next_id, w>>
    PROVE  RosterInv'
<1>0. /\ jobs \subseteq Runtimes /\ starting = None /\ up /\ cache \in [Ids -> EntryType]
      /\ w \in WaitType /\ next_id \in Ids
  BY DEF RosterInv, TypeOK, Ready
<1>1. e \in EntryType
  BY <1>0, Records
<1>2. TypeOK'
  BY <1>0, <1>1, HitChange DEF TypeOK, OnOrDown
<1>3. \A k \in Ids : cache'[k] = IF k = i THEN e ELSE cache[k]
  BY <1>0
<1>4. Started'
  BY HitChange DEF RosterInv, Started
<1>5. e # NoEntry => e.st # "none" /\ e.rt = r
  BY Entries DEF RosterInv, EntriesOwn
<1>6. EntriesOwn'
  BY <1>3, <1>5, HitChange DEF RosterInv, EntriesOwn
<1>7. ASSUME NEW s \in Runtimes, s \in jobs' \/ Current(s)'
      PROVE  /\ s # r /\ (s \in jobs' => s \in jobs) /\ (Current(s)' => Current(s))
             /\ rt'[s].id = rt[s].id /\ rt'[s].known = rt[s].known
             /\ s \in torn' <=> s \in torn
  BY <1>7, HitChange
<1>8. ASSUME NEW s \in Runtimes, s # r, s \in jobs \/ (Current(s) /\ s \notin torn)
      PROVE  cache'[rt[s].id] = cache[rt[s].id]
  <2>1. rt[s].id \in Ids
    BY <1>8 DEF RosterInv, OwnEntry, Started, Current, Running
  <2>2. rt[s].id # i
    <3>. SUFFICES ASSUME rt[s].id = i PROVE FALSE
      OBVIOUS
    <3>1. CASE s \in jobs /\ cache[i] # NoEntry
      BY <1>8, <3>1 DEF RosterInv, OwnEntry
    <3>2. CASE s \in jobs /\ cache[i] = NoEntry
      BY <1>8, <3>2 DEF RosterInv, OwnedIds
    <3>3. CASE Current(s) /\ s \notin torn
      BY <1>8, <3>3, Entries DEF RosterInv, OwnEntry
    <3>. QED BY <1>8, <3>1, <3>2, <3>3
  <2>. QED BY <1>3, <2>1, <2>2
<1>9. OwnEntry'
  BY <1>7, <1>8 DEF RosterInv, OwnEntry
<1>10. IdsAhead'
  BY <1>0, <1>3 DEF RosterInv, IdsAhead, OwnedIds
<1>11. OwnedIds'
  BY <1>0, <1>7 DEF RosterInv, OwnedIds
<1>12. WaitsForKnown'
  BY HitChange DEF RosterInv, WaitsForKnown
<1>13. StartingFresh' /\ DownEmpty'
  BY <1>0 DEF StartingFresh, DownEmpty, OnOrDown
<1>. QED
  BY <1>2, <1>4, <1>6, <1>9, <1>10, <1>11, <1>12, <1>13 DEF RosterInv

\* The answers of a poll and of an unanswered one leave a wait for the same runtime.
LEMMA WaitStep ==
    ASSUME RosterInv, w.at = "polling",
           \/ Again
           \/ \E cut \in BOOLEAN : Vanished(cut)
           \/ \E res \in {"done", "stopped", "lost_pty", "pid_dead"} : Back(res)
    PROVE  w' \in WaitType /\ w'.rt = w.rt
<1>1. w \in WaitType
  BY DEF RosterInv, TypeOK
<1>2. CASE Again
  BY <1>1, <1>2, Zenon DEF Again, WaitType
<1>3. CASE \E res \in {"done", "stopped", "lost_pty", "pid_dead"} : Back(res)
  BY <1>1, <1>3 DEF Back, WaitType
<1>4. ASSUME NEW cut \in BOOLEAN, Vanished(cut) PROVE w' \in WaitType /\ w'.rt = w.rt
  BY <1>1, <1>4 DEF Vanished, Back, WaitType
<1>. QED BY <1>2, <1>3, <1>4

\* A job's entry is written: by record and by stop.
LEMMA WriteChange ==
    ASSUME RosterInv, NEW r \in Runtimes, rt[r].id \in Ids, NEW e \in EntryType, WriteEntry(r, e)
    PROVE  \E x \in {e, NoEntry, cache[rt[r].id]} :
              /\ cache' = [cache EXCEPT ![rt[r].id] = x]
              /\ torn' = IF x = NoEntry THEN torn \union {r} ELSE torn \ {r}
              /\ x \in EntryType
<1>1. cache \in [Ids -> EntryType]
  BY DEF RosterInv, TypeOK
<1>2. PICK how \in Outcomes :
         /\ cache' = [cache EXCEPT ![rt[r].id] = Outcome(how, e, cache[rt[r].id])]
         /\ torn' = IF Outcome(how, e, cache[rt[r].id]) = NoEntry THEN torn \union {r}
                                                                ELSE torn \ {r}
  BY DEF WriteEntry
<1>3. Outcome(how, e, cache[rt[r].id]) \in {e, NoEntry, cache[rt[r].id]}
  BY OutcomeOf
<1>4. Outcome(how, e, cache[rt[r].id]) \in EntryType
  BY <1>1, <1>3, Records
<1>. QED BY <1>2, <1>3, <1>4

\* Every step keeps RosterInv.
LEMMA RosterStep == RosterInv /\ [Next]_vars => RosterInv'
<1>. SUFFICES ASSUME RosterInv, [Next]_vars PROVE RosterInv'
  OBVIOUS
<1>0. /\ jobs \subseteq Runtimes /\ cache \in [Ids -> EntryType] /\ rt \in [Runtimes -> RuntimeType]
      /\ torn \subseteq Runtimes /\ silent \subseteq Runtimes /\ w \in WaitType
      /\ trail \in [Runtimes -> SUBSET AuditEvents] /\ next_id \in Ids /\ up \in BOOLEAN
      /\ crashes \in 0 .. MaxCrashes
  BY DEF RosterInv, TypeOK
<1>1. ASSUME NEW r \in Runtimes, Start(r) PROVE RosterInv'
  <2>. DEFINE x == [st |-> "running", id |-> next_id, known |-> FALSE, hit |-> FALSE]
  <2>1. x \in RuntimeType /\ x.st = "running" /\ x.id = next_id /\ ~x.known
    <3>1. next_id \in 0 .. MaxId
      BY JobsConstants DEF RosterInv, TypeOK, Ids
    <3>. QED BY <3>1 DEF RuntimeType
  <2>2. rt' = [rt EXCEPT ![r] = x]
    BY <1>1 DEF Start
  <2>. HIDE DEF x
  <2>3. /\ rt' \in [Runtimes -> RuntimeType]
        /\ \A s \in Runtimes : rt'[s] = IF s = r THEN x ELSE rt[s]
    BY <2>1, <2>2, RuntimeChange
  <2>4. ~rt[r].known /\ r \notin jobs
    BY <1>1 DEF Start, RosterInv, Started, OwnEntry
  <2>5. TypeOK'
    BY <1>1, <2>3, JobsConstants DEF Start, RosterInv, TypeOK, Ids
  <2>6. Started'
    BY <1>1, <2>1, <2>3, JobsConstants DEF Start, RosterInv, Started, TypeOK
  <2>7. EntriesOwn'
    BY <1>1, <2>1, <2>3, <2>4 DEF Start, RosterInv, EntriesOwn
  <2>8. OwnEntry'
    BY <1>1, <2>1, <2>3, <2>4 DEF Start, RosterInv, OwnEntry, Current, Running
  <2>9. IdsAhead'
    BY <1>1 DEF Start, RosterInv, IdsAhead, TypeOK, Ids
  <2>10. next_id \in Nat /\ next_id' = next_id + 1 /\ jobs' = jobs
    BY <1>0, <1>1, JobsConstants DEF Start, Ids
  <2>11. \A s \in jobs : s \in Runtimes /\ rt'[s] = rt[s] /\ rt[s].id < next_id /\ rt[s].id \in Nat
    <3>1. \A s \in jobs : s \in Runtimes /\ rt'[s] = rt[s] /\ rt[s].id \in Ids
      BY <1>0, <2>3, <2>4 DEF RosterInv, OwnEntry, Started
    <3>. QED BY <3>1, JobsConstants DEF RosterInv, OwnedIds, Ids
  <2>12. OwnedIds'
    BY <2>10, <2>11 DEF RosterInv, OwnedIds
  <2>13. StartingFresh'
    <3>1. cache[next_id] = NoEntry
      BY <1>0, <1>1, <2>10 DEF Start, Ready, RosterInv, IdsAhead
    <3>2. starting' = r /\ rt'[r] = x /\ up' /\ cache' = cache
      BY <1>1, <2>3 DEF Start, Ready
    <3>3. rt'[r].id < next_id' /\ \A s \in jobs' : rt'[s].id # rt'[r].id
      BY <2>1, <2>10, <2>11, <3>2
    <3>. QED BY <2>1, <3>1, <3>2, <3>3 DEF StartingFresh
  <2>14. WaitsForKnown'
    BY <1>1, <2>3, <2>4 DEF Start, RosterInv, WaitsForKnown
  <2>. QED BY <1>1, <2>5, <2>6, <2>7, <2>8, <2>9, <2>12, <2>13, <2>14
           DEF Start, Ready, RosterInv, DownEmpty
<1>2. CASE StartFails
  <2>1. TypeOK' /\ IdsAhead'
    BY <1>2, JobsConstants DEF StartFails, RosterInv, TypeOK, IdsAhead, Ids
  <2>2. OwnedIds'
    <3>1. \A s \in jobs : rt[s].id \in Ids
      BY <1>0 DEF RosterInv, OwnEntry, Started
    <3>. QED BY <1>0, <1>2, <3>1, JobsConstants DEF StartFails, RosterInv, OwnedIds, Ids
  <2>. QED BY <1>2, <2>1, <2>2 DEF StartFails, Ready, RosterInv, Started, EntriesOwn, OwnEntry,
             StartingFresh, DownEmpty, WaitsForKnown, Current, Running
<1>3. CASE Record
  <2>19. PICK r \in Runtimes : r = starting
    BY <1>3 DEF Record, RosterInv, TypeOK
  <2>. DEFINE y == [rt[r] EXCEPT !.known = TRUE]
  <2>18. PICK i : i = rt[r].id
    OBVIOUS
  <2>1. /\ r \in Runtimes /\ rt[r] \in RuntimeType /\ i \in Ids
        /\ rt[r].st # "none" /\ ~rt[r].known /\ i < next_id
        /\ cache[i] = NoEntry /\ up
        /\ \A s \in jobs : rt[s].id # i
    BY <1>3, <2>19, <2>18 DEF Record, RosterInv, TypeOK, StartingFresh, Started
  <2>2. y \in RuntimeType
    BY <2>1, Zenon DEF RuntimeType
  <2>3. y.id = i /\ y.known /\ y.st = rt[r].st
    BY <2>18, <2>1 DEF RuntimeType
  <2>4. /\ rt' = [rt EXCEPT ![r] = y] /\ WriteEntry(r, JobInfo(r))
        /\ jobs' = jobs \union {r} /\ Emit(r, "spawn") /\ starting' = None
        /\ UNCHANGED <<up, next_id, silent, w, crashes>>
    BY <1>3, <2>19 DEF Record
  <2>5. PICK x \in {JobInfo(r), NoEntry, cache[i]} :
           /\ cache' = [cache EXCEPT ![i] = x]
           /\ torn' = IF x = NoEntry THEN torn \union {r} ELSE torn \ {r}
           /\ x \in EntryType
    BY <2>18, <2>1, <2>4, WriteChange, JobInfoEntry
  <2>6. x = NoEntry \/ (x = JobInfo(r) /\ x # NoEntry /\ x.rt = r /\ x.st # "none")
    BY <2>1, <2>5, JobInfoEntry
  <2>7. \A k \in Ids : cache'[k] = IF k = i THEN x ELSE cache[k]
    BY <1>0, <2>5
  <2>8. trail' \in [Runtimes -> SUBSET AuditEvents]
    BY <1>0, <2>4 DEF Emit, AuditEvents
  <2>9. /\ rt' \in [Runtimes -> RuntimeType]
        /\ \A s \in Runtimes : rt'[s] = IF s = r THEN y ELSE rt[s]
    <3>. HIDE DEF y
    <3>. QED BY <2>1, <2>2, <2>4, RuntimeChange
  <2>. HIDE DEF y
  <2>10. TypeOK'
    BY <1>0, <2>1, <2>4, <2>5, <2>8, <2>9 DEF TypeOK
  <2>11. Started'
    BY <2>1, <2>3, <2>9 DEF RosterInv, Started
  <2>12. EntriesOwn'
    BY <2>1, <2>3, <2>6, <2>7, <2>9 DEF RosterInv, EntriesOwn
  <2>13. ASSUME NEW s \in Runtimes, s # r
         PROVE  /\ rt'[s] = rt[s] /\ (s \in jobs' <=> s \in jobs) /\ (s \in torn' <=> s \in torn)
                /\ Current(s)' <=> Current(s)
                /\ s \in jobs \/ (Current(s) /\ s \notin torn) =>
                      cache'[rt[s].id] = cache[rt[s].id]
    <3>1. rt'[s] = rt[s] /\ (s \in jobs' <=> s \in jobs) /\ (s \in torn' <=> s \in torn)
      BY <2>4, <2>5, <2>9, <2>13
    <3>2. ASSUME s \in jobs \/ (Current(s) /\ s \notin torn)
          PROVE  cache'[rt[s].id] = cache[rt[s].id]
      <4>1. rt[s].id \in Ids
        BY <3>2 DEF RosterInv, OwnEntry, Started, Current, Running
      <4>2. rt[s].id # i
        BY <2>1, <3>2, Entries DEF RosterInv, OwnEntry
      <4>. QED BY <2>7, <4>1, <4>2
    <3>. QED BY <3>1, <3>2 DEF Current, Running
  <2>14. OwnEntry'
    <3>1. /\ rt'[r].id = i /\ rt'[r].known /\ cache'[i] = x
          /\ r \in torn' <=> x = NoEntry
          /\ Current(r)' => Running(r)
      BY <2>1, <2>3, <2>5, <2>7, <2>9 DEF Current, Running
    <3>2. Current(r)' /\ x # NoEntry => x = Entry("detached", r)
      BY <2>1, <2>6, <3>1, JobInfoEntry
    <3>. QED BY <2>6, <2>13, <3>1, <3>2 DEF RosterInv, OwnEntry
  <2>15. IdsAhead'
    BY <2>1, <2>4, <2>7 DEF RosterInv, IdsAhead
  <2>16. OwnedIds'
    BY <1>0, <2>1, <2>3, <2>4, <2>9 DEF RosterInv, OwnedIds
  <2>17. WaitsForKnown'
    BY <2>1, <2>3, <2>4, <2>9 DEF RosterInv, WaitsForKnown
  <2>. QED BY <2>1, <2>4, <2>10, <2>11, <2>12, <2>14, <2>15, <2>16, <2>17
           DEF RosterInv, StartingFresh, DownEmpty
<1>4. Dead \subseteq jobs
  BY DEF Dead
<1>5. ASSUME NEW W, Dead \subseteq W, W \subseteq jobs, NEW how, NEW out, NEW told, Ready,
             out \subseteq GcDrops(Saved(W, how)), Collect(Saved(W, how), out, told),
             torn' = TornBy(W, how), jobs' \subseteq jobs \ Dead, OnOrDown,
             UNCHANGED <<next_id, rt>>, silent' \subseteq Runtimes, crashes' \in 0 .. MaxCrashes,
             w' \in WaitType, WaitsForKnown'
      PROVE  RosterInv'
  <2>1. TypeOK'
    <3>1. up' \in BOOLEAN /\ starting' \in Runtimes \union {None}
      BY <1>0, <1>5 DEF OnOrDown, RosterInv, TypeOK
    <3>2. /\ cache' \in [Ids -> EntryType] /\ torn' \subseteq Runtimes
          /\ trail' \in [Runtimes -> SUBSET AuditEvents]
      BY <1>5, ReapTypes
    <3>3. next_id' \in Ids /\ rt' \in [Runtimes -> RuntimeType] /\ jobs' \subseteq Runtimes
      BY <1>0, <1>5
    <3>. QED BY <1>5, <3>1, <3>2, <3>3 DEF TypeOK
  <2>2. cache' = [i \in Ids |-> IF i \in out THEN NoEntry ELSE Saved(W, how)[i]]
    BY <1>5 DEF Collect
  <2>. QED BY <1>5, <2>1, <2>2, ReapStep
<1>6. UNCHANGED w => w' \in WaitType
  BY <1>0
<1>7. UNCHANGED <<w, rt>> => WaitsForKnown'
  BY DEF RosterInv, WaitsForKnown
<1>8. CASE Status
  <2>1. PICK how : cache' = Saved(Dead, how) /\ torn' = TornBy(Dead, how)
    BY <1>8 DEF Status
  <2>2. /\ jobs' = jobs \ Dead /\ trail' = ReapTrail /\ Ready
        /\ UNCHANGED <<up, next_id, starting, rt, silent, w, crashes>>
    BY <1>8 DEF Status
  <2>7. PICK out : out = {}
    OBVIOUS
  <2>3. cache' = [i \in Ids |-> IF i \in out THEN NoEntry ELSE Saved(Dead, how)[i]]
    BY <1>4, <2>1, <2>7, SavedEntry
  <2>4. trail' \in [Runtimes -> SUBSET AuditEvents]
    BY <1>0, <2>2 DEF ReapTrail, AuditEvents
  <2>5. TypeOK'
    <3>1. cache' \in [Ids -> EntryType] /\ torn' \subseteq Runtimes
      <4>1. \A i \in Ids : Saved(Dead, how)[i] \in EntryType
        BY <1>4, SavedEntry
      <4>2. Saved(Dead, how) = [i \in Ids |-> Saved(Dead, how)[i]]
        BY DEF Saved
      <4>3. TornBy(Dead, how) \subseteq Runtimes
        BY <1>4, SavedOwn
      <4>. QED BY <2>1, <4>1, <4>2, <4>3
    <3>2. starting' \in Runtimes \union {None} /\ jobs' \subseteq Runtimes
      BY <1>0, <2>2 DEF RosterInv, TypeOK
    <3>. QED BY <1>0, <2>2, <2>4, <3>1, <3>2 DEF TypeOK
  <2>6. OnOrDown /\ WaitsForKnown' /\ out \subseteq GcDrops(Saved(Dead, how))
    BY <1>7, <2>2, <2>7 DEF OnOrDown
  <2>. QED BY <1>4, <2>1, <2>2, <2>3, <2>5, <2>6, ReapStep
<1>9. ASSUME NEW how, HandleList(how), w' \in WaitType, WaitsForKnown' PROVE RosterInv'
  <2>1. ListDrops(Saved(jobs, how)) \subseteq GcDrops(Saved(jobs, how))
    BY ListGc
  <2>. QED BY <1>0, <1>4, <1>5, <1>9, <2>1 DEF HandleList, OnOrDown
<1>10. CASE List
  BY <1>6, <1>7, <1>9, <1>10 DEF List, HandleList
<1>11. CASE Gc
  <2>1. PICK how : Collect(Saved(Dead, how), GcDrops(Saved(Dead, how)), GcDrops(Saved(Dead, how)))
                   /\ torn' = TornBy(Dead, how)
    BY <1>11 DEF Gc
  <2>. QED BY <1>0, <1>4, <1>5, <1>6, <1>7, <1>11, <2>1 DEF Gc, OnOrDown
<1>12. CASE Poll
  <2>1. PICK how : /\ HandleList(how)
                   /\ Answer(rt[w.rt].id \in LiveIds, Saved(jobs, how)[rt[w.rt].id])
    BY <1>12 DEF Poll
  <2>2. w' \in WaitType /\ w'.rt = w.rt /\ w.at = "polling"
    BY <1>12, <2>1, WaitStep DEF Poll, Answer
  <2>3. WaitsForKnown'
    BY <2>1, <2>2 DEF HandleList, RosterInv, WaitsForKnown
  <2>. QED BY <1>9, <2>1, <2>2, <2>3
<1>13. ASSUME Dies PROVE OnOrDown /\ crashes' \in 0 .. MaxCrashes /\ jobs' = {}
                         /\ UNCHANGED <<next_id, w>>
  <2>1. OnOrDown /\ jobs' = {} /\ UNCHANGED <<next_id, w>>
    BY <1>13 DEF Dies, OnOrDown
  <2>2. crashes' \in 0 .. MaxCrashes
    BY <1>0, <1>13, JobsConstants DEF Dies
  <2>. QED BY <2>1, <2>2
<1>14. CASE CrashCollecting
  <2>1. PICK how : \E out \in SUBSET GcDrops(Saved(jobs, how)) : \E last \in out :
                /\ Collect(Saved(jobs, how), out, out \ {last})
                /\ silent' = silent \union {Saved(jobs, how)[last].rt}
                /\ torn' = TornBy(jobs, how)
    BY <1>14 DEF CrashCollecting
  <2>2. PICK out \in SUBSET GcDrops(Saved(jobs, how)) : \E last \in out :
                /\ Collect(Saved(jobs, how), out, out \ {last})
                /\ silent' = silent \union {Saved(jobs, how)[last].rt}
                /\ torn' = TornBy(jobs, how)
    BY <2>1
  <2>6. PICK last \in out :
                /\ Collect(Saved(jobs, how), out, out \ {last})
                /\ silent' = silent \union {Saved(jobs, how)[last].rt}
                /\ torn' = TornBy(jobs, how)
    BY <2>2
  <2>3. Saved(jobs, how)[last].rt \in Runtimes
    <3>1. last \in Ids /\ Saved(jobs, how)[last].st # "none"
      BY <2>6 DEF GcDrops, Corpse
    <3>2. Saved(jobs, how)[last] # NoEntry
      BY <3>1, Entries
    <3>3. ASSUME NEW r \in jobs, rt[r].id = last PROVE Saved(jobs, how)[last].rt \in Runtimes
      <4>1. \/ Saved(jobs, how)[rt[r].id] = NoEntry
            \/ Saved(jobs, how)[rt[r].id].rt = r
        BY SavedOwn
      <4>. QED BY <1>0, <3>2, <3>3, <4>1
    <3>4. CASE \A r \in jobs : rt[r].id # last
      <4>1. Saved(jobs, how)[last] = cache[last]
        BY <3>1, <3>4, SavedEntry
      <4>. QED BY <3>1, <3>2, <4>1 DEF RosterInv, EntriesOwn
    <3>. QED BY <3>3, <3>4
  <2>4. Dies /\ Ready /\ UNCHANGED rt
    BY <1>14 DEF CrashCollecting
  <2>. QED BY <1>0, <1>4, <1>5, <1>6, <1>7, <1>13, <2>3, <2>4, <2>6
<1>15. ASSUME NEW r \in Runtimes, Kill(r) PROVE RosterInv'
  <2>1. rt[r].known /\ rt[r].id \in Ids /\ (cache[rt[r].id] # NoEntry => cache[rt[r].id].rt = r)
    BY <1>15 DEF Kill, RosterInv, OwnEntry, Started
  <2>2. trail' \in [Runtimes -> SUBSET AuditEvents]
    BY <1>0, <1>15 DEF Kill, Emit, AuditEvents
  <2>. QED BY <1>0, <1>15, <2>1, <2>2, EndJob DEF Kill, OnOrDown
<1>16. ASSUME NEW r \in Runtimes, Stop(r) PROVE RosterInv'
  <2>1. rt[r].known /\ rt[r].id \in Ids /\ (cache[rt[r].id] # NoEntry => cache[rt[r].id].rt = r)
    BY <1>16 DEF Stop, RosterInv, OwnEntry, Started
  <2>2. trail' \in [Runtimes -> SUBSET AuditEvents]
    BY <1>0, <1>16 DEF Stop, Emit, AuditEvents
  <2>3. PICK x \in {Entry("stopped", r), NoEntry, cache[rt[r].id]} :
           /\ cache' = [cache EXCEPT ![rt[r].id] = x]
           /\ torn' = IF x = NoEntry THEN torn \union {r} ELSE torn \ {r}
    BY <1>16, <2>1, WriteChange, Records DEF Stop
  <2>4. torn' \subseteq Runtimes /\ torn' \ {r} = torn \ {r}
    BY <1>0, <2>3
  <2>. QED BY <1>0, <1>16, <2>1, <2>2, <2>3, <2>4, EndJob DEF Stop, OnOrDown
<1>17. ASSUME NEW r \in Runtimes, SignalFails(r) PROVE RosterInv'
  BY <1>17 DEF SignalFails, RosterInv, TypeOK, Started, EntriesOwn, OwnEntry, OwnedIds, IdsAhead,
              StartingFresh, DownEmpty, WaitsForKnown, Ready, Current, Running
<1>18. ASSUME NEW i \in Ids, cache[i] # NoEntry
       PROVE  cache[i].rt \in Runtimes /\ rt[cache[i].rt].known /\ rt[cache[i].rt].id = i
  BY <1>18 DEF RosterInv, EntriesOwn
<1>19. ASSUME NEW i \in Ids, RecoveryKill(i) PROVE RosterInv'
  <2>. DEFINE r == cache[i].rt
  <2>1. r \in Runtimes /\ rt[r].known /\ rt[r].id = i /\ cache[i] # NoEntry /\ jobs' \subseteq jobs \ {r}
    BY <1>18, <1>19 DEF RecoveryKill
  <2>2. trail' \in [Runtimes -> SUBSET AuditEvents]
    BY <1>0, <1>19 DEF RecoveryKill, Emit, AuditEvents
  <2>. QED BY <1>0, <1>19, <2>1, <2>2, EndJob DEF RecoveryKill, OnOrDown
<1>20. ASSUME NEW i \in Ids, CrashKilling(i) PROVE RosterInv'
  <2>. DEFINE r == cache[i].rt
  <2>1. r \in Runtimes /\ rt[r].known /\ rt[r].id = i /\ cache[i] # NoEntry
    BY <1>18, <1>20 DEF CrashKilling
  <2>2. Dies /\ Ready /\ Hit(r) /\ UNCHANGED <<trail, torn>> /\ silent' \subseteq Runtimes
    BY <1>0, <1>20, <2>1 DEF CrashKilling
  <2>3. \E e \in {NoEntry, cache[i]} : cache' = [cache EXCEPT ![i] = e]
    <3>1. cache = [cache EXCEPT ![i] = cache[i]]
      BY <1>0
    <3>. QED BY <1>20, <3>1 DEF CrashKilling
  <2>. QED BY <1>0, <1>13, <2>1, <2>2, <2>3, EndJob
<1>21. ASSUME NEW r \in Runtimes, Wait(r) PROVE RosterInv'
  <2>1. w' \in WaitType /\ w'.rt = r
    BY <1>21 DEF Wait, NoWait, WaitType
  <2>. QED BY <1>21, <2>1 DEF Wait, RosterInv, TypeOK, Started, EntriesOwn, OwnEntry, OwnedIds,
              IdsAhead, StartingFresh, DownEmpty, WaitsForKnown, Current, Running
<1>22. CASE PollUnanswered
  <2>1. w' \in WaitType /\ w'.rt = w.rt /\ w.at = "polling"
    BY <1>22, WaitStep DEF PollUnanswered
  <2>. QED BY <1>22, <2>1 DEF PollUnanswered, RosterInv, TypeOK, Started, EntriesOwn, OwnEntry,
              OwnedIds, IdsAhead, StartingFresh, DownEmpty, WaitsForKnown, Current, Running
<1>23. CASE WaitReturns
  <2>1. w' \in WaitType /\ w'.at = "idle"
    BY <1>23, Records DEF WaitReturns, NoWait
  <2>. QED BY <1>23, <2>1 DEF WaitReturns, RosterInv, TypeOK, Started, EntriesOwn, OwnEntry,
              OwnedIds, IdsAhead, StartingFresh, DownEmpty, WaitsForKnown, Current, Running
<1>24. ASSUME NEW r \in Runtimes, Exit(r) PROVE RosterInv'
  <2>. DEFINE x == [rt[r] EXCEPT !.st = "exited"]
  <2>1. rt[r] \in RuntimeType
    BY DEF RosterInv, TypeOK
  <2>2. x \in RuntimeType
    BY <2>1, Zenon DEF RuntimeType
  <2>3. x.id = rt[r].id /\ x.known = rt[r].known /\ x.st = "exited"
    BY <2>1 DEF RuntimeType
  <2>4. rt' = [rt EXCEPT ![r] = x]
    BY <1>24 DEF Exit
  <2>. HIDE DEF x
  <2>5. /\ rt' \in [Runtimes -> RuntimeType]
        /\ \A s \in Runtimes : rt'[s] = IF s = r THEN x ELSE rt[s]
    BY <2>2, <2>4, RuntimeChange
  <2>6. \A s \in Runtimes : /\ rt'[s].id = rt[s].id /\ rt'[s].known = rt[s].known
                            /\ rt'[s].st = "none" <=> rt[s].st = "none"
                            /\ Current(s)' => Current(s)
    BY <1>24, <2>3, <2>5 DEF Exit, Running, Current
  <2>. QED BY <1>24, <2>5, <2>6 DEF Exit, RosterInv, TypeOK, Started, EntriesOwn, OwnEntry,
              OwnedIds, IdsAhead, StartingFresh, DownEmpty, WaitsForKnown
<1>25. CASE Crash
  <2>1. TypeOK'
    BY <1>0, <1>13, <1>25 DEF Crash, TypeOK, Dies
  <2>. QED BY <1>25, <2>1 DEF Crash, Dies, RosterInv, Started, EntriesOwn, OwnEntry, OwnedIds,
              IdsAhead, StartingFresh, DownEmpty, WaitsForKnown, Current, Running
<1>26. CASE Boot
  <2>1. next_id' \in Ids /\ \A i \in Ids : cache[i] # NoEntry => i < next_id'
    BY <1>26 DEF Boot, NextCachedJobId, Cached
  <2>2. jobs = {} /\ starting = None
    BY <1>26 DEF Boot, RosterInv, DownEmpty
  <2>. QED BY <1>26, <2>1, <2>2 DEF Boot, RosterInv, TypeOK, Started, EntriesOwn, OwnEntry,
              OwnedIds, IdsAhead, StartingFresh, DownEmpty, WaitsForKnown, Current, Running
<1>27. CASE UNCHANGED vars
  BY <1>27 DEF vars, RosterInv, TypeOK, Started, EntriesOwn, OwnEntry, OwnedIds,
              IdsAhead, StartingFresh, DownEmpty, WaitsForKnown, Current, Running
<1>. QED
  BY <1>1, <1>2, <1>3, <1>8, <1>10, <1>11, <1>12, <1>14, <1>15, <1>16, <1>17, <1>19, <1>20,
     <1>21, <1>22, <1>23, <1>24, <1>25, <1>26, <1>27 DEF Next

-----------------------------------------------------------------------------
(* The theorems *)

LEMMA RosterAlways == Spec => []RosterInv
  BY RosterInit, RosterStep, PTL DEF Spec

\* The roster is complete and its ids are fresh.
LEMMA RosterImplies == RosterInv => RosterSound
<1>. SUFFICES ASSUME RosterInv PROVE RosterSound
  OBVIOUS
<1>1. RosterComplete
  BY DEF RosterInv, OwnEntry, RosterComplete, Lost
<1>2. ASSUME NEW r \in Runtimes, NEW s \in Runtimes, Current(r), ~Lost(r), Current(s), ~Lost(s),
             rt[r].id = rt[s].id
      PROVE  r = s
  <2>1. CASE r \notin torn /\ s \notin torn
    BY <1>2, <2>1, Entries DEF RosterInv, OwnEntry
  <2>2. CASE r \in torn /\ s \in torn
    BY <1>2, <2>2 DEF Lost, RosterInv, OwnedIds
  <2>3. CASE r \in torn /\ s \notin torn
    BY <1>2, <2>3, Entries DEF Lost, RosterInv, OwnEntry
  <2>4. CASE r \notin torn /\ s \in torn
    BY <1>2, <2>4, Entries DEF Lost, RosterInv, OwnEntry
  <2>. QED BY <2>1, <2>2, <2>3, <2>4
<1>3. IdsFresh
  BY <1>2 DEF IdsFresh
<1>. QED BY <1>1, <1>3 DEF RosterInv, RosterSound

\* A recorded runtime that runs and was not told to end is on the roster, under an id
\* no other such runtime has: handle_spawn, the reaps of status, list, gc and wait,
\* kills, stops and failed signals, and any number of deaths and starts of the daemon,
\* between requests and inside them.  Excepted is a runtime whose last write of
\* job.json failed, once no daemon owns it.
THEOREM RosterAlwaysSound == Spec => []RosterSound
  BY RosterAlways, RosterImplies, PTL

\* Its way out is in the trail, or it is one of the exceptions.
Excused(r) ==
    \/ trail[r] \intersect {"kill", "kill_stale", "gc"} # {}
    \/ Lost(r)
    \/ r \in silent

\* A runtime that a step finds on the roster and leaves off it is excused.
LEMMA EntryLeaves ==
    ASSUME RosterInv, [Next]_vars, NEW r \in Runtimes, rt'[r].known, OffRoster(r)'
    PROVE  \/ Excused(r)'
           \/ /\ rt[r].known /\ OffRoster(r) /\ trail[r] \subseteq trail'[r]
              /\ silent \subseteq silent'
              /\ r \in torn => r \in torn'
<1>. DEFINE Goal == \/ Excused(r)'
                    \/ /\ rt[r].known /\ OffRoster(r) /\ trail[r] \subseteq trail'[r]
                       /\ silent \subseteq silent'
                       /\ r \in torn => r \in torn'
<1>. SUFFICES Goal
  OBVIOUS
<1>0. /\ trail \in [Runtimes -> SUBSET AuditEvents] /\ cache \in [Ids -> EntryType]
      /\ rt \in [Runtimes -> RuntimeType] /\ jobs \subseteq Runtimes
  BY DEF RosterInv, TypeOK
<1>19. r \notin jobs' /\ \A i \in Ids : cache'[i].rt # r
  BY DEF OffRoster
<1>1. r \in torn' => Excused(r)'
  BY <1>19 DEF Excused, Lost
<1>2. r \in jobs /\ r \notin torn =>
         rt[r].id \in Ids /\ cache[rt[r].id] # NoEntry /\ cache[rt[r].id].rt = r
  BY DEF RosterInv, OwnEntry, Started
<1>3. ASSUME rt[r].known, trail[r] \subseteq trail'[r], silent \subseteq silent',
             r \in torn <=> r \in torn', \A i \in Ids : cache[i].rt # r
      PROVE  Goal
  BY <1>1, <1>2, <1>3 DEF OffRoster
<1>4. ASSUME UNCHANGED <<rt, cache, trail, torn, silent>> PROVE Goal
  BY <1>19, <1>3, <1>4
<1>5. ASSUME NEW s \in Runtimes, Start(s) PROVE Goal
  <2>1. rt'[r].known => r # s
    BY <1>0, <1>5 DEF Start
  <2>2. rt[r].known
    BY <1>0, <1>5, <2>1 DEF Start
  <2>. QED BY <1>19, <1>3, <1>5, <2>2 DEF Start
<1>6. CASE Record
  <2>1. starting \in Runtimes /\ rt[starting].id \in Ids /\ cache[rt[starting].id] = NoEntry
    BY <1>6 DEF Record, RosterInv, TypeOK, StartingFresh, Started
  <2>2. PICK x \in {JobInfo(starting), NoEntry, cache[rt[starting].id]} :
           /\ cache' = [cache EXCEPT ![rt[starting].id] = x]
           /\ torn' = IF x = NoEntry THEN torn \union {starting} ELSE torn \ {starting}
    BY <1>6, <2>1, WriteChange, JobInfoEntry DEF Record
  <2>3. cache'[rt[starting].id] = x /\ \A i \in Ids : cache'[i] = cache[i] \/ cache[i] = NoEntry
    BY <1>0, <2>1, <2>2
  <2>4. CASE r = starting
    <3>1. x = NoEntry
      BY <1>19, <2>1, <2>2, <2>3, <2>4, JobInfoEntry
    <3>. QED BY <1>1, <2>2, <2>4, <3>1
  <2>5. CASE r # starting
    <3>1. rt'[r] = rt[r] /\ trail'[r] = trail[r] /\ silent' = silent
      BY <1>0, <1>6, <2>1, <2>5 DEF Record, Emit
    <3>2. \A i \in Ids : cache[i].rt # r
      BY <1>19, <2>3, Entries, JobsConstants
    <3>. QED BY <1>3, <2>2, <2>5, <3>1, <3>2
  <2>. QED BY <2>4, <2>5
<1>7. ASSUME NEW W, W \subseteq jobs, NEW how, NEW out,
             cache' = [i \in Ids |-> IF i \in out THEN NoEntry ELSE Saved(W, how)[i]],
             torn' = TornBy(W, how), rt' = rt, trail[r] \subseteq trail'[r],
             silent \subseteq silent',
             \A i \in out : i \in Ids /\ Saved(W, how)[i].rt = r => "gc" \in trail'[r] \/ r \in silent'
      PROVE  Goal
  <2>. DEFINE c == Saved(W, how)
  <2>1. \A i \in Ids : cache'[i] = IF i \in out THEN NoEntry ELSE c[i]
    BY <1>7
  <2>. HIDE DEF c
  <2>2. ASSUME NEW i \in Ids, c[i].rt = r PROVE Goal
    <3>1. i \in out
      BY <1>19, <2>1, <2>2
    <3>. QED BY <1>7, <2>2, <3>1 DEF Excused, c
  <2>3. CASE r \in W
    <3>1. rt[r].id \in Ids
      BY <2>3, <1>0, <1>7 DEF RosterInv, OwnEntry, Started
    <3>2. r \in TornBy(W, how) \/ c[rt[r].id].rt = r
      BY <1>7, <2>3, SavedOwn DEF c
    <3>. QED BY <1>1, <1>7, <2>2, <3>1, <3>2
  <2>4. CASE r \notin W
    <3>1. r \in torn <=> r \in torn'
      BY <1>7, <2>4, SavedOwn
    <3>2. ASSUME NEW i \in Ids, cache[i].rt = r PROVE Goal
      <4>1. cache[i] # NoEntry /\ cache[i].rt \notin W
        BY <2>4, <3>2, Entries, JobsConstants
      <4>2. c[i] = cache[i]
        BY <1>7, <4>1, SavedOwn DEF c
      <4>. QED BY <2>2, <3>2, <4>2
    <3>. QED BY <1>3, <1>7, <3>1, <3>2
  <2>. QED BY <2>3, <2>4
<1>8. Dead \subseteq jobs
  BY DEF Dead
<1>9. ASSUME NEW W, W \subseteq jobs, NEW how, NEW out, out \subseteq Ids,
             Collect(Saved(W, how), out, out), torn' = TornBy(W, how), rt' = rt, silent' = silent
      PROVE  Goal
  <2>1. cache' = [i \in Ids |-> IF i \in out THEN NoEntry ELSE Saved(W, how)[i]]
    BY <1>9 DEF Collect
  <2>2. /\ trail[r] \subseteq trail'[r]
        /\ \A i \in out : Saved(W, how)[i].rt = r => "gc" \in trail'[r]
    BY <1>9, ReapTypes
  <2>. QED BY <1>7, <1>9, <2>1, <2>2
<1>10. CASE Status
  <2>1. PICK how : cache' = Saved(Dead, how) /\ torn' = TornBy(Dead, how)
    BY <1>10 DEF Status
  <2>2. rt' = rt /\ trail[r] \subseteq trail'[r] /\ silent' = silent
    BY <1>0, <1>10 DEF Status, ReapTrail
  <2>3. PICK out : out = {}
    OBVIOUS
  <2>4. cache' = [i \in Ids |-> IF i \in out THEN NoEntry ELSE Saved(Dead, how)[i]]
    BY <1>8, <2>1, <2>3, SavedEntry
  <2>. QED BY <1>7, <1>8, <2>1, <2>2, <2>3, <2>4
<1>11. CASE List \/ Poll
  <2>1. PICK how : HandleList(how)
    BY <1>11 DEF List, Poll
  <2>2. ListDrops(Saved(jobs, how)) \subseteq Ids
    BY DEF ListDrops
  <2>. QED BY <1>9, <2>1, <2>2 DEF HandleList
<1>12. CASE Gc
  <2>1. PICK how : Collect(Saved(Dead, how), GcDrops(Saved(Dead, how)), GcDrops(Saved(Dead, how)))
                   /\ torn' = TornBy(Dead, how)
    BY <1>12 DEF Gc
  <2>2. GcDrops(Saved(Dead, how)) \subseteq Ids
    BY DEF GcDrops
  <2>. QED BY <1>8, <1>9, <1>12, <2>1, <2>2 DEF Gc
<1>13. CASE CrashCollecting
  <2>1. PICK how : \E out \in SUBSET GcDrops(Saved(jobs, how)) : \E last \in out :
                /\ Collect(Saved(jobs, how), out, out \ {last})
                /\ silent' = silent \union {Saved(jobs, how)[last].rt}
                /\ torn' = TornBy(jobs, how)
    BY <1>13 DEF CrashCollecting
  <2>2. PICK out \in SUBSET GcDrops(Saved(jobs, how)) : \E last \in out :
                /\ Collect(Saved(jobs, how), out, out \ {last})
                /\ silent' = silent \union {Saved(jobs, how)[last].rt}
                /\ torn' = TornBy(jobs, how)
    BY <2>1
  <2>3. PICK last \in out :
                /\ Collect(Saved(jobs, how), out, out \ {last})
                /\ silent' = silent \union {Saved(jobs, how)[last].rt}
                /\ torn' = TornBy(jobs, how)
    BY <2>2
  <2>4. cache' = [i \in Ids |-> IF i \in out THEN NoEntry ELSE Saved(jobs, how)[i]]
    BY <2>3 DEF Collect
  <2>5. /\ trail[r] \subseteq trail'[r]
        /\ \A i \in out \ {last} : Saved(jobs, how)[i].rt = r => "gc" \in trail'[r]
    BY <2>3, ReapTypes
  <2>6. rt' = rt
    BY <1>13 DEF CrashCollecting
  <2>7. ASSUME NEW i \in out, Saved(jobs, how)[i].rt = r PROVE "gc" \in trail'[r] \/ r \in silent'
    BY <2>3, <2>5, <2>7
  <2>8. silent \subseteq silent' /\ torn' = TornBy(jobs, how)
    BY <2>3
  <2>. QED BY <1>7, <2>4, <2>5, <2>6, <2>7, <2>8
<1>14. ASSUME NEW s \in Runtimes, Hit(s), NEW i \in Ids, \A k \in Ids : k # i => cache'[k] = cache[k],
              cache[i] # NoEntry => cache[i].rt = s, torn' \ {s} = torn \ {s},
              trail[r] \subseteq trail'[r], silent \subseteq silent', s # r
      PROVE  Goal
  <2>1. rt[r].known
    BY <1>14, HitChange
  <2>2. \A k \in Ids : cache[k].rt # r
    BY <1>19, <1>14, Entries, JobsConstants
  <2>. QED BY <1>3, <1>14, <2>1, <2>2
<1>15. ASSUME NEW s \in Runtimes, Kill(s) \/ Stop(s) PROVE Goal
  <2>1. /\ rt[s].id \in Ids /\ rt[s].known
        /\ cache[rt[s].id] # NoEntry => cache[rt[s].id].rt = s
    BY <1>15 DEF Kill, Stop, RosterInv, OwnEntry, Started
  <2>2. CASE Kill(s)
    <3>1. /\ \A k \in Ids : k # rt[s].id => cache'[k] = cache[k]
          /\ trail[r] \subseteq trail'[r] /\ (s = r => "kill" \in trail'[r])
      BY <1>0, <2>1, <2>2 DEF Kill, Emit
    <3>. QED BY <1>14, <2>1, <2>2, <3>1 DEF Kill, Excused
  <2>3. CASE Stop(s)
    <3>1. PICK x \in {Entry("stopped", s), NoEntry, cache[rt[s].id]} :
             /\ cache' = [cache EXCEPT ![rt[s].id] = x]
             /\ torn' = IF x = NoEntry THEN torn \union {s} ELSE torn \ {s}
      BY <2>1, <2>3, WriteChange, Records DEF Stop
    <3>2. /\ \A k \in Ids : k # rt[s].id => cache'[k] = cache[k]
          /\ cache'[rt[s].id] = x /\ torn' \ {s} = torn \ {s}
          /\ trail[r] \subseteq trail'[r]
      BY <1>0, <2>1, <2>3, <3>1 DEF Stop, Emit
    <3>3. CASE s = r
      <4>1. x = NoEntry
        BY <1>19, <2>1, <3>1, <3>2, <3>3, Entries
      <4>. QED BY <1>1, <3>1, <3>3, <4>1
    <3>4. CASE s # r
      BY <1>14, <2>1, <2>3, <3>2, <3>4 DEF Stop
    <3>. QED BY <3>3, <3>4
  <2>. QED BY <1>15, <2>2, <2>3
<1>16. ASSUME NEW i \in Ids, RecoveryKill(i) PROVE Goal
  <2>1. cache[i].rt \in Runtimes /\ \A k \in Ids : k # i => cache'[k] = cache[k]
    BY <1>0, <1>16 DEF RecoveryKill, RosterInv, EntriesOwn
  <2>2. PICK ev \in {"kill", "kill_stale"} : Emit(cache[i].rt, ev)
    BY <1>16 DEF RecoveryKill
  <2>3. trail[r] \subseteq trail'[r] /\ (cache[i].rt = r => ev \in trail'[r])
    BY <1>0, <2>1, <2>2 DEF Emit
  <2>. QED BY <1>14, <1>16, <2>1, <2>3 DEF RecoveryKill, Excused
<1>17. ASSUME NEW i \in Ids, CrashKilling(i) PROVE Goal
  <2>1. /\ cache[i].rt \in Runtimes /\ \A k \in Ids : k # i => cache'[k] = cache[k]
        /\ Hit(cache[i].rt) /\ UNCHANGED <<trail, torn>> /\ silent \subseteq silent'
    BY <1>0, <1>17 DEF CrashKilling, RosterInv, EntriesOwn
  <2>2. CASE cache[i].rt = r
    <3>1. cache' # cache
      BY <1>19, <2>2
    <3>2. r \in silent'
      BY <1>17, <2>2, <3>1 DEF CrashKilling
    <3>. QED BY <3>2 DEF Excused
  <2>3. CASE cache[i].rt # r
    BY <1>14, <2>1, <2>3
  <2>. QED BY <2>2, <2>3
<1>18. ASSUME NEW s \in Runtimes, Exit(s) PROVE Goal
  <2>1. rt'[r].known = rt[r].known
    BY <1>0, <1>18 DEF Exit, RuntimeType
  <2>. QED BY <1>19, <1>3, <1>18, <2>1 DEF Exit
<1>. QED
  BY <1>4, <1>5, <1>6, <1>10, <1>11, <1>12, <1>13, <1>15, <1>16, <1>17, <1>18
     DEF Next, vars, StartFails, SignalFails, Wait, PollUnanswered, WaitReturns, Crash, Boot

\* Each death of the daemon leaves at most one entry removed without its event.
SilentFew == IsFiniteSet(silent) /\ Cardinality(silent) <= crashes

LEMMA SilentStep == RosterInv /\ SilentFew /\ [Next]_vars => SilentFew'
<1>. SUFFICES ASSUME RosterInv, SilentFew, [Next]_vars PROVE SilentFew'
  OBVIOUS
<1>0. crashes \in Nat /\ Cardinality(silent) \in Nat
  BY FS_CardinalityType, JobsConstants DEF RosterInv, TypeOK, SilentFew
<1>1. CASE UNCHANGED <<silent, crashes>>
  BY <1>1 DEF SilentFew
<1>2. ASSUME silent' = silent, crashes' = crashes + 1 PROVE SilentFew'
  BY <1>0, <1>2 DEF SilentFew
<1>3. ASSUME NEW x, silent' = silent \union {x}, crashes' = crashes + 1 PROVE SilentFew'
  <2>1. /\ IsFiniteSet(silent \union {x})
        /\ Cardinality(silent \union {x}) = Cardinality(silent)
           \/ Cardinality(silent \union {x}) = Cardinality(silent) + 1
    BY FS_AddElement DEF SilentFew
  <2>. QED BY <1>0, <1>3, <2>1 DEF SilentFew
<1>4. CASE CrashCollecting
  <2>1. \E x : silent' = silent \union {x}
    BY <1>4 DEF CrashCollecting
  <2>. QED BY <1>3, <1>4, <2>1 DEF CrashCollecting, Dies
<1>5. ASSUME NEW i \in Ids, CrashKilling(i) PROVE SilentFew'
  <2>1. silent' = silent \/ \E x : silent' = silent \union {x}
    BY <1>5 DEF CrashKilling
  <2>. QED BY <1>2, <1>3, <1>5, <2>1 DEF CrashKilling, Dies
<1>6. CASE Crash
  BY <1>2, <1>6 DEF Crash, Dies
<1>7. CASE Poll
  BY <1>1, <1>7 DEF Poll, HandleList
<1>. QED
  BY <1>1, <1>4, <1>5, <1>6, <1>7
     DEF Next, vars, Start, StartFails, Record, Status, List, HandleList, Gc, Kill, Stop,
         SignalFails, RecoveryKill, Wait, PollUnanswered, WaitReturns, Exit, Boot

\* A runtime the daemon recorded leaves its memory and its cache only with a kill or
\* gc event in the audit trail, whatever the requests and the deaths in between.  The
\* exceptions: a runtime forgotten because its entry could not be written, and, once
\* for each death of the daemon, one whose entry was removed just before its event.
THEOREM AlwaysAccounted == Spec => []Accounted
<1>. DEFINE Told == \A r \in Runtimes : rt[r].known /\ OffRoster(r) => Excused(r)
<1>1. Init => Told /\ SilentFew
  <2>1. Init => Told
    BY DEF Init, NoRuntime
  <2>2. Init => SilentFew
    BY FS_EmptySet DEF Init, SilentFew
  <2>. QED BY <2>1, <2>2
<1>2. RosterInv /\ Told /\ SilentFew /\ [Next]_vars => Told' /\ SilentFew'
  <2>1. ASSUME RosterInv, Told, [Next]_vars, NEW r \in Runtimes, rt'[r].known, OffRoster(r)'
        PROVE  Excused(r)'
    <3>1. CASE /\ rt[r].known /\ OffRoster(r) /\ trail[r] \subseteq trail'[r]
               /\ silent \subseteq silent'
               /\ r \in torn => r \in torn'
      <4>1. Excused(r)
        BY <2>1, <3>1
      <4>2. r \notin jobs'
        BY <2>1 DEF OffRoster
      <4>. QED BY <3>1, <4>1, <4>2 DEF Excused, Lost
    <3>. QED BY <2>1, <3>1, EntryLeaves
  <2>. QED BY <2>1, SilentStep
<1>3. Told /\ SilentFew => Accounted
  BY DEF Accounted, Excused, SilentFew
<1>. QED BY <1>1, <1>2, <1>3, RosterAlways, PTL DEF Spec

\* A recorded runtime that ended, or was told to, stays so.
LEMMA EndsForGood ==
    ASSUME RosterInv, [Next]_vars, NEW r \in Runtimes, rt[r].known, ~Running(r) \/ rt[r].hit
    PROVE  ~Running(r)' \/ rt'[r].hit
<1>0. rt \in [Runtimes -> RuntimeType] /\ rt[r].st # "none"
  BY DEF RosterInv, TypeOK, Started
<1>1. CASE UNCHANGED rt
  BY <1>1 DEF Running
<1>2. ASSUME NEW s \in Runtimes, Start(s) PROVE ~Running(r)' \/ rt'[r].hit
  <2>1. rt'[r] = rt[r]
    BY <1>0, <1>2 DEF Start
  <2>. QED BY <2>1 DEF Running
<1>3. CASE Record
  <2>1. rt'[r].st = rt[r].st /\ rt'[r].hit = rt[r].hit
    BY <1>0, <1>3 DEF Record, RuntimeType
  <2>. QED BY <2>1 DEF Running
<1>4. ASSUME NEW s \in Runtimes, Hit(s) PROVE ~Running(r)' \/ rt'[r].hit
  BY <1>4, HitChange DEF Running
<1>5. ASSUME NEW s \in Runtimes, Exit(s) PROVE ~Running(r)' \/ rt'[r].hit
  <2>1. rt'[r].hit = rt[r].hit /\ (rt'[r].st = rt[r].st \/ rt'[r].st = "exited")
    BY <1>0, <1>5 DEF Exit, RuntimeType
  <2>. QED BY <2>1 DEF Running
<1>6. ASSUME NEW i \in Ids, RecoveryKill(i) \/ CrashKilling(i)
      PROVE  cache[i].rt \in Runtimes /\ Hit(cache[i].rt)
  BY <1>6 DEF RecoveryKill, CrashKilling, RosterInv, EntriesOwn
<1>. QED
  BY <1>1, <1>2, <1>3, <1>4, <1>5, <1>6
     DEF Next, vars, StartFails, SignalFails, Wait, Status, List, HandleList, Gc, Poll,
         PollUnanswered, WaitReturns, Kill, Stop, Crash, CrashCollecting, Boot

\* A runtime the roster forgot is not taken up again.
LEMMA LostForGood ==
    ASSUME RosterInv, [Next]_vars, NEW r \in Runtimes, rt[r].known, Lost(r)
    PROVE  Lost(r)'
<1>1. r \in torn /\ r \notin jobs
  BY DEF Lost
<1>2. ASSUME NEW W, W \subseteq jobs, NEW how, torn' = TornBy(W, how) PROVE r \in torn'
  BY <1>1, <1>2 DEF TornBy
<1>3. Dead \subseteq jobs
  BY DEF Dead
<1>4. CASE Record
  <2>1. r # starting /\ starting \in Runtimes
    BY <1>4 DEF Record, RosterInv, StartingFresh, TypeOK
  <2>2. \E x : torn' = IF x = NoEntry THEN torn \union {starting} ELSE torn \ {starting}
    BY <1>4 DEF Record, WriteEntry
  <2>. QED BY <1>1, <1>4, <2>1, <2>2 DEF Record, Lost
<1>5. ASSUME NEW s \in Runtimes, Stop(s) PROVE Lost(r)'
  <2>1. \E x : torn' = IF x = NoEntry THEN torn \union {s} ELSE torn \ {s}
    BY <1>5 DEF Stop, WriteEntry
  <2>. QED BY <1>1, <1>5, <2>1 DEF Stop, Lost
<1>6. CASE Status \/ Gc
  BY <1>1, <1>2, <1>3, <1>6 DEF Status, Gc, Lost
<1>7. CASE List \/ Poll
  BY <1>1, <1>2, <1>7 DEF List, Poll, HandleList, Lost
<1>8. CASE CrashCollecting
  BY <1>1, <1>2, <1>8 DEF CrashCollecting, Dies, Lost
<1>9. ASSUME torn' = torn, jobs' \subseteq jobs PROVE Lost(r)'
  BY <1>1, <1>9 DEF Lost
<1>. QED
  BY <1>4, <1>5, <1>6, <1>7, <1>8, <1>9
     DEF Next, vars, Start, StartFails, Kill, SignalFails, RecoveryKill, CrashKilling, Dies, Wait,
         PollUnanswered, WaitReturns, Exit, Crash, Boot

\* wait says done only of a runtime that has exited or was told to, when every poll was
\* answered and the roster did not forget it: whoever lists, collects or restarts the
\* daemon between two polls.
THEOREM WaitAlwaysSound == Spec => []WaitSound
<1>1. Init => WaitSound
  BY DEF Init, NoWait, WaitSound
<1>2. RosterInv /\ WaitSound /\ [Next]_vars => WaitSound'
  <2>. SUFFICES ASSUME RosterInv, WaitSound, [Next]_vars,
                       w'.at = "back", w'.result = "done", ~w'.cut
                PROVE  (~Running(w.rt) \/ rt[w.rt].hit \/ Lost(w.rt))'
    BY DEF WaitSound
  <2>0. w \in WaitType
    BY DEF RosterInv, TypeOK
  <2>1. CASE w' = w
    <3>1. w.rt \in Runtimes /\ rt[w.rt].known
          /\ (~Running(w.rt) \/ rt[w.rt].hit \/ Lost(w.rt))
      BY <2>1 DEF RosterInv, WaitsForKnown, WaitSound
    <3>2. PICK r \in Runtimes : r = w.rt
      BY <3>1
    <3>3. ~Running(r)' \/ rt'[r].hit \/ Lost(r)'
      BY <3>1, <3>2, EndsForGood, LostForGood
    <3>. QED BY <2>1, <3>2, <3>3 DEF Running, Lost
  <2>2. CASE Poll
    <3>1. PICK how : /\ HandleList(how)
                     /\ Answer(rt[w.rt].id \in LiveIds, Saved(jobs, how)[rt[w.rt].id])
      BY <2>2 DEF Poll
    <3>2. PICK r \in Runtimes : r = w.rt
      BY <2>2 DEF Poll, RosterInv, WaitsForKnown
    <3>3. PICK e : e = Saved(jobs, how)[rt[r].id]
      OBVIOUS
    <3>4. rt[r].known /\ w.at = "polling" /\ rt' = rt /\ torn' = TornBy(jobs, how)
          /\ jobs' = jobs \ Dead
      BY <2>2, <3>1, <3>2 DEF Poll, HandleList, RosterInv, WaitsForKnown
    <3>5. w'.rt = r
      BY <2>2, <3>1, <3>2, WaitStep DEF Poll, Answer
    <3>6. rt[r].id \notin LiveIds /\ (e = NoEntry \/ e.st = "done")
      <4>1. Again => w'.at = "polling"
        BY <2>0, <3>4 DEF Again, WaitType
      <4>2. \A res \in {"stopped", "lost_pty", "pid_dead"} : Back(res) => w'.result = res
        BY <2>0 DEF Back, WaitType
      <4>3. \/ Again
            \/ rt[r].id \notin LiveIds /\ e = NoEntry
            \/ rt[r].id \notin LiveIds /\ e.st \in {"done", "stopped"} /\ Back(e.st)
            \/ Back("lost_pty") \/ Back("pid_dead")
        BY <3>1, <3>2, <3>3 DEF Answer
      <4>. QED BY <4>1, <4>2, <4>3
    <3>7. ASSUME Current(r) PROVE Lost(r)'
      <4>1. Running(r) /\ rt[r].id \in Ids
        BY <3>7 DEF Current, Running, RosterInv, Started
      <4>2. r \notin jobs
        BY <3>6, <4>1 DEF LiveIds, Dead
      <4>3. r \in torn
        <5>. SUFFICES ASSUME r \notin torn PROVE FALSE
          OBVIOUS
        <5>1. cache[rt[r].id] = Entry("detached", r)
          BY <3>7 DEF RosterInv, OwnEntry
        <5>2. cache[rt[r].id] # NoEntry /\ cache[rt[r].id].rt \notin jobs
          BY <4>2, <5>1, Entries
        <5>3. e = Entry("detached", r)
          <6>1. \A i \in Ids : cache[i] # NoEntry /\ cache[i].rt \notin jobs
                                 => Saved(jobs, how)[i] = cache[i]
            BY SavedOwn
          <6>. QED BY <3>3, <4>1, <5>1, <5>2, <6>1
        <5>. QED BY <3>6, <5>3, Entries
      <4>4. r \in torn'
        BY <3>4, <4>2, <4>3 DEF TornBy
      <4>. QED BY <3>4, <4>2, <4>4 DEF Lost
    <3>8. ~Running(r)' \/ rt'[r].hit \/ Lost(r)'
      BY <3>4, <3>7 DEF Current, Running
    <3>. QED BY <3>5, <3>8 DEF Running, Lost
  <2>3. CASE PollUnanswered
    <3>1. w'.result = "error" \/ w'.cut = TRUE
      BY <2>0, <2>3 DEF PollUnanswered, Vanished, Back, WaitType
    <3>. QED BY <3>1
  <2>4. ASSUME NEW r \in Runtimes, Wait(r) PROVE FALSE
    BY <2>4 DEF Wait, NoWait
  <2>5. CASE WaitReturns
    BY <2>5 DEF WaitReturns, NoWait
  <2>. QED
    BY <2>1, <2>2, <2>3, <2>4, <2>5
       DEF Next, vars, Start, StartFails, Record, SignalFails, Status, List, Gc, RecoveryKill,
           Kill, Stop, Exit, Crash, CrashCollecting, CrashKilling, Dies, Boot
<1>. QED BY <1>1, <1>2, RosterAlways, PTL DEF Spec

-----------------------------------------------------------------------------
(* SealRouting: a chain is closed once, and a live hook reaches it open *)

\* on_spawn has run for j
Spawned(j) == agent[j] \in {"running", "exited"}

IsSpawn(i, j) == bus[i].kind = "agent.spawn" /\ bus[i].job = j
IsEnd(i, j) == bus[i].kind = "session_end" /\ bus[i].job = j

\* Before on_spawn nothing is known of a job; after it, its genesis record is sealed or
\* on its way, and on its way at most once.
SpawnOnce ==
    /\ \A j \in Jobs : ~Spawned(j) => chain[j] = "none" /\ j \notin projects
    /\ \A j \in Jobs : Spawned(j) => chain[j] # "none" \/ \E i \in DOMAIN bus : IsSpawn(i, j)
    /\ \A j \in Jobs : \A i \in DOMAIN bus : IsSpawn(i, j) =>
          /\ Spawned(j) /\ chain[j] = "none"
          /\ \A k \in DOMAIN bus : IsSpawn(k, j) => k = i

\* Only a job that was spawned completes or stops.
SourcesSpawned ==
    /\ \A i \in DOMAIN job_events : Spawned(job_events[i].job)
    /\ \A i \in DOMAIN journal_rx : journal_rx[i].kind = "stop" => Spawned(journal_rx[i].job)

\* An end is queued behind its job's genesis.
EndsAfterSpawn ==
    \A j \in Jobs : \A i \in DOMAIN bus : IsEnd(i, j) =>
        chain[j] # "none" \/ \E k \in DOMAIN bus : k < i /\ IsSpawn(k, j)

\* The log of a chain is empty, open ended, or closed by its last record.
LogShape ==
    \A j \in Jobs :
        /\ chain[j] = "none" => log[j] = <<>>
        /\ chain[j] = "open" => \A i \in DOMAIN log[j] : ~IsTerminal(log[j][i])
        /\ chain[j] = "evicted" =>
              /\ log[j] # <<>> /\ IsTerminal(log[j][Len(log[j])])
              /\ \A i \in DOMAIN log[j] : IsTerminal(log[j][i]) => i = Len(log[j])

\* A project's job stays registered from on_spawn until its chain is closed.
StaysRegistered ==
    \A j \in InProject : Spawned(j) /\ chain[j] # "evicted" => j \in projects

\* references has no job twice.
ReferencedOnce == \A i, k \in DOMAIN references : references[i] = references[k] => i = k

CloseInv ==
    /\ RoutingTypeOK /\ SpawnOnce /\ SourcesSpawned /\ EndsAfterSpawn /\ LogShape /\ StaysRegistered
    /\ ReferencedOnce /\ ReferencesMatchProjects

\* Once an end of j is on the bus or was routed, j counts as ended.
EndsKnown ==
    \A j \in Jobs :
        chain[j] = "evicted" \/ (\E i \in DOMAIN bus : IsEnd(i, j)) => j \in history.ended

\* the hook event at i will find its chain open
Reaches(i) ==
    LET j == bus[i].job IN
    /\ bus[i].kind = "hook"
    /\ chain[j] # "evicted"
    /\ \A k \in DOMAIN bus : k < i => ~IsEnd(k, j)
    /\ chain[j] = "open" \/ \E k \in DOMAIN bus : k < i /\ IsSpawn(k, j)

\* A hook that is owed is sealed, or on the bus where it will be.
OwedReaches ==
    \A n \in history.owed :
        n \in SealedIds \/ \E i \in DOMAIN bus : bus[i].id = n /\ Reaches(i)

HookInv == CloseInv /\ EndsKnown /\ OwedReaches

-----------------------------------------------------------------------------
(* Filtering *)

\* A non-empty set of naturals has a least element.
LEMMA LeastNatural ==
    ASSUME NEW T \in SUBSET Nat, T # {}
    PROVE  \E x \in T : \A y \in T : x <= y
<1>. DEFINE R == OpToRel(<, Nat)
<1>1. \A x, y \in Nat : y < x => <<y, x>> \in R
  BY DEF OpToRel
<1>2. IsWellFoundedOn(R, Nat)
  BY NatLessThanWellFounded
<1>. HIDE DEF R
<1>3. PICK x \in T : \A y \in T : ~(<<y, x>> \in R)
  BY <1>2, WFMin
<1>4. \A y \in T : ~(y < x)
  BY <1>1, <1>3
<1>. QED BY <1>3, <1>4

\* f is what the recursion of Keep builds over the first m elements of s.
Keeps(f, s, K, m) ==
    f = [n \in 0 .. m |->
            IF n = 0 THEN <<>>
            ELSE IF s[n] \in K THEN Append(f[n - 1], s[n]) ELSE f[n - 1]]

\* The recursion of Keep defines a function.
LEMMA KeepsExists ==
    ASSUME NEW s, NEW K
    PROVE  \A m \in Nat : \E f : Keeps(f, s, K, m)
<1>. DEFINE odd == {m \in Nat : ~ \E f : Keeps(f, s, K, m)}
<1>. SUFFICES ASSUME odd # {} PROVE FALSE
  OBVIOUS
<1>1. PICK m \in odd : \A k \in odd : m <= k
  <2>1. odd \in SUBSET Nat
    OBVIOUS
  <2>. HIDE DEF odd
  <2>. QED BY <2>1, LeastNatural
<1>2. m # 0
  <2>1. Keeps([n \in 0 .. 0 |-> <<>>], s, K, 0)
    BY DEF Keeps
  <2>. QED BY <2>1
<1>3. m \in Nat /\ m - 1 \in Nat /\ m - 1 \notin odd
  <2>1. m \in Nat
    OBVIOUS
  <2>. HIDE DEF odd
  <2>. QED BY <1>1, <1>2, <2>1
<1>4. PICK f : Keeps(f, s, K, m - 1)
  BY <1>3
<1>. DEFINE last == IF s[m] \in K THEN Append(f[m - 1], s[m]) ELSE f[m - 1]
            g == [n \in 0 .. m |-> IF n = m THEN last ELSE f[n]]
            e(n) == IF n = 0 THEN <<>>
                    ELSE IF s[n] \in K THEN Append(f[n - 1], s[n]) ELSE f[n - 1]
            d(n) == IF n = 0 THEN <<>>
                    ELSE IF s[n] \in K THEN Append(g[n - 1], s[n]) ELSE g[n - 1]
<1>5. \A n \in 0 .. (m - 1) : f[n] = e(n)
  BY <1>4 DEF Keeps
<1>6. \A n \in 0 .. (m - 1) : g[n] = f[n]
  BY <1>3
<1>7. last = d(m)
  BY <1>2, <1>3, <1>6
<1>8. \A n \in 0 .. (m - 1) : n # 0 => n - 1 \in 0 .. (m - 1)
  BY <1>3
<1>9. \A n \in 0 .. m : g[n] = d(n)
  <2>. SUFFICES ASSUME NEW n \in 0 .. m PROVE g[n] = d(n)
    OBVIOUS
  <2>1. CASE n = m
    BY <2>1, <1>7
  <2>2. CASE n # m
    <3>1. n \in 0 .. (m - 1)
      BY <2>2, <1>3
    <3>2. g[n] = e(n)
      BY <3>1, <1>5, <1>6
    <3>3. n # 0 => g[n - 1] = f[n - 1]
      BY <3>1, <1>6, <1>8
    <3>. HIDE DEF g
    <3>. QED BY <3>2, <3>3
  <2>. QED BY <2>1, <2>2
<1>10. DOMAIN g = 0 .. m /\ g = [n \in 0 .. m |-> g[n]]
  OBVIOUS
<1>11. g = [n \in 0 .. m |-> d(n)]
  <2>. HIDE DEF g, d
  <2>. QED BY <1>9, <1>10
<1>12. Keeps(g, s, K, m)
  <2>. HIDE DEF g
  <2>. QED BY <1>11 DEF Keeps
<1>. QED BY <1>1, <1>12

\* t is part of the first n elements of s, in their order, element i from place e[i].
Embeds(e, t, s, n) ==
    /\ e \in [1 .. Len(t) -> 1 .. n]
    /\ \A i \in 1 .. Len(t) : t[i] = s[e[i]]
    /\ \A i, j \in 1 .. Len(t) : i < j => e[i] < e[j]

\* t is what K has of the first n elements of s.
IsKept(t, s, K, n) ==
    /\ \E e : Embeds(e, t, s, n)
    /\ \A i \in 1 .. Len(t) : t[i] \in K
    /\ \A a \in 1 .. n : s[a] \in K => \E i \in 1 .. Len(t) : t[i] = s[a]

\* One more element is kept.
LEMMA KeepOne ==
    ASSUME NEW S, NEW s \in Seq(S), NEW K, NEW n \in 1 .. Len(s), NEW t \in Seq(S),
           IsKept(t, s, K, n - 1), s[n] \in K
    PROVE  IsKept(Append(t, s[n]), s, K, n)
<1>. DEFINE u == Append(t, s[n])
<1>1. Len(t) \in Nat /\ Len(u) = Len(t) + 1 /\ u[Len(t) + 1] = s[n]
  <2>1. s[n] \in S
    OBVIOUS
  <2>. QED BY <2>1
<1>2. \A i \in 1 .. Len(t) : u[i] = t[i]
  OBVIOUS
<1>. HIDE DEF u
<1>3. PICK e : Embeds(e, t, s, n - 1)
  BY DEF IsKept
<1>. DEFINE f == [i \in 1 .. Len(u) |-> IF i = Len(u) THEN n ELSE e[i]]
<1>4. f \in [1 .. Len(u) -> 1 .. n]
  BY <1>1, <1>3 DEF Embeds
<1>5. \A i \in 1 .. Len(u) : u[i] = s[f[i]]
  <2>1. \A i \in 1 .. Len(t) : i \in 1 .. Len(u) /\ i # Len(u) /\ u[i] = s[e[i]]
    BY <1>1, <1>2, <1>3 DEF Embeds
  <2>2. \A i \in 1 .. Len(u) : i = Len(u) \/ i \in 1 .. Len(t)
    BY <1>1
  <2>. QED BY <1>1, <2>1, <2>2
<1>6. \A i, j \in 1 .. Len(u) : i < j => f[i] < f[j]
  <2>. SUFFICES ASSUME NEW i \in 1 .. Len(u), NEW j \in 1 .. Len(u), i < j
                PROVE  f[i] < f[j]
    OBVIOUS
  <2>1. i \in 1 .. Len(t) /\ f[i] = e[i] /\ e[i] \in 1 .. n - 1
    BY <1>1, <1>3 DEF Embeds
  <2>2. CASE j = Len(u)
    BY <2>1, <2>2
  <2>3. CASE j # Len(u)
    <3>1. j \in 1 .. Len(t) /\ f[j] = e[j]
      BY <1>1, <2>3
    <3>. QED BY <1>3, <2>1, <3>1 DEF Embeds
  <2>. QED BY <2>2, <2>3
<1>7. Embeds(f, u, s, n)
  <2>. HIDE DEF f
  <2>. QED BY <1>4, <1>5, <1>6 DEF Embeds
<1>8. \A i \in 1 .. Len(u) : u[i] \in K
  BY <1>1, <1>2 DEF IsKept
<1>9. ASSUME NEW a \in 1 .. n, s[a] \in K PROVE \E i \in 1 .. Len(u) : u[i] = s[a]
  <2>1. CASE a = n
    BY <1>1, <2>1
  <2>2. CASE a # n
    <3>1. PICK i \in 1 .. Len(t) : t[i] = s[a]
      BY <1>9, <2>2 DEF IsKept
    <3>. QED BY <1>1, <1>2, <3>1
  <2>. QED BY <2>1, <2>2
<1>. QED BY <1>7, <1>8, <1>9 DEF IsKept, u

\* One more element is passed over.
LEMMA KeepNone ==
    ASSUME NEW S, NEW s \in Seq(S), NEW K, NEW n \in 1 .. Len(s), NEW t \in Seq(S),
           IsKept(t, s, K, n - 1), s[n] \notin K
    PROVE  IsKept(t, s, K, n)
<1>1. PICK e : Embeds(e, t, s, n - 1)
  BY DEF IsKept
<1>2. Embeds(e, t, s, n)
  BY <1>1 DEF Embeds
<1>3. \A a \in 1 .. n : s[a] \in K => a \in 1 .. n - 1
  OBVIOUS
<1>. QED BY <1>2, <1>3 DEF IsKept

\* Keep returns what is in K, all of it and in order.
LEMMA KeepFacts ==
    ASSUME NEW S, NEW s \in Seq(S), NEW K
    PROVE  Keep(s, K) \in Seq(S) /\ IsKept(Keep(s, K), s, K, Len(s))
<1>0. Len(s) \in Nat /\ DOMAIN s = 1 .. Len(s)
  OBVIOUS
<1>1. PICK f : Keeps(f, s, K, Len(s)) /\ Keep(s, K) = f[Len(s)]
  <2>. DEFINE g == CHOOSE f : Keeps(f, s, K, Len(s))
  <2>1. Keeps(g, s, K, Len(s))
    BY <1>0, KeepsExists
  <2>2. Keep(s, K) = g[Len(s)]
    BY DEF Keep, Keeps
  <2>. QED BY <2>1, <2>2
<1>. DEFINE Good(n) == f[n] \in Seq(S) /\ IsKept(f[n], s, K, n)
            odd == {n \in 0 .. Len(s) : ~Good(n)}
<1>2. ASSUME odd # {} PROVE FALSE
  <2>1. PICK n \in odd : \A k \in odd : n <= k
    <3>1. odd \in SUBSET Nat
      BY <1>0
    <3>. HIDE DEF odd
    <3>. QED BY <1>2, <3>1, LeastNatural
  <2>2. n \in 0 .. Len(s) /\ ~Good(n)
    OBVIOUS
  <2>3. n # 0
    <3>1. f[0] = <<>>
      BY <1>0, <1>1 DEF Keeps
    <3>2. Embeds(<<>>, <<>>, s, 0)
      BY DEF Embeds
    <3>3. IsKept(<<>>, s, K, 0)
      BY <3>2 DEF IsKept
    <3>4. <<>> \in Seq(S)
      OBVIOUS
    <3>. QED BY <2>2, <3>1, <3>3, <3>4
  <2>4. n \in 1 .. Len(s) /\ n - 1 \in 0 .. Len(s) /\ n - 1 \notin odd
    <3>. HIDE DEF odd
    <3>. QED BY <1>0, <2>1, <2>2, <2>3
  <2>5. Good(n - 1)
    BY <2>4
  <2>6. f[n] = IF s[n] \in K THEN Append(f[n - 1], s[n]) ELSE f[n - 1]
    BY <1>1, <2>2, <2>3 DEF Keeps
  <2>. DEFINE g == f[n - 1]
  <2>7. g \in Seq(S) /\ IsKept(g, s, K, n - 1) /\ s[n] \in S
    BY <1>0, <2>4, <2>5
  <2>. HIDE DEF g
  <2>8. CASE s[n] \in K
    <3>1. f[n] = Append(g, s[n])
      BY <2>6, <2>8 DEF g
    <3>2. Append(g, s[n]) \in Seq(S)
      BY <2>7
    <3>3. IsKept(Append(g, s[n]), s, K, n)
      BY <2>4, <2>7, <2>8, KeepOne
    <3>. QED BY <2>2, <3>1, <3>2, <3>3
  <2>9. CASE s[n] \notin K
    <3>1. f[n] = g
      BY <2>6, <2>9 DEF g
    <3>2. IsKept(g, s, K, n)
      BY <2>4, <2>7, <2>9, KeepNone
    <3>. QED BY <2>2, <2>7, <3>1, <3>2
  <2>. QED BY <2>8, <2>9
<1>3. Good(Len(s))
  BY <1>0, <1>2
<1>. QED BY <1>1, <1>3

-----------------------------------------------------------------------------
(* Types *)

\* What is put behind b keeps its order.
LEMMA Behind ==
    ASSUME NEW S, NEW b \in Seq(S), NEW t \in Seq(S)
    PROVE  /\ b \o t \in Seq(S) /\ Len(b \o t) = Len(b) + Len(t)
           /\ Len(b) \in Nat /\ Len(t) \in Nat
           /\ \A i \in 1 .. Len(b) : (b \o t)[i] = b[i]
           /\ \A i \in 1 .. Len(t) : (b \o t)[Len(b) + i] = t[i]
  OBVIOUS

\* What is left of b once its head is gone.
LEMMA Beheaded ==
    ASSUME NEW S, NEW b \in Seq(S), b # <<>>
    PROVE  /\ Tail(b) \in Seq(S) /\ Len(Tail(b)) = Len(b) - 1 /\ Len(b) \in Nat /\ Len(b) > 0
           /\ \A i \in 1 .. Len(b) - 1 : Tail(b)[i] = b[i + 1]
           /\ Head(b) = b[1] /\ Head(b) \in S
  OBVIOUS

\* The router's events are events of the bus, about the envelope's job.
LEMMA ConvertHookType ==
    ASSUME NEW env \in Envelope
    PROVE  /\ ConvertHook(env) \in BusEvent /\ ConvertHook(env).job = env.job
           /\ ConvertHook(env).kind = (IF env.kind = "stop" THEN "session_end" ELSE "hook")
           /\ env.kind = "tool" => ConvertHook(env).id = env.id
  BY DEF ConvertHook, EndEvent, HookEvent, Envelope, BusEvent

\* What the live path puts on the bus.
LEMMA LiveRouteType ==
    ASSUME NEW env \in Envelope
    PROVE  /\ LiveRoute(env) \in Seq(BusEvent)
           /\ env.kind = "tool" => LiveRoute(env) = <<ConvertHook(env)>>
           /\ LiveRoute(env) \in {<<>>, <<ConvertHook(env)>>}
  BY ConvertHookType DEF LiveRoute, Suppressed, Envelope

JobEvents == [job : Jobs, code : {0, 1}]

\* A completion becomes the end of its job.
LEMMA CompletionsType ==
    ASSUME RoutingTypeOK
    PROVE  /\ Completions \in Seq(BusEvent) /\ Len(Completions) = Len(job_events)
           /\ \A i \in 1 .. Len(job_events) :
                 /\ Completions[i].kind = "session_end" /\ Completions[i].job = job_events[i].job
                 /\ job_events[i].job \in Jobs
<1>0. job_events \in Seq(JobEvents)
  BY DEF RoutingTypeOK, JobEvents
<1>1. \A i \in 1 .. Len(job_events) : job_events[i] \in JobEvents
  BY <1>0
<1>2. \A i \in 1 .. Len(job_events) :
         EndEvent(job_events[i].job, job_events[i].code) \in BusEvent
  BY <1>1 DEF EndEvent, BusEvent, JobEvents
<1>3. \A i \in 1 .. Len(job_events) : job_events[i].job \in Jobs
  BY <1>1 DEF JobEvents
<1>4. Completions \in Seq(BusEvent) /\ Len(Completions) = Len(job_events)
  BY <1>0, <1>2 DEF Completions
<1>5. \A i \in 1 .. Len(job_events) :
         Completions[i] = EndEvent(job_events[i].job, job_events[i].code)
  BY <1>0 DEF Completions
<1>6. \A j, c : EndEvent(j, c).kind = "session_end" /\ EndEvent(j, c).job = j
  BY DEF EndEvent
<1>. QED BY <1>3, <1>4, <1>5, <1>6

Passed == Keep(journal_rx, {env \in Envelope : ~Suppressed(env)})
Rerouted == [i \in DOMAIN Passed |-> ConvertHook(Passed[i])]

\* What the drain routes a second time came from the queue.
LEMMA ReroutedType ==
    ASSUME RoutingTypeOK
    PROVE  /\ Passed \in Seq(Envelope)
           /\ \A i \in 1 .. Len(Passed) : \E k \in 1 .. Len(journal_rx) : Passed[i] = journal_rx[k]
           /\ Rerouted \in Seq(BusEvent) /\ Len(Rerouted) = Len(Passed)
           /\ \A i \in 1 .. Len(Passed) : Rerouted[i] = ConvertHook(Passed[i])
<1>1. journal_rx \in Seq(Envelope)
  BY DEF RoutingTypeOK
<1>2. /\ Passed \in Seq(Envelope)
      /\ IsKept(Passed, journal_rx, {env \in Envelope : ~Suppressed(env)}, Len(journal_rx))
  BY <1>1, KeepFacts DEF Passed
<1>3. \A i \in 1 .. Len(Passed) : \E k \in 1 .. Len(journal_rx) : Passed[i] = journal_rx[k]
  BY <1>2 DEF IsKept, Embeds
<1>4. \A i \in 1 .. Len(Passed) : ConvertHook(Passed[i]) \in BusEvent
  BY <1>2, ConvertHookType
<1>. QED BY <1>2, <1>3, <1>4 DEF Rerouted

\* A record of the log.
LEMMA LogRecord ==
    ASSUME RoutingTypeOK, NEW e \in BusEvent
    PROVE  /\ e.kind # "session_end" => e \in LogEvent
           /\ [e EXCEPT !.kind = TerminalKind(e.code)] \in LogEvent
           /\ [e EXCEPT !.kind = TerminalKind(e.code)].id = e.id
           /\ IsTerminal([e EXCEPT !.kind = TerminalKind(e.code)])
  BY DEF BusEvent, LogEvent, TerminalKind, IsTerminal

\* Every step keeps the types.
LEMMA RoutingType == RoutingTypeOK /\ [RoutingNext]_routing_vars => RoutingTypeOK'
<1>. SUFFICES ASSUME RoutingTypeOK, [RoutingNext]_routing_vars PROVE RoutingTypeOK'
  OBVIOUS
<1>b. bus \in Seq(BusEvent) /\ log \in [Jobs -> Seq(LogEvent)]
  BY DEF RoutingTypeOK
<1>1. ASSUME NEW j \in Jobs, StartEngine(j) PROVE RoutingTypeOK'
  BY <1>1 DEF StartEngine, RoutingTypeOK
<1>2. ASSUME NEW j \in Jobs, OnSpawn(j) PROVE RoutingTypeOK'
  <2>1. SpawnEvent(j) \in BusEvent
    BY DEF SpawnEvent, BusEvent
  <2>2. projects' \subseteq InProject
    BY <1>2 DEF OnSpawn, RecordProject, RoutingTypeOK
  <2>. QED BY <1>2, <2>1, <2>2 DEF OnSpawn, RoutingTypeOK
<1>3. ASSUME NEW j \in Jobs, NEW kind \in {"tool", "stop"}, HookArrives(j, kind)
      PROVE  RoutingTypeOK'
  <2>. DEFINE env == [kind |-> kind, job |-> j, id |-> hooks + 1]
  <2>1. env \in Envelope /\ hooks + 1 \in 1 .. MaxHooks /\ hooks' \in 0 .. MaxHooks
    BY <1>3, RoutingConstants DEF HookArrives, Envelope, RoutingTypeOK
  <2>2. bus' \in Seq(BusEvent)
    <3>1. bus' = bus \o LiveRoute(env)
      BY <1>3 DEF HookArrives
    <3>. HIDE DEF env
    <3>. QED BY <1>b, <2>1, <3>1, LiveRouteType
  <2>3. journal_rx' \in Seq(Envelope)
    <3>1. journal_rx' = Append(journal_rx, env)
      BY <1>3 DEF HookArrives
    <3>. HIDE DEF env
    <3>. QED BY <2>1, <3>1 DEF RoutingTypeOK
  <2>4. recent' \in [Jobs -> {0, HOOK, PROTOCOL}]
    BY <1>3 DEF HookArrives, RoutingTypeOK
  <2>5. history' \in [owed : SUBSET (1 .. MaxHooks), ended : SUBSET Jobs]
    <3>1. PICK o, d : /\ history' = [history EXCEPT !.owed = o, !.ended = d]
                      /\ o \in {history.owed, history.owed \union {hooks + 1}}
                      /\ d \in {history.ended, history.ended \union {j}}
      BY <1>3 DEF HookArrives
    <3>2. o \in SUBSET (1 .. MaxHooks) /\ d \in SUBSET Jobs
      BY <2>1, <3>1 DEF RoutingTypeOK
    <3>. QED BY <3>1, <3>2 DEF RoutingTypeOK
  <2>. QED BY <1>3, <2>1, <2>2, <2>3, <2>4, <2>5 DEF HookArrives, RoutingTypeOK
<1>4. ASSUME NEW j \in Jobs, NEW code \in {0, 1}, ExitAgent(j, code) PROVE RoutingTypeOK'
  BY <1>4 DEF ExitAgent, RoutingTypeOK
<1>5. ASSUME NEW j \in Jobs, WindowCloses(j) PROVE RoutingTypeOK'
  BY <1>5 DEF WindowCloses, RoutingTypeOK
<1>6. ASSUME DrainJobEvents PROVE RoutingTypeOK'
  <2>. DEFINE done == {job_events[i].job : i \in DOMAIN job_events}
  <2>1. done \subseteq Jobs
    <3>1. DOMAIN job_events = 1 .. Len(job_events)
      BY DEF RoutingTypeOK
    <3>. QED BY <3>1, CompletionsType
  <2>2. history' = [history EXCEPT !.ended = @ \union done]
    BY <1>6 DEF DrainJobEvents
  <2>3. recent' = [j \in Jobs |-> IF j \in done THEN PROTOCOL ELSE recent[j]]
    BY <1>6 DEF DrainJobEvents
  <2>4. bus' \in Seq(BusEvent) /\ job_events' = <<>>
    BY <1>6, <1>b, CompletionsType DEF DrainJobEvents
  <2>. HIDE DEF done
  <2>5. recent' \in [Jobs -> {0, HOOK, PROTOCOL}]
    BY <2>3 DEF RoutingTypeOK
  <2>6. history' \in [owed : SUBSET (1 .. MaxHooks), ended : SUBSET Jobs]
    BY <2>1, <2>2 DEF RoutingTypeOK
  <2>7. job_events' \in Seq(JobEvents)
    BY <2>4
  <2>8. UNCHANGED <<agent, journal_rx, chain, log, projects, references, hooks>>
        /\ loop' = "journal"
    BY <1>6 DEF DrainJobEvents
  <2>. QED BY <2>4, <2>5, <2>6, <2>7, <2>8 DEF RoutingTypeOK, JobEvents
<1>7. ASSUME DrainJournalEvents PROVE RoutingTypeOK'
  <2>. DEFINE stops == {Passed[i].job : i \in {k \in DOMAIN Passed : Passed[k].kind = "stop"}}
  <2>1. stops \subseteq Jobs
    <3>1. \A i \in DOMAIN Passed : Passed[i] \in Envelope
      BY ReroutedType
    <3>. QED BY <3>1 DEF Envelope
  <2>2. history' = [history EXCEPT !.ended = @ \union stops]
    BY <1>7 DEF DrainJournalEvents, Passed
  <2>3. recent' = [j \in Jobs |-> IF j \in stops THEN HOOK ELSE recent[j]]
    BY <1>7 DEF DrainJournalEvents, Passed
  <2>4. bus' = bus \o Rerouted /\ journal_rx' = <<>>
    BY <1>7 DEF DrainJournalEvents, Passed, Rerouted
  <2>5. bus' \in Seq(BusEvent)
    BY <1>b, <2>4, ReroutedType
  <2>. HIDE DEF stops
  <2>6. recent' \in [Jobs -> {0, HOOK, PROTOCOL}]
    BY <2>3 DEF RoutingTypeOK
  <2>7. history' \in [owed : SUBSET (1 .. MaxHooks), ended : SUBSET Jobs]
    BY <2>1, <2>2 DEF RoutingTypeOK
  <2>8. UNCHANGED <<agent, job_events, chain, log, projects, references, hooks>>
        /\ loop' = "prompt"
    BY <1>7 DEF DrainJournalEvents
  <2>9. journal_rx' \in Seq(Envelope)
    BY <2>4
  <2>. QED BY <2>5, <2>6, <2>7, <2>8, <2>9 DEF RoutingTypeOK
<1>8. ASSUME RouteSpawn PROVE RoutingTypeOK'
  <2>1. bus' \in Seq(BusEvent) /\ Head(bus) \in BusEvent /\ Head(bus).job \in Jobs
    <3>1. bus' \in Seq(BusEvent) /\ Head(bus) \in BusEvent
      BY <1>8, <1>b, Beheaded DEF RouteSpawn, Take
    <3>. QED BY <3>1 DEF BusEvent
  <2>2. Head(bus) \in LogEvent
    BY <1>8, <2>1, LogRecord DEF RouteSpawn
  <2>3. /\ log' = [log EXCEPT ![Head(bus).job] = Append(@, Head(bus))]
        /\ chain' = [chain EXCEPT ![Head(bus).job] = "open"]
    BY <1>8 DEF RouteSpawn
  <2>4. UNCHANGED <<agent, job_events, journal_rx, recent, loop, projects, references, hooks,
                    history>>
    BY <1>8 DEF RouteSpawn
  <2>5. log[Head(bus).job] \in Seq(LogEvent)
    BY <2>1 DEF RoutingTypeOK
  <2>6. Append(log[Head(bus).job], Head(bus)) \in Seq(LogEvent)
    BY <2>2, <2>5
  <2>7. log' \in [Jobs -> Seq(LogEvent)]
    BY <2>3, <2>6 DEF RoutingTypeOK
  <2>8. chain' \in [Jobs -> {"none", "open", "evicted"}]
    BY <2>3 DEF RoutingTypeOK
  <2>. QED BY <2>1, <2>4, <2>7, <2>8 DEF RoutingTypeOK
<1>9. ASSUME RouteHook PROVE RoutingTypeOK'
  <2>1. bus' \in Seq(BusEvent) /\ Head(bus) \in BusEvent /\ Head(bus).job \in Jobs
    <3>1. bus' \in Seq(BusEvent) /\ Head(bus) \in BusEvent
      BY <1>9, <1>b, Beheaded DEF RouteHook, Take
    <3>. QED BY <3>1 DEF BusEvent
  <2>2. Head(bus) \in LogEvent
    BY <1>9, <2>1, LogRecord DEF RouteHook
  <2>3. log' = log \/ log' = [log EXCEPT ![Head(bus).job] = Append(@, Head(bus))]
    BY <1>9 DEF RouteHook
  <2>4. log' \in [Jobs -> Seq(LogEvent)]
    <3>1. log \in [Jobs -> Seq(LogEvent)]
      BY DEF RoutingTypeOK
    <3>2. Append(log[Head(bus).job], Head(bus)) \in Seq(LogEvent)
      BY <2>1, <2>2, <3>1
    <3>. QED BY <2>3, <3>1, <3>2
  <2>5. UNCHANGED <<agent, job_events, journal_rx, recent, loop, chain, projects, references,
                    hooks, history>>
    BY <1>9 DEF RouteHook
  <2>. QED BY <2>1, <2>4, <2>5 DEF RoutingTypeOK
<1>10. ASSUME RouteSessionEnd PROVE RoutingTypeOK'
  <2>. DEFINE e == Head(bus)
              r == [e EXCEPT !.kind = TerminalKind(e.code)]
  <2>1. bus' \in Seq(BusEvent) /\ e \in BusEvent /\ e.job \in Jobs
    <3>1. bus' \in Seq(BusEvent) /\ Head(bus) \in BusEvent
      BY <1>10, <1>b, Beheaded DEF RouteSessionEnd, Take
    <3>. QED BY <3>1 DEF BusEvent
  <2>2. r \in LogEvent
    BY <2>1, LogRecord
  <2>3. log' = log \/ log' = [log EXCEPT ![e.job] = Append(@, r)]
    BY <1>10 DEF RouteSessionEnd
  <2>. HIDE DEF r
  <2>4. log' \in [Jobs -> Seq(LogEvent)]
    <3>1. Append(log[e.job], r) \in Seq(LogEvent)
      BY <1>b, <2>1, <2>2
    <3>. QED BY <1>b, <2>1, <2>3, <3>1
  <2>5. chain' \in [Jobs -> {"none", "open", "evicted"}]
    BY <1>10 DEF RouteSessionEnd, EvictJobChain, RoutingTypeOK
  <2>6. references' \in Seq(Jobs) /\ projects' \subseteq InProject
    BY <1>10, <2>1 DEF RouteSessionEnd, RoutingTypeOK
  <2>. QED BY <1>10, <2>1, <2>4, <2>5, <2>6 DEF RouteSessionEnd, RoutingTypeOK
<1>11. CASE ReadLine \/ Quit
  BY <1>11 DEF ReadLine, Quit, RoutingTypeOK
<1>12. CASE UNCHANGED routing_vars
  BY <1>12 DEF routing_vars, RoutingTypeOK
<1>. QED
  BY <1>1, <1>2, <1>3, <1>4, <1>5, <1>6, <1>7, <1>8, <1>9, <1>10, <1>11, <1>12
     DEF RoutingNext, Consume

-----------------------------------------------------------------------------
(* Closing a chain *)

Rest ==
    /\ SpawnOnce /\ SourcesSpawned /\ EndsAfterSpawn /\ LogShape /\ StaysRegistered
    /\ ReferencedOnce /\ ReferencesMatchProjects

\* Nothing is known of any job at the start.
LEMMA HookStart == RoutingInit => HookInv
<1>. SUFFICES ASSUME RoutingInit PROVE HookInv
  OBVIOUS
<1>1. RoutingTypeOK
  BY RoutingConstants DEF RoutingInit, RoutingTypeOK, HOOK, PROTOCOL
<1>2. SpawnOnce /\ SourcesSpawned /\ EndsAfterSpawn /\ EndsKnown
  BY DEF RoutingInit, SpawnOnce, SourcesSpawned, EndsAfterSpawn, EndsKnown, Spawned, IsSpawn, IsEnd
<1>3. LogShape /\ StaysRegistered /\ ReferencedOnce
  BY RoutingConstants DEF RoutingInit, LogShape, StaysRegistered, ReferencedOnce, Spawned
<1>4. ReferencesMatchProjects
  BY RoutingConstants DEF RoutingInit, ReferencesMatchProjects
<1>5. OwedReaches
  BY DEF RoutingInit, OwedReaches
<1>. QED BY <1>1, <1>2, <1>3, <1>4, <1>5 DEF HookInv, CloseInv

\* Hook events and the ends of spawned jobs may be queued at any time.
LEMMA QueueKeeps ==
    ASSUME CloseInv, UNCHANGED <<agent, chain, log, projects, references>>,
           NEW t \in Seq(BusEvent), bus' = bus \o t,
           \A i \in 1 .. Len(t) : /\ t[i].kind # "agent.spawn"
                                  /\ t[i].kind = "session_end" => Spawned(t[i].job),
           SourcesSpawned'
    PROVE  Rest'
<1>0. bus \in Seq(BusEvent)
  BY DEF CloseInv, RoutingTypeOK
<1>1. /\ Len(bus) \in Nat /\ Len(t) \in Nat /\ DOMAIN bus = 1 .. Len(bus)
      /\ DOMAIN bus' = 1 .. Len(bus) + Len(t)
      /\ \A i \in 1 .. Len(bus) : bus'[i] = bus[i]
      /\ \A i \in 1 .. Len(t) : bus'[Len(bus) + i] = t[i]
  BY <1>0, Behind
<1>2. \A i \in DOMAIN bus' : i \in DOMAIN bus \/ \E k \in 1 .. Len(t) : i = Len(bus) + k
  <2>. TAKE i \in DOMAIN bus'
  <2>1. CASE i <= Len(bus)
    BY <1>1, <2>1
  <2>2. CASE ~(i <= Len(bus))
    <3>1. i - Len(bus) \in 1 .. Len(t) /\ i = Len(bus) + (i - Len(bus))
      BY <1>1, <2>2
    <3>. QED BY <3>1
  <2>. QED BY <2>1, <2>2
<1>3. \A j \in Jobs : Spawned(j)' = Spawned(j)
  BY DEF Spawned
<1>4. \A j \in Jobs : \A i \in DOMAIN bus' : IsSpawn(i, j)' <=> i \in DOMAIN bus /\ IsSpawn(i, j)
  BY <1>1, <1>2 DEF IsSpawn
<1>5. \A i \in DOMAIN bus : i \in DOMAIN bus'
  BY <1>1
<1>6. SpawnOnce'
  BY <1>3, <1>4, <1>5 DEF CloseInv, SpawnOnce
<1>7. ASSUME NEW j \in Jobs, NEW i \in DOMAIN bus', IsEnd(i, j)'
      PROVE  chain'[j] # "none" \/ \E k \in DOMAIN bus' : k < i /\ IsSpawn(k, j)'
  <2>1. CASE i \in DOMAIN bus
    <3>1. IsEnd(i, j)
      BY <1>1, <1>7, <2>1 DEF IsEnd
    <3>. QED BY <1>4, <1>5, <2>1, <3>1 DEF CloseInv, EndsAfterSpawn
  <2>2. CASE i \notin DOMAIN bus
    <3>1. PICK k \in 1 .. Len(t) : i = Len(bus) + k
      BY <1>2, <2>2
    <3>2. Spawned(j)
      BY <1>1, <1>7, <3>1 DEF IsEnd
    <3>3. chain[j] # "none" \/ \E h \in DOMAIN bus : IsSpawn(h, j)
      BY <3>2 DEF CloseInv, SpawnOnce
    <3>4. \A h \in DOMAIN bus : h < i
      BY <1>1, <3>1
    <3>. QED BY <1>4, <1>5, <3>3, <3>4
  <2>. QED BY <2>1, <2>2
<1>8. EndsAfterSpawn'
  BY <1>7 DEF EndsAfterSpawn
<1>9. LogShape' /\ StaysRegistered' /\ ReferencedOnce' /\ ReferencesMatchProjects'
  BY DEF CloseInv, LogShape, StaysRegistered, ReferencedOnce, ReferencesMatchProjects, Spawned
<1>. QED BY <1>6, <1>8, <1>9 DEF Rest

\* on_spawn queues the genesis event, once.
LEMMA SpawnKeeps ==
    ASSUME CloseInv, NEW j \in Jobs, OnSpawn(j)
    PROVE  Rest'
<1>0. bus \in Seq(BusEvent)
  BY DEF CloseInv, RoutingTypeOK
<1>1. /\ Len(bus) \in Nat /\ DOMAIN bus = 1 .. Len(bus) /\ DOMAIN bus' = 1 .. Len(bus) + 1
      /\ \A i \in 1 .. Len(bus) : bus'[i] = bus[i]
      /\ bus'[Len(bus) + 1] = SpawnEvent(j)
  BY <1>0 DEF OnSpawn
<1>n. PICK n : n = Len(bus) + 1
  OBVIOUS
<1>2. /\ \A k \in Jobs : Spawned(k)' <=> Spawned(k) \/ k = j
      /\ ~Spawned(j)
  BY DEF OnSpawn, Spawned, CloseInv, RoutingTypeOK
<1>3. chain' = chain /\ log' = log /\ references' = references /\ projects \subseteq projects'
  BY DEF OnSpawn, RecordProject
<1>4. /\ \A k \in Jobs : k # j => (k \in projects' <=> k \in projects)
      /\ j \in InProject => j \in projects'
  BY DEF OnSpawn, RecordProject
<1>5. \A i \in DOMAIN bus' : i \in DOMAIN bus \/ i = n
  BY <1>1, <1>n
<1>6. \A k \in Jobs : \A i \in DOMAIN bus :
         (IsSpawn(i, k)' <=> IsSpawn(i, k)) /\ (IsEnd(i, k)' <=> IsEnd(i, k))
  BY <1>1 DEF IsSpawn, IsEnd
<1>7. \A k \in Jobs : (IsSpawn(n, k)' <=> k = j) /\ ~IsEnd(n, k)'
  BY <1>1, <1>n DEF IsSpawn, IsEnd, SpawnEvent
<1>8. n \in DOMAIN bus' /\ \A i \in DOMAIN bus : i \in DOMAIN bus' /\ i # n
  BY <1>1, <1>n
<1>9. chain[j] = "none" /\ \A i \in DOMAIN bus : ~IsSpawn(i, j)
  BY <1>2 DEF CloseInv, SpawnOnce
<1>10. SpawnOnce'
  <2>1. \A k \in Jobs : ~Spawned(k)' => chain'[k] = "none" /\ k \notin projects'
    BY <1>2, <1>3, <1>4 DEF CloseInv, SpawnOnce
  <2>2. \A k \in Jobs : Spawned(k)' =>
           chain'[k] # "none" \/ \E i \in DOMAIN bus' : IsSpawn(i, k)'
    BY <1>2, <1>3, <1>6, <1>7, <1>8 DEF CloseInv, SpawnOnce
  <2>3. ASSUME NEW k \in Jobs, NEW i \in DOMAIN bus', IsSpawn(i, k)'
        PROVE  /\ Spawned(k)' /\ chain'[k] = "none"
               /\ \A h \in DOMAIN bus' : IsSpawn(h, k)' => h = i
    <3>1. CASE k = j
      BY <1>2, <1>3, <1>5, <1>6, <1>9, <2>3, <3>1
    <3>2. CASE k # j
      <4>1. \A h \in DOMAIN bus' : IsSpawn(h, k)' => h \in DOMAIN bus /\ IsSpawn(h, k)
        BY <1>5, <1>6, <1>7, <3>2
      <4>. QED BY <1>2, <1>3, <2>3, <4>1 DEF CloseInv, SpawnOnce
    <3>. QED BY <3>1, <3>2
  <2>. QED BY <2>1, <2>2, <2>3 DEF SpawnOnce
<1>14. SourcesSpawned'
  <2>1. agent' = [agent EXCEPT ![j] = "running"] /\ UNCHANGED <<job_events, journal_rx>>
    BY DEF OnSpawn
  <2>2. \A k : Spawned(k) => agent'[k] \in {"running", "exited"}
    BY <2>1 DEF Spawned, CloseInv, RoutingTypeOK
  <2>. QED BY <2>1, <2>2 DEF CloseInv, SourcesSpawned, Spawned
<1>11. EndsAfterSpawn'
  <2>3. ASSUME NEW k \in Jobs, NEW i \in DOMAIN bus', IsEnd(i, k)'
        PROVE  chain'[k] # "none" \/ \E h \in DOMAIN bus' : h < i /\ IsSpawn(h, k)'
    <3>1. i \in DOMAIN bus /\ IsEnd(i, k)
      BY <1>5, <1>6, <1>7, <2>3
    <3>. QED BY <1>3, <1>6, <1>8, <3>1 DEF CloseInv, EndsAfterSpawn
  <2>. QED BY <2>3 DEF EndsAfterSpawn
<1>12. LogShape' /\ ReferencedOnce' /\ ReferencesMatchProjects'
  BY <1>3 DEF CloseInv, LogShape, ReferencedOnce, ReferencesMatchProjects
<1>13. StaysRegistered'
  BY <1>2, <1>3, <1>4, RoutingConstants DEF CloseInv, StaysRegistered
<1>. QED BY <1>10, <1>11, <1>12, <1>13, <1>14 DEF Rest

\* The consumer takes the first event: the others move up by one.
LEMMA BusMovesUp ==
    ASSUME RoutingTypeOK, Take
    PROVE  /\ bus[1] = Head(bus) /\ bus[1] \in BusEvent /\ bus[1].job \in Jobs /\ 1 \in DOMAIN bus
           /\ \A i \in DOMAIN bus' : i \in Nat /\ i + 1 \in DOMAIN bus /\ bus'[i] = bus[i + 1]
           /\ \A i \in DOMAIN bus : i \in Nat /\ (i # 1 => i - 1 \in DOMAIN bus')
           /\ \A j \in Jobs : \A i \in DOMAIN bus' :
                 (IsSpawn(i, j)' <=> IsSpawn(i + 1, j)) /\ (IsEnd(i, j)' <=> IsEnd(i + 1, j))
           /\ \A j \in Jobs : \A i \in DOMAIN bus : i # 1 => (IsSpawn(i - 1, j)' <=> IsSpawn(i, j))
<1>0. bus \in Seq(BusEvent) /\ bus # <<>> /\ bus' = Tail(bus)
  BY DEF RoutingTypeOK, Take
<1>1. /\ Len(bus) \in Nat /\ Len(bus) > 0
      /\ DOMAIN bus = 1 .. Len(bus) /\ DOMAIN bus' = 1 .. Len(bus) - 1
      /\ \A i \in 1 .. Len(bus) - 1 : bus'[i] = bus[i + 1]
      /\ Head(bus) = bus[1] /\ bus[1] \in BusEvent
  BY <1>0, Beheaded
<1>2. bus[1].job \in Jobs
  BY <1>1 DEF BusEvent
<1>3. \A i \in DOMAIN bus : i # 1 => i - 1 \in DOMAIN bus' /\ bus'[i - 1] = bus[i]
  BY <1>1
<1>4. \A i \in DOMAIN bus' : i \in Nat /\ i + 1 \in DOMAIN bus /\ bus'[i] = bus[i + 1]
  BY <1>1
<1>. QED BY <1>1, <1>2, <1>3, <1>4 DEF IsSpawn, IsEnd

\* The genesis event opens an empty chain.
LEMMA RouteSpawnKeeps ==
    ASSUME CloseInv, RouteSpawn
    PROVE  Rest'
<1>. DEFINE e == Head(bus)
            j == e.job
<1>t. RoutingTypeOK /\ Take
  BY DEF CloseInv, RouteSpawn
<1>1. /\ bus[1] = e /\ j \in Jobs /\ 1 \in DOMAIN bus /\ e.kind = "agent.spawn"
      /\ UNCHANGED <<agent, job_events, journal_rx, projects, references>>
  BY <1>t, BusMovesUp DEF RouteSpawn
<1>2. IsSpawn(1, j) /\ \A k \in Jobs : IsSpawn(1, k) => k = j
  BY <1>1 DEF IsSpawn
<1>3. Spawned(j) /\ chain[j] = "none" /\ \A i \in DOMAIN bus : IsSpawn(i, j) => i = 1
  BY <1>1, <1>2 DEF CloseInv, SpawnOnce
<1>4. /\ chain \in [Jobs -> {"none", "open", "evicted"}] /\ log \in [Jobs -> Seq(LogEvent)]
      /\ chain' = [chain EXCEPT ![j] = "open"]
      /\ log' = [log EXCEPT ![j] = Append(log[j], e)]
  BY DEF RouteSpawn, CloseInv, RoutingTypeOK
<1>5. /\ \A k \in Jobs : k # j => chain'[k] = chain[k] /\ log'[k] = log[k]
      /\ chain'[j] = "open" /\ log'[j] = Append(log[j], e)
  BY <1>1, <1>4
<1>6. \A k : Spawned(k)' = Spawned(k)
  BY <1>1 DEF Spawned
<1>. HIDE DEF e, j
<1>7. SpawnOnce'
  <2>1. \A k \in Jobs : ~Spawned(k)' => chain'[k] = "none" /\ k \notin projects'
    BY <1>1, <1>3, <1>5, <1>6 DEF CloseInv, SpawnOnce
  <2>2. ASSUME NEW k \in Jobs, Spawned(k)'
        PROVE  chain'[k] # "none" \/ \E i \in DOMAIN bus' : IsSpawn(i, k)'
    <3>1. CASE k = j
      BY <1>5, <3>1
    <3>2. CASE k # j
      <4>1. chain[k] # "none" \/ \E i \in DOMAIN bus : i # 1 /\ IsSpawn(i, k)
        BY <1>2, <1>6, <2>2, <3>2 DEF CloseInv, SpawnOnce
      <4>. QED BY <1>t, <1>5, <3>2, <4>1, BusMovesUp
    <3>. QED BY <3>1, <3>2
  <2>3. ASSUME NEW k \in Jobs, NEW i \in DOMAIN bus', IsSpawn(i, k)'
        PROVE  /\ Spawned(k)' /\ chain'[k] = "none"
               /\ \A h \in DOMAIN bus' : IsSpawn(h, k)' => h = i
    <3>1. i \in Nat /\ i + 1 \in DOMAIN bus /\ IsSpawn(i + 1, k)
      BY <1>t, <2>3, BusMovesUp
    <3>2. k # j
      <4>1. i + 1 # 1 \/ i = 0
        BY <3>1
      <4>2. i # 0
        BY <1>t, <2>3, Beheaded DEF Take, RoutingTypeOK
      <4>. QED BY <1>3, <3>1, <4>1, <4>2
    <3>3. \A h \in DOMAIN bus' : IsSpawn(h, k)' => h \in Nat /\ h + 1 = i + 1
      BY <1>t, <3>1, BusMovesUp DEF CloseInv, SpawnOnce
    <3>. QED BY <1>5, <1>6, <3>1, <3>2, <3>3 DEF CloseInv, SpawnOnce
  <2>. QED BY <2>1, <2>2, <2>3 DEF SpawnOnce
<1>8. EndsAfterSpawn'
  <2>. SUFFICES ASSUME NEW k \in Jobs, NEW i \in DOMAIN bus', IsEnd(i, k)', chain'[k] = "none"
                PROVE  \E h \in DOMAIN bus' : h < i /\ IsSpawn(h, k)'
    BY DEF EndsAfterSpawn
  <2>1. i \in Nat /\ i + 1 \in DOMAIN bus /\ IsEnd(i + 1, k)
    BY <1>t, BusMovesUp
  <2>2. k # j /\ chain[k] = "none"
    BY <1>5
  <2>3. PICK h \in DOMAIN bus : h < i + 1 /\ IsSpawn(h, k)
    BY <2>1, <2>2 DEF CloseInv, EndsAfterSpawn
  <2>4. h # 1 /\ h \in Nat
    BY <1>t, <1>2, <2>2, <2>3, BusMovesUp
  <2>5. h - 1 \in DOMAIN bus' /\ IsSpawn(h - 1, k)'
    BY <1>t, <2>3, <2>4, BusMovesUp
  <2>6. h - 1 < i
    BY <2>1, <2>3, <2>4
  <2>. QED BY <2>5, <2>6
<1>9. LogShape'
  <2>. SUFFICES ASSUME NEW k \in Jobs
                PROVE  /\ chain'[k] = "none" => log'[k] = <<>>
                       /\ chain'[k] = "open" =>
                             \A i \in DOMAIN log'[k] : ~IsTerminal(log'[k][i])
                       /\ chain'[k] = "evicted" =>
                             /\ log'[k] # <<>> /\ IsTerminal(log'[k][Len(log'[k])])
                             /\ \A i \in DOMAIN log'[k] :
                                   IsTerminal(log'[k][i]) => i = Len(log'[k])
    BY Zenon DEF LogShape, IsTerminal
  <2>1. CASE k = j
    <3>1. log[j] = <<>>
      BY <1>1, <1>3 DEF CloseInv, LogShape
    <3>2. log'[j] = <<e>>
      BY <1>5, <3>1
    <3>3. ~IsTerminal(e)
      BY <1>1 DEF IsTerminal
    <3>. QED BY <1>5, <2>1, <3>2, <3>3
  <2>2. CASE k # j
    BY <1>5, <2>2 DEF CloseInv, LogShape
  <2>. QED BY <2>1, <2>2
<1>10. StaysRegistered'
  BY <1>1, <1>3, <1>5, <1>6, RoutingConstants DEF CloseInv, StaysRegistered
<1>11. ReferencedOnce' /\ SourcesSpawned'
  BY <1>1, <1>6 DEF CloseInv, ReferencedOnce, SourcesSpawned
<1>12. ReferencesMatchProjects'
  <2>1. \A k \in InProject : chain'[k] = "evicted" <=> chain[k] = "evicted"
    BY <1>3, <1>5, RoutingConstants
  <2>. QED BY <1>1, <2>1 DEF CloseInv, ReferencesMatchProjects
<1>. QED BY <1>7, <1>8, <1>9, <1>10, <1>11, <1>12 DEF Rest

\* A hook event is sealed in an open chain and dropped elsewhere.
LEMMA RouteHookKeeps ==
    ASSUME CloseInv, RouteHook
    PROVE  Rest'
<1>. DEFINE e == Head(bus)
            j == e.job
<1>t. RoutingTypeOK /\ Take
  BY DEF CloseInv, RouteHook
<1>1. /\ bus[1] = e /\ j \in Jobs /\ 1 \in DOMAIN bus /\ e.kind = "hook"
      /\ UNCHANGED <<agent, job_events, journal_rx, chain, projects, references>>
  BY <1>t, BusMovesUp DEF RouteHook
<1>2. \A k \in Jobs : ~IsSpawn(1, k)
  BY <1>1 DEF IsSpawn
<1>3. log \in [Jobs -> Seq(LogEvent)] /\ e \in LogEvent
  BY <1>t, <1>1, LogRecord, BusMovesUp DEF RoutingTypeOK
<1>4. log' = IF chain[j] = "open" THEN [log EXCEPT ![j] = Append(log[j], e)] ELSE log
  BY DEF RouteHook
<1>5. \A k : Spawned(k)' = Spawned(k)
  BY <1>1 DEF Spawned
<1>. HIDE DEF e, j
<1>6. SpawnOnce'
  <2>1. \A k \in Jobs : ~Spawned(k)' => chain'[k] = "none" /\ k \notin projects'
    BY <1>1, <1>5 DEF CloseInv, SpawnOnce
  <2>2. ASSUME NEW k \in Jobs, Spawned(k)'
        PROVE  chain'[k] # "none" \/ \E i \in DOMAIN bus' : IsSpawn(i, k)'
    <3>1. chain[k] # "none" \/ \E i \in DOMAIN bus : i # 1 /\ IsSpawn(i, k)
      BY <1>2, <1>5, <2>2 DEF CloseInv, SpawnOnce
    <3>. QED BY <1>t, <1>1, <3>1, BusMovesUp
  <2>3. ASSUME NEW k \in Jobs, NEW i \in DOMAIN bus', IsSpawn(i, k)'
        PROVE  /\ Spawned(k)' /\ chain'[k] = "none"
               /\ \A h \in DOMAIN bus' : IsSpawn(h, k)' => h = i
    <3>1. i \in Nat /\ i + 1 \in DOMAIN bus /\ IsSpawn(i + 1, k)
      BY <1>t, <2>3, BusMovesUp
    <3>2. \A h \in DOMAIN bus' : IsSpawn(h, k)' => h \in Nat /\ h + 1 = i + 1
      BY <1>t, <3>1, BusMovesUp DEF CloseInv, SpawnOnce
    <3>. QED BY <1>1, <1>5, <3>1, <3>2 DEF CloseInv, SpawnOnce
  <2>. QED BY <2>1, <2>2, <2>3 DEF SpawnOnce
<1>7. EndsAfterSpawn'
  <2>. SUFFICES ASSUME NEW k \in Jobs, NEW i \in DOMAIN bus', IsEnd(i, k)', chain'[k] = "none"
                PROVE  \E h \in DOMAIN bus' : h < i /\ IsSpawn(h, k)'
    BY DEF EndsAfterSpawn
  <2>1. i \in Nat /\ i + 1 \in DOMAIN bus /\ IsEnd(i + 1, k)
    BY <1>t, BusMovesUp
  <2>2. PICK h \in DOMAIN bus : h < i + 1 /\ IsSpawn(h, k)
    BY <1>1, <2>1 DEF CloseInv, EndsAfterSpawn
  <2>3. h # 1 /\ h \in Nat
    BY <1>t, <1>2, <2>2, BusMovesUp
  <2>4. h - 1 \in DOMAIN bus' /\ IsSpawn(h - 1, k)'
    BY <1>t, <2>2, <2>3, BusMovesUp
  <2>5. h - 1 < i
    BY <2>1, <2>2, <2>3
  <2>. QED BY <2>4, <2>5
<1>8. LogShape'
  <2>1. CASE chain[j] # "open"
    BY <1>1, <1>4, <2>1 DEF CloseInv, LogShape
  <2>2. CASE chain[j] = "open"
    <3>1. ~IsTerminal(e)
      BY <1>1 DEF IsTerminal
    <3>2. /\ \A k \in Jobs : k # j => log'[k] = log[k]
          /\ log'[j] = Append(log[j], e)
      BY <1>1, <1>3, <1>4, <2>2
    <3>3. \A i \in DOMAIN log[j] : ~IsTerminal(log[j][i])
      BY <1>1, <2>2 DEF CloseInv, LogShape
    <3>4. log[j] \in Seq(LogEvent)
      BY <1>1, <1>3
    <3>5. \A i \in DOMAIN log'[j] : ~IsTerminal(log'[j][i])
      BY <1>3, <3>1, <3>2, <3>3, <3>4
    <3>6. \A k \in Jobs : k # j =>
             /\ chain[k] = "none" => log'[k] = <<>>
             /\ chain[k] = "open" => \A i \in DOMAIN log'[k] : ~IsTerminal(log'[k][i])
             /\ chain[k] = "evicted" =>
                   /\ log'[k] # <<>> /\ IsTerminal(log'[k][Len(log'[k])])
                   /\ \A i \in DOMAIN log'[k] : IsTerminal(log'[k][i]) => i = Len(log'[k])
      BY <3>2 DEF CloseInv, LogShape
    <3>. QED BY <1>1, <2>2, <3>5, <3>6, Zenon DEF LogShape, IsTerminal
  <2>. QED BY <2>1, <2>2
<1>9. StaysRegistered' /\ ReferencedOnce' /\ SourcesSpawned' /\ ReferencesMatchProjects'
  BY <1>1, <1>5
  DEF CloseInv, StaysRegistered, ReferencedOnce, SourcesSpawned, ReferencesMatchProjects
<1>. QED BY <1>6, <1>7, <1>8, <1>9 DEF Rest

\* An end closes a chain that is open, links it, and does nothing to one that is closed.
LEMMA RouteEndKeeps ==
    ASSUME CloseInv, RouteSessionEnd
    PROVE  Rest'
<1>. DEFINE e == Head(bus)
            j == e.job
            r == [e EXCEPT !.kind = TerminalKind(e.code)]
<1>t. RoutingTypeOK /\ Take
  BY DEF CloseInv, RouteSessionEnd
<1>1. /\ bus[1] = e /\ j \in Jobs /\ 1 \in DOMAIN bus /\ e.kind = "session_end"
      /\ UNCHANGED <<agent, job_events, journal_rx>>
  BY <1>t, BusMovesUp DEF RouteSessionEnd
<1>2. (\A k \in Jobs : ~IsSpawn(1, k)) /\ IsEnd(1, j)
  BY <1>1 DEF IsSpawn, IsEnd
<1>3. chain[j] \in {"open", "evicted"}
  <2>1. \A k \in DOMAIN bus : ~(k < 1)
    BY <1>t DEF RoutingTypeOK
  <2>2. chain[j] # "none"
    BY <1>1, <1>2, <2>1 DEF CloseInv, EndsAfterSpawn
  <2>. QED BY <1>1, <2>2 DEF CloseInv, RoutingTypeOK
<1>4. Spawned(j)
  BY <1>1, <1>3 DEF CloseInv, SpawnOnce
<1>5. r \in LogEvent /\ IsTerminal(r)
  BY <1>t, <1>1, LogRecord, BusMovesUp
<1>6. log' = IF chain[j] = "open" THEN [log EXCEPT ![j] = Append(log[j], r)] ELSE log
  BY DEF RouteSessionEnd
<1>7. /\ references' = IF chain[j] = "open" /\ j \in projects THEN Append(references, j)
                                                             ELSE references
      /\ projects' = projects \ {j}
      /\ chain' = [chain EXCEPT ![j] = EvictJobChain(chain[j])]
  BY DEF RouteSessionEnd
<1>8. /\ chain \in [Jobs -> {"none", "open", "evicted"}] /\ log \in [Jobs -> Seq(LogEvent)]
      /\ references \in Seq(Jobs) /\ projects \subseteq InProject /\ InProject \subseteq Jobs
  BY RoutingConstants DEF CloseInv, RoutingTypeOK
<1>9. chain'[j] = "evicted" /\ \A k \in Jobs : k # j => chain'[k] = chain[k]
  BY <1>1, <1>3, <1>7, <1>8 DEF EvictJobChain
<1>10. \A k : Spawned(k)' = Spawned(k)
  BY <1>1 DEF Spawned
<1>. HIDE DEF e, j, r
<1>11. SpawnOnce'
  <2>1. \A k \in Jobs : ~Spawned(k)' => chain'[k] = "none" /\ k \notin projects'
    BY <1>4, <1>7, <1>9, <1>10 DEF CloseInv, SpawnOnce
  <2>2. ASSUME NEW k \in Jobs, Spawned(k)'
        PROVE  chain'[k] # "none" \/ \E i \in DOMAIN bus' : IsSpawn(i, k)'
    <3>1. chain[k] # "none" \/ \E i \in DOMAIN bus : i # 1 /\ IsSpawn(i, k)
      BY <1>2, <1>10, <2>2 DEF CloseInv, SpawnOnce
    <3>2. chain[k] # "none" => chain'[k] # "none"
      BY <1>9
    <3>. QED BY <1>t, <3>1, <3>2, BusMovesUp
  <2>3. ASSUME NEW k \in Jobs, NEW i \in DOMAIN bus', IsSpawn(i, k)'
        PROVE  /\ Spawned(k)' /\ chain'[k] = "none"
               /\ \A h \in DOMAIN bus' : IsSpawn(h, k)' => h = i
    <3>1. i \in Nat /\ i + 1 \in DOMAIN bus /\ IsSpawn(i + 1, k)
      BY <1>t, <2>3, BusMovesUp
    <3>2. \A h \in DOMAIN bus' : IsSpawn(h, k)' => h \in Nat /\ h + 1 = i + 1
      BY <1>t, <3>1, BusMovesUp DEF CloseInv, SpawnOnce
    <3>3. chain[k] = "none" /\ Spawned(k)
      BY <3>1 DEF CloseInv, SpawnOnce
    <3>4. chain'[k] = "none"
      BY <1>3, <1>9, <3>3
    <3>. QED BY <1>10, <3>1, <3>2, <3>3, <3>4
  <2>. QED BY <2>1, <2>2, <2>3 DEF SpawnOnce
<1>12. EndsAfterSpawn'
  <2>. SUFFICES ASSUME NEW k \in Jobs, NEW i \in DOMAIN bus', IsEnd(i, k)', chain'[k] = "none"
                PROVE  \E h \in DOMAIN bus' : h < i /\ IsSpawn(h, k)'
    BY DEF EndsAfterSpawn
  <2>1. i \in Nat /\ i + 1 \in DOMAIN bus /\ IsEnd(i + 1, k)
    BY <1>t, BusMovesUp
  <2>2. chain[k] = "none"
    BY <1>9
  <2>3. PICK h \in DOMAIN bus : h < i + 1 /\ IsSpawn(h, k)
    BY <2>1, <2>2 DEF CloseInv, EndsAfterSpawn
  <2>4. h # 1 /\ h \in Nat
    BY <1>t, <1>2, <2>3, BusMovesUp
  <2>5. h - 1 \in DOMAIN bus' /\ IsSpawn(h - 1, k)'
    BY <1>t, <2>3, <2>4, BusMovesUp
  <2>6. h - 1 < i
    BY <2>1, <2>3, <2>4
  <2>. QED BY <2>5, <2>6
<1>13. ASSUME NEW k \in Jobs, k # j
       PROVE  /\ chain'[k] = "none" => log'[k] = <<>>
              /\ chain'[k] = "open" => \A i \in DOMAIN log'[k] : ~IsTerminal(log'[k][i])
              /\ chain'[k] = "evicted" =>
                    /\ log'[k] # <<>> /\ IsTerminal(log'[k][Len(log'[k])])
                    /\ \A i \in DOMAIN log'[k] : IsTerminal(log'[k][i]) => i = Len(log'[k])
  <2>1. log'[k] = log[k]
    BY <1>6, <1>8, <1>13
  <2>. QED BY <1>9, <1>13, <2>1 DEF CloseInv, LogShape
<1>14. /\ log'[j] # <<>> /\ IsTerminal(log'[j][Len(log'[j])])
       /\ \A i \in DOMAIN log'[j] : IsTerminal(log'[j][i]) => i = Len(log'[j])
  <2>1. CASE chain[j] = "open"
    <3>1. log[j] \in Seq(LogEvent) /\ log'[j] = Append(log[j], r)
      BY <1>1, <1>6, <1>8, <2>1
    <3>2. \A i \in DOMAIN log[j] : ~IsTerminal(log[j][i])
      BY <1>1, <2>1 DEF CloseInv, LogShape
    <3>. QED BY <1>5, <3>1, <3>2
  <2>2. CASE chain[j] = "evicted"
    BY <1>1, <1>6, <2>2 DEF CloseInv, LogShape
  <2>. QED BY <1>3, <2>1, <2>2
<1>15. LogShape'
  <2>1. \A k \in Jobs :
           /\ chain'[k] = "none" => log'[k] = <<>>
           /\ chain'[k] = "open" => \A i \in DOMAIN log'[k] : ~IsTerminal(log'[k][i])
           /\ chain'[k] = "evicted" =>
                 /\ log'[k] # <<>> /\ IsTerminal(log'[k][Len(log'[k])])
                 /\ \A i \in DOMAIN log'[k] : IsTerminal(log'[k][i]) => i = Len(log'[k])
    BY <1>9, <1>13, <1>14
  <2>. QED BY <2>1, Zenon DEF LogShape, IsTerminal
<1>16. StaysRegistered'
  BY <1>7, <1>8, <1>9, <1>10 DEF CloseInv, StaysRegistered
<1>17. SourcesSpawned'
  BY <1>1, <1>10 DEF CloseInv, SourcesSpawned
<1>18. ReferencedOnce' /\ ReferencesMatchProjects'
  <2>1. CASE chain[j] = "open" /\ j \in InProject
    <3>1. j \in projects
      BY <1>4, <2>1 DEF CloseInv, StaysRegistered
    <3>2. references' = Append(references, j)
      BY <1>7, <2>1, <3>1
    <3>3. \A i \in DOMAIN references : references[i] # j
      BY <2>1 DEF CloseInv, ReferencesMatchProjects
    <3>4. ReferencedOnce'
      BY <1>1, <1>8, <3>2, <3>3 DEF CloseInv, ReferencedOnce
    <3>5. {references'[i] : i \in DOMAIN references'} =
             {references[i] : i \in DOMAIN references} \union {j}
      <4>1. /\ DOMAIN references' = DOMAIN references \union {Len(references) + 1}
            /\ references'[Len(references) + 1] = j
            /\ \A i \in DOMAIN references : references'[i] = references[i]
        BY <1>1, <1>8, <3>2
      <4>. QED BY <4>1
    <3>6. {k \in InProject : chain'[k] = "evicted"} =
             {k \in InProject : chain[k] = "evicted"} \union {j}
      BY <1>8, <1>9, <2>1
    <3>. QED BY <3>4, <3>5, <3>6 DEF CloseInv, ReferencesMatchProjects
  <2>2. CASE chain[j] = "evicted" \/ j \notin InProject
    <3>1. references' = references
      BY <1>7, <1>8, <2>2
    <3>2. \A k \in InProject : chain'[k] = "evicted" <=> chain[k] = "evicted"
      BY <1>8, <1>9, <2>2
    <3>. QED BY <3>1, <3>2 DEF CloseInv, ReferencedOnce, ReferencesMatchProjects
  <2>. QED BY <1>3, <2>1, <2>2
<1>. QED BY <1>11, <1>12, <1>15, <1>16, <1>17, <1>18 DEF Rest

\* A job that is only started, or that exits, changes nothing the consumer sees.
LEMMA AgentKeeps ==
    ASSUME CloseInv, NEW j \in Jobs, UNCHANGED <<bus, chain, log, projects, references>>,
           \A k \in Jobs : Spawned(k)' <=> Spawned(k), SourcesSpawned'
    PROVE  Rest'
<1>1. \A k \in Jobs : \A i \in DOMAIN bus :
         (IsSpawn(i, k)' <=> IsSpawn(i, k)) /\ (IsEnd(i, k)' <=> IsEnd(i, k))
  BY DEF IsSpawn, IsEnd
<1>2. SpawnOnce'
  BY <1>1 DEF CloseInv, SpawnOnce
<1>3. EndsAfterSpawn'
  BY <1>1 DEF CloseInv, EndsAfterSpawn
<1>4. LogShape' /\ ReferencedOnce' /\ ReferencesMatchProjects'
  BY DEF CloseInv, LogShape, ReferencedOnce, ReferencesMatchProjects
<1>5. StaysRegistered'
  BY RoutingConstants DEF CloseInv, StaysRegistered
<1>. QED BY <1>2, <1>3, <1>4, <1>5 DEF Rest

\* What a hook, or a drain, puts on the bus.
LEMMA HookQueues ==
    ASSUME CloseInv, NEW j \in Jobs, NEW kind \in {"tool", "stop"}, HookArrives(j, kind)
    PROVE  \E t \in Seq(BusEvent) :
              /\ bus' = bus \o t
              /\ \A i \in 1 .. Len(t) : /\ t[i].kind # "agent.spawn"
                                        /\ t[i].kind = "session_end" => Spawned(t[i].job)
<1>. DEFINE env == [kind |-> kind, job |-> j, id |-> hooks + 1]
<1>1. env \in Envelope /\ env.kind = kind /\ env.job = j
  BY DEF Envelope, CloseInv, RoutingTypeOK
<1>2. bus' = bus \o LiveRoute(env) /\ (kind = "stop" => Spawned(j))
  BY DEF HookArrives, Spawned, CloseInv, RoutingTypeOK
<1>. HIDE DEF env
<1>3. LiveRoute(env) \in Seq(BusEvent) /\ LiveRoute(env) \in {<<>>, <<ConvertHook(env)>>}
  BY <1>1, LiveRouteType
<1>4. \A i \in 1 .. Len(LiveRoute(env)) : LiveRoute(env)[i] = ConvertHook(env)
  BY <1>3
<1>. QED BY <1>1, <1>2, <1>3, <1>4, ConvertHookType

\* What the drain of completions puts on the bus.
LEMMA CompletionsQueue ==
    ASSUME CloseInv
    PROVE  \A i \in 1 .. Len(Completions) :
              /\ Completions[i].kind # "agent.spawn"
              /\ Completions[i].kind = "session_end" => Spawned(Completions[i].job)
<1>1. DOMAIN job_events = 1 .. Len(job_events)
  BY DEF CloseInv, RoutingTypeOK
<1>. QED BY <1>1, CompletionsType DEF CloseInv, SourcesSpawned

\* What the drain of hooks puts on the bus.
LEMMA ReroutedQueue ==
    ASSUME CloseInv
    PROVE  \A i \in 1 .. Len(Rerouted) :
              /\ Rerouted[i].kind # "agent.spawn"
              /\ Rerouted[i].kind = "session_end" => Spawned(Rerouted[i].job)
<1>. TAKE i \in 1 .. Len(Rerouted)
<1>1. DOMAIN journal_rx = 1 .. Len(journal_rx) /\ RoutingTypeOK
  BY DEF CloseInv, RoutingTypeOK
<1>2. i \in 1 .. Len(Passed) /\ Passed[i] \in Envelope /\ Rerouted[i] = ConvertHook(Passed[i])
  BY <1>1, ReroutedType
<1>3. PICK k \in DOMAIN journal_rx : Passed[i] = journal_rx[k]
  BY <1>1, <1>2, ReroutedType
<1>4. Passed[i].kind = "stop" => Spawned(Passed[i].job)
  BY <1>3 DEF CloseInv, SourcesSpawned
<1>. QED BY <1>2, <1>4, ConvertHookType

\* Every step keeps CloseInv.
LEMMA CloseStep == CloseInv /\ [RoutingNext]_routing_vars => CloseInv'
<1>. SUFFICES ASSUME CloseInv, [RoutingNext]_routing_vars PROVE Rest'
  BY RoutingType DEF CloseInv, Rest
<1>1. ASSUME NEW j \in Jobs, StartEngine(j) PROVE Rest'
  <2>1. \A k : Spawned(k)' = Spawned(k)
    BY <1>1 DEF StartEngine, Spawned, CloseInv, RoutingTypeOK
  <2>2. SourcesSpawned'
    BY <1>1, <2>1 DEF StartEngine, SourcesSpawned, CloseInv
  <2>. QED BY <1>1, <2>1, <2>2, AgentKeeps DEF StartEngine
<1>2. ASSUME NEW j \in Jobs, OnSpawn(j) PROVE Rest'
  BY <1>2, SpawnKeeps
<1>3. ASSUME NEW j \in Jobs, NEW kind \in {"tool", "stop"}, HookArrives(j, kind) PROVE Rest'
  <2>1. PICK t \in Seq(BusEvent) :
              /\ bus' = bus \o t
              /\ \A i \in 1 .. Len(t) : /\ t[i].kind # "agent.spawn"
                                        /\ t[i].kind = "session_end" => Spawned(t[i].job)
    BY <1>3, HookQueues
  <2>2. UNCHANGED <<agent, chain, log, projects, references, job_events>>
    BY <1>3 DEF HookArrives
  <2>. DEFINE env == [kind |-> kind, job |-> j, id |-> hooks + 1]
  <2>3. /\ env.kind = kind /\ env.job = j /\ env \in Envelope
        /\ journal_rx' = Append(journal_rx, env) /\ (kind = "stop" => Spawned(j))
    BY <1>3 DEF HookArrives, Spawned, CloseInv, RoutingTypeOK, Envelope
  <2>. HIDE DEF env
  <2>4. journal_rx \in Seq(Envelope)
    BY DEF CloseInv, RoutingTypeOK
  <2>5. \A i \in DOMAIN journal_rx' : journal_rx'[i] = env \/
           (i \in DOMAIN journal_rx /\ journal_rx'[i] = journal_rx[i])
    BY <2>3, <2>4
  <2>6. SourcesSpawned'
    BY <2>2, <2>3, <2>5 DEF CloseInv, SourcesSpawned, Spawned
  <2>. QED BY <2>1, <2>2, <2>6, QueueKeeps
<1>4. ASSUME NEW j \in Jobs, NEW code \in {0, 1}, ExitAgent(j, code) PROVE Rest'
  <2>1. /\ \A k : Spawned(k)' = Spawned(k)
        /\ Spawned(j)
    BY <1>4 DEF ExitAgent, Spawned, CloseInv, RoutingTypeOK
  <2>. DEFINE c == [job |-> j, code |-> code]
  <2>2. job_events' = Append(job_events, c) /\ c.job = j /\ c \in JobEvents
    BY <1>4 DEF ExitAgent, JobEvents
  <2>3. job_events \in Seq(JobEvents)
    BY DEF CloseInv, RoutingTypeOK, JobEvents
  <2>. HIDE DEF c
  <2>4. \A i \in DOMAIN job_events' : job_events'[i] = c \/
           (i \in DOMAIN job_events /\ job_events'[i] = job_events[i])
    BY <2>2, <2>3
  <2>5. SourcesSpawned'
    <3>1. \A i \in DOMAIN job_events' : agent'[job_events'[i].job] \in {"running", "exited"}
      BY <2>1, <2>2, <2>4 DEF CloseInv, SourcesSpawned, Spawned
    <3>2. journal_rx' = journal_rx
      BY <1>4 DEF ExitAgent
    <3>. QED BY <2>1, <3>1, <3>2 DEF CloseInv, SourcesSpawned, Spawned
  <2>. QED BY <1>4, <2>1, <2>5, AgentKeeps DEF ExitAgent
<1>5. ASSUME NEW j \in Jobs, WindowCloses(j) PROVE Rest'
  <2>1. UNCHANGED <<agent, job_events, journal_rx, bus, chain, log, projects, references>>
    BY <1>5 DEF WindowCloses
  <2>2. \A k : Spawned(k)' = Spawned(k)
    BY <2>1 DEF Spawned
  <2>3. SourcesSpawned'
    BY <2>1, <2>2 DEF SourcesSpawned, CloseInv
  <2>. QED BY <1>5, <2>1, <2>2, <2>3, AgentKeeps
<1>6. ASSUME DrainJobEvents PROVE Rest'
  <2>1. /\ bus' = bus \o Completions /\ job_events' = <<>>
        /\ UNCHANGED <<agent, journal_rx, chain, log, projects, references>>
    BY <1>6 DEF DrainJobEvents
  <2>2. SourcesSpawned'
    BY <2>1 DEF SourcesSpawned, CloseInv, Spawned
  <2>3. Completions \in Seq(BusEvent)
    BY CompletionsType DEF CloseInv
  <2>. QED BY <2>1, <2>2, <2>3, CompletionsQueue, QueueKeeps
<1>7. ASSUME DrainJournalEvents PROVE Rest'
  <2>1. /\ bus' = bus \o Rerouted /\ journal_rx' = <<>>
        /\ UNCHANGED <<agent, job_events, chain, log, projects, references>>
    BY <1>7 DEF DrainJournalEvents, Rerouted, Passed
  <2>2. SourcesSpawned'
    BY <2>1 DEF SourcesSpawned, CloseInv, Spawned
  <2>3. Rerouted \in Seq(BusEvent)
    BY ReroutedType DEF CloseInv
  <2>. QED BY <2>1, <2>2, <2>3, ReroutedQueue, QueueKeeps
<1>8. CASE ReadLine \/ Quit \/ UNCHANGED routing_vars
  <2>1. UNCHANGED <<agent, job_events, journal_rx, bus, chain, log, projects, references>>
    BY <1>8 DEF routing_vars, ReadLine, Quit
  <2>. QED
    BY <2>1
    DEF Rest, CloseInv, SpawnOnce, SourcesSpawned, EndsAfterSpawn, LogShape, StaysRegistered,
        ReferencedOnce, ReferencesMatchProjects, Spawned, IsSpawn, IsEnd
<1>. QED
  BY <1>1, <1>2, <1>3, <1>4, <1>5, <1>6, <1>7, <1>8, RouteSpawnKeeps, RouteHookKeeps,
     RouteEndKeeps DEF RoutingNext, Consume

\* However many ends reach the bus for a job, in whatever order its live hooks, their
\* drained copies and its exit arrive, its chain is closed once, by its last record, and
\* its project gets one reference, for any jobs and any number of hooks.
THEOREM JobsAlwaysClosedOnce == RoutingSpec => []ClosedOnce
<1>1. RoutingInit => CloseInv
  BY HookStart DEF HookInv
<1>2. CloseInv => ClosedOnce
  <2>. SUFFICES ASSUME CloseInv PROVE ClosedOnce
    OBVIOUS
  <2>1. \A j \in Jobs : chain[j] \in {"none", "open", "evicted"} /\ log[j] \in Seq(LogEvent)
    BY DEF CloseInv, RoutingTypeOK
  <2>2. ASSUME NEW j \in Jobs
        PROVE  /\ \A i \in DOMAIN log[j] : IsTerminal(log[j][i]) => i = Len(log[j])
               /\ chain[j] = "evicted" <=> \E i \in DOMAIN log[j] : IsTerminal(log[j][i])
    <3>1. CASE chain[j] = "none"
      <4>1. DOMAIN log[j] = {}
        BY <3>1 DEF CloseInv, LogShape
      <4>. QED BY <3>1, <4>1
    <3>2. CASE chain[j] = "open"
      BY <3>2 DEF CloseInv, LogShape
    <3>3. CASE chain[j] = "evicted"
      <4>1. log[j] # <<>> => Len(log[j]) \in DOMAIN log[j]
        BY <2>1
      <4>. QED BY <3>3, <4>1 DEF CloseInv, LogShape
    <3>. QED BY <2>1, <3>1, <3>2, <3>3
  <2>3. EndsOnce
    BY <2>2 DEF CloseInv, ReferencedOnce, EndsOnce
  <2>. QED BY <2>3 DEF CloseInv, ClosedOnce
<1>. QED BY <1>1, <1>2, CloseStep, PTL DEF RoutingSpec

-----------------------------------------------------------------------------
(* Hooks that are owed a record *)

\* What is put behind the bus does not change what a queued hook meets.
LEMMA QueueReaches ==
    ASSUME CloseInv, NEW t \in Seq(BusEvent), bus' = bus \o t, chain' = chain
    PROVE  /\ \A i \in DOMAIN bus : i \in DOMAIN bus' /\ bus'[i] = bus[i]
           /\ \A i \in DOMAIN bus : Reaches(i) => Reaches(i)'
           /\ \A j \in Jobs : (\E i \in DOMAIN bus' : IsEnd(i, j)') =>
                 \/ \E i \in DOMAIN bus : IsEnd(i, j)
                 \/ \E i \in 1 .. Len(t) : t[i].kind = "session_end" /\ t[i].job = j
<1>0. bus \in Seq(BusEvent)
  BY DEF CloseInv, RoutingTypeOK
<1>1. /\ Len(bus) \in Nat /\ Len(t) \in Nat /\ DOMAIN bus = 1 .. Len(bus)
      /\ DOMAIN bus' = 1 .. Len(bus) + Len(t)
      /\ \A i \in 1 .. Len(bus) : bus'[i] = bus[i]
      /\ \A i \in 1 .. Len(t) : bus'[Len(bus) + i] = t[i]
  BY <1>0, Behind
<1>2. \A i \in DOMAIN bus : i \in DOMAIN bus' /\ bus'[i] = bus[i]
  BY <1>1
<1>3. \A i \in DOMAIN bus' : i \in DOMAIN bus \/ \E k \in 1 .. Len(t) : i = Len(bus) + k
  <2>. TAKE i \in DOMAIN bus'
  <2>1. CASE i <= Len(bus)
    BY <1>1, <2>1
  <2>2. CASE ~(i <= Len(bus))
    <3>1. i - Len(bus) \in 1 .. Len(t) /\ i = Len(bus) + (i - Len(bus))
      BY <1>1, <2>2
    <3>. QED BY <3>1
  <2>. QED BY <2>1, <2>2
<1>4. ASSUME NEW i \in DOMAIN bus, Reaches(i) PROVE Reaches(i)'
  <2>1. \A k \in DOMAIN bus' : k < i => k \in DOMAIN bus
    BY <1>1
  <2>. QED BY <1>2, <1>4, <2>1 DEF Reaches, IsEnd, IsSpawn
<1>5. ASSUME NEW j \in Jobs, NEW i \in DOMAIN bus', IsEnd(i, j)'
      PROVE  \/ \E k \in DOMAIN bus : IsEnd(k, j)
             \/ \E k \in 1 .. Len(t) : t[k].kind = "session_end" /\ t[k].job = j
  <2>1. CASE i \in DOMAIN bus
    BY <1>2, <1>5, <2>1 DEF IsEnd
  <2>2. CASE i \notin DOMAIN bus
    <3>1. PICK k \in 1 .. Len(t) : i = Len(bus) + k
      BY <1>3, <2>2
    <3>. QED BY <1>1, <1>5, <3>1 DEF IsEnd
  <2>. QED BY <2>1, <2>2
<1>. QED BY <1>2, <1>4, <1>5

\* Queueing events keeps both parts, if the ends among them are known.
LEMMA QueueOwed ==
    ASSUME HookInv, NEW t \in Seq(BusEvent), bus' = bus \o t, chain' = chain, log' = log,
           history.ended \subseteq history'.ended, history'.owed = history.owed,
           \A i \in 1 .. Len(t) : t[i].kind = "session_end" => t[i].job \in history'.ended
    PROVE  EndsKnown' /\ OwedReaches'
<1>1. EndsKnown'
  <2>. SUFFICES ASSUME NEW j \in Jobs,
                       chain'[j] = "evicted" \/ \E i \in DOMAIN bus' : IsEnd(i, j)'
                PROVE  j \in history'.ended
    BY DEF EndsKnown
  <2>1. \/ chain[j] = "evicted" \/ \E i \in DOMAIN bus : IsEnd(i, j)
        \/ \E i \in 1 .. Len(t) : t[i].kind = "session_end" /\ t[i].job = j
    BY QueueReaches DEF HookInv
  <2>2. chain[j] = "evicted" \/ (\E i \in DOMAIN bus : IsEnd(i, j)) => j \in history.ended
    BY DEF HookInv, EndsKnown
  <2>. QED BY <2>1, <2>2
<1>2. OwedReaches'
  <2>. SUFFICES ASSUME NEW n \in history.owed, n \notin SealedIds'
                PROVE  \E i \in DOMAIN bus' : bus'[i].id = n /\ Reaches(i)'
    BY DEF OwedReaches
  <2>1. n \notin SealedIds
    BY DEF SealedIds
  <2>2. PICK i \in DOMAIN bus : bus[i].id = n /\ Reaches(i)
    BY <2>1 DEF HookInv, OwedReaches
  <2>. QED BY <2>2, QueueReaches DEF HookInv
<1>. QED BY <1>1, <1>2

\* A hook that arrives while its job has not ended will find its chain open.
LEMMA HookOwed ==
    ASSUME HookInv, NEW j \in Jobs, NEW kind \in {"tool", "stop"}, HookArrives(j, kind)
    PROVE  EndsKnown' /\ OwedReaches'
<1>. DEFINE env == [kind |-> kind, job |-> j, id |-> hooks + 1]
            t == LiveRoute(env)
<1>0. RoutingTypeOK /\ CloseInv
  BY DEF HookInv, CloseInv
<1>1. env \in Envelope /\ env.kind = kind /\ env.job = j /\ env.id = hooks + 1
  BY <1>0 DEF Envelope, RoutingTypeOK
<1>2. /\ bus' = bus \o t /\ chain' = chain /\ log' = log
      /\ history' = [history EXCEPT
              !.owed  = IF kind = "tool" /\ agent[j] # "started" /\ j \notin history.ended
                        THEN history.owed \union {env.id} ELSE history.owed,
              !.ended = IF kind = "stop" /\ t # <<>>
                        THEN history.ended \union {j} ELSE history.ended]
  BY DEF HookArrives
<1>3. agent[j] # "started" => Spawned(j)
  BY <1>0 DEF HookArrives, Spawned, RoutingTypeOK
<1>. HIDE DEF env
<1>4. t \in Seq(BusEvent) /\ t \in {<<>>, <<ConvertHook(env)>>} /\
      (kind = "tool" => t = <<ConvertHook(env)>>)
  BY <1>1, LiveRouteType
<1>. HIDE DEF t
<1>5. history \in [owed : SUBSET (1 .. MaxHooks), ended : SUBSET Jobs]
  BY <1>0 DEF RoutingTypeOK
<1>6. CASE kind = "tool" /\ agent[j] # "started" /\ j \notin history.ended
  <2>1. history'.owed = history.owed \union {env.id} /\ history'.ended = history.ended
    BY <1>2, <1>5, <1>6
  <2>2. /\ t = <<ConvertHook(env)>> /\ ConvertHook(env).kind = "hook"
        /\ ConvertHook(env).job = j /\ ConvertHook(env).id = env.id
    BY <1>1, <1>4, <1>6, ConvertHookType
  <2>3. EndsKnown'
    <3>. SUFFICES ASSUME NEW k \in Jobs,
                         chain'[k] = "evicted" \/ \E i \in DOMAIN bus' : IsEnd(i, k)'
                  PROVE  k \in history'.ended
      BY DEF EndsKnown
    <3>1. \A i \in 1 .. Len(t) : t[i].kind = "hook"
      BY <2>2
    <3>. QED BY <1>0, <1>2, <1>4, <2>1, <3>1, QueueReaches DEF HookInv, EndsKnown
  <2>4. bus \in Seq(BusEvent) /\ ConvertHook(env) \in BusEvent
    BY <1>0, <1>1, ConvertHookType DEF RoutingTypeOK
  <2>n. PICK n : n = Len(bus) + 1
    OBVIOUS
  <2>5. /\ n \in DOMAIN bus' /\ bus'[n] = ConvertHook(env)
        /\ \A i \in DOMAIN bus' : i < n => i \in DOMAIN bus /\ bus'[i] = bus[i]
        /\ \A i \in DOMAIN bus : i < n /\ i \in DOMAIN bus' /\ bus'[i] = bus[i]
    BY <1>2, <2>n, <2>2, <2>4
  <2>6. chain[j] # "evicted" /\ \A i \in DOMAIN bus : ~IsEnd(i, j)
    BY <1>6 DEF HookInv, EndsKnown
  <2>7. chain[j] = "open" \/ \E i \in DOMAIN bus : IsSpawn(i, j)
    BY <1>0, <1>3, <1>6, <2>6 DEF CloseInv, SpawnOnce, RoutingTypeOK
  <2>8. Reaches(n)'
    BY <1>2, <2>2, <2>5, <2>6, <2>7 DEF Reaches, IsEnd, IsSpawn
  <2>9. OwedReaches'
    <3>. SUFFICES ASSUME NEW m \in history'.owed, m \notin SealedIds'
                  PROVE  \E i \in DOMAIN bus' : bus'[i].id = m /\ Reaches(i)'
      BY DEF OwedReaches
    <3>1. CASE m = env.id
      BY <2>2, <2>5, <2>8, <3>1
    <3>2. CASE m # env.id
      <4>1. m \in history.owed /\ m \notin SealedIds
        BY <1>2, <2>1, <3>2 DEF SealedIds
      <4>2. PICK i \in DOMAIN bus : bus[i].id = m /\ Reaches(i)
        BY <4>1 DEF HookInv, OwedReaches
      <4>. QED BY <1>0, <1>2, <1>4, <4>2, QueueReaches
    <3>. QED BY <3>1, <3>2
  <2>. QED BY <2>3, <2>9
<1>7. CASE ~(kind = "tool" /\ agent[j] # "started" /\ j \notin history.ended)
  <2>1. /\ history'.owed = history.owed
        /\ history'.ended = IF kind = "stop" /\ t # <<>>
                            THEN history.ended \union {j} ELSE history.ended
    BY <1>2, <1>5, <1>7
  <2>2. \A i \in 1 .. Len(t) : t[i] = ConvertHook(env) /\ t # <<>>
    BY <1>4
  <2>3. \A i \in 1 .. Len(t) : t[i].kind = "session_end" => t[i].job \in history'.ended
    BY <1>1, <2>1, <2>2, ConvertHookType
  <2>4. history.ended \subseteq history'.ended
    BY <2>1
  <2>. QED BY <1>2, <1>4, <2>1, <2>3, <2>4, QueueOwed
<1>. QED BY <1>6, <1>7

\* Consuming an event: what a hook behind it meets does not change, if the chain of its
\* job only opens.
LEMMA TakeReaches ==
    ASSUME CloseInv, Take, NEW i \in DOMAIN bus, i # 1, Reaches(i),
           NEW j, j = bus[i].job, chain'[j] # "evicted",
           chain[j] = "open" \/ IsSpawn(1, j) => chain'[j] = "open"
    PROVE  i - 1 \in DOMAIN bus' /\ bus'[i - 1] = bus[i] /\ (\E k : k = i - 1 /\ Reaches(k)')
<1>0. RoutingTypeOK
  BY DEF CloseInv
<1>1. j \in Jobs /\ i \in Nat
  <2>1. bus[i] \in BusEvent
    BY <1>0 DEF RoutingTypeOK
  <2>. QED BY <1>0, <2>1, BusMovesUp DEF BusEvent
<1>2. PICK n : n = i - 1
  OBVIOUS
<1>3. n \in DOMAIN bus' /\ bus'[n] = bus[n + 1] /\ n + 1 = i
  BY <1>0, <1>1, <1>2, BusMovesUp
<1>4. \A k \in DOMAIN bus' : k < n => ~IsEnd(k, j)'
  <2>. SUFFICES ASSUME NEW k \in DOMAIN bus', k < n, IsEnd(k, j)' PROVE FALSE
    OBVIOUS
  <2>1. k \in Nat /\ k + 1 \in DOMAIN bus /\ IsEnd(k + 1, j)
    BY <1>0, <1>1, BusMovesUp
  <2>2. k + 1 < i
    BY <1>1, <1>2, <2>1
  <2>. QED BY <2>1, <2>2 DEF Reaches
<1>5. ASSUME chain'[j] # "open" PROVE \E k \in DOMAIN bus' : k < n /\ IsSpawn(k, j)'
  <2>1. chain[j] # "open" /\ ~IsSpawn(1, j)
    BY <1>5
  <2>2. PICK k \in DOMAIN bus : k < i /\ IsSpawn(k, j)
    BY <2>1 DEF Reaches
  <2>3. k # 1 /\ k \in Nat
    BY <1>0, <2>1, <2>2, BusMovesUp
  <2>4. k - 1 \in DOMAIN bus' /\ IsSpawn(k - 1, j)' /\ k - 1 < n
    BY <1>0, <1>1, <1>2, <2>2, <2>3, BusMovesUp
  <2>. QED BY <2>4
<1>6. bus'[n].job = j /\ bus'[n].kind = "hook"
  BY <1>3 DEF Reaches
<1>7. Reaches(n)'
  BY <1>4, <1>5, <1>6 DEF Reaches
<1>. QED BY <1>2, <1>3, <1>7

\* The ends on the bus are fewer after an event is consumed.
LEMMA TakeKnown ==
    ASSUME HookInv, Take, UNCHANGED history,
           \A j \in Jobs : chain'[j] = "evicted" => chain[j] = "evicted" \/ IsEnd(1, j)
    PROVE  EndsKnown'
<1>. SUFFICES ASSUME NEW j \in Jobs,
                     chain'[j] = "evicted" \/ \E i \in DOMAIN bus' : IsEnd(i, j)'
              PROVE  j \in history.ended
  BY DEF EndsKnown
<1>0. RoutingTypeOK
  BY DEF HookInv, CloseInv
<1>1. 1 \in DOMAIN bus
  BY <1>0, BusMovesUp
<1>2. \A i \in DOMAIN bus' : IsEnd(i, j)' => i + 1 \in DOMAIN bus /\ IsEnd(i + 1, j)
  BY <1>0, BusMovesUp
<1>3. chain[j] = "evicted" \/ \E i \in DOMAIN bus : IsEnd(i, j)
  BY <1>1, <1>2
<1>. QED BY <1>3 DEF HookInv, EndsKnown

\* What is sealed stays sealed.
LEMMA SealedStays ==
    ASSUME RoutingTypeOK, NEW k \in Jobs, NEW r \in LogEvent,
           log' = log \/ log' = [log EXCEPT ![k] = Append(log[k], r)]
    PROVE  /\ SealedIds \subseteq SealedIds'
           /\ log' # log => r.id \in SealedIds'
<1>0. log \in [Jobs -> Seq(LogEvent)]
  BY DEF RoutingTypeOK
<1>1. CASE log' = log
  BY <1>1 DEF SealedIds
<1>2. CASE log' = [log EXCEPT ![k] = Append(log[k], r)]
  <2>1. log[k] \in Seq(LogEvent) /\ log'[k] = Append(log[k], r)
        /\ \A j \in Jobs : j # k => log'[j] = log[j]
    BY <1>0, <1>2
  <2>2. /\ \A i \in DOMAIN log[k] : i \in DOMAIN log'[k] /\ log'[k][i] = log[k][i]
        /\ Len(log[k]) + 1 \in DOMAIN log'[k] /\ log'[k][Len(log[k]) + 1] = r
    BY <2>1
  <2>3. ASSUME NEW j \in Jobs, NEW i \in DOMAIN log[j] PROVE log[j][i].id \in SealedIds'
    <3>1. i \in DOMAIN log'[j] /\ log'[j][i] = log[j][i]
      BY <2>1, <2>2
    <3>. QED BY <3>1 DEF SealedIds
  <2>4. r.id \in SealedIds'
    BY <2>2 DEF SealedIds
  <2>. QED BY <2>3, <2>4 DEF SealedIds
<1>. QED BY <1>1, <1>2

\* The genesis record opens the chain for the hooks behind it.
LEMMA SpawnOwed ==
    ASSUME HookInv, RouteSpawn
    PROVE  EndsKnown' /\ OwedReaches'
<1>. DEFINE e == Head(bus)
            j == e.job
<1>0. RoutingTypeOK /\ CloseInv /\ Take /\ history' = history
  BY DEF HookInv, CloseInv, RouteSpawn
<1>1. /\ bus[1] = e /\ e \in BusEvent /\ j \in Jobs /\ 1 \in DOMAIN bus /\ e.kind = "agent.spawn"
      /\ chain' = [chain EXCEPT ![j] = "open"] /\ log' = [log EXCEPT ![j] = Append(log[j], e)]
  BY <1>0, BusMovesUp DEF RouteSpawn
<1>2. chain'[j] = "open" /\ \A k \in Jobs : k # j => chain'[k] = chain[k]
  BY <1>0, <1>1 DEF RoutingTypeOK
<1>3. e \in LogEvent
  BY <1>0, <1>1, LogRecord
<1>. HIDE DEF e, j
<1>4. SealedIds \subseteq SealedIds'
  BY <1>0, <1>1, <1>3, SealedStays
<1>5. EndsKnown'
  BY <1>0, <1>2, TakeKnown
<1>6. OwedReaches'
  <2>. SUFFICES ASSUME NEW n \in history.owed, n \notin SealedIds'
                PROVE  \E i \in DOMAIN bus' : bus'[i].id = n /\ Reaches(i)'
    BY <1>0 DEF OwedReaches
  <2>1. PICK i \in DOMAIN bus : bus[i].id = n /\ Reaches(i)
    BY <1>4 DEF HookInv, OwedReaches
  <2>2. PICK k : k = bus[i].job
    OBVIOUS
  <2>3. i # 1
    BY <1>1, <2>1 DEF Reaches
  <2>4. k \in Jobs
    <3>1. bus[i] \in BusEvent
      BY <1>0 DEF RoutingTypeOK
    <3>. QED BY <2>2, <3>1 DEF BusEvent
  <2>5. chain'[k] # "evicted" /\ (chain[k] = "open" \/ IsSpawn(1, k) => chain'[k] = "open")
    <3>1. IsSpawn(1, k) => k = j
      BY <1>1 DEF IsSpawn, j
    <3>. QED BY <1>2, <2>1, <2>2, <2>4, <3>1 DEF Reaches
  <2>. QED BY <1>0, <2>1, <2>2, <2>3, <2>5, TakeReaches
<1>. QED BY <1>5, <1>6

\* A hook that is owed is sealed when its turn comes.
LEMMA HookSealed ==
    ASSUME HookInv, RouteHook
    PROVE  EndsKnown' /\ OwedReaches'
<1>. DEFINE e == Head(bus)
            j == e.job
<1>0. RoutingTypeOK /\ CloseInv /\ Take /\ history' = history /\ chain' = chain
  BY DEF HookInv, CloseInv, RouteHook
<1>1. /\ bus[1] = e /\ e \in BusEvent /\ j \in Jobs /\ 1 \in DOMAIN bus /\ e.kind = "hook"
      /\ log' = IF chain[j] = "open" THEN [log EXCEPT ![j] = Append(log[j], e)] ELSE log
  BY <1>0, BusMovesUp DEF RouteHook
<1>2. e \in LogEvent
  BY <1>0, <1>1, LogRecord
<1>. HIDE DEF e, j
<1>3. SealedIds \subseteq SealedIds'
  BY <1>0, <1>1, <1>2, SealedStays
<1>4. EndsKnown'
  BY <1>0, TakeKnown
<1>5. ASSUME Reaches(1) PROVE e.id \in SealedIds'
  <2>1. \A k \in DOMAIN bus : ~(k < 1)
    BY <1>0 DEF RoutingTypeOK
  <2>2. bus[1].job = j
    BY <1>1 DEF j
  <2>3. chain[j] = "open"
    BY <1>5, <2>1, <2>2 DEF Reaches
  <2>4. log' = [log EXCEPT ![j] = Append(log[j], e)] /\ log \in [Jobs -> Seq(LogEvent)]
    BY <1>0, <1>1, <2>3 DEF RoutingTypeOK
  <2>5. log'[j] = Append(log[j], e) /\ log[j] \in Seq(LogEvent)
    BY <1>1, <2>4
  <2>6. log' # log
    <3>1. Len(Append(log[j], e)) = Len(log[j]) + 1 /\ Len(log[j]) \in Nat
      BY <1>2, <2>5
    <3>2. Len(log'[j]) # Len(log[j])
      BY <2>5, <3>1
    <3>. QED BY <3>2
  <2>. QED BY <1>0, <1>1, <1>2, <2>4, <2>6, SealedStays
<1>6. OwedReaches'
  <2>. SUFFICES ASSUME NEW n \in history.owed, n \notin SealedIds'
                PROVE  \E i \in DOMAIN bus' : bus'[i].id = n /\ Reaches(i)'
    BY <1>0 DEF OwedReaches
  <2>1. PICK i \in DOMAIN bus : bus[i].id = n /\ Reaches(i)
    BY <1>3 DEF HookInv, OwedReaches
  <2>2. PICK k : k = bus[i].job
    OBVIOUS
  <2>3. i # 1
    BY <1>1, <1>5, <2>1
  <2>4. chain'[k] # "evicted" /\ (chain[k] = "open" \/ IsSpawn(1, k) => chain'[k] = "open")
    BY <1>0, <1>1, <2>1, <2>2 DEF Reaches, IsSpawn
  <2>. QED BY <1>0, <2>1, <2>2, <2>3, <2>4, TakeReaches
<1>. QED BY <1>4, <1>6

\* An end overtakes no hook that is owed.
LEMMA EndOwed ==
    ASSUME HookInv, RouteSessionEnd
    PROVE  EndsKnown' /\ OwedReaches'
<1>. DEFINE e == Head(bus)
            j == e.job
            r == [e EXCEPT !.kind = TerminalKind(e.code)]
<1>0. RoutingTypeOK /\ CloseInv /\ Take /\ history' = history
  BY DEF HookInv, CloseInv, RouteSessionEnd
<1>1. /\ bus[1] = e /\ e \in BusEvent /\ j \in Jobs /\ 1 \in DOMAIN bus
      /\ e.kind = "session_end" /\ chain' = [chain EXCEPT ![j] = EvictJobChain(chain[j])]
  BY <1>0, BusMovesUp DEF RouteSessionEnd
<1>2. log' = log \/ log' = [log EXCEPT ![j] = Append(log[j], r)]
  BY DEF RouteSessionEnd
<1>3. r \in LogEvent
  BY <1>0, <1>1, LogRecord
<1>4. \A k \in Jobs : k # j => chain'[k] = chain[k]
  BY <1>0, <1>1 DEF RoutingTypeOK
<1>. HIDE DEF e, j, r
<1>5. SealedIds \subseteq SealedIds'
  BY <1>0, <1>1, <1>2, <1>3, SealedStays
<1>6. IsEnd(1, j)
  BY <1>1 DEF IsEnd, j
<1>7. EndsKnown'
  BY <1>0, <1>4, <1>6, TakeKnown
<1>8. OwedReaches'
  <2>. SUFFICES ASSUME NEW n \in history.owed, n \notin SealedIds'
                PROVE  \E i \in DOMAIN bus' : bus'[i].id = n /\ Reaches(i)'
    BY <1>0 DEF OwedReaches
  <2>1. PICK i \in DOMAIN bus : bus[i].id = n /\ Reaches(i)
    BY <1>5 DEF HookInv, OwedReaches
  <2>2. PICK k : k = bus[i].job
    OBVIOUS
  <2>3. i # 1 /\ 1 < i
    <3>1. i # 1
      BY <1>1, <2>1 DEF Reaches
    <3>. QED BY <1>0, <2>1, <3>1 DEF RoutingTypeOK
  <2>4. k # j
    BY <1>1, <1>6, <2>1, <2>2, <2>3 DEF Reaches
  <2>5. k \in Jobs
    <3>1. bus[i] \in BusEvent
      BY <1>0 DEF RoutingTypeOK
    <3>. QED BY <2>2, <3>1 DEF BusEvent
  <2>6. chain'[k] # "evicted" /\ (chain[k] = "open" \/ IsSpawn(1, k) => chain'[k] = "open")
    BY <1>1, <1>4, <2>1, <2>2, <2>4, <2>5 DEF Reaches, IsSpawn
  <2>. QED BY <1>0, <2>1, <2>2, <2>3, <2>6, TakeReaches
<1>. QED BY <1>7, <1>8

\* Every step keeps HookInv.
LEMMA HookStep == HookInv /\ [RoutingNext]_routing_vars => HookInv'
<1>. SUFFICES ASSUME HookInv, [RoutingNext]_routing_vars PROVE EndsKnown' /\ OwedReaches'
  BY CloseStep DEF HookInv
<1>t. RoutingTypeOK /\ CloseInv
  BY DEF HookInv, CloseInv
<1>0. history \in [owed : SUBSET (1 .. MaxHooks), ended : SUBSET Jobs] /\ bus \in Seq(BusEvent)
  BY <1>t DEF RoutingTypeOK
<1>1. ASSUME UNCHANGED <<bus, chain, log, history>> PROVE EndsKnown' /\ OwedReaches'
  BY <1>1 DEF HookInv, EndsKnown, OwedReaches, SealedIds, Reaches, IsEnd, IsSpawn
<1>2. ASSUME NEW j \in Jobs, OnSpawn(j) PROVE EndsKnown' /\ OwedReaches'
  <2>. DEFINE t == <<SpawnEvent(j)>>
  <2>1. t \in Seq(BusEvent) /\ bus' = bus \o t /\ \A i \in 1 .. Len(t) : t[i].kind = "agent.spawn"
    <3>1. SpawnEvent(j) \in BusEvent /\ SpawnEvent(j).kind = "agent.spawn"
      BY DEF SpawnEvent, BusEvent
    <3>2. bus' = Append(bus, SpawnEvent(j))
      BY <1>2 DEF OnSpawn
    <3>3. Append(bus, SpawnEvent(j)) = bus \o t
      BY <1>0, <3>1
    <3>. QED BY <3>1, <3>2, <3>3
  <2>. HIDE DEF t
  <2>2. UNCHANGED <<chain, log, history>>
    BY <1>2 DEF OnSpawn
  <2>. QED BY <2>1, <2>2, QueueOwed
<1>3. ASSUME NEW j \in Jobs, NEW kind \in {"tool", "stop"}, HookArrives(j, kind)
      PROVE  EndsKnown' /\ OwedReaches'
  BY <1>3, HookOwed
<1>4. ASSUME DrainJobEvents PROVE EndsKnown' /\ OwedReaches'
  <2>. DEFINE done == {job_events[i].job : i \in DOMAIN job_events}
  <2>1. /\ bus' = bus \o Completions /\ UNCHANGED <<chain, log>>
        /\ history' = [history EXCEPT !.ended = history.ended \union done]
    BY <1>4 DEF DrainJobEvents
  <2>2. DOMAIN job_events = 1 .. Len(job_events)
    BY <1>t DEF RoutingTypeOK
  <2>3. /\ Completions \in Seq(BusEvent)
        /\ \A i \in 1 .. Len(Completions) : Completions[i].job \in done
    BY <1>t, <2>2, CompletionsType
  <2>. HIDE DEF done
  <2>4. history'.ended = history.ended \union done /\ history'.owed = history.owed
    BY <1>0, <2>1
  <2>. QED BY <2>1, <2>3, <2>4, QueueOwed
<1>5. ASSUME DrainJournalEvents PROVE EndsKnown' /\ OwedReaches'
  <2>. DEFINE stops == {Passed[i].job : i \in {k \in DOMAIN Passed : Passed[k].kind = "stop"}}
  <2>1. /\ bus' = bus \o Rerouted /\ UNCHANGED <<chain, log>>
        /\ history' = [history EXCEPT !.ended = history.ended \union stops]
    BY <1>5 DEF DrainJournalEvents, Passed, Rerouted
  <2>2. ASSUME NEW i \in 1 .. Len(Rerouted), Rerouted[i].kind = "session_end"
        PROVE  Rerouted[i].job \in stops
    <3>1. i \in DOMAIN Passed /\ Passed[i] \in Envelope /\ Rerouted[i] = ConvertHook(Passed[i])
      BY <1>t, ReroutedType
    <3>2. Passed[i].kind = "stop" /\ Rerouted[i].job = Passed[i].job
      BY <2>2, <3>1, ConvertHookType
    <3>. QED BY <3>1, <3>2
  <2>3. Rerouted \in Seq(BusEvent)
    BY <1>t, ReroutedType
  <2>. HIDE DEF stops
  <2>4. history'.ended = history.ended \union stops /\ history'.owed = history.owed
    BY <1>0, <2>1
  <2>. QED BY <2>1, <2>2, <2>3, <2>4, QueueOwed
<1>6. ASSUME NEW j \in Jobs, StartEngine(j) PROVE EndsKnown' /\ OwedReaches'
  BY <1>1, <1>6 DEF StartEngine
<1>7. ASSUME NEW j \in Jobs, NEW code \in {0, 1}, ExitAgent(j, code)
      PROVE  EndsKnown' /\ OwedReaches'
  BY <1>1, <1>7 DEF ExitAgent
<1>8. ASSUME NEW j \in Jobs, WindowCloses(j) PROVE EndsKnown' /\ OwedReaches'
  BY <1>1, <1>8 DEF WindowCloses
<1>9. CASE ReadLine \/ Quit \/ UNCHANGED routing_vars
  BY <1>1, <1>9 DEF routing_vars, ReadLine, Quit
<1>. QED
  BY <1>2, <1>3, <1>4, <1>5, <1>6, <1>7, <1>8, <1>9, SpawnOwed, HookSealed, EndOwed
  DEF RoutingNext, Consume

\* A hook that reached the router after its job's genesis and before any end of that job
\* is in the job's chain or still on its way there, or was when the shell left, for any
\* jobs, hooks and drain order.
THEOREM LiveHooksAlwaysSealed == RoutingSpec => []LiveHooksSealed
<1>1. HookInv => LiveHooksSealed
  BY DEF HookInv, OwedReaches, LiveHooksSealed, InFlightIds
<1>. QED BY <1>1, HookStart, HookStep, PTL DEF RoutingSpec

=============================================================================
