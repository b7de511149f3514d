---------------------------- MODULE SealJobsProof ----------------------------
(***************************************************************************)
(* JobChainsSound and ReferencesSound for one process, any number of jobs, *)
(* restarts and records, and any refused appends and renames.              *)
(***************************************************************************)
EXTENDS SealJobs, TLAPS

\* What the file of a job chain owes its reader after these faults.
FileSound(c, fs) ==
    /\ LinkedFromGenesis(c)
    /\ fs["append"] = 0 /\ c # <<>> => c[1].ev = "agent.spawn"
    /\ fs["rename"] = 0 =>
          /\ \A i, k \in DOMAIN c : c[i].inst = c[k].inst
          /\ \A i \in DOMAIN c : c[i].ev \in TerminalEvents => i = Len(c)

FilesSound == \A c \in JobFiles : FileSound(c, faults)

\* A chain in memory is the file, under an id that was handed out, and is about the run
\* the process knows by that id.
HeldChains(p) ==
    \A j \in JobIds : mgr[p].jobs[j].held =>
        /\ j < mgr[p].next_id
        /\ mgr[p].jobs[j].records = file[j]
        /\ mgr[p].jobs[j].closed <=> IsTerminated(file[j])
        /\ mgr[p].run[j] \in 1 .. insts
        /\ file[j] = <<>> => faults["append"] > 0
        /\ faults["rename"] = 0 =>
              \A i \in DOMAIN file[j] : file[j][i].inst = mgr[p].run[j]

\* Two chains in memory are about two runs.
RunsApart(p) ==
    \A j, k \in JobIds :
        mgr[p].jobs[j].held /\ mgr[p].jobs[k].held /\ mgr[p].run[j] = mgr[p].run[k] => j = k

\* The project chain in memory is the file.
ProjectMirrored(p) == mgr[p].project.held => mgr[p].project.records = project

\* A run that was referenced is over.
ReferencedOver(p) ==
    \A i \in References :
        /\ project[i].inst \in 1 .. insts
        /\ \A j \in JobIds : mgr[p].jobs[j].held => mgr[p].run[j] # project[i].inst

SoleInv(p) ==
    /\ TypeOK /\ FilesSound /\ HeldChains(p) /\ RunsApart(p)
    /\ ProjectMirrored(p) /\ LinkedFromGenesis(project)
    /\ ReferencedOver(p) /\ ReferencePinsTerminal /\ ReferencedOnce

-----------------------------------------------------------------------------
(* Records and sequences of records *)

\* The records the consumer builds for a job.
LEMMA Built ==
    ASSUME NEW i \in Nat, NEW h \in Nat, NEW e \in JobEvents
    PROVE  /\ JobRecord(e, i, h + 1) \in Record
           /\ JobRecord(e, i, h + 1).ev = e /\ JobRecord(e, i, h + 1).inst = i
  BY DEF JobRecord, Record

\* The tip of a chain is a digest.
LEMMA TipType ==
    ASSUME NEW s \in Seq(Record)
    PROVE  Tip(s) \in Nat /\ (s # <<>> => Len(s) \in DOMAIN s /\ s[Len(s)] \in Record)
<1>1. s # <<>> => Len(s) \in DOMAIN s /\ s[Len(s)] \in Record
  OBVIOUS
<1> QED BY <1>1 DEF Tip, Record

\* Linking changes prev and nothing else.
LEMMA LinkedRecord ==
    ASSUME NEW c, c.records \in Seq(Record), NEW r \in Record
    PROVE  /\ Linked(c, r) \in Record
           /\ Linked(c, r).prev = Tip(c.records) /\ Linked(c, r).ev = r.ev
           /\ Linked(c, r).inst = r.inst /\ Linked(c, r).hash = r.hash
           /\ Linked(c, r).tip = r.tip
<1>1. Tip(c.records) \in Nat
  BY TipType
<1> DEFINE t == Tip(c.records)
<1> HIDE DEF t
<1>2. [r EXCEPT !.prev = t] \in Record
  BY <1>1, Zenon DEF t, Record
<1>3. /\ [r EXCEPT !.prev = t].prev = t /\ [r EXCEPT !.prev = t].ev = r.ev
      /\ [r EXCEPT !.prev = t].inst = r.inst /\ [r EXCEPT !.prev = t].hash = r.hash
      /\ [r EXCEPT !.prev = t].tip = r.tip
  BY DEF Record
<1> QED BY <1>2, <1>3 DEF Linked, t

\* A sequence with one more record.
LEMMA Longer ==
    ASSUME NEW s \in Seq(Record), NEW x \in Record
    PROVE  LET t == Append(s, x) IN
           /\ t \in Seq(Record) /\ t # <<>> /\ Len(t) = Len(s) + 1 /\ t[Len(t)] = x
           /\ DOMAIN s = 1 .. Len(s) /\ DOMAIN t = 1 .. Len(s) + 1 /\ Len(s) \in Nat
           /\ \A i \in DOMAIN s : i \in DOMAIN t /\ t[i] = s[i]
           /\ \A i \in DOMAIN t : i \in DOMAIN s \/ i = Len(s) + 1
           /\ (s = <<>> <=> Len(s) = 0)
  OBVIOUS

\* It is linked when it was and the record points to its tip.
LEMMA LinkedLonger ==
    ASSUME NEW s \in Seq(Record), NEW x \in Record, LinkedFromGenesis(s), x.prev = Tip(s)
    PROVE  LinkedFromGenesis(Append(s, x))
<1> DEFINE t == Append(s, x)
           n == Len(s)
<1>1. /\ DOMAIN s = 1 .. n /\ DOMAIN t = 1 .. n + 1 /\ n \in Nat /\ t[n + 1] = x
      /\ \A i \in 1 .. n : t[i] = s[i]
      /\ \A i \in DOMAIN t : i \in 1 .. n \/ i = n + 1
      /\ (s = <<>> <=> n = 0)
  BY Longer
<1>2. t[n + 1].prev = IF n + 1 = 1 THEN 0 ELSE t[n + 1 - 1].hash
  <2>1. CASE n = 0
    BY <1>1, <2>1 DEF Tip
  <2>2. CASE n # 0
    <3>1. n \in 1 .. n /\ n + 1 - 1 = n /\ n + 1 # 1 /\ s # <<>>
      BY <1>1, <2>2
    <3>2. t[n] = s[n] /\ x.prev = s[n].hash
      BY <1>1, <3>1 DEF Tip
    <3> HIDE DEF t, n
    <3> QED BY <1>1, <3>1, <3>2
  <2> QED BY <2>1, <2>2
<1>3. \A i \in 1 .. n : t[i].prev = IF i = 1 THEN 0 ELSE t[i - 1].hash
  <2>1. \A i \in 1 .. n : i # 1 => i - 1 \in 1 .. n
    BY <1>1
  <2> HIDE DEF t, n
  <2>2. \A i \in 1 .. n : s[i].prev = IF i = 1 THEN 0 ELSE s[i - 1].hash
    BY <1>1 DEF LinkedFromGenesis
  <2> QED BY <1>1, <2>1, <2>2
<1> HIDE DEF t, n
<1>5. LinkedFromGenesis(t)
  BY <1>1, <1>2, <1>3 DEF LinkedFromGenesis
<1> QED BY <1>5 DEF t

\* The parts of a manager.
LEMMA Parts ==
    ASSUME TypeOK, NEW p \in Procs
    PROVE  /\ mgr[p] \in ManagerType
           /\ mgr[p].jobs \in [JobIds -> ChainType] /\ mgr[p].run \in [JobIds -> Nat]
           /\ mgr[p].next_id \in 1 .. MaxJob + 1 /\ mgr[p].project \in ChainType
           /\ mgr[p].project.records \in Seq(Record)
           /\ \A j \in JobIds : /\ mgr[p].jobs[j] \in ChainType
                                /\ mgr[p].jobs[j].records \in Seq(Record)
                                /\ mgr[p].jobs[j].held \in BOOLEAN
                                /\ mgr[p].jobs[j].closed \in BOOLEAN
                                /\ mgr[p].run[j] \in Nat /\ file[j] \in Seq(Record)
<1>1. mgr[p] \in ManagerType
  BY DEF TypeOK
<1>2. /\ mgr[p].jobs \in [JobIds -> ChainType] /\ mgr[p].run \in [JobIds -> Nat]
      /\ mgr[p].next_id \in 1 .. MaxJob + 1 /\ mgr[p].project \in ChainType
  BY <1>1 DEF ManagerType
<1>3. \A c \in ChainType : c.records \in Seq(Record) /\ c.held \in BOOLEAN /\ c.closed \in BOOLEAN
  BY DEF ChainType
<1> QED BY <1>1, <1>2, <1>3 DEF TypeOK

\* Chains as they are loaded and pushed to.
LEMMA Chains ==
    /\ NoChain \in ChainType /\ ~NoChain.held
    /\ \A s \in Seq(Record) :
          /\ LoadChain(s) \in ChainType /\ LoadChain(s).held /\ LoadChain(s).records = s
          /\ LoadChain(s).closed <=> IsTerminated(s)
    /\ \A c \in ChainType, r \in Record :
          /\ Pushed(c, r) \in ChainType /\ Pushed(c, r).held
          /\ Pushed(c, r).records = Append(c.records, Linked(c, r))
          /\ Pushed(c, r).closed <=> c.closed \/ r.ev \in TerminalEvents
<1>1. NoChain \in ChainType /\ ~NoChain.held
  BY DEF NoChain, ChainType
<1>2. ASSUME NEW s \in Seq(Record)
      PROVE  /\ LoadChain(s) \in ChainType /\ LoadChain(s).held /\ LoadChain(s).records = s
             /\ LoadChain(s).closed <=> IsTerminated(s)
  <2>1. IsTerminated(s) \in BOOLEAN
    BY DEF IsTerminated
  <2> QED BY <2>1 DEF LoadChain, ChainType
<1>3. ASSUME NEW c \in ChainType, NEW r \in Record
      PROVE  /\ Pushed(c, r) \in ChainType /\ Pushed(c, r).held
             /\ Pushed(c, r).records = Append(c.records, Linked(c, r))
             /\ Pushed(c, r).closed <=> c.closed \/ r.ev \in TerminalEvents
  <2>1. c.records \in Seq(Record) /\ c.closed \in BOOLEAN
    BY DEF ChainType
  <2>2. Linked(c, r) \in Record
    BY <2>1, LinkedRecord
  <2>3. Append(c.records, Linked(c, r)) \in Seq(Record)
    BY <2>1, <2>2
  <2>4. (c.closed \/ r.ev \in TerminalEvents) \in BOOLEAN
    OBVIOUS
  <2> QED BY <2>3, <2>4 DEF Pushed, ChainType
<1> QED BY <1>1, <1>2, <1>3

-----------------------------------------------------------------------------
(* What the steps have in common *)

FaultsGrow ==
    /\ faults' \in [FaultKinds -> Nat]
    /\ faults'["append"] = 0 => faults["append"] = 0
    /\ faults'["rename"] = 0 => faults["rename"] = 0
    /\ faults["append"] > 0 => faults'["append"] > 0

\* Faults are counted and never forgotten.
LEMMA Faulty ==
    ASSUME TypeOK
    PROVE  /\ faults' = faults => FaultsGrow
           /\ Fault("append") => FaultsGrow /\ faults'["append"] > 0
           /\ Fault("rename") => FaultsGrow /\ faults'["rename"] > 0
  BY DEF TypeOK, Fault, FaultsGrow, FaultKinds

\* A sound file stays sound when a record is linked to it that is about the same run,
\* unless the chain is closed or lost its first record.
LEMMA SoundLonger ==
    ASSUME TypeOK, NEW s \in Seq(Record), NEW x \in Record, FileSound(s, faults), FaultsGrow,
           x.prev = Tip(s), s # <<>> => ~IsTerminated(s),
           s = <<>> => x.ev = "agent.spawn" \/ faults'["append"] > 0,
           faults'["rename"] = 0 => \A i \in DOMAIN s : s[i].inst = x.inst
    PROVE  FileSound(Append(s, x), faults')
<1> DEFINE t == Append(s, x)
           n == Len(s)
<1>1. /\ t \in Seq(Record) /\ t # <<>> /\ Len(t) = n + 1 /\ t[n + 1] = x
      /\ DOMAIN s = 1 .. n /\ DOMAIN t = 1 .. n + 1 /\ n \in Nat
      /\ \A i \in DOMAIN s : i \in DOMAIN t /\ t[i] = s[i]
      /\ \A i \in DOMAIN t : i \in DOMAIN s \/ i = n + 1
      /\ (s = <<>> <=> n = 0)
  BY Longer
<1>2. LinkedFromGenesis(t)
  BY LinkedLonger DEF FileSound
<1> HIDE DEF t, n
<1>3. faults'["append"] = 0 => t[1].ev = "agent.spawn"
  <2> SUFFICES ASSUME faults'["append"] = 0 PROVE t[1].ev = "agent.spawn"
    OBVIOUS
  <2>1. CASE s = <<>>
    BY <1>1, <2>1
  <2>2. CASE s # <<>>
    <3>1. 1 \in DOMAIN s
      BY <1>1, <2>2
    <3> QED BY <1>1, <2>2, <3>1 DEF FileSound, FaultsGrow
  <2> QED BY <2>1, <2>2
<1>4. faults'["rename"] = 0 => \A i, k \in DOMAIN t : t[i].inst = t[k].inst
  BY <1>1
<1>5. ASSUME faults'["rename"] = 0, NEW i \in DOMAIN t, t[i].ev \in TerminalEvents
      PROVE  i = n + 1
  <2>1. i \in DOMAIN s => s # <<>> /\ i = Len(s) /\ s[Len(s)].ev \in TerminalEvents
    BY <1>1, <1>5 DEF FileSound, FaultsGrow
  <2>2. i \in DOMAIN s => IsTerminated(s)
    BY <2>1 DEF IsTerminated
  <2> QED BY <1>1, <2>1, <2>2
<1>6. /\ faults'["append"] = 0 /\ t # <<>> => t[1].ev = "agent.spawn"
      /\ faults'["rename"] = 0 =>
            /\ \A i, k \in DOMAIN t : t[i].inst = t[k].inst
            /\ \A i \in DOMAIN t : t[i].ev \in TerminalEvents => i = Len(t)
  BY <1>1, <1>3, <1>4, <1>5
<1> QED BY <1>2, <1>6 DEF FileSound, t

\* Files that were there, and a sound one.
LEMMA FilesStep ==
    ASSUME FilesSound, FaultsGrow, NEW c, FileSound(c, faults'),
               JobFiles' \subseteq JobFiles \union {c}
    PROVE  FilesSound'
<1>1. \A f \in JobFiles : FileSound(f, faults')
  BY DEF FilesSound, FileSound, FaultsGrow
<1> QED BY <1>1 DEF FilesSound

\* The empty file is sound.
LEMMA EmptySound == FileSound(<<>>, faults) /\ FileSound(<<>>, faults')
  BY DEF FileSound, LinkedFromGenesis

\* How the files change when one of them does.
LEMMA FileChange ==
    ASSUME TypeOK, NEW j \in JobIds, NEW f \in Seq(Record), file' = [file EXCEPT ![j] = f],
           archive' = archive \/ archive' = archive \union {file[j]}
    PROVE  /\ \A k \in JobIds : file'[k] = IF k = j THEN f ELSE file[k]
           /\ file' \in [JobIds -> Seq(Record)] /\ archive' \subseteq Seq(Record)
           /\ JobFiles' \subseteq JobFiles \union {f}
           /\ f \in JobFiles'
           /\ \A c \in JobFiles : c # file[j] => c \in JobFiles'
           /\ archive' = archive \union {file[j]} => file[j] \in JobFiles'
<1>1. /\ \A k \in JobIds : file'[k] = IF k = j THEN f ELSE file[k]
      /\ file' \in [JobIds -> Seq(Record)] /\ archive' \subseteq Seq(Record)
  BY DEF TypeOK
<1> QED BY <1>1 DEF JobFiles

\* How the manager changes.
LEMMA ManagerChange ==
    ASSUME NEW p, Procs = {p}, TypeOK, NEW m \in ManagerType, mgr' = [mgr EXCEPT ![p] = m]
    PROVE  mgr' \in [Procs -> ManagerType] /\ mgr'[p] = m
  BY DEF TypeOK

\* References stay pinned when terminated files stay, and nothing is referred to anew.
LEMMA PinsStay ==
    ASSUME ReferencePinsTerminal, FaultsGrow, project' = project,
           faults'["rename"] = 0 => \A c \in JobFiles : IsTerminated(c) => c \in JobFiles'
    PROVE  ReferencePinsTerminal'
<1> SUFFICES ASSUME faults'["rename"] = 0, NEW i \in References'
             PROVE  \E c \in JobFiles' : /\ IsTerminated(c)
                                         /\ c[Len(c)].hash = project'[i].tip
                                         /\ c[Len(c)].inst = project'[i].inst
  BY DEF ReferencePinsTerminal, IsTerminated, TerminalEvents
<1>1. i \in References /\ faults["rename"] = 0
  BY DEF References, FaultsGrow
<1> QED BY <1>1 DEF ReferencePinsTerminal

-----------------------------------------------------------------------------
(* One lemma per action *)

LEMMA SpawnStep ==
    ASSUME NEW p, Procs = {p}, SoleInv(p), NEW renamed \in BOOLEAN, NEW sealed \in BOOLEAN,
           RouteSpawn(p, renamed, sealed)
    PROVE  SoleInv(p)'
<1> DEFINE j     == mgr[p].next_id
           s     == ArchiveStaleChain(file[j], renamed)
           chain == LoadChain(s)
           r     == JobRecord("agent.spawn", insts + 1, minted + 1)
           writes == sealed /\ Accepts(chain)
           x     == Linked(chain, r)
           f     == IF writes THEN Append(s, x) ELSE s
           h     == IF writes THEN Pushed(chain, r) ELSE chain
           J     == [mgr[p].jobs EXCEPT ![j] = h]
           R     == [mgr[p].run EXCEPT ![j] = insts + 1]
           m     == [mgr[p] EXCEPT !.jobs = J, !.run = R, !.next_id = j + 1]
<1>0. TypeOK /\ FilesSound /\ HeldChains(p) /\ minted \in Nat /\ insts \in Nat /\ p \in Procs
  BY DEF SoleInv, TypeOK
<1>1. j \in JobIds /\ j \in Nat /\ j + 1 \in 1 .. MaxJob + 1 /\ file[j] \in Seq(Record)
  <2>1. j <= MaxJob
    BY DEF RouteSpawn
  <2>2. j \in 1 .. MaxJob + 1 /\ MaxJob \in Nat
    BY <1>0, Parts, JobsConstants
  <2> HIDE DEF j
  <2>3. j \in JobIds /\ j \in Nat /\ j + 1 \in 1 .. MaxJob + 1
    BY <2>1, <2>2 DEF JobIds
  <2> QED BY <1>0, <2>3, Parts
<1>2. ~mgr[p].jobs[j].held
  BY <1>0, <1>1 DEF HeldChains
<1>3. /\ mgr' = [mgr EXCEPT ![p] = m]
      /\ file' = [file EXCEPT ![j] = f]
      /\ archive' = IF file[j] # <<>> /\ renamed THEN archive \union {file[j]} ELSE archive
      /\ insts' = insts + 1 /\ minted' = minted + 1 /\ UNCHANGED <<project, restarts>>
      /\ \/ renamed /\ sealed /\ faults' = faults
         \/ ~renamed /\ sealed /\ Fault("rename")
         \/ renamed /\ ~sealed /\ Fault("append")
  BY <1>2 DEF RouteSpawn
<1>4. /\ FaultsGrow
      /\ ~sealed => faults'["append"] > 0
      /\ ~renamed => faults'["rename"] > 0
      /\ ~renamed => sealed
  BY <1>0, <1>3, Faulty
<1>5. s \in Seq(Record) /\ (s = <<>> \/ s = file[j]) /\ (renamed => s = <<>>)
  BY <1>1 DEF ArchiveStaleChain
<1>6. r \in Record /\ r.ev = "agent.spawn" /\ r.inst = insts + 1
  <2>1. insts + 1 \in Nat /\ minted \in Nat
    BY <1>0
  <2>2. "agent.spawn" \in JobEvents
    BY DEF JobEvents
  <2> QED BY <2>1, <2>2, Built
<1> HIDE DEF s, r
<1>7. chain \in ChainType /\ chain.held /\ chain.records = s /\ (chain.closed <=> IsTerminated(s))
  BY <1>5, Chains
<1> HIDE DEF chain
<1>8. /\ x \in Record /\ x.prev = Tip(s) /\ x.ev = "agent.spawn" /\ x.inst = insts + 1
      /\ Pushed(chain, r) \in ChainType /\ Pushed(chain, r).held
      /\ Pushed(chain, r).records = Append(s, x)
      /\ Pushed(chain, r).closed <=> IsTerminated(s)
  <2>1. x \in Record /\ x.prev = Tip(s) /\ x.ev = "agent.spawn" /\ x.inst = insts + 1
    BY <1>5, <1>6, <1>7, LinkedRecord
  <2>2. /\ Pushed(chain, r) \in ChainType /\ Pushed(chain, r).held
        /\ Pushed(chain, r).records = Append(s, x)
    BY <1>6, <1>7, Chains
  <2>3. Pushed(chain, r).closed <=> chain.closed \/ r.ev \in TerminalEvents
    BY <1>6, <1>7, Chains
  <2>4. r.ev \notin TerminalEvents
    BY <1>6 DEF TerminalEvents
  <2> QED BY <1>7, <2>1, <2>2, <2>3, <2>4
<1> HIDE DEF x
<1>9. writes <=> sealed /\ ~IsTerminated(s)
  BY <1>7 DEF Accepts
<1> HIDE DEF writes
<1>10. f \in Seq(Record) /\ h \in ChainType /\ h.held /\ h.records = f
  <2>1. Append(s, x) \in Seq(Record)
    BY <1>5, <1>8, Longer
  <2>2. CASE writes
    BY <1>8, <2>1, <2>2
  <2>3. CASE ~writes
    BY <1>5, <1>7, <2>3
  <2> QED BY <2>2, <2>3
<1>11. h.closed <=> IsTerminated(f)
  <2>1. CASE writes
    <3>1. f # <<>> /\ f[Len(f)] = x
      BY <1>5, <1>8, <2>1, Longer
    <3> QED BY <1>8, <1>9, <2>1, <3>1 DEF IsTerminated, TerminalEvents
  <2>2. CASE ~writes
    BY <1>7, <2>2
  <2> QED BY <2>1, <2>2
<1>12. f = <<>> => faults'["append"] > 0
  <2>1. s = <<>> => ~IsTerminated(s)
    BY DEF IsTerminated
  <2>2. writes => f # <<>>
    BY <1>5, <1>8, Longer
  <2> QED BY <1>4, <1>9, <2>1, <2>2
<1>13. faults'["rename"] = 0 => \A i \in DOMAIN f : f[i].inst = insts + 1
  <2> SUFFICES ASSUME faults'["rename"] = 0, NEW i \in DOMAIN f PROVE f[i].inst = insts + 1
    OBVIOUS
  <2>1. s = <<>>
    BY <1>4, <1>5
  <2>2. writes /\ f = Append(s, x)
    BY <2>1
  <2>3. f[i] = x
    BY <1>8, <2>1, <2>2
  <2> QED BY <1>8, <2>3
<1>14. FileSound(f, faults')
  <2>1. FileSound(s, faults)
    <3>1. FileSound(file[j], faults)
      BY <1>0, <1>1 DEF FilesSound, JobFiles
    <3> QED BY <1>5, <3>1, EmptySound
  <2>2. CASE writes
    <3>1. faults'["rename"] = 0 => \A i \in DOMAIN s : s[i].inst = x.inst
      BY <1>4, <1>5
    <3>2. FileSound(Append(s, x), faults')
      BY <1>0, <1>4, <1>5, <1>8, <1>9, <2>1, <2>2, <3>1, SoundLonger
    <3> QED BY <2>2, <3>2
  <2>3. CASE ~writes
    BY <1>4, <2>1, <2>3 DEF FileSound, FaultsGrow
  <2> QED BY <2>2, <2>3
<1> HIDE DEF f, h
<1>15. /\ \A k \in JobIds : file'[k] = IF k = j THEN f ELSE file[k]
       /\ file' \in [JobIds -> Seq(Record)] /\ archive' \subseteq Seq(Record)
       /\ JobFiles' \subseteq JobFiles \union {f}
       /\ \A c \in JobFiles : c # file[j] => c \in JobFiles'
       /\ archive' = archive \union {file[j]} => file[j] \in JobFiles'
  BY <1>0, <1>1, <1>3, <1>10, FileChange
<1>16. FilesSound'
  BY <1>0, <1>4, <1>14, <1>15, FilesStep
<1>17. J \in [JobIds -> ChainType] /\ \A k \in JobIds : J[k] = IF k = j THEN h ELSE mgr[p].jobs[k]
  BY <1>0, <1>1, <1>10, Parts
<1>18. R \in [JobIds -> Nat] /\ \A k \in JobIds : R[k] = IF k = j THEN insts + 1 ELSE mgr[p].run[k]
  BY <1>0, <1>1, Parts
<1> HIDE DEF J, R
<1>19. mgr[p] \in ManagerType
  BY <1>0, Parts
<1>20. m \in ManagerType
  BY <1>1, <1>17, <1>18, <1>19 DEF ManagerType
<1>21. m.jobs = J /\ m.run = R /\ m.next_id = j + 1 /\ m.project = mgr[p].project
  BY <1>19 DEF ManagerType
<1> HIDE DEF m
<1>22. mgr' \in [Procs -> ManagerType] /\ mgr'[p] = m
  BY <1>0, <1>3, <1>20, ManagerChange
<1>23. TypeOK'
  BY <1>0, <1>3, <1>4, <1>15, <1>22 DEF TypeOK, FaultsGrow
<1>24. HeldChains(p)'
  <2> SUFFICES ASSUME NEW k \in JobIds, J[k].held
               PROVE  /\ k < j + 1
                      /\ J[k].records = file'[k]
                      /\ J[k].closed <=> IsTerminated(file'[k])
                      /\ R[k] \in 1 .. insts + 1
                      /\ file'[k] = <<>> => faults'["append"] > 0
                      /\ faults'["rename"] = 0 => \A i \in DOMAIN file'[k] : file'[k][i].inst = R[k]
    BY <1>3, <1>21, <1>22 DEF HeldChains, IsTerminated, TerminalEvents
  <2>1. CASE k = j
    BY <1>0, <1>1, <1>10, <1>11, <1>12, <1>13, <1>15, <1>17, <1>18, <2>1
  <2>2. CASE k # j
    <3>1. /\ k < j /\ J[k].records = file[k]
          /\ J[k].closed <=> IsTerminated(file[k])
          /\ R[k] \in 1 .. insts /\ (file[k] = <<>> => faults["append"] > 0)
          /\ faults["rename"] = 0 => \A i \in DOMAIN file[k] : file[k][i].inst = R[k]
      BY <1>0, <1>17, <1>18, <2>2 DEF HeldChains
    <3>2. k \in Nat
      BY DEF JobIds
    <3>3. k < j + 1 /\ R[k] \in 1 .. insts + 1
      <4> HIDE DEF j
      <4> QED BY <1>0, <1>1, <3>1, <3>2
    <3>4. file'[k] = file[k]
      BY <1>15, <2>2
    <3> HIDE DEF j
    <3> QED BY <1>4, <3>1, <3>3, <3>4 DEF FaultsGrow
  <2> QED BY <2>1, <2>2
<1>25. RunsApart(p)'
  <2>1. \A k \in JobIds : k # j /\ J[k].held => R[k] \in 1 .. insts
    BY <1>0, <1>17, <1>18 DEF HeldChains
  <2>2. \A k \in JobIds : k # j /\ J[k].held => R[k] # R[j]
    BY <1>0, <1>1, <1>18, <2>1
  <2>3. \A k, l \in JobIds : J[k].held /\ J[l].held /\ R[k] = R[l] => k = l
    BY <1>17, <1>18, <2>2 DEF SoleInv, RunsApart
  <2> QED BY <1>21, <1>22, <2>3 DEF RunsApart
<1>26. ProjectMirrored(p)' /\ LinkedFromGenesis(project)' /\ ReferencedOnce'
  BY <1>3, <1>21, <1>22 DEF SoleInv, ProjectMirrored, LinkedFromGenesis, ReferencedOnce, References
<1>27. ReferencedOver(p)'
  <2> SUFFICES ASSUME NEW i \in References
               PROVE  /\ project[i].inst \in 1 .. insts + 1
                      /\ \A k \in JobIds : J[k].held => R[k] # project[i].inst
    BY <1>3, <1>21, <1>22 DEF ReferencedOver, References
  <2>1. project[i].inst \in 1 .. insts
        /\ \A k \in JobIds : mgr[p].jobs[k].held => mgr[p].run[k] # project[i].inst
    BY DEF SoleInv, ReferencedOver
  <2> QED BY <1>0, <1>17, <1>18, <2>1
<1>28. ReferencePinsTerminal'
  <2>1. faults'["rename"] = 0 => \A c \in JobFiles : IsTerminated(c) => c \in JobFiles'
    BY <1>3, <1>4, <1>15 DEF IsTerminated
  <2> QED BY <1>3, <1>4, <2>1, PinsStay DEF SoleInv
<1> QED
  BY <1>16, <1>23, <1>24, <1>25, <1>26, <1>27, <1>28 DEF SoleInv

\* The chain of a job that accepts events, and a record of its run put at its end.
LEMMA AcceptedLonger ==
    ASSUME NEW p, Procs = {p}, SoleInv(p), NEW j \in JobIds, Accepts(mgr[p].jobs[j]), FaultsGrow,
           NEW r \in Record, r.inst = mgr[p].run[j], r.ev # "agent.spawn"
    PROVE  LET chain == mgr[p].jobs[j]
               x     == Linked(chain, r)
           IN  /\ x \in Record /\ x.ev = r.ev /\ x.inst = r.inst /\ x.hash = r.hash
               /\ chain.records = file[j] /\ ~IsTerminated(file[j])
               /\ Append(file[j], x) \in Seq(Record) /\ Append(file[j], x) # file[j]
               /\ Append(file[j], x) # <<>>
               /\ FileSound(Append(file[j], x), faults')
               /\ IsTerminated(Append(file[j], x)) <=> r.ev \in TerminalEvents
               /\ Tip(Append(file[j], x)) = r.hash
               /\ Append(file[j], x)[Len(Append(file[j], x))] = x
               /\ faults["rename"] = 0 =>
                     \A i \in DOMAIN Append(file[j], x) : Append(file[j], x)[i].inst = mgr[p].run[j]
<1> DEFINE chain == mgr[p].jobs[j]
           x     == Linked(chain, r)
           s     == file[j]
           t     == Append(s, x)
<1>0. TypeOK /\ HeldChains(p) /\ FilesSound /\ s \in Seq(Record)
  BY Parts DEF SoleInv
<1>1. /\ chain.records = s /\ ~IsTerminated(s)
      /\ (s = <<>> => faults["append"] > 0)
      /\ faults["rename"] = 0 => \A i \in DOMAIN s : s[i].inst = r.inst
  BY <1>0 DEF Accepts, HeldChains
<1>2. x \in Record /\ x.prev = Tip(s) /\ x.ev = r.ev /\ x.inst = r.inst /\ x.hash = r.hash
  BY <1>0, <1>1, LinkedRecord
<1>3. FileSound(s, faults)
  BY <1>0 DEF FilesSound, JobFiles
<1> HIDE DEF chain, s, x
<1>4. FileSound(t, faults')
  BY <1>0, <1>1, <1>2, <1>3, SoundLonger DEF FaultsGrow
<1>5. /\ t \in Seq(Record) /\ t # <<>> /\ Len(t) = Len(s) + 1 /\ t[Len(t)] = x /\ Len(s) \in Nat
      /\ \A i \in DOMAIN s : i \in DOMAIN t /\ t[i] = s[i]
      /\ \A i \in DOMAIN t : i \in DOMAIN s \/ i = Len(s) + 1
  BY <1>0, <1>2, Longer
<1> HIDE DEF t
<1>6. t # s
  BY <1>5
<1>7. (IsTerminated(t) <=> r.ev \in TerminalEvents) /\ Tip(t) = r.hash
  BY <1>2, <1>5 DEF IsTerminated, Tip
<1>8. faults["rename"] = 0 => \A i \in DOMAIN t : t[i].inst = r.inst
  BY <1>1, <1>2, <1>5
<1> QED BY <1>1, <1>2, <1>4, <1>5, <1>6, <1>7, <1>8 DEF t, s, x, chain

LEMMA JobEventStep ==
    ASSUME NEW p, Procs = {p}, SoleInv(p), NEW j \in JobIds, NEW sealed \in BOOLEAN,
           RouteJobEvent(p, j, sealed)
    PROVE  SoleInv(p)'
<1> DEFINE chain == mgr[p].jobs[j]
           r     == JobRecord("hook", mgr[p].run[j], minted + 1)
           x     == Linked(chain, r)
           f     == Append(file[j], x)
           h     == Pushed(chain, r)
           J     == [mgr[p].jobs EXCEPT ![j] = h]
           m     == [mgr[p] EXCEPT !.jobs = J]
<1>0. /\ TypeOK /\ FilesSound /\ HeldChains(p) /\ minted \in Nat /\ insts \in Nat /\ p \in Procs
      /\ mgr[p].run[j] \in Nat /\ chain \in ChainType /\ mgr[p] \in ManagerType
  BY Parts DEF SoleInv, TypeOK
<1>1. /\ Accepts(chain) /\ minted' = minted + 1 /\ UNCHANGED <<archive, project, insts, restarts>>
      /\ \/ sealed /\ faults' = faults /\ file' = [file EXCEPT ![j] = f]
            /\ mgr' = [mgr EXCEPT ![p] = m]
         \/ ~sealed /\ Fault("append") /\ UNCHANGED <<file, mgr>>
  BY DEF RouteJobEvent
<1>2. FaultsGrow
  BY <1>0, <1>1, Faulty
<1>3. CASE ~sealed
  <2>1. UNCHANGED <<file, mgr, archive, project, insts, restarts>>
    BY <1>1, <1>3
  <2>2. TypeOK'
    BY <1>0, <1>1, <1>2, <2>1 DEF TypeOK, FaultsGrow
  <2>3. FilesSound'
    <3>1. JobFiles' = JobFiles
      BY <2>1 DEF JobFiles
    <3> QED BY <1>0, <1>2, <3>1, EmptySound, FilesStep
  <2>4. HeldChains(p)'
    BY <1>0, <1>2, <2>1 DEF HeldChains, FaultsGrow, IsTerminated
  <2>5. ReferencePinsTerminal'
    BY <1>2, <2>1, PinsStay DEF SoleInv, JobFiles
  <2> QED BY <2>1, <2>2, <2>3, <2>4, <2>5 DEF SoleInv, RunsApart, ProjectMirrored,
             LinkedFromGenesis, ReferencedOver, References, ReferencedOnce
<1>4. CASE sealed
  <2>1. r \in Record /\ r.ev = "hook" /\ r.inst = mgr[p].run[j]
    <3>1. mgr[p].run[j] \in Nat /\ minted \in Nat
      BY <1>0
    <3>2. "hook" \in JobEvents
      BY DEF JobEvents
    <3> QED BY <3>1, <3>2, Built
  <2>2. "hook" \notin TerminalEvents
    BY DEF TerminalEvents
  <2> HIDE DEF r
  <2>3. /\ x \in Record /\ chain.records = file[j] /\ ~IsTerminated(file[j])
        /\ f \in Seq(Record) /\ FileSound(f, faults') /\ ~IsTerminated(f) /\ f # <<>>
        /\ faults["rename"] = 0 => \A i \in DOMAIN f : f[i].inst = mgr[p].run[j]
    BY <1>1, <1>2, <2>1, <2>2, AcceptedLonger
  <2>4. h \in ChainType /\ h.held /\ h.records = f /\ ~h.closed
    <3>1. /\ h \in ChainType /\ h.held /\ h.records = Append(chain.records, x)
          /\ h.closed <=> chain.closed \/ r.ev \in TerminalEvents
      <4> HIDE DEF chain
      <4> QED BY <1>0, <2>1, Chains
    <3> QED BY <1>1, <2>1, <2>2, <2>3, <3>1 DEF Accepts
  <2>5. faults' = faults /\ file' = [file EXCEPT ![j] = f] /\ mgr' = [mgr EXCEPT ![p] = m]
    BY <1>1, <1>4
  <2> HIDE DEF f, h
  <2>6. /\ \A k \in JobIds : file'[k] = IF k = j THEN f ELSE file[k]
        /\ file' \in [JobIds -> Seq(Record)] /\ archive' \subseteq Seq(Record)
        /\ JobFiles' \subseteq JobFiles \union {f}
        /\ \A c \in JobFiles : c # file[j] => c \in JobFiles'
    BY <1>0, <1>1, <2>3, <2>5, FileChange
  <2>7. J \in [JobIds -> ChainType] /\ \A k \in JobIds : J[k] = IF k = j THEN h ELSE mgr[p].jobs[k]
    BY <1>0, <2>4, Parts
  <2> HIDE DEF J
  <2>8. m \in ManagerType
    BY <1>0, <2>7, Zenon DEF ManagerType
  <2>9. /\ m.jobs = J /\ m.run = mgr[p].run /\ m.next_id = mgr[p].next_id
        /\ m.project = mgr[p].project
    BY <1>0 DEF ManagerType
  <2> HIDE DEF m
  <2>10. mgr' \in [Procs -> ManagerType] /\ mgr'[p] = m
    BY <1>0, <2>5, <2>8, ManagerChange
  <2>11. TypeOK'
    BY <1>0, <1>1, <1>2, <2>6, <2>10 DEF TypeOK, FaultsGrow
  <2>12. FilesSound'
    BY <1>0, <1>2, <2>3, <2>6, FilesStep
  <2>13. \A k \in JobIds : J[k].held => mgr[p].jobs[k].held
    BY <1>1, <2>7 DEF Accepts
  <2>14. HeldChains(p)'
    <3> SUFFICES ASSUME NEW k \in JobIds, J[k].held
                 PROVE  /\ k < mgr[p].next_id
                        /\ J[k].records = file'[k]
                        /\ J[k].closed <=> IsTerminated(file'[k])
                        /\ mgr[p].run[k] \in 1 .. insts
                        /\ file'[k] = <<>> => faults["append"] > 0
                        /\ faults["rename"] = 0 =>
                              \A i \in DOMAIN file'[k] : file'[k][i].inst = mgr[p].run[k]
      BY <1>1, <2>5, <2>9, <2>10 DEF HeldChains, IsTerminated, TerminalEvents
    <3>1. CASE k = j
      <4>1. J[k] = h /\ file'[k] = f
        BY <2>6, <2>7, <3>1
      <4>2. k < mgr[p].next_id /\ mgr[p].run[k] \in 1 .. insts
        BY <1>0, <2>13, <3>1 DEF HeldChains
      <4>3. J[k].closed <=> IsTerminated(file'[k])
        BY <2>3, <2>4, <4>1
      <4>4. /\ J[k].records = file'[k] /\ file'[k] # <<>>
            /\ faults["rename"] = 0 => \A i \in DOMAIN file'[k] : file'[k][i].inst = mgr[p].run[k]
        BY <2>3, <2>4, <3>1, <4>1
      <4> QED BY <4>2, <4>3, <4>4
    <3>2. CASE k # j
      <4>1. J[k] = mgr[p].jobs[k] /\ file'[k] = file[k]
        BY <2>6, <2>7, <3>2
      <4>2. mgr[p].jobs[k].held
        BY <2>13
      <4>3. HeldChains(p)
        BY <1>0
      <4>4. /\ k < mgr[p].next_id
            /\ mgr[p].jobs[k].records = file[k]
            /\ mgr[p].jobs[k].closed <=> IsTerminated(file[k])
            /\ mgr[p].run[k] \in 1 .. insts
            /\ file[k] = <<>> => faults["append"] > 0
            /\ faults["rename"] = 0 => \A i \in DOMAIN file[k] : file[k][i].inst = mgr[p].run[k]
        BY <4>2, <4>3 DEF HeldChains
      <4> QED BY <4>1, <4>4, Zenon
    <3> QED BY <3>1, <3>2
  <2>15. RunsApart(p)'
    BY <2>9, <2>10, <2>13 DEF SoleInv, RunsApart
  <2>16. ReferencedOver(p)'
    BY <1>1, <2>9, <2>10, <2>13 DEF SoleInv, ReferencedOver, References
  <2>17. ProjectMirrored(p)' /\ LinkedFromGenesis(project)' /\ ReferencedOnce'
    BY <1>1, <2>9, <2>10 DEF SoleInv, ProjectMirrored, LinkedFromGenesis, ReferencedOnce, References
  <2>18. ReferencePinsTerminal'
    BY <1>1, <1>2, <2>3, <2>6, PinsStay DEF SoleInv
  <2> QED BY <2>11, <2>12, <2>14, <2>15, <2>16, <2>17, <2>18 DEF SoleInv
<1> QED BY <1>3, <1>4

\* A record put at the end of the project chain.
LEMMA ProjectLonger ==
    ASSUME NEW p, Procs = {p}, SoleInv(p), NEW r \in Record, r.ev \in ProjectEvents
    PROVE  LET y == Linked(ProjectChain(p), r)
               t == Append(project, y)
           IN  /\ y \in Record /\ y.ev = r.ev /\ y.inst = r.inst /\ y.tip = r.tip
               /\ t \in Seq(Record) /\ LinkedFromGenesis(t)
               /\ Pushed(ProjectChain(p), r) \in ChainType
               /\ Pushed(ProjectChain(p), r).records = t
               /\ \A i \in DOMAIN t : \/ i = Len(project) + 1 /\ t[i] = y
                                      \/ i \in DOMAIN project /\ t[i] = project[i]
               /\ Len(project) + 1 \notin DOMAIN project
<1> DEFINE c == ProjectChain(p)
           y == Linked(c, r)
           t == Append(project, y)
<1>1. project \in Seq(Record) /\ mgr[p].project \in ChainType
          /\ mgr[p].project.records \in Seq(Record)
  BY Parts DEF SoleInv, TypeOK
<1>2. c \in ChainType /\ c.records = project
  BY <1>1, Chains DEF ProjectChain, SoleInv, ProjectMirrored
<1> HIDE DEF c
<1>3. /\ y \in Record /\ y.prev = Tip(project) /\ y.ev = r.ev /\ y.inst = r.inst
      /\ y.tip = r.tip
  BY <1>1, <1>2, LinkedRecord
<1>4. Pushed(c, r) \in ChainType /\ Pushed(c, r).records = t
  BY <1>2, Chains
<1> HIDE DEF y
<1>5. LinkedFromGenesis(t)
  BY <1>1, <1>3, LinkedLonger DEF SoleInv
<1>6. /\ t \in Seq(Record) /\ Len(t) = Len(project) + 1 /\ t[Len(t)] = y
      /\ DOMAIN project = 1 .. Len(project) /\ Len(project) \in Nat
      /\ \A i \in DOMAIN project : i \in DOMAIN t /\ t[i] = project[i]
      /\ \A i \in DOMAIN t : i \in DOMAIN project \/ i = Len(project) + 1
  BY <1>1, <1>3, Longer
<1>7. Len(project) + 1 \notin DOMAIN project
  BY <1>6
<1> QED BY <1>3, <1>4, <1>5, <1>6, <1>7 DEF y, c

LEMMA ProjectEventStep ==
    ASSUME NEW p, Procs = {p}, SoleInv(p), RouteProjectEvent(p)
    PROVE  SoleInv(p)'
<1> DEFINE r == JobRecord("rfc", 0, minted + 1)
           y == Linked(ProjectChain(p), r)
           t == Append(project, y)
           h == Pushed(ProjectChain(p), r)
           m == [mgr[p] EXCEPT !.project = h]
<1>0. TypeOK /\ minted \in Nat /\ p \in Procs /\ mgr[p] \in ManagerType
  BY Parts DEF SoleInv, TypeOK
<1>1. /\ minted' = minted + 1 /\ project' = t /\ mgr' = [mgr EXCEPT ![p] = m]
      /\ UNCHANGED <<file, archive, insts, faults, restarts>>
  BY DEF RouteProjectEvent
<1>2. r \in Record /\ r.ev = "rfc"
  BY <1>0 DEF JobRecord, Record, ProjectEvents
<1> HIDE DEF r
<1>3. /\ y.ev = "rfc" /\ t \in Seq(Record) /\ LinkedFromGenesis(t)
      /\ h \in ChainType /\ h.records = t
      /\ \A i \in DOMAIN t : \/ t[i] = y
                             \/ i \in DOMAIN project /\ t[i] = project[i]
  BY <1>2, ProjectLonger DEF ProjectEvents
<1> HIDE DEF y, t, h
<1>4. m \in ManagerType
  BY <1>0, <1>3, Zenon DEF ManagerType
<1>5. m.jobs = mgr[p].jobs /\ m.run = mgr[p].run /\ m.next_id = mgr[p].next_id /\ m.project = h
  BY <1>0 DEF ManagerType
<1> HIDE DEF m
<1>6. mgr' \in [Procs -> ManagerType] /\ mgr'[p] = m
  BY <1>0, <1>1, <1>4, ManagerChange
<1>7. TypeOK'
  BY <1>0, <1>1, <1>3, <1>6 DEF TypeOK
<1>8. \A i \in References' : i \in References /\ project'[i] = project[i]
  BY <1>1, <1>3 DEF References
<1>9. HeldChains(p)' /\ RunsApart(p)' /\ ReferencedOver(p)' /\ ReferencedOnce'
  BY <1>1, <1>5, <1>6, <1>8
     DEF SoleInv, HeldChains, RunsApart, ReferencedOver, ReferencedOnce, IsTerminated
<1>10. ProjectMirrored(p)' /\ LinkedFromGenesis(project)'
  BY <1>1, <1>3, <1>5, <1>6 DEF ProjectMirrored, LinkedFromGenesis
<1>11. FilesSound' /\ ReferencePinsTerminal'
  BY <1>1, <1>8 DEF SoleInv, FilesSound, JobFiles, ReferencePinsTerminal, IsTerminated
<1> QED BY <1>7, <1>9, <1>10, <1>11 DEF SoleInv

LEMMA RestartStep ==
    ASSUME NEW p, Procs = {p}, SoleInv(p), Restart(p)
    PROVE  SoleInv(p)'
<1>0. TypeOK /\ p \in Procs
  BY DEF SoleInv
<1>1. NewManager \in ManagerType /\ \A j \in JobIds : ~NewManager.jobs[j].held
  BY Chains, JobsConstants DEF NewManager, ManagerType
<1>2. ~NewManager.project.held
  BY Chains DEF NewManager
<1>3. mgr' \in [Procs -> ManagerType] /\ mgr'[p] = NewManager
  BY <1>0, <1>1, ManagerChange DEF Restart
<1>4. TypeOK'
  BY <1>0, <1>3 DEF TypeOK, Restart
<1> QED
  BY <1>1, <1>2, <1>3, <1>4 DEF SoleInv, Restart, FilesSound, JobFiles, HeldChains, RunsApart,
     ProjectMirrored, LinkedFromGenesis, ReferencedOver, References, ReferencePinsTerminal,
     ReferencedOnce, IsTerminated

LEMMA SessionEndStep ==
    ASSUME NEW p, Procs = {p}, SoleInv(p), NEW j \in JobIds, NEW code \in {0, 1},
           NEW linked \in BOOLEAN, NEW failed \in {"none", "job", "reference"},
           RouteSessionEnd(p, j, code, linked, failed)
    PROVE  SoleInv(p)'
<1> DEFINE chain == mgr[p].jobs[j]
           e     == IF code = 0 THEN "agent.complete" ELSE "agent.failed"
           r     == JobRecord(e, mgr[p].run[j], minted + 1)
           x     == Linked(chain, r)
           seals == Accepts(chain) /\ failed # "job"
           c     == IF seals THEN Pushed(chain, r) ELSE chain
           f     == IF c = chain THEN file[j] ELSE Append(file[j], x)
           q     == Reference(mgr[p].run[j], minted + 2, j, Tip(c.records))
           refers == linked /\ c.records # <<>> /\ failed = "none"
           y     == Linked(ProjectChain(p), q)
           t     == IF refers THEN Append(project, y) ELSE project
           h     == IF refers THEN Pushed(ProjectChain(p), q) ELSE mgr[p].project
           J     == [mgr[p].jobs EXCEPT ![j] = NoChain]
           m     == [mgr[p] EXCEPT !.jobs = J, !.project = h]
<1>0. /\ TypeOK /\ FilesSound /\ HeldChains(p) /\ minted \in Nat /\ insts \in Nat /\ p \in Procs
      /\ mgr[p].run[j] \in Nat /\ chain \in ChainType /\ mgr[p] \in ManagerType
      /\ project \in Seq(Record) /\ j \in Nat /\ file[j] \in Seq(Record)
  BY Parts DEF SoleInv, TypeOK, JobIds
<1>1. /\ chain.held /\ minted' = minted + 2 /\ UNCHANGED <<archive, insts, restarts>>
      /\ \/ failed = "none" /\ faults' = faults
         \/ failed = "job" /\ Fault("append")
         \/ failed = "reference" /\ Fault("append")
      /\ file' = [file EXCEPT ![j] = f] /\ project' = t /\ mgr' = [mgr EXCEPT ![p] = m]
  BY DEF RouteSessionEnd, EvictJobChain, CloseJobChain
<1>2. FaultsGrow
  BY <1>0, <1>1, Faulty
<1>3. e \in TerminalEvents /\ e # "agent.spawn" /\ e \in JobEvents
  BY DEF TerminalEvents, JobEvents
<1> HIDE DEF e
<1>4. r \in Record /\ r.ev = e /\ r.inst = mgr[p].run[j]
  BY <1>0, <1>3 DEF JobRecord, Record
<1> HIDE DEF r
<1>5. /\ chain.records = file[j] /\ (chain.closed <=> IsTerminated(file[j]))
      /\ mgr[p].run[j] \in 1 .. insts
      /\ faults["rename"] = 0 => \A i \in DOMAIN file[j] : file[j][i].inst = mgr[p].run[j]
  BY <1>0, <1>1 DEF HeldChains
<1>6. /\ f \in Seq(Record) /\ FileSound(f, faults') /\ c \in ChainType /\ c.records = f
      /\ f # file[j] => ~IsTerminated(file[j])
      /\ refers => IsTerminated(f)
      /\ refers /\ faults["rename"] = 0 => f[Len(f)].inst = mgr[p].run[j]
  <2>1. CASE seals
    <3> DEFINE a == Append(file[j], x)
    <3>1. /\ ~IsTerminated(file[j]) /\ a \in Seq(Record) /\ a # file[j]
          /\ FileSound(a, faults') /\ IsTerminated(a)
          /\ a[Len(a)] = x /\ x.inst = mgr[p].run[j]
      BY <1>2, <1>3, <1>4, <2>1, AcceptedLonger
    <3>2. Pushed(chain, r) \in ChainType /\ Pushed(chain, r).records = Append(chain.records, x)
      <4> HIDE DEF chain
      <4> QED BY <1>0, <1>4, Chains
    <3>3. c.records = a /\ c \in ChainType
      BY <1>5, <2>1, <3>2
    <3> HIDE DEF a, c
    <3>4. f = a
      BY <1>5, <3>1, <3>3 DEF a
    <3> HIDE DEF f
    <3> QED BY <3>1, <3>3, <3>4
  <2>2. CASE ~seals
    <3>1. c = chain /\ f = file[j]
      BY <2>2
    <3>2. FileSound(file[j], faults')
      BY <1>0, <1>2 DEF FilesSound, JobFiles, FileSound, FaultsGrow
    <3>3. refers => IsTerminated(file[j])
      BY <1>1, <1>5, <2>2 DEF Accepts
    <3>4. IsTerminated(file[j]) => Len(file[j]) \in DOMAIN file[j]
      BY <1>0, TipType DEF IsTerminated
    <3> HIDE DEF c, f, chain
    <3> QED BY <1>0, <1>5, <3>1, <3>2, <3>3, <3>4
  <2> QED BY <2>1, <2>2
<1> HIDE DEF f, c, chain, seals
<1>7. /\ q \in Record /\ q.ev = "job.reference" /\ q.inst = mgr[p].run[j] /\ q.tip = Tip(f)
  <2>1. Tip(f) \in Nat
    BY <1>6, TipType
  <2> QED BY <1>0, <1>6, <2>1 DEF Reference, Record, ProjectEvents
<1> HIDE DEF q
<1>8. /\ y \in Record /\ y.ev = "job.reference" /\ y.inst = mgr[p].run[j] /\ y.tip = Tip(f)
      /\ Append(project, y) \in Seq(Record) /\ LinkedFromGenesis(Append(project, y))
      /\ Pushed(ProjectChain(p), q) \in ChainType
      /\ Pushed(ProjectChain(p), q).records = Append(project, y)
      /\ \A i \in DOMAIN Append(project, y) :
            \/ i = Len(project) + 1 /\ Append(project, y)[i] = y
            \/ i \in DOMAIN project /\ Append(project, y)[i] = project[i]
      /\ Len(project) + 1 \notin DOMAIN project
  BY <1>7, ProjectLonger DEF ProjectEvents
<1> HIDE DEF y
<1>9. /\ t \in Seq(Record) /\ LinkedFromGenesis(t) /\ h \in ChainType
      /\ h.held => h.records = t
      /\ \A i \in DOMAIN t : \/ refers /\ i = Len(project) + 1 /\ t[i] = y
                             \/ i \in DOMAIN project /\ t[i] = project[i]
  <2>1. CASE refers
    BY <1>8, <2>1
  <2>2. CASE ~refers
    BY <1>0, <2>2, Parts DEF SoleInv, ProjectMirrored
  <2> QED BY <2>1, <2>2
<1> HIDE DEF t, h, refers
<1>10. /\ \A k \in JobIds : file'[k] = IF k = j THEN f ELSE file[k]
       /\ file' \in [JobIds -> Seq(Record)] /\ archive' \subseteq Seq(Record)
       /\ JobFiles' \subseteq JobFiles \union {f}
       /\ f \in JobFiles'
       /\ \A d \in JobFiles : d # file[j] => d \in JobFiles'
  BY <1>0, <1>1, <1>6, FileChange
<1>11. /\ J \in [JobIds -> ChainType]
       /\ \A k \in JobIds : J[k].held => k # j /\ J[k] = mgr[p].jobs[k]
  BY <1>0, Chains, Parts
<1> HIDE DEF J
<1>12. m \in ManagerType
  BY <1>0, <1>9, <1>11 DEF ManagerType
<1>13. m.jobs = J /\ m.run = mgr[p].run /\ m.next_id = mgr[p].next_id /\ m.project = h
  BY <1>0 DEF ManagerType
<1> HIDE DEF m
<1>14. mgr' \in [Procs -> ManagerType] /\ mgr'[p] = m
  BY <1>0, <1>1, <1>12, ManagerChange
<1>15. TypeOK'
  BY <1>0, <1>1, <1>2, <1>9, <1>10, <1>14 DEF TypeOK, FaultsGrow
<1>16. FilesSound'
  BY <1>0, <1>2, <1>6, <1>10, FilesStep
<1>17. HeldChains(p)'
  <2> SUFFICES ASSUME NEW k \in JobIds, J[k].held
               PROVE  /\ k < mgr[p].next_id
                      /\ J[k].records = file'[k]
                      /\ J[k].closed <=> IsTerminated(file'[k])
                      /\ mgr[p].run[k] \in 1 .. insts
                      /\ file'[k] = <<>> => faults'["append"] > 0
                      /\ faults'["rename"] = 0 =>
                            \A i \in DOMAIN file'[k] : file'[k][i].inst = mgr[p].run[k]
    BY <1>1, <1>13, <1>14 DEF HeldChains, IsTerminated, TerminalEvents
  <2>1. J[k] = mgr[p].jobs[k] /\ file'[k] = file[k]
    BY <1>10, <1>11
  <2> QED BY <1>0, <1>2, <2>1 DEF HeldChains, FaultsGrow
<1>18. RunsApart(p)'
  BY <1>11, <1>13, <1>14 DEF SoleInv, RunsApart
<1>19. ProjectMirrored(p)' /\ LinkedFromGenesis(project)'
  BY <1>1, <1>9, <1>13, <1>14 DEF ProjectMirrored, LinkedFromGenesis
<1>20. \A i \in References' :
          \/ refers /\ i = Len(project) + 1 /\ project'[i] = y
          \/ i \in References /\ project'[i] = project[i]
  BY <1>1, <1>9 DEF References
<1>21. \A k \in JobIds : J[k].held => mgr[p].jobs[k].held /\ mgr[p].run[k] # mgr[p].run[j]
  BY <1>1, <1>11 DEF SoleInv, RunsApart, chain
<1>22. ReferencedOver(p)'
  BY <1>1, <1>5, <1>8, <1>13, <1>14, <1>20, <1>21 DEF SoleInv, ReferencedOver
<1>23. ReferencedOnce'
  <2>1. \A i \in References : project[i].inst # y.inst
    BY <1>1, <1>8 DEF SoleInv, ReferencedOver, chain
  <2> QED BY <1>20, <2>1 DEF SoleInv, ReferencedOnce
<1>24. ReferencePinsTerminal'
  <2> SUFFICES ASSUME faults'["rename"] = 0, NEW i \in References'
               PROVE  \E d \in JobFiles' : /\ IsTerminated(d)
                                           /\ d[Len(d)].hash = project'[i].tip
                                           /\ d[Len(d)].inst = project'[i].inst
    BY DEF ReferencePinsTerminal, IsTerminated, TerminalEvents
  <2>1. faults["rename"] = 0
    BY <1>2 DEF FaultsGrow
  <2>2. CASE refers /\ project'[i] = y
    BY <1>6, <1>8, <1>10, <2>1, <2>2 DEF Tip, IsTerminated
  <2>3. CASE i \in References /\ project'[i] = project[i]
    <3>1. PICK d \in JobFiles : /\ IsTerminated(d)
                                /\ d[Len(d)].hash = project[i].tip
                                /\ d[Len(d)].inst = project[i].inst
      BY <2>1, <2>3 DEF SoleInv, ReferencePinsTerminal
    <3>2. d \in JobFiles'
      BY <1>6, <1>10, <3>1
    <3> QED BY <2>3, <3>1, <3>2
  <2> QED BY <1>20, <2>2, <2>3
<1> QED
  BY <1>15, <1>16, <1>17, <1>18, <1>19, <1>22, <1>23, <1>24 DEF SoleInv

-----------------------------------------------------------------------------
(* The theorems *)

\* The invariant holds at the start.
LEMMA SoleInit ==
    ASSUME NEW p, Procs = {p}, Init
    PROVE  SoleInv(p)
<1>1. NewManager \in ManagerType /\ \A j \in JobIds : ~NewManager.jobs[j].held
  BY Chains, JobsConstants DEF NewManager, ManagerType
<1>2. ~NewManager.project.held /\ mgr[p] = NewManager
  BY Chains DEF NewManager, Init
<1>3. TypeOK
  BY <1>1 DEF Init, TypeOK
<1>4. FilesSound
  BY EmptySound DEF Init, FilesSound, JobFiles
<1>5. References = {} /\ LinkedFromGenesis(project)
  BY DEF Init, References, LinkedFromGenesis
<1> QED
  BY <1>1, <1>2, <1>3, <1>4, <1>5 DEF SoleInv, HeldChains, RunsApart, ProjectMirrored,
     ReferencedOver, ReferencePinsTerminal, ReferencedOnce

LEMMA SoleStep ==
    ASSUME NEW p, Procs = {p}, SoleInv(p), [Next]_vars
    PROVE  SoleInv(p)'
<1>1. CASE UNCHANGED vars
  BY <1>1 DEF vars, SoleInv, TypeOK, FilesSound, JobFiles, HeldChains, RunsApart,
     ProjectMirrored, LinkedFromGenesis, ReferencedOver, References, ReferencePinsTerminal,
     ReferencedOnce, IsTerminated
<1>2. CASE Next
  BY <1>2, SpawnStep, JobEventStep, ProjectEventStep, SessionEndStep, RestartStep DEF Next
<1> QED BY <1>1, <1>2

LEMMA SoleAlways ==
    ASSUME NEW CONSTANT p, Procs = {p}
    PROVE  Spec => []SoleInv(p)
<1>1. Init => SoleInv(p)
  BY SoleInit
<1>2. SoleInv(p) /\ [Next]_vars => SoleInv(p)'
  BY SoleStep
<1> QED BY <1>1, <1>2, PTL DEF Spec

\* Every job chain file, live or archived, verifies and is about one run: the archiving
\* rename of create_job_chain keeps the runs of a re-used id apart, and a closed chain
\* swallows what comes late.
THEOREM JobChainsAlwaysSound ==
    ASSUME NEW CONSTANT p, Procs = {p}
    PROVE  Spec => []JobChainsSound
<1>1. SoleInv(p) => JobChainsSound
  BY DEF SoleInv, FilesSound, FileSound, JobChainsSound, ChainsVerify, OneJobPerChain
<1> QED BY <1>1, SoleAlways, PTL

\* The project chain refers to a run at most once, and to a chain that ends in that run's
\* terminal record and is still on disk: close_job_and_link evicts the chain it closed.
THEOREM ReferencesAlwaysSound ==
    ASSUME NEW CONSTANT p, Procs = {p}
    PROVE  Spec => []ReferencesSound
<1>1. SoleInv(p) => ReferencesSound
  BY DEF SoleInv, ReferencesSound
<1> QED BY <1>1, SoleAlways, PTL

=============================================================================
