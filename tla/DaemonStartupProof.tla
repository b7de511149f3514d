------------------------ MODULE DaemonStartupProof ------------------------
(***************************************************************************)
(* Theorems about DaemonStartup for any set of daemons, any number of      *)
(* crashes and any set of REPLs.                                           *)
(***************************************************************************)
EXTENDS DaemonStartup, TLAPS

\* Until a lock is reclaimed, whoever is past create_lock made the file.
HolderMadeLock == reclaims = 0 => \A d \in Daemons : pc[d] \in Holding => lock.by = d

LockInv == TypeOK /\ HolderMadeLock

\* A bound hub belongs to a daemon between its bind and its teardown.
HostsHold == \A d \in hosts : pc[d] \in {"unlink", "bind", "serving", "dropping", "aborting"}

\* Both paths name the sockets of the daemon that bound them.
PathsOwn ==
    reclaims = 0 =>
        \A d \in Daemons : /\ pc[d] = "serving" => control = d
                           /\ NoFallback /\ d \in hosts => orkia = d

ReachInv == LockInv /\ HostsHold /\ PathsOwn

\* a daemon that got the lock, and may have served and gone since
Won == \E d \in Daemons : pc[d] \in Holding \union {"gone"}

\* Until a daemon dies, a lock file, or a daemon that met one, is there because some
\* daemon got the lock.
LockWon ==
    crashes = 0 =>
        /\ lock # NoLock => Won
        /\ \A d \in Daemons : pc[d] \in {"inspect", "probe", "reclaim", "create1", "refused"} => Won

-----------------------------------------------------------------------------

\* Nobody holds anything yet.
LEMMA InitLockInv == Init => LockInv
  BY StartupConstants DEF Init, LockInv, TypeOK, HolderMadeLock, NoLock, Locations, Holding

\* Type correctness is preserved by every action on its own.
LEMMA NextType ==
    ASSUME TypeOK, [Next]_vars
    PROVE  TypeOK'
<1> USE DEF TypeOK
<1>1. CASE UNCHANGED vars
  BY <1>1 DEF vars, paths
<1>2. ASSUME NEW d \in Daemons, Start(d) PROVE TypeOK'
  BY <1>2 DEF Start, Goto, Locations, paths
<1>3. ASSUME NEW d \in Daemons, CreateLock(d) PROVE TypeOK'
  BY <1>3 DEF CreateLock, Goto, Locations, paths
<1>4. ASSUME NEW d \in Daemons, RecordPid(d) PROVE TypeOK'
  BY <1>4 DEF RecordPid, Goto, Locations, paths
<1>5. ASSUME NEW d \in Daemons, InspectLock(d) PROVE TypeOK'
  BY <1>5 DEF InspectLock, Goto, Locations, paths
<1>6. ASSUME NEW d \in Daemons, ProbePid(d) PROVE TypeOK'
  BY <1>6 DEF ProbePid, Goto, Locations, paths
<1>7. ASSUME NEW d \in Daemons, ReclaimLock(d) PROVE TypeOK'
  BY <1>7 DEF ReclaimLock, Goto, Locations, paths, NoLock
<1>8. ASSUME NEW d \in Daemons, UnlinkHub(d) PROVE TypeOK'
  BY <1>8 DEF UnlinkHub, Goto, Locations
<1>9. ASSUME NEW d \in Daemons, BindHub(d) PROVE TypeOK'
  BY <1>9 DEF BindHub, Goto, Locations
<1>10. ASSUME NEW d \in Daemons, UnlinkControl(d) PROVE TypeOK'
  BY <1>10 DEF UnlinkControl, Goto, Locations
<1>11. ASSUME NEW d \in Daemons, BindControl(d) PROVE TypeOK'
  BY <1>11 DEF BindControl, Goto, Locations
<1>12. ASSUME NEW d \in Daemons, Stop(d) PROVE TypeOK'
  BY <1>12 DEF Stop, Goto, Locations
<1>13. ASSUME NEW d \in Daemons, DropHub(d) PROVE TypeOK'
  BY <1>13 DEF DropHub, Goto, Locations
<1>14. ASSUME NEW d \in Daemons, DropLock(d) PROVE TypeOK'
  BY <1>14 DEF DropLock, Goto, Locations, NoLock, paths
<1>15. ASSUME NEW d \in Daemons, Crash(d) PROVE TypeOK'
  BY <1>15 DEF Crash, Goto, Locations, paths
<1>16. ASSUME NEW r \in Repls, ReplSubscribes(r) PROVE TypeOK'
  BY <1>16 DEF ReplSubscribes, paths
<1>17. ASSUME NEW r \in Repls, ReplFallsBack(r) PROVE TypeOK'
  BY <1>17 DEF ReplFallsBack
<1>18. ASSUME NEW r \in Repls, ReplBinds(r) PROVE TypeOK'
  BY <1>18 DEF ReplBinds
<1>19. ASSUME NEW r \in Repls, ReplExits(r) PROVE TypeOK'
  BY <1>19 DEF ReplExits
<1>20. ASSUME NEW d \in Daemons, StartFails(d) PROVE TypeOK'
  BY <1>20 DEF StartFails, Goto, Locations
<1>21. ASSUME NEW d \in Daemons, AbortHub(d) PROVE TypeOK'
  BY <1>21 DEF AbortHub, Goto, Locations
<1> QED
  BY <1>1, <1>2, <1>3, <1>4, <1>5, <1>6, <1>7, <1>8, <1>9, <1>10, <1>11, <1>12,
     <1>13, <1>14, <1>15, <1>16, <1>17, <1>18, <1>19, <1>20, <1>21 DEF Next

\* A step that leaves the lock and the reclaims alone, and takes no new daemon
\* past the lock, keeps the lock with its maker.
LEMMA SameLock ==
    ASSUME HolderMadeLock, UNCHANGED <<lock, reclaims>>,
           \A e \in Daemons : pc'[e] \in Holding => pc[e] \in Holding
    PROVE  HolderMadeLock'
  BY DEF HolderMadeLock

\* The lock stays with its maker: one step per action that touches the lock,
\* one for those that do not.
LEMMA NextHolder ==
    ASSUME LockInv, [Next]_vars
    PROVE  HolderMadeLock'
<1> USE DEF LockInv
<1>1. CASE UNCHANGED vars
  BY <1>1, SameLock DEF vars
<1>2. ASSUME NEW d \in Daemons, CreateLock(d) PROVE HolderMadeLock'
  <2>1. CASE lock = NoLock
    <3>1. reclaims = 0 => \A e \in Daemons : pc[e] \notin Holding
      BY <2>1, StartupConstants DEF HolderMadeLock, NoLock
    <3>2. lock'.by = d /\ pc' = [pc EXCEPT ![d] = "record"] /\ reclaims' = reclaims
      BY <1>2, <2>1 DEF CreateLock, Goto
    <3> QED
      BY <3>1, <3>2 DEF HolderMadeLock, TypeOK
  <2>2. CASE lock # NoLock
    BY <1>2, <2>2, SameLock DEF CreateLock, Goto, TypeOK, Holding
  <2> QED
    BY <2>1, <2>2
<1>3. ASSUME NEW d \in Daemons, RecordPid(d) PROVE HolderMadeLock'
  <2>1. lock'.by = lock.by /\ reclaims' = reclaims
    BY <1>3 DEF RecordPid, TypeOK
  <2>2. \A e \in Daemons : pc'[e] \in Holding => pc[e] \in Holding
    BY <1>3 DEF RecordPid, Goto, TypeOK, Holding
  <2> QED
    BY <2>1, <2>2 DEF HolderMadeLock
<1>4. ASSUME NEW d \in Daemons, ReclaimLock(d) PROVE HolderMadeLock'
  BY <1>4 DEF ReclaimLock, HolderMadeLock, TypeOK
<1>5. ASSUME NEW d \in Daemons, DropLock(d) PROVE HolderMadeLock'
  <2>1. pc[d] \in Holding /\ pc' = [pc EXCEPT ![d] = "gone"] /\ reclaims' = reclaims
    BY <1>5 DEF DropLock, Goto, Holding
  <2>2. reclaims = 0 => \A e \in Daemons : pc'[e] \notin Holding
    BY <2>1 DEF HolderMadeLock, TypeOK, Holding
  <2> QED
    BY <2>1, <2>2 DEF HolderMadeLock
<1>6. ASSUME NEW d \in Daemons,
             \/ Start(d) \/ InspectLock(d) \/ ProbePid(d) \/ UnlinkHub(d)
             \/ BindHub(d) \/ UnlinkControl(d) \/ BindControl(d) \/ Stop(d)
             \/ StartFails(d) \/ AbortHub(d) \/ DropHub(d) \/ Crash(d)
      PROVE  HolderMadeLock'
  <2>1. UNCHANGED <<lock, reclaims>>
    BY <1>6 DEF Start, InspectLock, ProbePid, UnlinkHub, BindHub, UnlinkControl,
                BindControl, StartFails, AbortHub, Stop, DropHub, Crash
  <2>2. \A e \in Daemons : pc'[e] \in Holding => pc[e] \in Holding
    BY <1>6 DEF Start, InspectLock, ProbePid, UnlinkHub, BindHub, UnlinkControl,
                BindControl, StartFails, AbortHub, Stop, DropHub, Crash, Goto, TypeOK, Holding
  <2> QED
    BY <2>1, <2>2, SameLock
<1>7. ASSUME NEW r \in Repls,
             \/ ReplSubscribes(r) \/ ReplFallsBack(r) \/ ReplBinds(r) \/ ReplExits(r)
      PROVE  HolderMadeLock'
  BY <1>7, SameLock DEF ReplSubscribes, ReplFallsBack, ReplBinds, ReplExits
<1> QED
  BY <1>1, <1>2, <1>3, <1>4, <1>5, <1>6, <1>7 DEF Next

\* Types and the lock's owner are invariant.
LEMMA LockInvariant == Spec => []LockInv
<1>1. LockInv /\ [Next]_vars => LockInv'
  BY NextType, NextHolder DEF LockInv
<1> QED
  BY <1>1, InitLockInv, PTL DEF Spec

-----------------------------------------------------------------------------
(* The theorems *)

\* The variables keep their types.
THEOREM TypeCorrect == Spec => []TypeOK
<1>1. LockInv => TypeOK
  BY DEF LockInv
<1> QED
  BY <1>1, LockInvariant, PTL

\* DaemonLock: however many daemons race, crash or restart, and whatever REPLs
\* do to the sockets, at most one is past the lock until one reclaims it.
THEOREM LockExcludes == Spec => []SoleOwnerUntilReclaim
<1>1. LockInv => SoleOwnerUntilReclaim
  BY DEF LockInv, HolderMadeLock, SoleOwnerUntilReclaim, SoleOwner
<1> QED
  BY <1>1, LockInvariant, PTL

\* Until a lock is reclaimed a serving daemon is reachable at its control socket,
\* and at orkia.sock while no REPL is on a hub of its own.
THEOREM ServingIsReachable == Spec => []ReachableUntilReclaim
<1>1. Init => ReachInv
  <2>1. Init => HostsHold /\ PathsOwn
    BY DEF Init, HostsHold, PathsOwn
  <2> QED
    BY <2>1, InitLockInv DEF ReachInv
<1>2. ReachInv /\ [Next]_vars => ReachInv'
  <2> SUFFICES ASSUME ReachInv, [Next]_vars PROVE ReachInv'
    OBVIOUS
  <2> USE DEF ReachInv
  <2>1. LockInv'
    BY NextType, NextHolder DEF LockInv
  <2>2. reclaims = 0 =>
          \A d, e \in Daemons : pc[d] \in Holding /\ pc[e] \in Holding => d = e
    BY DEF LockInv, HolderMadeLock
  <2>3. \A d \in hosts : d \in Daemons /\ pc[d] \in Holding
    BY DEF HostsHold, LockInv, TypeOK, Holding
  <2> USE DEF LockInv, TypeOK
  <2>4. CASE UNCHANGED vars
    BY <2>1, <2>4 DEF vars, paths, HostsHold, PathsOwn, NoFallback
  <2>5. ASSUME NEW d \in Daemons, UnlinkHub(d) PROVE HostsHold' /\ PathsOwn'
    BY <2>2, <2>3, <2>5 DEF UnlinkHub, Goto, HostsHold, PathsOwn, NoFallback, Holding
  <2>6. ASSUME NEW d \in Daemons, BindHub(d) PROVE HostsHold' /\ PathsOwn'
    BY <2>2, <2>3, <2>6 DEF BindHub, Goto, HostsHold, PathsOwn, NoFallback, Holding
  <2>7. ASSUME NEW d \in Daemons, UnlinkControl(d) PROVE HostsHold' /\ PathsOwn'
    BY <2>2, <2>3, <2>7 DEF UnlinkControl, Goto, HostsHold, PathsOwn, NoFallback, Holding
  <2>8. ASSUME NEW d \in Daemons, BindControl(d) PROVE HostsHold' /\ PathsOwn'
    BY <2>2, <2>3, <2>8 DEF BindControl, Goto, HostsHold, PathsOwn, NoFallback, Holding
  <2>9. ASSUME NEW d \in Daemons, Stop(d) PROVE HostsHold' /\ PathsOwn'
    BY <2>2, <2>3, <2>9 DEF Stop, Goto, HostsHold, PathsOwn, NoFallback, Holding
  <2>10. ASSUME NEW d \in Daemons, DropHub(d) PROVE HostsHold' /\ PathsOwn'
    BY <2>2, <2>3, <2>10 DEF DropHub, Goto, HostsHold, PathsOwn, NoFallback, Holding
  <2>11. ASSUME NEW d \in Daemons, Crash(d) PROVE HostsHold' /\ PathsOwn'
    BY <2>3, <2>11 DEF Crash, Goto, HostsHold, PathsOwn, NoFallback, paths
  <2>12. ASSUME NEW d \in Daemons, ReclaimLock(d) PROVE HostsHold' /\ PathsOwn'
    BY <2>3, <2>12 DEF ReclaimLock, Goto, HostsHold, PathsOwn, NoFallback, paths
  <2>13. ASSUME NEW d \in Daemons,
                \/ Start(d) \/ CreateLock(d) \/ RecordPid(d) \/ InspectLock(d)
                \/ ProbePid(d) \/ DropLock(d)
         PROVE  HostsHold' /\ PathsOwn'
    BY <2>3, <2>13 DEF Start, CreateLock, RecordPid, InspectLock, ProbePid, DropLock,
                       Goto, HostsHold, PathsOwn, NoFallback, paths
  <2>14. ASSUME NEW d \in Daemons, StartFails(d) PROVE HostsHold' /\ PathsOwn'
    BY <2>2, <2>3, <2>14 DEF StartFails, Goto, HostsHold, PathsOwn, NoFallback, Holding
  <2>15. ASSUME NEW d \in Daemons, AbortHub(d) PROVE HostsHold' /\ PathsOwn'
    BY <2>2, <2>3, <2>15 DEF AbortHub, Goto, HostsHold, PathsOwn, NoFallback, Holding
  <2>16. ASSUME NEW r \in Repls, ReplSubscribes(r) PROVE HostsHold' /\ PathsOwn'
    BY <2>16 DEF ReplSubscribes, HostsHold, PathsOwn, NoFallback, paths
  <2>17. ASSUME NEW r \in Repls, ReplFallsBack(r) \/ ReplBinds(r) \/ ReplExits(r)
         PROVE  HostsHold' /\ PathsOwn'
    <3>1. ~NoFallback'
      BY <2>17 DEF ReplFallsBack, ReplBinds, ReplExits, NoFallback
    <3>2. UNCHANGED <<pc, hosts, control, reclaims>>
      BY <2>17 DEF ReplFallsBack, ReplBinds, ReplExits
    <3> QED
      BY <3>1, <3>2 DEF HostsHold, PathsOwn
  <2> QED
    BY <2>1, <2>4, <2>5, <2>6, <2>7, <2>8, <2>9, <2>10, <2>11, <2>12, <2>13,
       <2>14, <2>15, <2>16, <2>17 DEF Next
<1>3. ReachInv => ReachableUntilReclaim
  BY DEF ReachInv, LockInv, HolderMadeLock, PathsOwn, ReachableUntilReclaim
<1> QED
  BY <1>1, <1>2, <1>3, PTL DEF Spec

\* Daemons that race for the lock never all refuse one another: without a death, one of
\* them got it.
THEOREM RaceIsWon == Spec => []SomeoneWins
<1>1. Init => LockWon
  BY DEF Init, LockWon
<1>2. LockInv /\ LockWon /\ [Next]_vars => LockWon'
  <2> SUFFICES ASSUME LockInv, LockWon, [Next]_vars, crashes' = 0 PROVE LockWon'
    BY DEF LockWon
  <2> USE DEF LockInv, TypeOK
  <2>1. ASSUME NEW d \in Daemons, CreateLock(d) PROVE LockWon'
    <3>1. CASE lock = NoLock
      <4>1. pc'[d] = "record"
        BY <2>1, <3>1 DEF CreateLock, Goto
      <4>2. Won'
        BY <4>1 DEF Won, Holding
      <4> QED BY <4>2 DEF LockWon
    <3>2. CASE lock # NoLock
      <4>1. Won
        BY <2>1, <3>2 DEF LockWon, CreateLock
      <4>2. Won'
        BY <2>1, <3>2, <4>1 DEF Won, CreateLock, Goto, Holding
      <4> QED BY <4>2 DEF LockWon
    <3> QED BY <3>1, <3>2
  <2>2. ASSUME NEW d \in Daemons,
               \/ RecordPid(d) \/ UnlinkHub(d) \/ BindHub(d) \/ UnlinkControl(d) \/ BindControl(d)
               \/ StartFails(d) \/ AbortHub(d) \/ Stop(d) \/ DropHub(d) \/ DropLock(d)
        PROVE  LockWon'
    <3>1. pc'[d] \in Holding \union {"gone"}
      BY <2>2 DEF RecordPid, UnlinkHub, BindHub, UnlinkControl, BindControl, StartFails,
                  AbortHub, Stop, DropHub, DropLock, Goto, Holding
    <3> QED BY <3>1 DEF Won, LockWon
  <2>3. ASSUME NEW d \in Daemons, InspectLock(d) \/ ProbePid(d) \/ ReclaimLock(d) PROVE LockWon'
    <3>1. Won
      BY <2>3 DEF LockWon, InspectLock, ProbePid, ReclaimLock
    <3>2. Won'
      BY <2>3, <3>1 DEF Won, InspectLock, ProbePid, ReclaimLock, Goto, Holding
    <3> QED BY <3>2 DEF LockWon
  <2>4. ASSUME NEW d \in Daemons, Start(d) PROVE LockWon'
    <3>1. Won => Won'
      BY <2>4 DEF Won, Start, Goto, Holding
    <3>2. UNCHANGED <<lock, crashes>> /\ pc' = [pc EXCEPT ![d] = "create0"]
      BY <2>4 DEF Start, Goto
    <3> QED BY <3>1, <3>2 DEF LockWon
  <2>5. ASSUME NEW d \in Daemons, Crash(d) PROVE LockWon'
    BY <2>5 DEF Crash
  <2>6. CASE \/ UNCHANGED vars
             \/ \E r \in Repls : \/ ReplSubscribes(r) \/ ReplFallsBack(r)
                                 \/ ReplBinds(r) \/ ReplExits(r)
    <3>1. UNCHANGED <<pc, lock, crashes>>
      BY <2>6 DEF vars, ReplSubscribes, ReplFallsBack, ReplBinds, ReplExits
    <3> QED BY <3>1 DEF LockWon, Won
  <2> QED
    BY <2>1, <2>2, <2>3, <2>4, <2>5, <2>6 DEF Next
<1>3. LockWon => SomeoneWins
  BY DEF LockWon, Won, SomeoneWins
<1> QED
  BY <1>1, <1>2, <1>3, LockInvariant, PTL DEF Spec
=============================================================================
