------------------------- MODULE SessionLockProofs -------------------------
(***************************************************************************)
(* For any number of processes: type correctness of the session lock, and, *)
(* as long as no live process keeps a lock past LOCK_STALE_MS, no takeover *)
(* file is abandoned and no garbage collection sweeps lock files, that it  *)
(* excludes.  Each of the three conditions is needed: with any one of      *)
(* SlowHolders, Abandon and GcSweep, TLC finds LockIntact violated.        *)
(***************************************************************************)
EXTENDS SessionLock, TLAPS

\* releaseLock leaves well-typed files, whether or not it could unlink.
LEMMA UnlinkTypes ==
    ASSUME TypeOK, NEW f \in Paths, UnlinkOrRefused(f)
    PROVE  /\ creator' \in [Paths -> Procs \union {None}]
           /\ written' \in [Paths -> BOOLEAN]
           /\ age' \in [Paths -> 0..2]
<1>1. CASE Unlink(f)
  BY <1>1 DEF TypeOK, Unlink
<1>2. CASE UNCHANGED files
  BY <1>2 DEF TypeOK, files
<1> QED
  BY <1>1, <1>2 DEF UnlinkOrRefused

\* Every step keeps the types of the lock's state.
LEMMA TypeStep == TypeOK /\ [Next]_vars => TypeOK'
<1> SUFFICES ASSUME TypeOK, [Next]_vars PROVE TypeOK'
  OBVIOUS
<1> USE ConstantsAssumption DEF TypeOK, PCs, Checks, Paths, Goto, files
<1>1. ASSUME NEW p \in Procs, Call(p) PROVE TypeOK'
  BY <1>1 DEF Call
<1>2. ASSUME NEW p \in Procs, Create(p) PROVE TypeOK'
  BY <1>2 DEF Create, OpenExclusive
<1>3. ASSUME NEW p \in Procs, CreateFails(p) PROVE TypeOK'
  BY <1>3 DEF CreateFails
<1>4. ASSUME NEW p \in Procs, CreateThrows(p) PROVE TypeOK'
  BY <1>4 DEF CreateThrows
<1>5. ASSUME NEW p \in Procs, Acquired(p) PROVE TypeOK'
  BY <1>5 DEF Acquired, WriteOwner
<1>6. ASSUME NEW p \in Procs, WriteThrows(p) PROVE TypeOK'
  BY <1>6 DEF WriteThrows
<1>7. ASSUME NEW p \in Procs, WorkEnds(p) PROVE TypeOK'
  BY <1>7 DEF WorkEnds
<1>8. ASSUME NEW p \in Procs, Unlock(p) PROVE TypeOK'
  <2>1. UnlinkOrRefused("lock")
    BY <1>8 DEF Unlock
  <2> QED
    BY <1>8, <2>1, UnlinkTypes DEF Unlock
<1>9. ASSUME NEW p \in Procs, Deadline(p) PROVE TypeOK'
  BY <1>9 DEF Deadline
<1>10. ASSUME NEW p \in Procs, ReadOwner(p) PROVE TypeOK'
  <2>1. Owner(CheckedPath(p)) \in Procs \union {None}
    BY DEF Owner, CheckedPath
  <2> QED
    BY <1>10, <2>1 DEF ReadOwner, Verdict, Forget
<1>11. ASSUME NEW p \in Procs, StatAge(p) PROVE TypeOK'
  BY <1>11 DEF StatAge, Verdict, Forget
<1>12. ASSUME NEW p \in Procs, Probe(p) PROVE TypeOK'
  BY <1>12 DEF Probe, Verdict, Forget
<1>13. ASSUME NEW p \in Procs, TkCreate(p) PROVE TypeOK'
  BY <1>13 DEF TkCreate, OpenExclusive
<1>14. ASSUME NEW p \in Procs, TkCreateFails(p) PROVE TypeOK'
  BY <1>14 DEF TkCreateFails
<1>15. ASSUME NEW p \in Procs, TkWriteFails(p) PROVE TypeOK'
  BY <1>15 DEF TkWriteFails
<1>16. ASSUME NEW p \in Procs, TkAcquired(p) PROVE TypeOK'
  BY <1>16 DEF TkAcquired, WriteOwner
<1>17. ASSUME NEW p \in Procs, Delete(p) PROVE TypeOK'
  <2>1. UnlinkOrRefused("lock")
    BY <1>17 DEF Delete
  <2> QED
    BY <1>17, <2>1, UnlinkTypes DEF Delete
<1>18. ASSUME NEW p \in Procs, TkRelease(p) PROVE TypeOK'
  <2>1. UnlinkOrRefused("takeover")
    BY <1>18 DEF TkRelease
  <2> QED
    BY <1>18, <2>1, UnlinkTypes DEF TkRelease
<1>19. ASSUME NEW p \in Procs, TkClear(p) PROVE TypeOK'
  <2>1. UnlinkOrRefused("takeover")
    BY <1>19 DEF TkClear
  <2> QED
    BY <1>19, <2>1, UnlinkTypes DEF TkClear
<1>20. ASSUME NEW p \in Procs, GcStat(p) PROVE TypeOK'
  BY <1>20 DEF GcStat
<1>21. ASSUME NEW p \in Procs, GcUnlink(p) PROVE TypeOK'
  BY <1>21 DEF GcUnlink, Unlink, Forget, CheckedPath
<1>22. ASSUME NEW p \in Procs, Die(p) PROVE TypeOK'
  BY <1>22 DEF Die, Forget
<1>23. ASSUME NEW f \in Paths, GrowOld(f) PROVE TypeOK'
  BY <1>23 DEF GrowOld
<1>24. CASE UNCHANGED vars
  BY <1>24 DEF vars
<1> QED
  BY <1>1, <1>2, <1>3, <1>4, <1>5, <1>6, <1>7, <1>8, <1>9, <1>10, <1>11,
     <1>12, <1>13, <1>14, <1>15, <1>16, <1>17, <1>18, <1>19, <1>20, <1>21,
     <1>22, <1>23, <1>24 DEF Next, Step

\* The lock's state keeps its types (storage.ts, lock section).
THEOREM TypeCorrect == Spec => []TypeOK
<1>1. Init => TypeOK
  BY ConstantsAssumption DEF Init, TypeOK, PCs, Checks, Paths
<1> QED
  BY <1>1, TypeStep, PTL DEF Spec

\* Every step keeps the lock's inductive invariant, under the three conditions.
LEMMA InductiveStep ==
    ASSUME Prompt, IInv, [Next]_vars
    PROVE  IInv'
<1> DEFINE Core == /\ LockIntact /\ TakeoverIntact /\ TakeoverInUse
                   /\ OldIsIdle /\ NoUnguardedDelete
                   /\ ProbesOldLock /\ DeletesOnlyDeadLocks
<1>1. TypeOK /\ TypeOK'
  BY TypeStep DEF IInv
<1>2. Core
  BY DEF IInv
<1>3. None \notin Procs /\ ~SlowHolders /\ ~Abandon /\ ~GcSweep
  BY ConstantsAssumption DEF Prompt
<1> USE <1>1, <1>2, <1>3
        DEF TypeOK, PCs, Checks, Paths, Goto, files, LockIntact, TakeoverIntact,
            TakeoverInUse, OldIsIdle, NoUnguardedDelete, ProbesOldLock,
            DeletesOnlyDeadLocks, HasLock, HasTakeover, InUse, Exists
<1>4. ASSUME NEW p \in Procs, Call(p) PROVE Core'
  BY <1>4 DEF Call
<1>5. ASSUME NEW p \in Procs, Create(p) PROVE Core'
  BY <1>5 DEF Create, OpenExclusive
<1>6. ASSUME NEW p \in Procs, CreateFails(p) PROVE Core'
  BY <1>6 DEF CreateFails
<1>7. ASSUME NEW p \in Procs, CreateThrows(p) PROVE Core'
  BY <1>7 DEF CreateThrows
<1>8. ASSUME NEW p \in Procs, Acquired(p) PROVE Core'
  BY <1>8 DEF Acquired, WriteOwner
<1>9. ASSUME NEW p \in Procs, WriteThrows(p) PROVE Core'
  BY <1>9 DEF WriteThrows
<1>10. ASSUME NEW p \in Procs, WorkEnds(p) PROVE Core'
  BY <1>10 DEF WorkEnds
<1>11. ASSUME NEW p \in Procs, Unlock(p) PROVE Core'
  <2>1. CASE Unlink("lock")
    BY <1>11, <2>1 DEF Unlock, Unlink
  <2>2. CASE UNCHANGED files
    BY <1>11, <2>2 DEF Unlock
  <2> QED
    BY <1>11, <2>1, <2>2 DEF Unlock, UnlinkOrRefused
<1>12. ASSUME NEW p \in Procs, Deadline(p) PROVE Core'
  BY <1>12 DEF Deadline
<1>13. ASSUME NEW p \in Procs, ReadOwner(p) PROVE Core'
  BY <1>13 DEF ReadOwner, Verdict, Forget, Owner, CheckedPath
<1>14. ASSUME NEW p \in Procs, StatAge(p) PROVE Core'
  BY <1>14 DEF StatAge, Verdict, Forget, CheckedPath
<1>15. ASSUME NEW p \in Procs, Probe(p) PROVE Core'
  BY <1>15 DEF Probe, Verdict, Forget
<1>16. ASSUME NEW p \in Procs, TkCreate(p) PROVE Core'
  BY <1>16 DEF TkCreate, OpenExclusive
<1>17. ASSUME NEW p \in Procs, TkCreateFails(p) PROVE Core'
  BY <1>17 DEF TkCreateFails
<1>18. ASSUME NEW p \in Procs, TkAcquired(p) PROVE Core'
  BY <1>18 DEF TkAcquired, WriteOwner
<1>19. ASSUME NEW p \in Procs, Delete(p) PROVE Core'
  <2>1. CASE Unlink("lock")
    BY <1>19, <2>1 DEF Delete, Unlink
  <2>2. CASE UNCHANGED files
    BY <1>19, <2>2 DEF Delete
  <2> QED
    BY <1>19, <2>1, <2>2 DEF Delete, UnlinkOrRefused
<1>20. ASSUME NEW p \in Procs, TkRelease(p) PROVE Core'
  <2>1. CASE Unlink("takeover")
    BY <1>20, <2>1 DEF TkRelease, Unlink
  <2>2. CASE UNCHANGED files
    BY <1>20, <2>2 DEF TkRelease
  <2> QED
    BY <1>20, <2>1, <2>2 DEF TkRelease, UnlinkOrRefused
<1>21. ASSUME NEW p \in Procs, Die(p) PROVE Core'
  BY <1>21 DEF Die, Forget, Alive
<1>22. ASSUME NEW f \in Paths, GrowOld(f) PROVE Core'
  BY <1>22 DEF GrowOld
<1>23. ASSUME UNCHANGED vars PROVE Core'
  <2>1. UNCHANGED <<creator, written, age, pc, check>>
    BY <1>23 DEF vars
  <2> QED
    BY <2>1
<1>24. ASSUME NEW p \in Procs,
             TkWriteFails(p) \/ TkClear(p) \/ GcStat(p) \/ GcUnlink(p)
      PROVE FALSE
  BY <1>24 DEF TkWriteFails, TkClear, GcStat, GcUnlink
<1> HIDE <1>2, <1>3
         DEF Core, TypeOK, PCs, Checks, Paths, Goto, files, LockIntact,
             TakeoverIntact, TakeoverInUse, OldIsIdle, NoUnguardedDelete,
             ProbesOldLock, DeletesOnlyDeadLocks, HasLock, HasTakeover, InUse,
             Exists
<1>25. Core'
  BY <1>4, <1>5, <1>6, <1>7, <1>8, <1>9, <1>10, <1>11, <1>12, <1>13, <1>14,
     <1>15, <1>16, <1>17, <1>18, <1>19, <1>20, <1>21, <1>22, <1>23, <1>24
     DEF Next, Step
<1> QED
  BY <1>25 DEF IInv, Core

LEMMA Inductive == ASSUME Prompt PROVE Spec => []IInv
<1>1. Init => IInv
  BY ConstantsAssumption
     DEF Init, IInv, TypeOK, PCs, Checks, Paths, LockIntact, TakeoverIntact,
         TakeoverInUse, OldIsIdle, NoUnguardedDelete, ProbesOldLock,
         DeletesOnlyDeadLocks, HasLock, HasTakeover, Exists
<1>2. IInv /\ [Next]_vars => IInv'
  BY InductiveStep
<1> QED
  BY <1>1, <1>2, PTL DEF Spec

\* The function withSessionLock runs is never in two processes at once.
THEOREM LockExcludes == ASSUME Prompt PROVE Spec => []MutualExclusion
<1>1. IInv => MutualExclusion
  BY DEF IInv, LockIntact, HasLock, MutualExclusion
<1> QED
  BY <1>1, Inductive, PTL

\* The holder's lock file stays at its path until the holder releases it.
THEOREM LockStays == ASSUME Prompt PROVE Spec => []LockIntact
<1>1. IInv => LockIntact
  BY DEF IInv
<1> QED
  BY <1>1, Inductive, PTL

\* breakStaleLock deletes what it checked: a lock no living process holds.
THEOREM DeletesDeadLocks == ASSUME Prompt PROVE Spec => []DeletesOnlyDeadLocks
<1>1. IInv => DeletesOnlyDeadLocks
  BY DEF IInv
<1> QED
  BY <1>1, Inductive, PTL

\* At most one waiter at a time is about to delete the lock.
THEOREM DeletesAlone == ASSUME Prompt PROVE Spec => []OneDeleter
<1>1. IInv => OneDeleter
  BY DEF IInv, TakeoverIntact, HasTakeover, OneDeleter
<1> QED
  BY <1>1, Inductive, PTL

\* withSessionLock implements the abstract lock: each step acquires it when it
\* is free, gives it up, or leaves it as it is.
THEOREM Refinement == ASSUME Prompt PROVE Spec => ImplementsMutex
<1> DEFINE holders == {p \in Procs : HasLock(p)}
<1>1. Init => Mutex!MutexInit
  BY DEF Init, HasLock, Mutex!MutexInit
<1>2. ASSUME IInv, [Next]_vars PROVE [Mutex!MutexNext]_holders
  <2>1. TypeOK /\ LockIntact
    BY <1>2 DEF IInv
  <2> USE <2>1 DEF TypeOK, Paths, HasLock, Goto
  <2>2. ASSUME NEW p \in Procs, Create(p) PROVE Mutex!Acquire(p)
    <3>1. holders = {}
      BY <2>2, ConstantsAssumption
         DEF Create, OpenExclusive, Exists, LockIntact
    <3>2. holders' = {p}
      BY <2>2, <3>1 DEF Create
    <3> QED
      BY <3>1, <3>2 DEF Mutex!Acquire
  <2>3. ASSUME NEW p \in Procs, WriteThrows(p) \/ Unlock(p) PROVE Mutex!Leave(p)
    <3>1. p \in holders /\ holders' = holders \ {p}
      BY <2>3 DEF WriteThrows, Unlock
    <3> QED
      BY <3>1 DEF Mutex!Leave
  <2>4. ASSUME NEW p \in Procs, Die(p) PROVE Mutex!Leave(p) \/ UNCHANGED holders
    <3>1. holders' = holders \ {p}
      BY <2>4 DEF Die
    <3> QED
      BY <3>1 DEF Mutex!Leave
  <2>5. ASSUME NEW p \in Procs,
               \/ Call(p) \/ CreateFails(p) \/ CreateThrows(p)
               \/ Acquired(p) \/ WorkEnds(p) \/ Deadline(p)
               \/ TkCreate(p) \/ TkCreateFails(p) \/ TkWriteFails(p)
               \/ TkAcquired(p) \/ Delete(p) \/ TkRelease(p) \/ TkClear(p)
               \/ GcStat(p) \/ GcUnlink(p)
        PROVE UNCHANGED holders
    BY <2>5 DEF Call, CreateFails, CreateThrows, Acquired, WorkEnds, Deadline,
                TkCreate, TkCreateFails, TkWriteFails, TkAcquired, Delete,
                TkRelease, TkClear, GcStat, GcUnlink
  <2>6. ASSUME NEW p \in Procs, ReadOwner(p) \/ StatAge(p) \/ Probe(p)
        PROVE UNCHANGED holders
    <3>1. pc[p] \in {"read", "stat", "probe"}
      BY <2>6 DEF ReadOwner, StatAge, Probe
    <3>2. PICK l : pc' = [pc EXCEPT ![p] = l] /\ l \notin {"write", "work", "unlock"}
      <4>1. \A stale \in BOOLEAN : Verdict(p, stale) =>
              \E l : pc' = [pc EXCEPT ![p] = l] /\ l \notin {"write", "work", "unlock"}
        BY DEF Verdict, Checks
      <4>2. CASE Goto(p, "stat") \/ Goto(p, "probe")
        BY <4>2
      <4> QED
        BY <2>6, <4>1, <4>2 DEF ReadOwner, StatAge, Probe
    <3> QED
      BY <3>1, <3>2
  <2>7. ASSUME NEW f \in Paths, GrowOld(f) PROVE UNCHANGED holders
    BY <2>7 DEF GrowOld
  <2>8. ASSUME UNCHANGED vars PROVE UNCHANGED holders
    BY <2>8 DEF vars
  <2> HIDE <2>1 DEF TypeOK, Paths, HasLock, Goto, holders
  <2> QED
    BY <1>2, <2>2, <2>3, <2>4, <2>5, <2>6, <2>7, <2>8
       DEF Next, Step, Mutex!MutexNext
<1>3. [][Mutex!MutexNext]_holders <=> [][Mutex!MutexNext]_({p \in Procs : HasLock(p)})
  BY DEF holders
<1> QED
  BY <1>1, <1>2, <1>3, Inductive, PTL DEF Spec, ImplementsMutex, Mutex!MutexSpec
=============================================================================
