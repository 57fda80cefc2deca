---------------------------- MODULE SessionLock ----------------------------
(***************************************************************************)
(* The per-session lock of src/session/storage.ts: withSessionLock,        *)
(* createLockFile, releaseLock, isLockStale, breakStaleLock, and the sweep *)
(* of gcSessions over files that are not sessions.                         *)
(*                                                                         *)
(* Every file-system call is a step of its own, because another process    *)
(* may run between any two of them: opening a file with 'wx', writing the  *)
(* owner into it, reading the owner, taking its age, probing the PID and   *)
(* unlinking the path.  A process may die at any step; a restarted program *)
(* is another member of Procs.                                             *)
(***************************************************************************)
EXTENDS Naturals

CONSTANTS
    Procs,        \* module instances of the library, one LOCK_OWNER each
    None,         \* no file, or a file without an owner in it
    ReusedPids,   \* processes whose PID the system hands out again once dead
    Refusals,     \* may the file system refuse an operation (EPERM, ENOSPC)?
    SlowHolders,  \* may a live process hold a lock past LOCK_STALE_MS?
    Abandon,      \* may a takeover file outlive the call that created it?
    GcSweep       \* may gcSessions run while the lock is in use?

ASSUME ConstantsAssumption ==
    /\ None \notin Procs
    /\ ReusedPids \subseteq Procs
    /\ Refusals \in BOOLEAN /\ SlowHolders \in BOOLEAN /\ Abandon \in BOOLEAN /\ GcSweep \in BOOLEAN

VARIABLES
    creator,   \* which process opened the file now at each path
    written,   \* whether its owner has been written into it
    age,       \* 0 young, 1 past LOCK_STALE_MS, 2 past the session TTL
    pc,        \* where each process is
    check,     \* which call of isLockStale it is in (see Verdict)
    seen,      \* the owner isLockStale read
    held       \* heldLocks

vars == <<creator, written, age, pc, check, seen, held>>
files == <<creator, written, age>>

Paths == {"lock", "takeover"}
Checks == {"first", "takeover", "again"}
PCs == {"idle", "create", "write", "work", "unlock",
        "read", "stat", "probe",
        "tkCreate", "tkWrite", "delete", "tkRelease", "tkClear",
        "deadline", "sweep", "dead"}

Init ==
    /\ creator = [f \in Paths |-> None]
    /\ written = [f \in Paths |-> FALSE]
    /\ age = [f \in Paths |-> 0]
    /\ pc = [p \in Procs |-> "idle"]
    /\ check = [p \in Procs |-> "first"]
    /\ seen = [p \in Procs |-> None]
    /\ held = [p \in Procs |-> {}]

Exists(f) == creator[f] # None
Alive(p) == pc[p] # "dead"
Owner(f) == IF written[f] THEN creator[f] ELSE None
CheckedPath(p) == IF check[p] = "takeover" THEN "takeover" ELSE "lock"

\* p opened the lock and has not yet unlinked it, given up on it, or died.
HasLock(p) == pc[p] \in {"write", "work", "unlock"}
\* p is inside breakStaleLock's takeover.
HasTakeover(p) ==
    \/ pc[p] \in {"tkWrite", "delete", "tkRelease"}
    \/ pc[p] \in {"read", "stat", "probe"} /\ check[p] = "again"
InUse(p, f) == IF f = "lock" THEN HasLock(p) ELSE HasTakeover(p)

Goto(p, l) == pc' = [pc EXCEPT ![p] = l]

\* Mutant: flag 'w', which truncates the file that is there.
OpenExclusiveTruncates(p, f) ==
    /\ creator' = [creator EXCEPT ![f] = p]
    /\ written' = [written EXCEPT ![f] = FALSE]
    /\ age' = [age EXCEPT ![f] = 0]

\* fs.writeFileSync with flag 'wx': the open, which fails when the path exists.
OpenExclusive(p, f) ==
    /\ ~Exists(f)
    /\ creator' = [creator EXCEPT ![f] = p]
    /\ written' = [written EXCEPT ![f] = FALSE]
    /\ age' = [age EXCEPT ![f] = 0]

\* ... and the write.  It goes to the opened file, so it changes what is at
\* the path only if that file is still there.  heldLocks.add follows it.
WriteOwner(p, f) ==
    /\ written' = [written EXCEPT ![f] = @ \/ creator[f] = p]
    /\ held' = [held EXCEPT ![p] = @ \union {f}]

\* fs.unlinkSync: by path, whatever file is there now.
Unlink(f) ==
    /\ creator' = [creator EXCEPT ![f] = None]
    /\ written' = [written EXCEPT ![f] = FALSE]
    /\ age' = [age EXCEPT ![f] = 0]

\* releaseLock's ten attempts: the path is unlinked, or stays.
UnlinkOrRefused(f) == Unlink(f) \/ (Refusals /\ UNCHANGED files)

----------------------------------------------------------------------------
(* withSessionLock *)

Call(p) ==
    /\ pc[p] = "idle"
    /\ Goto(p, "create")
    /\ UNCHANGED <<files, check, seen, held>>

Create(p) ==
    /\ pc[p] = "create"
    /\ OpenExclusive(p, "lock")
    /\ Goto(p, "write")
    /\ UNCHANGED <<check, seen, held>>

\* EEXIST, or EPERM for a lock that is being deleted.
CreateFails(p) ==
    /\ pc[p] = "create"
    /\ Exists("lock") \/ Refusals
    /\ Goto(p, "read")
    /\ check' = [check EXCEPT ![p] = "first"]
    /\ UNCHANGED <<files, seen, held>>

\* Any other error, or an EPERM streak beyond LOCK_EPERM_RETRIES, is thrown.
CreateThrows(p) ==
    /\ Refusals
    /\ pc[p] = "create"
    /\ Goto(p, "idle")
    /\ UNCHANGED <<files, check, seen, held>>

Acquired(p) ==
    /\ pc[p] = "write"
    /\ WriteOwner(p, "lock")
    /\ Goto(p, "work")
    /\ UNCHANGED <<creator, age, check, seen>>

\* The write fails (a full disk): the error is thrown, the empty file stays.
WriteThrows(p) ==
    /\ Refusals
    /\ pc[p] = "write"
    /\ Goto(p, "idle")
    /\ UNCHANGED <<files, check, seen, held>>

\* fn returned or threw; releaseLock first forgets the lock ...
WorkEnds(p) ==
    /\ pc[p] = "work"
    /\ held' = [held EXCEPT ![p] = @ \ {"lock"}]
    /\ Goto(p, "unlock")
    /\ UNCHANGED <<files, check, seen>>

\* ... then unlinks the path.
Unlock(p) ==
    /\ pc[p] = "unlock"
    /\ UnlinkOrRefused("lock")
    /\ Goto(p, "idle")
    /\ UNCHANGED <<check, seen, held>>

\* After a failed attempt: SessionLockTimeoutError, or sleep and try again.
Deadline(p) ==
    /\ pc[p] = "deadline"
    /\ \E l \in {"idle", "create"} : Goto(p, l)
    /\ UNCHANGED <<files, check, seen, held>>

----------------------------------------------------------------------------
(* isLockStale: three reads, one verdict *)

\* The call returns, its locals are gone.
Forget(p) ==
    /\ check' = [check EXCEPT ![p] = "first"]
    /\ seen' = [seen EXCEPT ![p] = None]

\* Mutant: no takeover, a waiter that finds the lock stale deletes it.
VerdictWithoutTakeover(p, stale) ==
    /\ Goto(p, IF stale THEN "delete" ELSE "deadline")
    /\ Forget(p)

Verdict(p, stale) ==
    /\ Goto(p, CASE check[p] = "first" -> IF stale THEN "tkCreate" ELSE "deadline"
                 [] check[p] = "takeover" -> IF stale THEN "tkClear" ELSE "deadline"
                 [] check[p] = "again" -> IF stale THEN "delete" ELSE "tkRelease")
    /\ Forget(p)

ReadOwner(p) ==
    LET f == CheckedPath(p) IN
    /\ pc[p] = "read"
    /\ \/ ~Exists(f) /\ Verdict(p, FALSE)
       \/ Exists(f) /\ Owner(f) = p /\ Verdict(p, f \notin held[p])
       \/ /\ Exists(f) /\ Owner(f) # p
          /\ seen' = [seen EXCEPT ![p] = Owner(f)]
          /\ Goto(p, "stat") /\ check' = check
    /\ UNCHANGED <<files, held>>

\* Mutant: the age is not looked at.
StatAgeIgnoresAge(p) ==
    /\ pc[p] = "stat"
    /\ \/ ~Exists(CheckedPath(p)) /\ Verdict(p, FALSE)
       \/ Exists(CheckedPath(p)) /\ seen[p] = None /\ Verdict(p, TRUE)
       \/ /\ Exists(CheckedPath(p)) /\ seen[p] # None
          /\ Goto(p, "probe") /\ UNCHANGED <<check, seen>>
    /\ UNCHANGED <<files, held>>

\* Mutant: an old file is stale whatever PID it names.
StatAgeWithoutProbe(p) ==
    /\ pc[p] = "stat"
    /\ \/ ~Exists(CheckedPath(p)) /\ Verdict(p, FALSE)
       \/ Exists(CheckedPath(p)) /\ Verdict(p, age[CheckedPath(p)] > 0 \/ seen[p] = None)
    /\ UNCHANGED <<files, held>>

StatAge(p) ==
    LET f == CheckedPath(p) IN
    /\ pc[p] = "stat"
    /\ \/ (~Exists(f) \/ age[f] = 0) /\ Verdict(p, FALSE)
       \/ Exists(f) /\ age[f] > 0 /\ seen[p] = None /\ Verdict(p, TRUE)
       \/ /\ Exists(f) /\ age[f] > 0 /\ seen[p] # None
          /\ Goto(p, "probe") /\ UNCHANGED <<check, seen>>
    /\ UNCHANGED <<files, held>>

\* Mutant: ESRCH is taken for a running process.
ProbeFindsAll(p) ==
    /\ pc[p] = "probe"
    /\ Verdict(p, FALSE)
    /\ UNCHANGED <<files, held>>

\* process.kill(pid, 0): ESRCH means no such process.
Probe(p) ==
    /\ pc[p] = "probe"
    /\ Verdict(p, ~Alive(seen[p]) /\ seen[p] \notin ReusedPids)
    /\ UNCHANGED <<files, held>>

----------------------------------------------------------------------------
(* breakStaleLock *)

TkCreate(p) ==
    /\ pc[p] = "tkCreate"
    /\ OpenExclusive(p, "takeover")
    /\ Goto(p, "tkWrite")
    /\ UNCHANGED <<check, seen, held>>

\* Mutant: the error is swallowed and the takeover goes on without its file.
TkCreateFailsIgnored(p) ==
    /\ pc[p] = "tkCreate"
    /\ Exists("takeover") \/ Refusals
    /\ Goto(p, "read")
    /\ check' = [check EXCEPT ![p] = "again"]
    /\ UNCHANGED <<files, seen, held>>

\* Any error of createLockFile: look at the takeover file instead.
TkCreateFails(p) ==
    /\ pc[p] = "tkCreate"
    /\ Exists("takeover") \/ Refusals
    /\ Goto(p, "read")
    /\ check' = [check EXCEPT ![p] = "takeover"]
    /\ UNCHANGED <<files, seen, held>>

\* ... also when the file was created but the owner could not be written.
TkWriteFails(p) ==
    /\ Abandon
    /\ pc[p] = "tkWrite"
    /\ Goto(p, "read")
    /\ check' = [check EXCEPT ![p] = "takeover"]
    /\ UNCHANGED <<files, seen, held>>

\* Mutant: the lock is not judged a second time inside the takeover.
TkAcquiredWithoutRecheck(p) ==
    /\ pc[p] = "tkWrite"
    /\ WriteOwner(p, "takeover")
    /\ Goto(p, "delete")
    /\ UNCHANGED <<creator, age, check, seen>>

TkAcquired(p) ==
    /\ pc[p] = "tkWrite"
    /\ WriteOwner(p, "takeover")
    /\ Goto(p, "read")
    /\ check' = [check EXCEPT ![p] = "again"]
    /\ UNCHANGED <<creator, age, seen>>

\* releaseLock(lockPath), judged stale a second time.
Delete(p) ==
    /\ pc[p] = "delete"
    /\ held' = [held EXCEPT ![p] = @ \ {"lock"}]
    /\ UnlinkOrRefused("lock")
    /\ Goto(p, "tkRelease")
    /\ UNCHANGED <<check, seen>>

\* releaseLock(takeoverPath), in the finally.
TkRelease(p) ==
    /\ pc[p] = "tkRelease"
    /\ held' = [held EXCEPT ![p] = @ \ {"takeover"}]
    /\ UnlinkOrRefused("takeover")
    /\ Abandon \/ ~Exists("takeover")'
    /\ Goto(p, "deadline")
    /\ UNCHANGED <<check, seen>>

\* releaseLock(takeoverPath), on a takeover file judged stale.
TkClear(p) ==
    /\ pc[p] = "tkClear"
    /\ held' = [held EXCEPT ![p] = @ \ {"takeover"}]
    /\ UnlinkOrRefused("takeover")
    /\ Goto(p, "deadline")
    /\ UNCHANGED <<check, seen>>

----------------------------------------------------------------------------
(* gcSessions, on a file that is not a session: stat, then unlink *)

GcStat(p) ==
    /\ GcSweep
    /\ pc[p] = "idle"
    /\ \E c \in {"first", "takeover"} :
         /\ check' = [check EXCEPT ![p] = c]
         /\ age[IF c = "takeover" THEN "takeover" ELSE "lock"] = 2
    /\ Goto(p, "sweep")
    /\ UNCHANGED <<files, seen, held>>

GcUnlink(p) ==
    /\ pc[p] = "sweep"
    /\ Unlink(CheckedPath(p))
    /\ Goto(p, "idle")
    /\ Forget(p)
    /\ UNCHANGED held

----------------------------------------------------------------------------
(* The environment *)

\* A process exits or crashes.
Die(p) ==
    /\ Alive(p)
    /\ HasTakeover(p) => Abandon
    /\ Goto(p, "dead")
    /\ Forget(p)
    /\ held' = [held EXCEPT ![p] = {}]
    /\ UNCHANGED files

\* Time passes for a file; "a lock is held for milliseconds" unless SlowHolders.
GrowOld(f) ==
    /\ Exists(f) /\ age[f] < 2
    /\ InUse(creator[f], f) => SlowHolders
    /\ age' = [age EXCEPT ![f] = @ + 1]
    /\ UNCHANGED <<creator, written, pc, check, seen, held>>

Step(p) ==
    \/ Create(p) \/ CreateFails(p) \/ Acquired(p) \/ WorkEnds(p)
    \/ Unlock(p) \/ Deadline(p)
    \/ ReadOwner(p) \/ StatAge(p) \/ Probe(p)
    \/ TkCreate(p) \/ TkCreateFails(p) \/ TkAcquired(p)
    \/ Delete(p) \/ TkRelease(p) \/ TkClear(p)
    \/ GcUnlink(p)

Next ==
    \/ \E p \in Procs :
         \/ Call(p) \/ Step(p)
         \/ CreateThrows(p) \/ WriteThrows(p) \/ TkWriteFails(p)
         \/ GcStat(p) \/ Die(p)
    \/ \E f \in Paths : GrowOld(f)

Spec == Init /\ [][Next]_vars

----------------------------------------------------------------------------
TypeOK ==
    /\ creator \in [Paths -> Procs \union {None}]
    /\ written \in [Paths -> BOOLEAN]
    /\ age \in [Paths -> 0..2]
    /\ pc \in [Procs -> PCs]
    /\ check \in [Procs -> Checks]
    /\ seen \in [Procs -> Procs \union {None}]
    /\ held \in [Procs -> SUBSET Paths]

\* No two processes run the function withSessionLock guards at once: the
\* promise of its comment ("cannot interleave with another process's").
MutualExclusion ==
    \A p, q \in Procs : pc[p] = "work" /\ pc[q] = "work" => p = q

\* From the open that acquires it to the unlink that releases it, the file at
\* the lock's path is the holder's own: nobody deleted it meanwhile, so the
\* release by path does not delete another process's lock.
LockIntact == \A p \in Procs : HasLock(p) => creator["lock"] = p

\* breakStaleLock: "what it checked is what it deletes".  A process about to
\* delete the lock faces a file, and one that no living process holds.
DeletesOnlyDeadLocks ==
    \A p \in Procs :
        pc[p] = "delete" => Exists("lock") /\ ~HasLock(creator["lock"])

\* breakStaleLock: "only one waiter at a time may delete a lock".
OneDeleter ==
    \A p, q \in Procs : pc[p] = "delete" /\ pc[q] = "delete" => p = q

\* withSessionLock implements the abstract lock.
Mutex == INSTANCE SessionMutex WITH holders <- {p \in Procs : HasLock(p)}
ImplementsMutex == Mutex!MutexSpec

----------------------------------------------------------------------------
(***************************************************************************)
(* The inductive invariant behind the properties above, under the three    *)
(* conditions the code's comments rely on.                                 *)
(***************************************************************************)
Prompt == ~SlowHolders /\ ~Abandon /\ ~GcSweep

\* The process in the takeover owns the takeover file, and the file is there
\* only while a process is: nobody else clears it.
TakeoverIntact == \A p \in Procs : HasTakeover(p) => creator["takeover"] = p
TakeoverInUse == Exists("takeover") => HasTakeover(creator["takeover"])

\* A file past LOCK_STALE_MS is not in use by the process that created it.
OldIsIdle ==
    \A f \in Paths : Exists(f) /\ age[f] > 0 => ~InUse(creator[f], f)

\* The unguarded deletions of breakStaleLock's catch and of gcSessions, and
\* the probe that leads to the first, are not reached.
NoUnguardedDelete ==
    \A p \in Procs : /\ pc[p] \notin {"tkClear", "sweep"}
                     /\ ~(pc[p] = "probe" /\ check[p] = "takeover")

\* Nobody removes the old lock between the stat and the delete of a process
\* in the takeover.
ProbesOldLock ==
    \A p \in Procs : pc[p] = "probe" /\ check[p] = "again"
                        => Exists("lock") /\ age["lock"] > 0

IInv ==
    /\ TypeOK
    /\ LockIntact
    /\ TakeoverIntact
    /\ TakeoverInUse
    /\ OldIsIdle
    /\ NoUnguardedDelete
    /\ ProbesOldLock
    /\ DeletesOnlyDeadLocks

----------------------------------------------------------------------------
(***************************************************************************)
(* Fairness: a process in a call keeps running and files age.  Nothing     *)
(* makes a process call, retry rather than time out, or die.               *)
(***************************************************************************)
Fairness ==
    /\ \A f \in Paths : WF_vars(GrowOld(f))
    /\ \A p \in Procs : WF_vars(Step(p)) /\ SF_vars(TkAcquired(p))

FairSpec == Spec /\ Fairness

\* A lock left behind by a process that died does not block the session for
\* ever: while some process keeps retrying, it is taken over ("takes over a
\* lock left by a process that died").
DeadLockCleared ==
    []<>(\E q \in Procs : pc[q] = "create")
        => \A p \in Procs \ ReusedPids :
             (creator["lock"] = p /\ ~Alive(p)) ~> creator["lock"] # p
=============================================================================
