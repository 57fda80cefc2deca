---------------------------- MODULE SessionMutex ----------------------------
(***************************************************************************)
(* What withSessionLock promises its callers, without files, PIDs or ages: *)
(* the read-modify-write of a session runs in at most one process at a     *)
(* time, whatever happens to the processes.                                *)
(***************************************************************************)
CONSTANT Procs      \* the processes that share one session
VARIABLE holders    \* those inside the lock, between acquiring and leaving

MutexInit == holders = {}

Acquire(p) == holders = {} /\ holders' = {p}

\* The holder finishes, throws, or dies.
Leave(p) == p \in holders /\ holders' = holders \ {p}

MutexNext == \E p \in Procs : Acquire(p) \/ Leave(p)

MutexSpec == MutexInit /\ [][MutexNext]_holders
=============================================================================
