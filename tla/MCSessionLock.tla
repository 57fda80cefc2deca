-------------------------- MODULE MCSessionLock --------------------------
(***************************************************************************)
(* TLC instances of SessionLock.  Processes are interchangeable as long as *)
(* no PID is reused and no liveness is checked.                            *)
(***************************************************************************)
EXTENDS SessionLock, TLC
Symmetry == Permutations(Procs \ ReusedPids)
=============================================================================
