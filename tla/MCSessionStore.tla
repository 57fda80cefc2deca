--------------------------- MODULE MCSessionStore ---------------------------
(***************************************************************************)
(* TLC instances of SessionStore.  Processes, values and passphrases are   *)
(* interchangeable.                                                        *)
(***************************************************************************)
EXTENDS SessionStore, TLC
Symmetry == Permutations(Procs) \union Permutations(Values) \union Permutations(Keys)
=============================================================================
