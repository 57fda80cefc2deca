---------------------------- MODULE MCProxyServer ----------------------------
(***************************************************************************)
(* TLC instances of ProxyServer.                                           *)
(***************************************************************************)
EXTENDS ProxyServer, TLC
Symmetry == Permutations(Requests) \union Permutations(Sids) \union Permutations(Values)
=============================================================================
