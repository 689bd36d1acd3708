------------------------------- MODULE MCRoutes --------------------------------
(* Small instances of L2tvppRoutes. *)
EXTENDS L2tvppRoutes, TLC

\* Indices, hosts and other prefixes are interchangeable.
Symmetric == Permutations(TunnelIdx) \cup Permutations(SessionIdx)
               \cup Permutations(SwIf) \cup Permutations(Hosts)
=============================================================================
