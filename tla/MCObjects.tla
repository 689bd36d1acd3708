------------------------------- MODULE MCObjects -------------------------------
(* Small instances of L2tvppObjects. *)
EXTENDS L2tvppObjects, TLC

\* Tunnel, session and interface indices are interchangeable: no definition
\* orders them, and pool_get may return any free one.
Indices == Permutations(TunnelIdx) \cup Permutations(SessionIdx)
             \cup Permutations(SwIf)
=============================================================================
