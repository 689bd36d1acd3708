-------------------------------- MODULE MCSyncd --------------------------------
(* Small instances of Syncd. *)
EXTENDS Syncd, TLC

\* Indices are interchangeable; so are the netdev names and the LACs.
Symmetric == Permutations(TunnelIdx) \cup Permutations(SessionIdx)
               \cup Permutations(SwIf) \cup Permutations(IfNames)
               \cup Permutations(Peers \ {ProcPeer})
=============================================================================
