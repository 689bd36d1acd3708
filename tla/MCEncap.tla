------------------------------- MODULE MCEncap ---------------------------------
(* Small instances of Encap. *)
EXTENDS Encap, TLC

\* Indices and hosts are interchangeable.
Symmetric == Permutations(TunnelIdx) \cup Permutations(SessionIdx)
               \cup Permutations(SwIf) \cup Permutations(Hosts)

\* Headers to different peers have different sums, one of them the largest.
MCHdrSum == [x \in Locals \X Peers |->
               IF x[2] = CHOOSE p \in Peers : TRUE THEN 3 ELSE Word - 1]
=============================================================================
