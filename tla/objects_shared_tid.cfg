CONSTANTS
  TunnelIdx = {t0, t1}
  SessionIdx = {i0, i1, i2}
  SwIf = {w0, w1, w2}
  NoIndex = NoIndex
  Locals = {l4, l6}
  Peers = {pA, pB}
  Ip4 = {l4, pA, pB}
  Tids = {1, 2}
  PeerTids = {9}
  Sids = {1, 2}
  PeerSids = {1}
  Wrap = 5
SPECIFICATION Spec
SYMMETRY Indices
CHECK_DEADLOCK TRUE
INVARIANTS NoDanglingTunnel
