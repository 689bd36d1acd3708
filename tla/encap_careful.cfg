CONSTANTS
  TunnelIdx = {t0, t1}
  SessionIdx = {i0, i1}
  SwIf = {w0, w1}
  NoIndex = NoIndex
  Locals = {l4, l6}
  Peers = {pA, pB}
  Ip4 = {l4, pA, pB}
  Tids = {1, 2}
  PeerTids = {9}
  Sids = {1, 2}
  PeerSids = {1, 2}
  Wrap = 5
  Hosts = {h1, h2}
  OtherPfx = {v6}
  MaxLock = 3
  Word = 8
  HdrSum <- MCHdrSum
  Lens = {1, 4, 5, 7}
  Moves = FALSE
  MaxBlock = 0
SPECIFICATION ESpec
SYMMETRY Symmetric
CHECK_DEADLOCK TRUE
INVARIANTS SessionCountExact NoDanglingTunnel FastpathMirrorsFib LocksMatchCache NoDanglingRoute RewriteFollowsSession EmittedHeaderValid
