CONSTANTS
  TunnelIdx = {t0, t1}
  SessionIdx = {i0, i1}
  SwIf = {w0, w1}
  NoIndex = NoIndex
  Locals = {l4}
  Peers = {pA, pB, pP}
  Ip4 = {l4, pA, pB, pP, NoLocal}
  Tids = {1}
  PeerTids = {9}
  Sids = {1, 2}
  PeerSids = {1}
  Wrap = 3
  Hosts = {h1}
  OtherPfx = {}
  MaxLock = 6
  IfNames = {ppp0, ppp1}
  NoLocal = NoLocal
  Fallback = l4
  ProcPeer = pP
  ResyncEvery = 2
  MaxEvents = 4
  Faults = {"ip"}
SPECIFICATION SSpec
CHECK_DEADLOCK TRUE
INVARIANT PassMatchesKernel
SYMMETRY Symmetric
