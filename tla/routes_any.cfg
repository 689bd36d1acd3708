CONSTANTS
  TunnelIdx = {t0, t1}
  SessionIdx = {i0, i1}
  SwIf = {w0, w1}
  NoIndex = NoIndex
  Locals = {l4, l6}
  Peers = {pA, pB}
  Ip4 = {l4, pA, pB}
  Tids = {1}
  PeerTids = {9}
  Sids = {1, 2}
  PeerSids = {1}
  Wrap = 4
  Hosts = {h1, h2}
  OtherPfx = {v6}
  MaxLock = 2
SPECIFICATION RSpec
SYMMETRY Symmetric
CHECK_DEADLOCK TRUE
INVARIANTS TypeOK KeyIndexAgrees SwIfIndexAgrees TunnelsIdentified CachedAdjLocked FastpathWithinFib CountCoversCache
PROPERTY ImplementsTable
