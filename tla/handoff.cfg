CONSTANTS
  TunnelIdx = {t0}
  SessionIdx = {i0}
  SwIf = {w0}
  NoIndex = NoIndex
  Locals = {l4}
  Peers = {pA}
  Ip4 = {l4, pA}
  Tids = {1}
  PeerTids = {9}
  Sids = {1, 2}
  PeerSids = {1}
  Wrap = 3
  NWorkers = 2
  Hash <- MCHash
  RxThread <- MCRxThread
  Flows <- MCFlows
  FlowKey <- MCFlowKey
  FlowHash <- MCFlowHash
  OuterHash <- MCOuterHash
  OuterDst <- MCOuterDst
  MinNelts = 1
  ConfigNelts = {1, 3}
  WorkerLists <- MCWorkerLists
  Traffic <- MCTraffic
  MaxPackets = 2
SPECIFICATION HSpec
CHECK_DEADLOCK TRUE
INVARIANTS Conserved SessionOrder OrderKept QueueDepthLegal DeliveredToOwner HandedOffOnce
