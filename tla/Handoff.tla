------------------------------- MODULE Handoff --------------------------------
(***************************************************************************)
(* Decapsulation spread over VPP's workers while the control plane changes *)
(* the sessions (L2tvppObjects) and reconfigures the spreading.  Two nodes *)
(* move packets between threads:                                           *)
(*   - l2tvpp-flow-handoff (flow_handoff.c), right behind the driver, by   *)
(*     inner flow, to ethernet-input or, on the fast path, straight to     *)
(*     l2tvpp-input on the chosen worker;                                  *)
(*   - l2tvpp-handoff (handoff.c), on udp/1701, by session, to             *)
(*     l2tvpp-input on the session's worker.                               *)
(*                                                                         *)
(* A node runs a frame to its end before its thread can reach the barrier, *)
(* so what happens to a packet on one thread is one step; a frame of       *)
(* several packets is several steps.  CLI and API handlers hold the        *)
(* barrier, each is one step.  The frame queues are vlib's (external):     *)
(* bounded, first in first out, polled in every turn of the main loop, a   *)
(* thread's queue to itself included.                                      *)
(***************************************************************************)
EXTENDS L2tvppObjects, PacketKinds, Sequences

CONSTANTS
  NWorkers,    \* vlib_num_workers: threads 1 .. NWorkers, 0 is the main thread
  Hash,        \* the mixed 32-bit hash of (tid, sid) in l2tvpp_handoff_worker
  RxThread,    \* tid -> thread: NIC RSS on the outer 4-tuple of the tunnel's LAC
  Flows,       \* inner flows
  FlowKey,     \* flow -> the session that carries it
  FlowHash,    \* flow -> crc32c of its inner 5-tuple
  OuterHash,   \* tid -> crc32c of the outer 5-tuple of the tunnel's LAC
  OuterDst,    \* tid -> the local endpoint the LAC sends to
  MinNelts,    \* 8 + 1 + number of threads
  ConfigNelts, \* values of `handoff-queue-nelts', the default included
  WorkerLists, \* `workers <list>' of the CLI, ascending thread indices
  Traffic,     \* the packets that arrive: pairs of a flow and a kind
  MaxPackets   \* bound on the packets that arrive

Threads == 0 .. NWorkers
PowersOfTwo == {2 ^ k : k \in 0 .. 30}

\* handoff-queue-nelts above 2^31 (here 2^30) would shift a one out of its word.
ASSUME HandoffAssumption ==
  /\ NWorkers \in Nat
  /\ Hash \in [SessionKey -> Nat]
  /\ RxThread \in [Tids -> Threads]
  /\ FlowKey \in [Flows -> SessionKey]
  /\ FlowHash \in [Flows -> Nat]
  /\ OuterHash \in [Tids -> Nat]
  /\ OuterDst \in [Tids -> Locals]
  /\ MinNelts \in Nat \ {0} /\ MinNelts <= 2 ^ 30
  /\ \A n \in ConfigNelts : n \in Nat \ {0} /\ n <= 2 ^ 30
  /\ <<>> \in WorkerLists /\ WorkerLists \subseteq Seq(Nat \ {0})
  /\ Traffic \subseteq Flows \X (AllKinds \ {"plain"})
  /\ MaxPackets \in Nat

VARIABLES
  handoff_enabled,      \* lm->handoff_enabled: which node has udp/1701
  handoff_queue_nelts,  \* lm->handoff_queue_nelts
  if_data,              \* flow handoff of the interface that faces the LACs
  by_hand,              \* history: `l2tvpp handoff on' since flow handoff was enabled
  depth,                \* nelts of the two frame queues, 0 until they are created
  queue,                \* node -> thread -> the packets that wait for it
  arrived,              \* packets received, numbered in order of arrival
  congestion,           \* the two nodes' "congestion drop" counters
  done,                 \* history: the packets that were through l2tvpp-input
  out                   \* history: what l2tvpp-input did in the last step, if it ran

configVars == <<handoff_enabled, handoff_queue_nelts, if_data, by_hand, depth>>
dataVars == <<queue, arrived, congestion, done, out>>
hvars == <<vars, configVars, dataVars>>

QueueNodes == {"ethernet-input", "l2tvpp-input"}
HandoffNodes == {"l2tvpp-handoff", "l2tvpp-flow-handoff"}

\* via: the queues the packet went through; spread: how the interface spread
\* packets when it arrived; steady: nothing that steers packets changed since.
Packet == [id : Nat, flow : Flows, kind : AllKinds, via : Seq(QueueNodes),
           spread : {"rx", "one", "flow", "spray"}, steady : BOOLEAN]
KeyOfPacket(p) == FlowKey[p.flow]

Disabled == [enabled |-> FALSE, workers |-> <<>>, fastpath |-> FALSE,
             spray |-> FALSE]

\* Mutant: rounded down to a power of two.
RoundedDown(n) ==
  LET m == IF n < MinNelts THEN MinNelts ELSE n
  IN CHOOSE d \in PowersOfTwo : d <= m /\ m < 2 * d
\* l2tvpp_handoff_queue_nelts: at least MinNelts, rounded up to a power of two.
LegalNelts(n) ==
  LET m == IF n < MinNelts THEN MinNelts ELSE n
  IN CHOOSE d \in PowersOfTwo : m <= d /\ d < 2 * m

\* l2tvpp_config, then l2tvpp_handoff_default: the queue to l2tvpp-input is
\* created, and the handoff is on when there is something to spread over.
HInit ==
  /\ Init
  /\ \E n \in ConfigNelts : handoff_queue_nelts = LegalNelts(n)
  /\ depth = [node \in QueueNodes |->
                IF node = "l2tvpp-input" THEN handoff_queue_nelts ELSE 0]
  /\ handoff_enabled = (NWorkers > 1)
  /\ if_data = Disabled /\ by_hand = FALSE
  /\ queue = [node \in QueueNodes |-> [t \in Threads |-> <<>>]]
  /\ congestion = [node \in HandoffNodes |-> 0]
  /\ arrived = 0 /\ done = {} /\ out = {}

-----------------------------------------------------------------------------
(* l2tvpp-input *)

\* Mutant: the session id left out of the key.
LookupByTid(key) ==
  {session_by_key[k] : k \in {j \in DOMAIN session_by_key : j[1] = key[1]}}
\* The bihash probe, at the time the packet is decapsulated.
SessionLookup(key) ==
  {session_by_key[k] : k \in DOMAIN session_by_key \cap {key}}

\* p is decapsulated, on whichever thread: the next node, and the interface the
\* inner packet is received on there.
Input(p) ==
  LET found == SessionLookup(KeyOfPacket(p))
      next  == InputNext(p.kind, found # {})
      Log(w) == out' = {[packet |-> p, next |-> next, sw_if_index |-> w]}
  IN /\ done' = done \cup {p.id}
     /\ \/ next \notin {"ip4-input", "ip6-input"} /\ Log(NoIndex)
        \/ /\ next \in {"ip4-input", "ip6-input"}
           /\ \E i \in found : Log(sessions[i].sw_if_index)
NoInput == out' = {} /\ UNCHANGED done

-----------------------------------------------------------------------------
(* The two handoff nodes *)

Room(node, t) == Len(queue[node][t]) < depth[node]

\* Mutant: the packets that found the queue full are not counted.
DropSilently(from) == UNCHANGED congestion
\* n_enq < n: the packet is freed and counted.
CountDrop(from) == congestion' = [congestion EXCEPT ![from] = @ + 1]

\* vlib_buffer_enqueue_to_thread, called by node `from'; q is `queue' without
\* the packet, if it was waiting in a queue itself.
Enqueue(q, from, node, t, p) ==
  \/ /\ Room(node, t)
     /\ queue' = [q EXCEPT ![node][t] = Append(@, [p EXCEPT !.via = Append(@, node)])]
     /\ UNCHANGED congestion
  \/ /\ ~Room(node, t)
     /\ queue' = q
     /\ CountDrop(from)

InputHere(q, p) == Input(p) /\ queue' = q /\ UNCHANGED congestion

\* Mutant: round robin over the workers.
WorkerInTurn(p) == 1 + (p.id % NWorkers)
\* l2tvpp_handoff_worker
HandoffWorker(p) == 1 + (Hash[KeyOfPacket(p)] % NWorkers)

\* l2tvpp_handoff_node: data goes to its session's worker, the rest stays.
Target(p, t) ==
  IF NWorkers > 0 /\ HdrClass(p.kind) = "DATA" THEN HandoffWorker(p) ELSE t

\* ethernet-input, ip4-input, ip4-lookup, ip4-receive and udp-local bring the
\* packet to the node that udp/1701 is registered for.
EthernetInput(q, p, t) ==
  \/ /\ handoff_enabled
     /\ Enqueue(q, "l2tvpp-handoff", "l2tvpp-input", Target(p, t), p)
     /\ NoInput
  \/ /\ ~handoff_enabled
     /\ InputHere(q, p)

\* Whether the outer header passes the fast path's checks: the ones on its bytes
\* are Decap's, here they hold.
Fast(p) == if_data.fastpath /\ OuterDst[KeyOfPacket(p)[1]] \in local_ip4s

WantHash == ~if_data.spray /\ Len(if_data.workers) > 1

\* Mutant: the hash is left at 0 when the inner header is not looked at, and a
\* packet's number stands in for it.
HashById(flow_kind, p) == p.id
\* What l2tvpp_flow_classify leaves in *hash.
ClassifyHash(flow_kind, p) ==
  IF flow_kind = "OUTER" THEN OuterHash[KeyOfPacket(p)[1]]
  ELSE IF p.kind \in {"bad_ip", "bad_ip6"} THEN 0 ELSE FlowHash[p.flow]

\* The thread l2tvpp_flow_handoff_node picks for a packet on thread t.  In spray
\* mode any: threads race on the round-robin cursor.
FlowThreads(flow_kind, p, t) ==
  LET workers == if_data.workers
      nw      == Len(workers)
  IN IF flow_kind = "LOCAL" \/ nw = 0 THEN {t}
     ELSE IF if_data.spray THEN {workers[i] : i \in 1 .. nw}
     ELSE IF nw = 1 THEN {workers[1]}
     ELSE {workers[1 + (ClassifyHash(flow_kind, p) % nw)]}

\* l2tvpp_flow_handoff_node
FlowHandoff(p, t) ==
  LET flow_kind == FlowKind(p.kind, Fast(p), WantHash)
      node == IF flow_kind = "FAST" THEN "l2tvpp-input" ELSE "ethernet-input"
  IN \E w \in FlowThreads(flow_kind, p, t) :
       \/ /\ w = t /\ node = "l2tvpp-input"
          /\ InputHere(queue, p)
       \/ /\ w = t /\ node = "ethernet-input"
          /\ EthernetInput(queue, p, t)
       \/ /\ w # t
          /\ Enqueue(queue, "l2tvpp-flow-handoff", node, w, p)
          /\ NoInput

Spread ==
  IF ~if_data.enabled THEN "rx"
  ELSE IF if_data.spray THEN "spray"
  ELSE IF Len(if_data.workers) > 1 THEN "flow" ELSE "one"

\* A packet arrives: the driver hands it to the flow handoff or to ethernet-input.
Receive(flow, kind) ==
  /\ arrived < MaxPackets
  /\ arrived' = arrived + 1
  /\ LET p == [id |-> arrived + 1, flow |-> flow, kind |-> kind, via |-> <<>>,
               spread |-> Spread, steady |-> TRUE]
         t == RxThread[KeyOfPacket(p)[1]]
     IN \/ if_data.enabled /\ FlowHandoff(p, t)
        \/ ~if_data.enabled /\ EthernetInput(queue, p, t)
  /\ UNCHANGED <<vars, configVars>>

\* Thread t takes the oldest packet off one of its queues, which vlib polls whether the
\* handoff that filled it is still on or not.
Dequeue(node, t) ==
  /\ queue[node][t] # <<>>
  /\ LET p == Head(queue[node][t])
         q == [queue EXCEPT ![node][t] = Tail(@)]
     IN \/ node = "l2tvpp-input" /\ InputHere(q, p)
        \/ node = "ethernet-input" /\ EthernetInput(q, p, t)
  /\ UNCHANGED <<vars, configVars, arrived>>

-----------------------------------------------------------------------------
(* The control plane.  A refused call changes nothing packets see; `reply' *)
(* stays that of the last call about tunnels and sessions.                 *)

\* Packets that wait while what steers them changes; what is queued stays queued.
Unsettle ==
  queue' = [node \in QueueNodes |-> [t \in Threads |->
              [i \in DOMAIN queue[node][t] |->
                 [queue[node][t][i] EXCEPT !.steady = FALSE]]]]

\* l2tvpp_set_handoff
SetHandoff(enable) ==
  /\ enable # handoff_enabled
  /\ handoff_enabled' = enable
  /\ by_hand' = (enable \/ by_hand)
  /\ Unsettle
  /\ NoInput
  /\ UNCHANGED <<vars, handoff_queue_nelts, if_data, depth, arrived, congestion>>

\* frame_queue_index == ~0: the queue to ethernet-input is created on first use.
EthDepth(d) == IF d = 0 THEN LegalNelts(handoff_queue_nelts) ELSE d

\* Mutant: the session handoff is left as it is.
LeaveSessionHandoff == UNCHANGED handoff_enabled
SessionHandoffOff == handoff_enabled' = FALSE

\* l2tvpp_flow_handoff_enable_disable, enable, behind the checks of its CLI.
FlowEnable(workers, fastpath, spray) ==
  /\ workers # <<>> \/ fastpath
  /\ spray => Len(workers) >= 2
  /\ \A i \in DOMAIN workers : workers[i] \in Threads \ {0}
  /\ if_data' = [enabled |-> TRUE, workers |-> workers, fastpath |-> fastpath,
                 spray |-> spray]
  /\ depth' = [depth EXCEPT !["ethernet-input"] = EthDepth(@)]
  /\ SessionHandoffOff
  /\ by_hand' = FALSE
  /\ Unsettle /\ NoInput
  /\ UNCHANGED <<vars, handoff_queue_nelts, arrived, congestion>>

\* l2tvpp_flow_handoff_enable_disable, !enable.  The queue is created all the
\* same; the session handoff stays as it is.
FlowDisable ==
  /\ if_data' = Disabled
  /\ depth' = [depth EXCEPT !["ethernet-input"] = EthDepth(@)]
  /\ Unsettle /\ NoInput
  /\ UNCHANGED <<vars, handoff_enabled, handoff_queue_nelts, by_hand, arrived, congestion>>

\* A call that changes tunnels or sessions; a new local address makes packets fast.
ObjectCall ==
  /\ Next /\ reply'.rv = "OK"
  /\ IF local_ip4s' = local_ip4s THEN UNCHANGED queue ELSE Unsettle
  /\ NoInput
  /\ UNCHANGED <<configVars, arrived, congestion>>

ControlPlane ==
  \/ \E enable \in BOOLEAN : SetHandoff(enable)
  \/ \E workers \in WorkerLists, fastpath, spray \in BOOLEAN :
       FlowEnable(workers, fastpath, spray)
  \/ FlowDisable
  \/ ObjectCall

HNext ==
  \/ \E x \in Traffic : Receive(x[1], x[2])
  \/ \E node \in QueueNodes, t \in Threads : Dequeue(node, t)
  \/ ControlPlane

HSpec == HInit /\ [][HNext]_hvars

-----------------------------------------------------------------------------
(* Properties *)

Entries(f) == {f[i] : i \in DOMAIN f}
Waiting == UNION {Entries(queue[node][t]) : node \in QueueNodes, t \in Threads}
WaitingIds == {p.id : p \in Waiting}
IsData(p) == HdrClass(p.kind) = "DATA"

\* A queue that packets may be sent to has a depth vlib_frame_queue_alloc accepts
\* (l2tvpp.c:569, "power of two, >= 8 + threads"), at least what was configured,
\* the queue created later has the depth of the first, and no queue ever holds more.
QueueDepthLegal ==
  /\ depth["l2tvpp-input"] \in PowersOfTwo
  /\ depth["l2tvpp-input"] >= MinNelts
  /\ \E n \in ConfigNelts : depth["l2tvpp-input"] = LegalNelts(n) /\ n <= LegalNelts(n)
  /\ depth["ethernet-input"] \in {0, depth["l2tvpp-input"]}
  /\ if_data.enabled => depth["ethernet-input"] # 0
  /\ \A node \in QueueNodes, t \in Threads : Len(queue[node][t]) <= depth[node]

\* No packet is lost or handled twice (handoff.c:43, "drops when full (counted
\* here as `congestion drop')"): each one is waiting, has been through
\* l2tvpp-input once, or is in a drop counter, whichever queues it took and
\* whatever is reconfigured meanwhile.
Conserved ==
  /\ WaitingIds \cap done = {}
  /\ Cardinality(WaitingIds) = Cardinality(Waiting)
  /\ Cardinality(WaitingIds) + Cardinality(done)
       + congestion["l2tvpp-handoff"] + congestion["l2tvpp-flow-handoff"] = arrived

\* "one session always maps to one worker" (handoff.c:41): without flow handoff, a
\* data packet that went through the queue to its session's worker never leaves
\* l2tvpp-input before an earlier one of its session that waits in such a queue,
\* whatever is toggled, deleted or added while they wait.
SessionOrder ==
  \A o \in out, b \in Waiting :
    LET a == o.packet
    IN /\ KeyOfPacket(a) = KeyOfPacket(b) /\ IsData(a) /\ IsData(b)
       /\ a.spread = "rx" /\ b.spread = "rx" /\ a.via = b.via
       => a.id < b.id

\* What may not overtake what: with flow handoff over several workers "every
\* 5-tuple flow stays in order" (flow_handoff.c:34), over one worker or none it
\* is "an in-order pipeline" (:50) and a session's data stays in order, as it
\* does without flow handoff; spray promises nothing.
SameUnit(a, b) ==
  CASE b.spread = "spray" -> FALSE
    [] b.spread = "flow"  -> a.flow = b.flow /\ a.kind = b.kind
    [] OTHER -> KeyOfPacket(a) = KeyOfPacket(b) /\ IsData(a) /\ IsData(b)

\* As long as nothing that steers packets is changed while it waits, no packet is
\* overtaken by a later one of its unit, over one queue or two.
OrderKept ==
  \A o \in out, b \in Waiting :
    b.steady /\ SameUnit(o.packet, b) => o.packet.id < b.id

\* A packet is received on the interface that belongs, when it is decapsulated, to
\* the live session with the packet's own tid and sid: sessions deleted, added and
\* indices reused while it waited in a queue never misdirect it.
DeliveredToOwner ==
  \A o \in out :
    o.next \in {"ip4-input", "ip6-input"} =>
      /\ o.sw_if_index \in interfaces
      /\ \E i \in DOMAIN sessions :
           /\ KeyOf(sessions[i]) = KeyOfPacket(o.packet)
           /\ sessions[i].sw_if_index = o.sw_if_index

\* Enabling flow handoff turns the session handoff off, "so a packet is never
\* handed off twice" (flow_handoff.c:46): it is not, until an operator turns the
\* session handoff on again beside it, which the code allows.
HandedOffOnce ==
  ~by_hand =>
    \A p \in Waiting \cup {o.packet : o \in out} : p.steady => Len(p.via) <= 1
=============================================================================
