---------------------------- MODULE Handoff_proofs ----------------------------
(***************************************************************************)
(* Proofs about Handoff, for any number of workers, queue depths, packets, *)
(* flows, hash functions and worker lists.                                 *)
(***************************************************************************)
EXTENDS Handoff, L2tvppObjects_proofs, SequenceTheorems

-----------------------------------------------------------------------------
(* The inductive invariant *)

Eth == "ethernet-input"
L2tp == "l2tvpp-input"

Queues == [QueueNodes -> [Threads -> Seq(Packet)]]

\* The values of the configuration and of the queues.
ConfigTypes ==
  /\ handoff_enabled \in BOOLEAN /\ by_hand \in BOOLEAN
  /\ if_data \in [enabled : BOOLEAN, workers : Seq(Threads), fastpath : BOOLEAN,
                  spray : BOOLEAN]
  /\ ~if_data.enabled => if_data = Disabled
DataTypes ==
  /\ queue \in Queues
  /\ arrived \in Nat
  /\ congestion \in [HandoffNodes -> Nat]
  /\ done \subseteq 1 .. arrived

\* Flow handoff and session handoff are both on only if an operator asked for it.
ExclusiveInv == if_data.enabled /\ handoff_enabled => by_hand

\* Both queues have the depth that was configured, and hold no more.
DepthInv ==
  /\ \E n \in ConfigNelts : handoff_queue_nelts = LegalNelts(n)
  /\ depth \in [QueueNodes -> {0, handoff_queue_nelts}]
  /\ depth[L2tp] = handoff_queue_nelts
  /\ if_data.enabled => depth[Eth] # 0
  /\ \A n \in QueueNodes, t \in Threads : Len(queue[n][t]) <= depth[n]

\* The thread a packet arrives on, what the flow handoff makes of it now, and the
\* worker it picks, without spray.
RxOf(p) == RxThread[KeyOfPacket(p)[1]]
FlowKindOf(p) == FlowKind(p.kind, Fast(p), WantHash)
FlowThread(p) == CHOOSE w \in FlowThreads(FlowKindOf(p), p, RxOf(p)) : TRUE

\* Under the present configuration p goes through a queue to ethernet-input.
Detours(p) == if_data.enabled /\ FlowKindOf(p) # "FAST" /\ FlowThread(p) # RxOf(p)

\* The queues p waits in, under the present configuration, on its way.
Placed(n, t, p) ==
  IF Detours(p)
  THEN \/ n = Eth /\ t = FlowThread(p)
       \/ /\ n = L2tp /\ p.via = <<Eth, L2tp>>
          /\ handoff_enabled /\ t = Target(p, FlowThread(p))
  ELSE /\ n = L2tp /\ p.via = <<L2tp>>
       /\ IF if_data.enabled /\ FlowKindOf(p) = "FAST"
          THEN t = FlowThread(p) /\ t # RxOf(p)
          ELSE t = Target(p, RxOf(p)) /\ handoff_enabled

\* What holds of every packet that waits in queue n of thread t.
PacketInv(n, t, p) ==
  /\ p.kind # "plain"
  /\ n = Eth => p.via = <<Eth>> /\ p.spread # "rx"
  /\ n = L2tp => p.via \in {<<L2tp>>, <<Eth, L2tp>>}
  /\ p.spread = "rx" => p.via = <<L2tp>> /\ t = Target(p, RxOf(p))
  /\ p.steady => /\ p.spread = Spread
                 /\ p.spread # "spray" => Placed(n, t, p)
                 /\ ~by_hand => Len(p.via) <= 1

\* a is ahead of b in one queue.
InOrder(a, b) ==
  /\ a.spread = "rx" /\ b.spread = "rx" => a.id < b.id
  /\ b.steady /\ SameUnit(a, b) => a.id < b.id

\* No waiting packet that has seen a change arrived after one that has not, and each
\* has a number of its own.
Apart(a, b) == a.id # b.id /\ (b.steady /\ ~a.steady => a.id < b.id)

Slots(q) == {x \in QueueNodes \X Threads \X Nat : x[3] \in DOMAIN q[x[1]][x[2]]}
At(q, x) == q[x[1]][x[2]][x[3]]

\* The invariant of the queues' contents: each packet by itself, any two, two in one
\* queue, and one in each of the queues a packet may go through in turn.
PlacesInv(q) == \A x \in Slots(q) : PacketInv(x[1], x[2], At(q, x))
ApartInv(q) == \A x, y \in Slots(q) : x # y => Apart(At(q, x), At(q, y))
LineInv(q) ==
  \A x, y \in Slots(q) : x[1] = y[1] /\ x[2] = y[2] /\ x[3] < y[3] =>
                           InOrder(At(q, x), At(q, y))
TandemInv(q) ==
  \A x, y \in Slots(q) :
    x[1] = L2tp /\ y[1] = Eth /\ At(q, y).steady /\ SameUnit(At(q, x), At(q, y)) =>
      At(q, x).id < At(q, y).id
QueueInv(q) ==
  q \in Queues /\ PlacesInv(q) /\ ApartInv(q) /\ LineInv(q) /\ TandemInv(q)

IdsOf(q) == {At(q, x).id : x \in Slots(q)}

\* A packet that waits has arrived and is not done.
IdsInv == IdsOf(queue) \subseteq (1 .. arrived) \ done

\* Every packet is waiting, done or counted.
CountedInv ==
  Cardinality(IdsOf(queue)) + Cardinality(done)
    + congestion["l2tvpp-handoff"] + congestion["l2tvpp-flow-handoff"] = arrived

\* What left l2tvpp-input in the last step is no later than what it must not
\* overtake, was handed off once, and went to its session's interface.
Leaves(q, p) ==
  /\ \A x \in Slots(q) :
       /\ KeyOfPacket(p) = KeyOfPacket(At(q, x)) /\ IsData(p) /\ IsData(At(q, x))
          /\ p.spread = "rx" /\ At(q, x).spread = "rx" /\ p.via = At(q, x).via
          => p.id < At(q, x).id
       /\ At(q, x).steady /\ SameUnit(p, At(q, x)) => p.id < At(q, x).id
  /\ ~by_hand /\ p.steady => Len(p.via) <= 1
OutInv == (\A o \in out : Leaves(queue, o.packet)) /\ DeliveredToOwner

HandoffInv ==
  /\ IndexInv /\ ConfigTypes /\ DataTypes
  /\ ExclusiveInv /\ DepthInv
  /\ QueueInv(queue) /\ IdsInv /\ CountedInv
  /\ OutInv

-----------------------------------------------------------------------------
(* Queue depths *)

Powers == {1, 2, 4, 8, 16, 32, 64, 128, 256, 512, 1024, 2048, 4096, 8192, 16384, 32768,
           65536, 131072, 262144, 524288, 1048576, 2097152, 4194304, 8388608, 16777216,
           33554432, 67108864, 134217728, 268435456, 536870912, 1073741824}

LEMMA PowersListed == PowersOfTwo = Powers
  BY SMTT(60) DEF PowersOfTwo, Powers

LEMMA NeltsBounds ==
  /\ MinNelts \in Nat /\ MinNelts >= 1 /\ MinNelts <= 1073741824
  /\ \A n \in ConfigNelts : n \in Nat /\ n >= 1 /\ n <= 1073741824
  BY SMT, HandoffAssumption

\* l2tvpp_handoff_queue_nelts rounds up to one power of two, and rounding what it
\* returned changes nothing: the second queue gets the depth of the first.
LEMMA LegalNeltsFacts ==
  ASSUME NEW n \in Nat, n >= 1, n <= 1073741824
  PROVE  /\ LegalNelts(n) \in PowersOfTwo
         /\ LegalNelts(n) \in Nat /\ LegalNelts(n) >= MinNelts /\ LegalNelts(n) >= n
         /\ LegalNelts(n) # 0
         /\ LegalNelts(LegalNelts(n)) = LegalNelts(n)
  <1> DEFINE m == IF n < MinNelts THEN MinNelts ELSE n
             d == LegalNelts(n)
  <1>1. m \in Nat /\ m >= 1 /\ m <= 1073741824 /\ m >= n /\ m >= MinNelts
    BY SMT, NeltsBounds
  <1> HIDE DEF m
  <1>2. \E e \in Powers : m <= e /\ e < 2 * m
    BY SMT, <1>1 DEF Powers
  <1>3. d \in PowersOfTwo /\ m <= d /\ d < 2 * m
    BY SMT, <1>2, PowersListed DEF LegalNelts, m
  <1>4. d \in Nat /\ d >= MinNelts /\ d >= n /\ d # 0
    BY SMT, <1>1, <1>3, PowersListed, NeltsBounds DEF Powers
  <1>5. \A e \in Powers : d <= e /\ e < 2 * d => e = d
    BY SMT, <1>3, PowersListed DEF Powers
  <1>6. LegalNelts(d) = CHOOSE e \in PowersOfTwo : d <= e /\ e < 2 * d
    <2>1. ~(d < MinNelts)
      BY SMT, <1>4, NeltsBounds
    <2>2. QED
      BY <2>1 DEF LegalNelts
  <1>7. \E e \in PowersOfTwo : d <= e /\ e < 2 * d
    BY SMT, <1>3, <1>4
  <1>8. LegalNelts(d) \in PowersOfTwo /\ d <= LegalNelts(d) /\ LegalNelts(d) < 2 * d
    BY SMT, <1>6, <1>7
  <1>9. QED
    BY SMT, <1>3, <1>4, <1>5, <1>8, PowersListed

-----------------------------------------------------------------------------
(* Kinds, threads and routes *)

\* The kinds of packet that l2tvpp_parse_hdr calls data.
DataKinds == {"truncated", "non_ip", "ip4", "ip6", "bad_ip", "bad_ip6"}

LEMMA DataKindFacts ==
  ASSUME NEW k \in AllKinds, k # "plain"
  PROVE  HdrClass(k) = "DATA" <=> k \in DataKinds
  BY DEF AllKinds, HdrClass, DataKinds

\* With one worker or none the classifier does not look at the inner packet.
LEMMA FlowKindUnhashed ==
  ASSUME NEW k \in DataKinds, NEW fast \in BOOLEAN
  PROVE  FlowKind(k, fast, FALSE) = IF fast THEN "FAST" ELSE "INNER"
  BY DEF FlowKind, DataKinds

\* Spread, and what is one unit under it.
LEMMA SpreadFacts ==
  /\ Spread = "rx" <=> ~if_data.enabled
  /\ Spread = "spray" <=> if_data.enabled /\ if_data.spray
  /\ Spread = "flow" <=> if_data.enabled /\ ~if_data.spray /\ Len(if_data.workers) > 1
  /\ Spread \in {"rx", "one", "flow", "spray"}
  BY DEF Spread

LEMMA SameUnitFacts ==
  ASSUME NEW a, NEW b, b.spread \in {"rx", "one", "flow", "spray"}, SameUnit(a, b)
  PROVE  /\ b.spread # "spray"
         /\ b.spread = "flow" => a.flow = b.flow /\ a.kind = b.kind
         /\ b.spread # "flow" => KeyOfPacket(a) = KeyOfPacket(b) /\ IsData(a) /\ IsData(b)
  BY DEF SameUnit

LEMMA PacketThreads ==
  ASSUME NEW p \in Packet
  PROVE  /\ KeyOfPacket(p) \in SessionKey
         /\ RxOf(p) \in Threads
         /\ \A t \in Threads : Target(p, t) \in Threads
  <1>1. KeyOfPacket(p) \in SessionKey
    BY HandoffAssumption DEF KeyOfPacket, Packet
  <1>2. RxOf(p) \in Threads
    BY <1>1, HandoffAssumption DEF RxOf, SessionKey
  <1>3. ASSUME NWorkers > 0 PROVE HandoffWorker(p) \in Threads
    <2>1. Hash[KeyOfPacket(p)] \in Nat /\ NWorkers \in Nat
      BY <1>1, HandoffAssumption
    <2>2. \A h \in Nat : 1 + (h % NWorkers) \in 0 .. NWorkers
      BY <1>3, <2>1
    <2>3. QED
      BY <2>1, <2>2 DEF HandoffWorker, Threads
  <1>4. QED
    BY <1>1, <1>2, <1>3 DEF Target

\* The workers the flow handoff may pick are threads, and without spray there is one.
LEMMA FlowThreadFacts ==
  ASSUME ConfigTypes, NEW p \in Packet
  PROVE  /\ FlowThreads(FlowKindOf(p), p, RxOf(p)) \subseteq Threads
         /\ ~if_data.spray => FlowThreads(FlowKindOf(p), p, RxOf(p)) = {FlowThread(p)}
  <1> DEFINE k == FlowKindOf(p)
             nw == Len(if_data.workers)
             h == ClassifyHash(k, p)
  <1>1. if_data.workers \in Seq(Threads) /\ nw \in Nat /\ RxOf(p) \in Threads
    BY PacketThreads DEF ConfigTypes
  <1>2. h \in Nat
    <2>1. KeyOfPacket(p)[1] \in Tids /\ p.flow \in Flows
      BY PacketThreads DEF SessionKey, Packet
    <2>2. OuterHash[KeyOfPacket(p)[1]] \in Nat /\ FlowHash[p.flow] \in Nat /\ 0 \in Nat
      BY <2>1, HandoffAssumption
    <2>3. QED
      BY <2>2 DEF ClassifyHash
  <1>3. nw > 1 => 1 + (h % nw) \in 1 .. nw
    BY <1>1, <1>2
  <1>4. \A i \in 1 .. nw : if_data.workers[i] \in Threads
    BY <1>1
  <1> HIDE DEF k, nw, h
  <1>5. FlowThreads(k, p, RxOf(p)) =
          IF k = "LOCAL" \/ nw = 0 THEN {RxOf(p)}
          ELSE IF if_data.spray THEN {if_data.workers[i] : i \in 1 .. nw}
          ELSE IF nw = 1 THEN {if_data.workers[1]}
          ELSE {if_data.workers[1 + (h % nw)]}
    BY DEF FlowThreads, nw, h
  <1>6. FlowThreads(k, p, RxOf(p)) \subseteq Threads
    BY <1>1, <1>3, <1>4, <1>5
  <1>7. ASSUME ~if_data.spray
        PROVE  \E w : FlowThreads(k, p, RxOf(p)) = {w}
    BY <1>5, <1>7
  <1>8. ASSUME ~if_data.spray
        PROVE  FlowThreads(k, p, RxOf(p)) = {FlowThread(p)}
    <2>1. PICK w : FlowThreads(k, p, RxOf(p)) = {w}
      BY <1>7, <1>8
    <2>2. FlowThread(p) = CHOOSE v \in {w} : TRUE
      BY <2>1 DEF FlowThread, k
    <2>3. QED
      BY <2>1, <2>2
  <1>9. QED
    BY <1>6, <1>8 DEF k

\* Two packets of one unit take one way: the flow handoff and the session handoff
\* make the same of both.
LEMMA UnitRoute ==
  ASSUME ConfigTypes, NEW a \in Packet, NEW b \in Packet,
         a.kind # "plain", b.kind # "plain", b.spread = Spread, SameUnit(a, b)
  PROVE  /\ RxOf(a) = RxOf(b)
         /\ \A t : Target(a, t) = Target(b, t)
         /\ if_data.enabled => /\ FlowKindOf(a) = FlowKindOf(b)
                               /\ FlowThread(a) = FlowThread(b)
         /\ Detours(a) = Detours(b)
  <1>1. CASE Spread = "flow"
    <2>1. a.flow = b.flow /\ a.kind = b.kind
      BY <1>1, SameUnitFacts, SpreadFacts
    <2>2. KeyOfPacket(a) = KeyOfPacket(b)
      BY <2>1 DEF KeyOfPacket
    <2>3. RxOf(a) = RxOf(b) /\ FlowKindOf(a) = FlowKindOf(b) /\ HandoffWorker(a) = HandoffWorker(b)
      BY <2>1, <2>2 DEF RxOf, FlowKindOf, Fast, HandoffWorker
    <2>4. \A k : ClassifyHash(k, a) = ClassifyHash(k, b)
      BY <2>1, <2>2 DEF ClassifyHash
    <2>5. \A k, t : FlowThreads(k, a, t) = FlowThreads(k, b, t)
      BY <2>4 DEF FlowThreads
    <2>6. FlowThread(a) = FlowThread(b)
      BY <2>3, <2>5 DEF FlowThread
    <2>7. QED
      BY <2>1, <2>3, <2>6 DEF Detours, Target
  <1>2. CASE Spread # "flow"
    <2>1. KeyOfPacket(a) = KeyOfPacket(b) /\ IsData(a) /\ IsData(b)
      BY <1>2, SameUnitFacts, SpreadFacts
    <2>2. Spread # "spray"
      BY SameUnitFacts, SpreadFacts
    <2>3. RxOf(a) = RxOf(b) /\ HandoffWorker(a) = HandoffWorker(b)
      BY <2>1 DEF RxOf, HandoffWorker
    <2>4. \A t : Target(a, t) = Target(b, t)
      BY <2>1, <2>3 DEF Target, IsData
    <2>5. ASSUME if_data.enabled
          PROVE  FlowKindOf(a) = FlowKindOf(b) /\ FlowThread(a) = FlowThread(b)
      <3>1. ~if_data.spray /\ ~(Len(if_data.workers) > 1)
        BY <1>2, <2>2, <2>5, SpreadFacts
      <3>0. WantHash = FALSE
        BY <3>1 DEF WantHash
      <3>2. a.kind \in DataKinds /\ b.kind \in DataKinds
        BY <2>1, DataKindFacts DEF Packet, IsData
      <3>3. Fast(a) = Fast(b) /\ Fast(a) \in BOOLEAN
        BY <2>1 DEF Fast, ConfigTypes
      <3>4. FlowKindOf(a) = FlowKindOf(b) /\ FlowKindOf(a) # "LOCAL"
        <4>1. FlowKindOf(a) = (IF Fast(a) THEN "FAST" ELSE "INNER")
          BY <3>0, <3>2, <3>3, FlowKindUnhashed DEF FlowKindOf
        <4>2. FlowKindOf(b) = (IF Fast(b) THEN "FAST" ELSE "INNER")
          BY <3>0, <3>2, <3>3, FlowKindUnhashed DEF FlowKindOf
        <4>3. QED
          BY <3>3, <4>1, <4>2
      <3>5. Len(if_data.workers) \in Nat
        BY DEF ConfigTypes
      <3>6. Len(if_data.workers) = 0 \/ Len(if_data.workers) = 1
        <4>1. \A m \in Nat : ~(m > 1) => m = 0 \/ m = 1
          OBVIOUS
        <4>2. QED
          BY <3>1, <3>5, <4>1
      <3>7. \A k, t : FlowThreads(k, a, t) = FlowThreads(k, b, t)
        BY <3>1, <3>6 DEF FlowThreads
      <3>8. QED
        BY <2>3, <3>4, <3>7 DEF FlowThread
    <2>6. QED
      BY <2>3, <2>4, <2>5 DEF Detours
  <1>3. QED
    BY <1>1, <1>2

-----------------------------------------------------------------------------
(* Slots of the queues *)

\* The queues with p behind what waits in queue n of thread w, and without the
\* oldest packet there.
Pushed(q, n, w, p) == [q EXCEPT ![n][w] = Append(@, p)]
Popped(q, n, t) == [q EXCEPT ![n][t] = Tail(@)]

LEMMA SlotFacts ==
  ASSUME NEW q \in Queues, NEW x
  PROVE  /\ x \in Slots(q) => /\ x = <<x[1], x[2], x[3]>>
                              /\ x[1] \in QueueNodes /\ x[2] \in Threads /\ x[3] \in Nat
                              /\ x[3] \in 1 .. Len(q[x[1]][x[2]])
                              /\ At(q, x) \in Packet
         /\ \A n \in QueueNodes, t \in Threads : \A i \in 1 .. Len(q[n][t]) :
              <<n, t, i>> \in Slots(q) /\ At(q, <<n, t, i>>) = q[n][t][i]
  <1>1. \A n \in QueueNodes, t \in Threads : q[n][t] \in Seq(Packet)
    BY DEF Queues
  <1>2. \A n \in QueueNodes, t \in Threads :
          /\ DOMAIN q[n][t] = 1 .. Len(q[n][t])
          /\ Len(q[n][t]) \in Nat
          /\ \A i \in 1 .. Len(q[n][t]) : q[n][t][i] \in Packet
    BY <1>1
  <1>3. ASSUME x \in Slots(q)
        PROVE  /\ x = <<x[1], x[2], x[3]>>
               /\ x[1] \in QueueNodes /\ x[2] \in Threads /\ x[3] \in Nat
               /\ x[3] \in 1 .. Len(q[x[1]][x[2]])
               /\ At(q, x) \in Packet
    <2>1. x \in QueueNodes \X Threads \X Nat /\ x[3] \in DOMAIN q[x[1]][x[2]]
      BY <1>3 DEF Slots
    <2>2. x = <<x[1], x[2], x[3]>> /\ x[1] \in QueueNodes /\ x[2] \in Threads /\ x[3] \in Nat
      BY <2>1
    <2>3. QED
      BY <1>2, <2>1, <2>2 DEF At
  <1>4. ASSUME NEW n \in QueueNodes, NEW t \in Threads, NEW i \in 1 .. Len(q[n][t])
        PROVE  <<n, t, i>> \in Slots(q) /\ At(q, <<n, t, i>>) = q[n][t][i]
    <2>1. i \in Nat /\ i \in DOMAIN q[n][t]
      BY <1>2, <1>4
    <2>2. QED
      BY <2>1 DEF Slots, At
  <1>5. QED
    BY <1>3, <1>4

LEMMA PushSlots ==
  ASSUME NEW q \in Queues, NEW n \in QueueNodes, NEW w \in Threads, NEW p \in Packet
  PROVE  LET r == Pushed(q, n, w, p)
             last == <<n, w, Len(q[n][w]) + 1>>
         IN /\ r \in Queues
            /\ Len(r[n][w]) = Len(q[n][w]) + 1
            /\ \A m \in QueueNodes, t \in Threads : m # n \/ t # w => r[m][t] = q[m][t]
            /\ last \in Slots(r) /\ At(r, last) = p
            /\ \A x \in Slots(q) : x \in Slots(r) /\ At(r, x) = At(q, x)
            /\ \A x \in Slots(r) : x = last \/ x \in Slots(q)
  <1> DEFINE r == Pushed(q, n, w, p)
             L == Len(q[n][w])
             last == <<n, w, L + 1>>
  <1>1. q[n][w] \in Seq(Packet) /\ L \in Nat
    BY DEF Queues
  <1>2. /\ Append(q[n][w], p) \in Seq(Packet)
        /\ Len(Append(q[n][w], p)) = L + 1
        /\ Append(q[n][w], p)[L + 1] = p
        /\ \A i \in 1 .. L : Append(q[n][w], p)[i] = q[n][w][i]
    BY <1>1
  <1>3. r[n][w] = Append(q[n][w], p)
    BY DEF Pushed, Queues
  <1>4. \A m \in QueueNodes, t \in Threads : m # n \/ t # w => r[m][t] = q[m][t]
    BY DEF Pushed, Queues
  <1>5. r \in Queues
    BY <1>2 DEF Pushed, Queues
  <1> HIDE DEF r, L
  <1>6. last \in Slots(r) /\ At(r, last) = p
    <2>1. L + 1 \in 1 .. Len(r[n][w])
      BY <1>1, <1>2, <1>3
    <2>2. QED
      BY <1>2, <1>3, <1>5, <2>1, SlotFacts
  <1>7. ASSUME NEW x \in Slots(q)
        PROVE  x \in Slots(r) /\ At(r, x) = At(q, x)
    <2>1. /\ x = <<x[1], x[2], x[3]>> /\ x[1] \in QueueNodes /\ x[2] \in Threads
          /\ x[3] \in 1 .. Len(q[x[1]][x[2]])
      BY SlotFacts
    <2>2. x[3] \in 1 .. Len(r[x[1]][x[2]]) /\ r[x[1]][x[2]][x[3]] = q[x[1]][x[2]][x[3]]
      <3>1. CASE x[1] = n /\ x[2] = w
        BY <1>1, <1>2, <1>3, <2>1, <3>1 DEF L
      <3>2. CASE x[1] # n \/ x[2] # w
        BY <1>4, <2>1, <3>2
      <3>3. QED
        BY <3>1, <3>2
    <2>3. <<x[1], x[2], x[3]>> \in Slots(r)
      BY <1>5, <2>1, <2>2, SlotFacts
    <2>4. QED
      BY <2>1, <2>2, <2>3 DEF At
  <1>8. ASSUME NEW x \in Slots(r), x # last
        PROVE  x \in Slots(q)
    <2>1. /\ x = <<x[1], x[2], x[3]>> /\ x[1] \in QueueNodes /\ x[2] \in Threads
          /\ x[3] \in 1 .. Len(r[x[1]][x[2]])
      BY <1>5, SlotFacts
    <2>2. x[3] \in 1 .. Len(q[x[1]][x[2]])
      <3>1. CASE x[1] = n /\ x[2] = w
        <4>1. x[3] # L + 1
          BY <1>8, <2>1, <3>1
        <4>2. x[3] \in 1 .. L + 1
          BY <1>2, <1>3, <2>1, <3>1
        <4>3. QED
          BY <1>1, <3>1, <4>1, <4>2 DEF L
      <3>2. CASE x[1] # n \/ x[2] # w
        BY <1>4, <2>1, <3>2
      <3>3. QED
        BY <3>1, <3>2
    <2>3. <<x[1], x[2], x[3]>> \in Slots(q)
      BY <2>1, <2>2, SlotFacts
    <2>4. QED
      BY <2>1, <2>3
  <1>9. QED
    BY <1>2, <1>3, <1>4, <1>5, <1>6, <1>7, <1>8 DEF r, L

\* Where the packet in slot x of the popped queues was.
Shift(x, n, t) == IF x[1] = n /\ x[2] = t THEN <<n, t, x[3] + 1>> ELSE x

LEMMA PopSlots ==
  ASSUME NEW q \in Queues, NEW n \in QueueNodes, NEW t \in Threads, q[n][t] # <<>>
  PROVE  LET r == Popped(q, n, t)
             first == <<n, t, 1>>
         IN /\ r \in Queues
            /\ Len(r[n][t]) <= Len(q[n][t])
            /\ \A m \in QueueNodes, w \in Threads : m # n \/ w # t => r[m][w] = q[m][w]
            /\ first \in Slots(q) /\ At(q, first) = Head(q[n][t])
            /\ \A x \in Slots(r) : /\ Shift(x, n, t) \in Slots(q) /\ Shift(x, n, t) # first
                                   /\ At(r, x) = At(q, Shift(x, n, t))
            /\ \A y \in Slots(q) : y # first => \E x \in Slots(r) : Shift(x, n, t) = y
  <1> DEFINE r == Popped(q, n, t)
             s == q[n][t]
  <1>1. s \in Seq(Packet) /\ s # <<>> /\ Len(s) \in Nat
    BY DEF Queues
  <1>2. /\ Tail(s) \in Seq(Packet) /\ Len(Tail(s)) = Len(s) - 1 /\ Len(s) >= 1
        /\ \A i \in 1 .. Len(s) - 1 : Tail(s)[i] = s[i + 1]
        /\ Head(s) = s[1]
    BY <1>1
  <1>3. r[n][t] = Tail(s)
    BY DEF Popped, Queues
  <1>4. \A m \in QueueNodes, w \in Threads : m # n \/ w # t => r[m][w] = q[m][w]
    BY DEF Popped, Queues
  <1>5. r \in Queues
    BY <1>2 DEF Popped, Queues
  <1> HIDE DEF r
  <1>6. <<n, t, 1>> \in Slots(q) /\ At(q, <<n, t, 1>>) = Head(s)
    <2>1. 1 \in 1 .. Len(s)
      BY <1>1, <1>2
    <2>2. QED
      BY <1>2, <2>1, SlotFacts
  <1>7. ASSUME NEW x \in Slots(r)
        PROVE  /\ Shift(x, n, t) \in Slots(q) /\ Shift(x, n, t) # <<n, t, 1>>
               /\ At(r, x) = At(q, Shift(x, n, t))
    <2>1. /\ x = <<x[1], x[2], x[3]>> /\ x[1] \in QueueNodes /\ x[2] \in Threads
          /\ x[3] \in 1 .. Len(r[x[1]][x[2]]) /\ x[3] \in Nat
      BY <1>5, SlotFacts
    <2>2. CASE x[1] = n /\ x[2] = t
      <3>1. x[3] \in 1 .. Len(s) - 1
        BY <1>2, <1>3, <2>1, <2>2
      <3>2. x[3] + 1 \in 1 .. Len(s) /\ x[3] + 1 # 1
        BY <1>1, <3>1
      <3>3. <<n, t, x[3] + 1>> \in Slots(q) /\ At(q, <<n, t, x[3] + 1>>) = s[x[3] + 1]
        BY <3>2, SlotFacts
      <3>4. Shift(x, n, t) = <<n, t, x[3] + 1>>
        BY <2>2 DEF Shift
      <3>5. At(r, x) = Tail(s)[x[3]]
        BY <1>3, <2>2 DEF At
      <3>6. QED
        BY <1>2, <3>1, <3>2, <3>3, <3>4, <3>5
    <2>3. CASE x[1] # n \/ x[2] # t
      <3>1. r[x[1]][x[2]] = q[x[1]][x[2]]
        BY <1>4, <2>1, <2>3
      <3>2. <<x[1], x[2], x[3]>> \in Slots(q)
        BY <2>1, <3>1, SlotFacts
      <3>3. Shift(x, n, t) = x /\ x # <<n, t, 1>>
        BY <2>3 DEF Shift
      <3>4. QED
        BY <2>1, <3>1, <3>2, <3>3 DEF At
    <2>4. QED
      BY <2>2, <2>3
  <1>8. ASSUME NEW y \in Slots(q), y # <<n, t, 1>>
        PROVE  \E x \in Slots(r) : Shift(x, n, t) = y
    <2>1. /\ y = <<y[1], y[2], y[3]>> /\ y[1] \in QueueNodes /\ y[2] \in Threads
          /\ y[3] \in 1 .. Len(q[y[1]][y[2]]) /\ y[3] \in Nat
      BY SlotFacts
    <2>2. CASE y[1] = n /\ y[2] = t
      <3>1. y[3] # 1
        BY <1>8, <2>1, <2>2
      <3>2. y[3] - 1 \in 1 .. Len(s) - 1 /\ (y[3] - 1) + 1 = y[3]
        BY <1>1, <2>1, <2>2, <3>1
      <3>3. <<n, t, y[3] - 1>> \in Slots(r)
        BY <1>2, <1>3, <1>5, <3>2, SlotFacts
      <3>4. Shift(<<n, t, y[3] - 1>>, n, t) = y
        BY <2>1, <2>2, <3>2 DEF Shift
      <3>5. QED
        BY <3>3, <3>4
    <2>3. CASE y[1] # n \/ y[2] # t
      <3>1. r[y[1]][y[2]] = q[y[1]][y[2]]
        BY <1>4, <2>1, <2>3
      <3>2. <<y[1], y[2], y[3]>> \in Slots(r)
        BY <1>5, <2>1, <3>1, SlotFacts
      <3>3. Shift(y, n, t) = y
        BY <2>3 DEF Shift
      <3>4. QED
        BY <2>1, <3>2, <3>3
    <2>4. QED
      BY <2>2, <2>3
  <1>9. QED
    BY <1>1, <1>2, <1>3, <1>4, <1>5, <1>6, <1>7, <1>8 DEF r

\* Taking the oldest packet off a queue.
LEMMA PopKeeps ==
  ASSUME NEW q, QueueInv(q), NEW n \in QueueNodes, NEW t \in Threads, q[n][t] # <<>>
  PROVE  LET r == Popped(q, n, t)
             p == Head(q[n][t])
         IN /\ QueueInv(r)
            /\ p \in Packet /\ PacketInv(n, t, p)
            /\ \A x \in Slots(r) : Apart(p, At(r, x)) /\ Apart(At(r, x), p)
            /\ \A x \in Slots(r) : x[1] = n /\ x[2] = t => InOrder(p, At(r, x))
            /\ \A x \in Slots(r) :
                 n = L2tp /\ x[1] = Eth /\ At(r, x).steady /\ SameUnit(p, At(r, x)) =>
                   p.id < At(r, x).id
            /\ \A x \in Slots(r) :
                 n = Eth /\ x[1] = L2tp /\ p.steady /\ SameUnit(At(r, x), p) =>
                   At(r, x).id < p.id
            /\ IdsOf(q) = IdsOf(r) \cup {p.id} /\ p.id \notin IdsOf(r)
  <1> DEFINE r == Popped(q, n, t)
             p == Head(q[n][t])
             first == <<n, t, 1>>
             Old(x) == Shift(x, n, t)
  <1>1. q \in Queues
    BY DEF QueueInv
  <1>2. /\ r \in Queues
        /\ first \in Slots(q) /\ At(q, first) = p
        /\ \A x \in Slots(r) : Old(x) \in Slots(q) /\ Old(x) # first /\ At(r, x) = At(q, Old(x))
        /\ \A y \in Slots(q) : y # first => \E x \in Slots(r) : Old(x) = y
    BY <1>1, PopSlots
  <1>3. p \in Packet
    BY <1>1, <1>2, SlotFacts
  <1> HIDE DEF r, p
  <1>4. ASSUME NEW x \in Slots(r)
        PROVE  /\ x[1] \in QueueNodes /\ x[2] \in Threads /\ x[3] \in Nat /\ x[3] >= 1
               /\ x = <<x[1], x[2], x[3]>>
               /\ Old(x)[1] = x[1] /\ Old(x)[2] = x[2]
               /\ Old(x)[3] = IF x[1] = n /\ x[2] = t THEN x[3] + 1 ELSE x[3]
    <2>1. /\ x[1] \in QueueNodes /\ x[2] \in Threads /\ x[3] \in Nat /\ x[3] >= 1
          /\ x = <<x[1], x[2], x[3]>>
      BY <1>2, SlotFacts
    <2>2. QED
      BY <2>1 DEF Shift
  <1>5. first[1] = n /\ first[2] = t /\ first[3] = 1
    OBVIOUS
  <1> HIDE DEF first, Old
  <1>6. PlacesInv(r)
    BY <1>2, <1>4 DEF QueueInv, PlacesInv
  <1>7. \A x, y \in Slots(r) : x # y => Old(x) # Old(y)
    <2>1. SUFFICES ASSUME NEW x \in Slots(r), NEW y \in Slots(r), Old(x) = Old(y)
                   PROVE  x[1] = y[1] /\ x[2] = y[2] /\ x[3] = y[3]
      BY <1>4
    <2>2. x[1] = y[1] /\ x[2] = y[2]
      BY <1>4, <2>1
    <2>3. QED
      BY <1>4, <2>1, <2>2
  <1>8. ApartInv(r)
    BY <1>2, <1>7 DEF QueueInv, ApartInv
  <1>9. LineInv(r)
    <2>1. SUFFICES ASSUME NEW x \in Slots(r), NEW y \in Slots(r),
                          x[1] = y[1], x[2] = y[2], x[3] < y[3]
                   PROVE  InOrder(At(r, x), At(r, y))
      BY DEF LineInv
    <2>2. Old(x)[1] = Old(y)[1] /\ Old(x)[2] = Old(y)[2]
      BY <1>4, <2>1
    <2>3. Old(x)[3] < Old(y)[3]
      BY <1>4, <2>1
    <2>4. QED
      BY <1>2, <2>2, <2>3 DEF QueueInv, LineInv
  <1>10. TandemInv(r)
    BY <1>2, <1>4 DEF QueueInv, TandemInv
  <1>11. PacketInv(n, t, p)
    BY <1>2, <1>5 DEF QueueInv, PlacesInv
  <1>12. \A x \in Slots(r) : Apart(p, At(r, x)) /\ Apart(At(r, x), p)
    BY <1>2 DEF QueueInv, ApartInv
  <1>13. ASSUME NEW x \in Slots(r), x[1] = n, x[2] = t
         PROVE  InOrder(p, At(r, x))
    <2>1. Old(x)[1] = n /\ Old(x)[2] = t /\ first[3] < Old(x)[3]
      BY <1>4, <1>5, <1>13
    <2>2. QED
      BY <1>2, <1>5, <2>1 DEF QueueInv, LineInv
  <1>14. ASSUME NEW x \in Slots(r), n = L2tp, x[1] = Eth, At(r, x).steady,
                SameUnit(p, At(r, x))
         PROVE  p.id < At(r, x).id
    BY <1>2, <1>4, <1>5, <1>14 DEF QueueInv, TandemInv
  <1>15. ASSUME NEW x \in Slots(r), n = Eth, x[1] = L2tp, p.steady,
                SameUnit(At(r, x), p)
         PROVE  At(r, x).id < p.id
    BY <1>2, <1>4, <1>5, <1>15 DEF QueueInv, TandemInv
  <1>16. IdsOf(q) = IdsOf(r) \cup {p.id}
    <2>1. ASSUME NEW y \in Slots(q) PROVE At(q, y).id \in IdsOf(r) \cup {p.id}
      BY <1>2 DEF IdsOf
    <2>2. ASSUME NEW x \in Slots(r) PROVE At(r, x).id \in IdsOf(q)
      BY <1>2 DEF IdsOf
    <2>3. p.id \in IdsOf(q)
      BY <1>2 DEF IdsOf
    <2>4. QED
      BY <2>1, <2>2, <2>3 DEF IdsOf
  <1>17. p.id \notin IdsOf(r)
    BY <1>12 DEF IdsOf, Apart
  <1>18. QED
    BY <1>2, <1>3, <1>6, <1>8, <1>9, <1>10, <1>11, <1>12, <1>13, <1>14, <1>15, <1>16, <1>17
       DEF QueueInv, r, p

\* Putting a packet behind what waits in a queue.
LEMMA PushKeeps ==
  ASSUME NEW q, QueueInv(q), NEW n \in QueueNodes, NEW w \in Threads, NEW p \in Packet,
         PacketInv(n, w, p),
         \A x \in Slots(q) : Apart(p, At(q, x)) /\ Apart(At(q, x), p),
         \A x \in Slots(q) : x[1] = n /\ x[2] = w => InOrder(At(q, x), p),
         \A x \in Slots(q) :
                 n = L2tp /\ x[1] = Eth /\ At(q, x).steady /\ SameUnit(p, At(q, x)) =>
                   p.id < At(q, x).id,
         \A x \in Slots(q) :
                 n = Eth /\ x[1] = L2tp /\ p.steady /\ SameUnit(At(q, x), p) =>
                   At(q, x).id < p.id
  PROVE  LET r == Pushed(q, n, w, p)
         IN /\ QueueInv(r)
            /\ IdsOf(r) = IdsOf(q) \cup {p.id} /\ p.id \notin IdsOf(q)
  <1> DEFINE r == Pushed(q, n, w, p)
             last == <<n, w, Len(q[n][w]) + 1>>
  <1>1. q \in Queues
    BY DEF QueueInv
  <1>2. /\ r \in Queues
        /\ last \in Slots(r) /\ At(r, last) = p
        /\ \A x \in Slots(q) : x \in Slots(r) /\ At(r, x) = At(q, x)
        /\ \A x \in Slots(r) : x = last \/ x \in Slots(q)
    BY <1>1, PushSlots
  <1>3. /\ last[1] = n /\ last[2] = w /\ last[3] = Len(q[n][w]) + 1
        /\ Len(q[n][w]) \in Nat
    BY <1>1 DEF Queues
  <1> HIDE DEF r, last
  <1>4. \A x \in Slots(q) : /\ x[3] \in Nat
                            /\ x[1] = n /\ x[2] = w => x[3] <= Len(q[n][w])
    BY <1>1, <1>3, SlotFacts
  <1>5. \A x \in Slots(q) : x # last /\ ~(x[1] = n /\ x[2] = w /\ last[3] < x[3])
    BY <1>3, <1>4
  <1>6. PlacesInv(r)
    BY <1>2, <1>3 DEF QueueInv, PlacesInv
  <1>7. ApartInv(r)
    BY <1>2 DEF QueueInv, ApartInv
  <1>8. LineInv(r)
    <2>1. SUFFICES ASSUME NEW x \in Slots(r), NEW y \in Slots(r),
                          x[1] = y[1], x[2] = y[2], x[3] < y[3]
                   PROVE  InOrder(At(r, x), At(r, y))
      BY DEF LineInv
    <2>2. CASE x \in Slots(q) /\ y \in Slots(q)
      BY <1>2, <2>1, <2>2 DEF QueueInv, LineInv
    <2>3. CASE x \in Slots(q) /\ y = last
      BY <1>2, <1>3, <2>1, <2>3
    <2>4. CASE x = last /\ y \in Slots(q)
      BY <1>3, <1>5, <2>1, <2>4
    <2>5. CASE x = last /\ y = last
      <3>1. last[3] \in Nat /\ last[3] < last[3]
        BY <1>3, <2>1, <2>5
      <3>2. QED
        BY <3>1
    <2>6. QED
      BY <1>2, <2>2, <2>3, <2>4, <2>5
  <1>9. TandemInv(r)
    <2>0. L2tp # Eth
      BY DEF L2tp, Eth
    <2>1. SUFFICES ASSUME NEW x \in Slots(r), NEW y \in Slots(r), x[1] = L2tp, y[1] = Eth,
                          At(r, y).steady, SameUnit(At(r, x), At(r, y))
                   PROVE  At(r, x).id < At(r, y).id
      BY DEF TandemInv
    <2>2. CASE x \in Slots(q) /\ y \in Slots(q)
      BY <1>2, <2>1, <2>2 DEF QueueInv, TandemInv
    <2>3. CASE x \in Slots(q) /\ y = last
      BY <1>2, <1>3, <2>1, <2>3
    <2>4. CASE x = last /\ y \in Slots(q)
      BY <1>2, <1>3, <2>1, <2>4
    <2>5. CASE x = last /\ y = last
      BY <2>0, <2>1, <2>5
    <2>6. QED
      BY <1>2, <2>2, <2>3, <2>4, <2>5
  <1>10. IdsOf(r) = IdsOf(q) \cup {p.id}
    <2>1. ASSUME NEW y \in Slots(q) PROVE At(q, y).id \in IdsOf(r)
      BY <1>2 DEF IdsOf
    <2>2. ASSUME NEW x \in Slots(r) PROVE At(r, x).id \in IdsOf(q) \cup {p.id}
      BY <1>2 DEF IdsOf
    <2>3. p.id \in IdsOf(r)
      BY <1>2 DEF IdsOf
    <2>4. QED
      BY <2>1, <2>2, <2>3 DEF IdsOf
  <1>11. p.id \notin IdsOf(q)
    BY SMTT(60) DEF IdsOf, Apart
  <1>12. QED
    BY <1>2, <1>6, <1>7, <1>8, <1>9, <1>10, <1>11 DEF QueueInv, r

\* A step that leaves the configuration alone leaves the packets' ways alone.
LEMMA ConfigSame ==
  ASSUME UNCHANGED <<configVars, local_ip4s>>, NEW q, QueueInv(q), queue' = q
  PROVE  QueueInv(queue)'
  <1>1. /\ if_data' = if_data /\ handoff_enabled' = handoff_enabled
        /\ by_hand' = by_hand /\ local_ip4s' = local_ip4s
    BY DEF configVars
  <1>2. ASSUME NEW p PROVE FlowKindOf(p)' = FlowKindOf(p)
    BY <1>1 DEF FlowKindOf, Fast, WantHash
  <1>3. ASSUME NEW k, NEW p, NEW t PROVE FlowThreads(k, p, t)' = FlowThreads(k, p, t)
    BY <1>1 DEF FlowThreads
  <1>4. ASSUME NEW p PROVE FlowThread(p)' = FlowThread(p)
    BY <1>1 DEF FlowThread, FlowThreads, FlowKindOf, Fast, WantHash
  <1>5. ASSUME NEW n, NEW t, NEW p PROVE Placed(n, t, p)' = Placed(n, t, p)
    BY <1>1, <1>2, <1>4 DEF Placed, Detours
  <1>6. Spread' = Spread
    BY <1>1 DEF Spread
  <1>7. ASSUME NEW n, NEW t, NEW p, PacketInv(n, t, p) PROVE PacketInv(n, t, p)'
    BY <1>1, <1>5, <1>6, <1>7 DEF PacketInv
  <1>8. PlacesInv(queue)'
    <2>1. ASSUME NEW x \in Slots(q) PROVE PacketInv(x[1], x[2], At(q, x))'
      BY <1>7, SMTT(60) DEF QueueInv, PlacesInv
    <2>2. QED
      BY <2>1 DEF PlacesInv, Slots, At
  <1>9. QED
    BY <1>8 DEF QueueInv, ApartInv, LineInv, TandemInv, Slots, At

\* After a change of what steers packets, every packet that waits has seen it.
LEMMA UnsettleKeeps ==
  ASSUME QueueInv(queue), Unsettle
  PROVE  /\ QueueInv(queue)' /\ IdsOf(queue)' = IdsOf(queue)
         /\ \A n \in QueueNodes, t \in Threads : Len(queue'[n][t]) = Len(queue[n][t])
  <1> DEFINE Aged(p) == [p EXCEPT !.steady = FALSE]
  <1>1. queue \in Queues
    BY DEF QueueInv
  <1>2. ASSUME NEW p \in Packet
        PROVE  /\ Aged(p) \in Packet
               /\ Aged(p).id = p.id /\ Aged(p).flow = p.flow /\ Aged(p).kind = p.kind
               /\ Aged(p).via = p.via /\ Aged(p).spread = p.spread /\ ~Aged(p).steady
               /\ p.id \in Nat
    BY DEF Packet
  <1> HIDE DEF Aged
  <1>3. ASSUME NEW n \in QueueNodes, NEW t \in Threads
        PROVE  /\ queue'[n][t] \in Seq(Packet)
               /\ Len(queue'[n][t]) = Len(queue[n][t])
               /\ \A i \in 1 .. Len(queue[n][t]) : queue'[n][t][i] = Aged(queue[n][t][i])
    <2>1. queue[n][t] \in Seq(Packet)
      BY <1>1 DEF Queues
    <2>2. queue'[n][t] = [i \in DOMAIN queue[n][t] |-> Aged(queue[n][t][i])]
      BY DEF Unsettle, Aged
    <2>3. DOMAIN queue[n][t] = 1 .. Len(queue[n][t]) /\ Len(queue[n][t]) \in Nat
      BY <2>1
    <2>4. \A i \in 1 .. Len(queue[n][t]) : Aged(queue[n][t][i]) \in Packet
      BY <1>2, <2>1
    <2>5. QED
      BY <2>2, <2>3, <2>4
  <1>4. queue' \in Queues
    BY <1>3 DEF Unsettle, Queues
  <1>5. ASSUME NEW x
        PROVE  /\ x \in Slots(queue') <=> x \in Slots(queue)
               /\ x \in Slots(queue) => /\ At(queue', x) = Aged(At(queue, x))
                                        /\ At(queue, x) \in Packet
    <2>1. ASSUME x \in Slots(queue)
          PROVE  /\ x \in Slots(queue') /\ At(queue', x) = Aged(At(queue, x))
                 /\ At(queue, x) \in Packet
      <3>1. /\ x = <<x[1], x[2], x[3]>> /\ x[1] \in QueueNodes /\ x[2] \in Threads
            /\ x[3] \in 1 .. Len(queue[x[1]][x[2]]) /\ At(queue, x) \in Packet
        BY <1>1, <2>1, SlotFacts
      <3>2. x[3] \in 1 .. Len(queue'[x[1]][x[2]])
        BY <1>3, <3>1
      <3>3. <<x[1], x[2], x[3]>> \in Slots(queue')
        BY <1>4, <3>1, <3>2, SlotFacts
      <3>4. QED
        BY <1>3, <3>1, <3>3 DEF At
    <2>2. ASSUME x \in Slots(queue') PROVE x \in Slots(queue)
      <3>1. /\ x = <<x[1], x[2], x[3]>> /\ x[1] \in QueueNodes /\ x[2] \in Threads
            /\ x[3] \in 1 .. Len(queue'[x[1]][x[2]])
        BY <1>4, <2>2, SlotFacts
      <3>2. x[3] \in 1 .. Len(queue[x[1]][x[2]])
        BY <1>3, <3>1
      <3>3. <<x[1], x[2], x[3]>> \in Slots(queue)
        BY <1>1, <3>1, <3>2, SlotFacts
      <3>4. QED
        BY <3>1, <3>3
    <2>3. QED
      BY <2>1, <2>2
  <1>6. PICK r : r = queue' /\ r \in Queues
    BY <1>4
  <1>7. ASSUME NEW x \in Slots(r)
        PROVE  /\ x \in Slots(queue) /\ At(r, x) = Aged(At(queue, x)) /\ At(queue, x) \in Packet
               /\ At(r, x).id = At(queue, x).id /\ At(r, x).spread = At(queue, x).spread
               /\ At(r, x).kind = At(queue, x).kind /\ At(r, x).via = At(queue, x).via
               /\ At(r, x).flow = At(queue, x).flow /\ ~At(r, x).steady
    BY <1>2, <1>5, <1>6
  <1>8. ASSUME NEW x \in Slots(r) PROVE PacketInv(x[1], x[2], At(r, x))'
    <2>1. PacketInv(x[1], x[2], At(queue, x))
      BY <1>7 DEF QueueInv, PlacesInv
    <2>2. RxOf(At(r, x)) = RxOf(At(queue, x)) /\ Target(At(r, x), RxOf(At(r, x))) =
            Target(At(queue, x), RxOf(At(queue, x)))
      BY <1>7 DEF RxOf, Target, KeyOfPacket, HandoffWorker
    <2>3. QED
      BY <1>7, <2>1, <2>2 DEF PacketInv
  <1>9. PlacesInv(queue)'
    <2>1. \A x \in Slots(r) : PacketInv(x[1], x[2], At(r, x))'
      BY <1>8
    <2>2. QED
      BY <2>1, <1>6 DEF PlacesInv, Slots, At
  <1>10. ApartInv(r)
    BY <1>7 DEF QueueInv, ApartInv, Apart
  <1>11. LineInv(r)
    <2>1. SUFFICES ASSUME NEW x \in Slots(r), NEW y \in Slots(r),
                          x[1] = y[1], x[2] = y[2], x[3] < y[3]
                   PROVE  InOrder(At(r, x), At(r, y))
      BY DEF LineInv
    <2>2. InOrder(At(queue, x), At(queue, y))
      BY <1>7, <2>1 DEF QueueInv, LineInv
    <2>3. QED
      BY <1>7, <2>2 DEF InOrder
  <1>12. TandemInv(r)
    BY <1>7 DEF TandemInv
  <1>13. IdsOf(r) = IdsOf(queue)
    <2>1. \A x : x \in Slots(r) <=> x \in Slots(queue)
      BY <1>5, <1>6
    <2>2. \A x \in Slots(r) : At(r, x).id = At(queue, x).id
      BY <1>7
    <2>3. QED
      BY <2>1, <2>2 DEF IdsOf
  <1>14. QED
    BY <1>3, <1>6, <1>9, <1>10, <1>11, <1>12, <1>13, ZenonT(60)
       DEF QueueInv, ApartInv, LineInv, TandemInv, IdsOf, Slots, At

-----------------------------------------------------------------------------
(* What may become of one packet in one step *)

LEMMA CountSets ==
  ASSUME NEW a \in Nat, NEW S, S \subseteq 1 .. a
  PROVE  /\ Cardinality(S) \in Nat
         /\ \A i : i \notin S => Cardinality(S \cup {i}) = Cardinality(S) + 1
  <1>1. IsFiniteSet(1 .. a)
    BY FS_Interval
  <1>2. IsFiniteSet(S)
    BY <1>1, FS_Subset
  <1>3. QED
    BY <1>2, FS_CardinalityType, FS_AddElement

\* p is in a node's hands: the queues hold q, without it, and a packets have arrived.
InHand(q, p, a) ==
  /\ QueueInv(q) /\ p \in Packet
  /\ \A n \in QueueNodes, t \in Threads : Len(q[n][t]) <= Len(queue[n][t])
  /\ a \in Nat /\ done \subseteq 1 .. a
  /\ IdsOf(q) \subseteq (1 .. a) \ done
  /\ p.id \in 1 .. a /\ p.id \notin done /\ p.id \notin IdsOf(q)
  /\ Cardinality(IdsOf(q)) + 1 + Cardinality(done)
       + congestion["l2tvpp-handoff"] + congestion["l2tvpp-flow-handoff"] = a

\* The parts of the invariant that a step of a worker cannot touch.
LEMMA WorkerFrame ==
  ASSUME HandoffInv, UNCHANGED <<vars, configVars>>
  PROVE  /\ IndexInv' /\ ConfigTypes' /\ ExclusiveInv'
         /\ depth' = depth /\ local_ip4s' = local_ip4s /\ UNCHANGED configVars
         /\ (\A n \in QueueNodes, t \in Threads : Len(queue'[n][t]) <= depth[n]) => DepthInv'
  <1>1. IndexInv'
    <2>1. reply \in [rv : Retval, index : TunnelIdx \cup SwIf \cup {NoIndex}]
      BY DEF HandoffInv, IndexInv, TypeOK
    <2>2. QED
      BY <2>1, UnchangedIndex DEF HandoffInv, vars
  <1>2. ConfigTypes' /\ ExclusiveInv'
    BY DEF HandoffInv, ConfigTypes, ExclusiveInv, configVars
  <1>3. depth' = depth /\ local_ip4s' = local_ip4s /\ UNCHANGED configVars
    BY DEF configVars, vars, objVars
  <1>4. ASSUME \A n \in QueueNodes, t \in Threads : Len(queue'[n][t]) <= depth[n]
        PROVE  DepthInv'
    BY <1>4 DEF HandoffInv, DepthInv, configVars
  <1>5. QED
    BY <1>1, <1>2, <1>3, <1>4

LEMMA DepthType ==
  ASSUME DepthInv, NEW n \in QueueNodes
  PROVE  depth[n] \in Nat
  <1>1. handoff_queue_nelts \in Nat
    BY LegalNeltsFacts, NeltsBounds DEF DepthInv
  <1>2. QED
    BY <1>1 DEF DepthInv

\* The lookup finds the live session with the packet's key, and its interface.
LEMMA InputOwner ==
  ASSUME IndexInv, UNCHANGED vars, NEW p, Input(p)
  PROVE  DeliveredToOwner'
  <1> DEFINE key == KeyOfPacket(p)
             found == SessionLookup(key)
             next == InputNext(p.kind, found # {})
  <1>1. sessions' = sessions /\ interfaces' = interfaces
    BY DEF vars, objVars
  <1>2. ASSUME NEW i \in found
        PROVE  /\ i \in DOMAIN sessions /\ KeyOf(sessions[i]) = key
               /\ sessions[i].sw_if_index \in interfaces
    <2>1. key \in DOMAIN session_by_key /\ i = session_by_key[key]
      BY DEF SessionLookup
    <2>2. i \in DOMAIN sessions /\ KeyOf(sessions[i]) = key
      BY <2>1 DEF IndexInv, KeyIndexAgrees
    <2>3. QED
      BY <2>2 DEF IndexInv, SwIfIndexAgrees
  <1>3. CASE next \notin {"ip4-input", "ip6-input"}
             /\ out' = {[packet |-> p, next |-> next, sw_if_index |-> NoIndex]}
    BY <1>3 DEF DeliveredToOwner
  <1>4. ASSUME NEW i \in found,
               out' = {[packet |-> p, next |-> next, sw_if_index |-> sessions[i].sw_if_index]}
        PROVE  DeliveredToOwner'
    BY <1>1, <1>2, <1>4 DEF DeliveredToOwner, KeyOf
  <1>5. QED
    BY <1>3, <1>4 DEF Input

\* It is decapsulated.
LEMMA InputStep ==
  ASSUME HandoffInv, UNCHANGED <<vars, configVars>>, NEW q, NEW p, NEW a,
         InHand(q, p, a), arrived' = a, InputHere(q, p), Leaves(q, p)
  PROVE  HandoffInv'
  <1>1. /\ queue' = q /\ congestion' = congestion /\ done' = done \cup {p.id}
        /\ \A o \in out' : o.packet = p
    BY DEF InputHere, Input
  <1>2. QueueInv(queue)'
    BY <1>1, ConfigSame, WorkerFrame DEF InHand
  <1>3. DataTypes'
    BY <1>1, ZenonT(60) DEF HandoffInv, DataTypes, InHand, QueueInv
  <1>4. IdsInv'
    BY <1>1, ZenonT(60) DEF InHand, IdsInv, IdsOf, Slots, At
  <1>5. CountedInv'
    <2>1. /\ Cardinality(done \cup {p.id}) = Cardinality(done) + 1
          /\ Cardinality(done) \in Nat /\ Cardinality(IdsOf(q)) \in Nat
      BY CountSets DEF InHand
    <2>2. congestion["l2tvpp-handoff"] \in Nat /\ congestion["l2tvpp-flow-handoff"] \in Nat
      BY DEF HandoffInv, DataTypes, HandoffNodes
    <2>3. Cardinality(IdsOf(queue))' = Cardinality(IdsOf(q))
      BY <1>1 DEF IdsOf, Slots, At
    <2>4. QED
      BY <1>1, <2>1, <2>2, <2>3 DEF InHand, CountedInv
  <1>6. DepthInv'
    <2>1. ASSUME NEW n \in QueueNodes, NEW t \in Threads PROVE Len(q[n][t]) <= depth[n]
      <3>1. Len(q[n][t]) <= Len(queue[n][t]) /\ Len(queue[n][t]) <= depth[n]
        BY DEF InHand, HandoffInv, DepthInv
      <3>2. Len(q[n][t]) \in Nat /\ Len(queue[n][t]) \in Nat /\ depth[n] \in Nat
        BY DepthType DEF InHand, HandoffInv, QueueInv, Queues
      <3>3. QED
        BY <3>1, <3>2
    <2>2. QED
      BY <1>1, <2>1, WorkerFrame
  <1>7. DeliveredToOwner'
    BY InputOwner DEF HandoffInv, InputHere
  <1>8. OutInv'
    <2>1. by_hand' = by_hand
      BY DEF configVars
    <2>2. Leaves(queue, p)'
      BY <1>1, <2>1 DEF Leaves, Slots, At
    <2>3. QED
      BY <1>1, <1>7, <2>2 DEF OutInv
  <1>9. QED
    BY <1>2, <1>3, <1>4, <1>5, <1>6, <1>8, WorkerFrame DEF HandoffInv

LEMMA PushLengths ==
  ASSUME NEW q \in Queues, NEW n \in QueueNodes, NEW w \in Threads, NEW p \in Packet
  PROVE  /\ Len(Pushed(q, n, w, p)[n][w]) = Len(q[n][w]) + 1
         /\ \A m \in QueueNodes, t \in Threads :
              m # n \/ t # w => Pushed(q, n, w, p)[m][t] = q[m][t]
  <1>1. q[n][w] \in Seq(Packet)
    BY DEF Queues
  <1>2. Pushed(q, n, w, p)[n][w] = Append(q[n][w], p)
    BY DEF Pushed, Queues
  <1>3. Len(Append(q[n][w], p)) = Len(q[n][w]) + 1
    BY <1>1
  <1>4. ASSUME NEW m \in QueueNodes, NEW t \in Threads, m # n \/ t # w
        PROVE  Pushed(q, n, w, p)[m][t] = q[m][t]
    BY <1>4 DEF Pushed, Queues
  <1>5. QED
    BY <1>2, <1>3, <1>4

\* What an enqueue adds to a packet.
Stamped(p, n) == [p EXCEPT !.via = Append(@, n)]

LEMMA StampedFacts ==
  ASSUME NEW p \in Packet, NEW n \in QueueNodes
  PROVE  /\ Stamped(p, n) \in Packet
         /\ Stamped(p, n).id = p.id /\ Stamped(p, n).flow = p.flow
         /\ Stamped(p, n).kind = p.kind /\ Stamped(p, n).spread = p.spread
         /\ Stamped(p, n).steady = p.steady /\ Stamped(p, n).via = Append(p.via, n)
  <1>1. p.via \in Seq(QueueNodes)
    BY DEF Packet
  <1>2. Append(p.via, n) \in Seq(QueueNodes)
    BY <1>1
  <1>3. Stamped(p, n) = [p EXCEPT !.via = Append(p.via, n)]
    BY DEF Stamped
  <1>4. QED
    BY <1>2, <1>3 DEF Packet

\* It is put behind the packets of a queue.
LEMMA PushStep ==
  ASSUME HandoffInv, UNCHANGED <<vars, configVars>>, NEW q, NEW p, NEW a,
         InHand(q, p, a), arrived' = a, NoInput, UNCHANGED congestion,
         NEW n \in QueueNodes, NEW w \in Threads, NEW r,
         r = Pushed(q, n, w, Stamped(p, n)), queue' = r, Room(n, w),
         QueueInv(r), IdsOf(r) = IdsOf(q) \cup {p.id}
  PROVE  HandoffInv'
  <1>1. done' = done /\ out' = {} /\ congestion' = congestion
    BY DEF NoInput
  <1>2. QueueInv(queue)'
    BY ConfigSame, WorkerFrame
  <1>3. DataTypes'
    BY <1>1 DEF HandoffInv, DataTypes, InHand, QueueInv
  <1>4. IdsInv'
    <2>1. IdsOf(queue)' = IdsOf(r)
      BY DEF IdsOf, Slots, At
    <2>2. QED
      BY <1>1, <2>1 DEF InHand, IdsInv
  <1>5. CountedInv'
    <2>1. /\ Cardinality(IdsOf(q) \cup {p.id}) = Cardinality(IdsOf(q)) + 1
          /\ Cardinality(done) \in Nat /\ Cardinality(IdsOf(q)) \in Nat
      BY CountSets DEF InHand
    <2>2. congestion["l2tvpp-handoff"] \in Nat /\ congestion["l2tvpp-flow-handoff"] \in Nat
      BY DEF HandoffInv, DataTypes, HandoffNodes
    <2>3. Cardinality(IdsOf(queue))' = Cardinality(IdsOf(r))
      BY DEF IdsOf, Slots, At
    <2>4. QED
      BY <1>1, <2>1, <2>2, <2>3 DEF InHand, CountedInv
  <1>6. DepthInv'
    <2>0. Stamped(p, n) \in Packet
      BY StampedFacts DEF InHand
    <2>1. /\ Len(r[n][w]) = Len(q[n][w]) + 1
          /\ \A m \in QueueNodes, t \in Threads : m # n \/ t # w => r[m][t] = q[m][t]
      <3>1. q \in Queues
        BY DEF InHand, QueueInv
      <3>2. QED
        BY <2>0, <3>1, PushLengths
    <2>2. ASSUME NEW m \in QueueNodes, NEW t \in Threads PROVE Len(r[m][t]) <= depth[m]
      <3>1. Len(q[m][t]) <= Len(queue[m][t]) /\ Len(queue[m][t]) <= depth[m]
        BY DEF InHand, HandoffInv, DepthInv
      <3>2. Len(q[m][t]) \in Nat /\ Len(queue[m][t]) \in Nat /\ depth[m] \in Nat
        BY DepthType, SMTT(60) DEF InHand, HandoffInv, QueueInv, Queues
      <3>3. CASE m = n /\ t = w
        BY <2>1, <3>1, <3>2, <3>3 DEF Room
      <3>4. CASE m # n \/ t # w
        BY <2>1, <3>1, <3>2, <3>4
      <3>5. QED
        BY <3>3, <3>4
    <2>3. QED
      BY <2>2, WorkerFrame
  <1>7. OutInv'
    BY <1>1 DEF OutInv, DeliveredToOwner
  <1>8. QED
    BY <1>2, <1>3, <1>4, <1>5, <1>6, <1>7, WorkerFrame DEF HandoffInv

\* It finds the queue full.
LEMMA DropStep ==
  ASSUME HandoffInv, UNCHANGED <<vars, configVars>>, NEW q, NEW p, NEW a,
         InHand(q, p, a), arrived' = a, NoInput, queue' = q,
         NEW from \in HandoffNodes, CountDrop(from)
  PROVE  HandoffInv'
  <1>1. done' = done /\ out' = {}
    BY DEF NoInput
  <1>2. QueueInv(queue)'
    BY ConfigSame, WorkerFrame DEF InHand
  <1>3. congestion["l2tvpp-handoff"] \in Nat /\ congestion["l2tvpp-flow-handoff"] \in Nat
    BY DEF HandoffInv, DataTypes, HandoffNodes
  <1>4. /\ congestion' \in [HandoffNodes -> Nat]
        /\ congestion'["l2tvpp-handoff"] + congestion'["l2tvpp-flow-handoff"] =
             congestion["l2tvpp-handoff"] + congestion["l2tvpp-flow-handoff"] + 1
        /\ congestion'["l2tvpp-handoff"] \in Nat /\ congestion'["l2tvpp-flow-handoff"] \in Nat
    BY <1>3 DEF HandoffInv, DataTypes, HandoffNodes, CountDrop
  <1>5. DataTypes'
    BY <1>1, <1>4, SMTT(60) DEF HandoffInv, DataTypes, InHand, QueueInv
  <1>6. IdsInv'
    BY <1>1, ZenonT(60) DEF InHand, IdsInv, IdsOf, Slots, At
  <1>7. CountedInv'
    <2>1. Cardinality(done) \in Nat /\ Cardinality(IdsOf(q)) \in Nat
      BY CountSets DEF InHand
    <2>2. Cardinality(IdsOf(queue))' = Cardinality(IdsOf(q))
      BY DEF IdsOf, Slots, At
    <2>3. Cardinality(IdsOf(q)) + 1 + Cardinality(done)
            + congestion["l2tvpp-handoff"] + congestion["l2tvpp-flow-handoff"] = a
      BY DEF InHand
    <2>4. Cardinality(IdsOf(q)) + Cardinality(done)
            + congestion'["l2tvpp-handoff"] + congestion'["l2tvpp-flow-handoff"] = a
      BY <1>3, <1>4, <2>1, <2>3
    <2>5. QED
      BY <1>1, <2>2, <2>4 DEF CountedInv
  <1>8. DepthInv'
    <2>1. ASSUME NEW n \in QueueNodes, NEW t \in Threads PROVE Len(q[n][t]) <= depth[n]
      <3>1. Len(q[n][t]) <= Len(queue[n][t]) /\ Len(queue[n][t]) <= depth[n]
        BY DEF InHand, HandoffInv, DepthInv
      <3>2. Len(q[n][t]) \in Nat /\ Len(queue[n][t]) \in Nat /\ depth[n] \in Nat
        BY DepthType DEF InHand, HandoffInv, QueueInv, Queues
      <3>3. QED
        BY <3>1, <3>2
    <2>2. QED
      BY <2>1, WorkerFrame
  <1>9. OutInv'
    BY <1>1 DEF OutInv, DeliveredToOwner
  <1>10. QED
    BY <1>2, <1>5, <1>6, <1>7, <1>8, <1>9, WorkerFrame DEF HandoffInv

\* What p must satisfy to join queue n of thread w.
Joins(q, n, w, p) ==
  /\ PacketInv(n, w, p)
  /\ \A x \in Slots(q) : Apart(p, At(q, x)) /\ Apart(At(q, x), p)
  /\ \A x \in Slots(q) : x[1] = n /\ x[2] = w => InOrder(At(q, x), p)
  /\ \A x \in Slots(q) : n = L2tp /\ x[1] = Eth /\ At(q, x).steady
                         /\ SameUnit(p, At(q, x)) => p.id < At(q, x).id
  /\ \A x \in Slots(q) : n = Eth /\ x[1] = L2tp /\ p.steady
                         /\ SameUnit(At(q, x), p) => At(q, x).id < p.id

\* vlib_buffer_enqueue_to_thread, whichever way it goes.
LEMMA EnqueueStep ==
  ASSUME HandoffInv, UNCHANGED <<vars, configVars>>, NEW q, NEW p, NEW a,
         InHand(q, p, a), arrived' = a, NoInput,
         NEW from \in HandoffNodes, NEW n \in QueueNodes, NEW w \in Threads,
         Enqueue(q, from, n, w, p), Joins(q, n, w, Stamped(p, n))
  PROVE  HandoffInv'
  <1>1. CASE /\ Room(n, w) /\ UNCHANGED congestion
             /\ queue' = Pushed(q, n, w, Stamped(p, n))
    <2>1. Stamped(p, n) \in Packet /\ Stamped(p, n).id = p.id
      BY StampedFacts DEF InHand
    <2>2. PICK r : r = Pushed(q, n, w, Stamped(p, n))
      OBVIOUS
    <2>3. QueueInv(q)
      BY DEF InHand
    <2>4. QueueInv(r) /\ IdsOf(r) = IdsOf(q) \cup {p.id}
      BY <2>1, <2>2, <2>3, PushKeeps DEF Joins
    <2>5. queue' = r
      BY <1>1, <2>2
    <2>6. QED
      BY <1>1, <2>2, <2>4, <2>5, PushStep
  <1>2. CASE ~Room(n, w) /\ queue' = q /\ CountDrop(from)
    BY <1>2, DropStep
  <1>3. QED
    BY <1>1, <1>2 DEF Enqueue, Pushed, Stamped

\* The way of a packet depends on its flow and kind only.
LEMMA SameFlowRoute ==
  ASSUME NEW a, NEW b, a.flow = b.flow, a.kind = b.kind
  PROVE  /\ RxOf(a) = RxOf(b) /\ FlowKindOf(a) = FlowKindOf(b)
         /\ FlowThread(a) = FlowThread(b) /\ Detours(a) = Detours(b)
         /\ KeyOfPacket(a) = KeyOfPacket(b) /\ IsData(a) = IsData(b)
         /\ \A t : Target(a, t) = Target(b, t)
  <1>1. KeyOfPacket(a) = KeyOfPacket(b)
    BY DEF KeyOfPacket
  <1>2. RxOf(a) = RxOf(b) /\ FlowKindOf(a) = FlowKindOf(b) /\ IsData(a) = IsData(b)
    BY <1>1 DEF RxOf, FlowKindOf, Fast, IsData
  <1>3. \A t : Target(a, t) = Target(b, t)
    BY <1>1 DEF Target, HandoffWorker
  <1>4. \A k : ClassifyHash(k, a) = ClassifyHash(k, b)
    BY <1>1 DEF ClassifyHash
  <1>5. \A k, t : FlowThreads(k, a, t) = FlowThreads(k, b, t)
    BY <1>4 DEF FlowThreads
  <1>6. FlowThread(a) = FlowThread(b)
    BY <1>2, <1>5 DEF FlowThread
  <1>7. QED
    BY <1>1, <1>2, <1>3, <1>6 DEF Detours

LEMMA SameFlowUnit ==
  ASSUME NEW a, NEW b, a.flow = b.flow, a.kind = b.kind, a.spread = b.spread, NEW c
  PROVE  SameUnit(a, c) = SameUnit(b, c) /\ SameUnit(c, a) = SameUnit(c, b)
  <1>1. KeyOfPacket(a) = KeyOfPacket(b) /\ IsData(a) = IsData(b)
    BY SameFlowRoute
  <1>2. SameUnit(a, c) = SameUnit(b, c)
    BY <1>1 DEF SameUnit
  <1>3. SameUnit(c, a) = SameUnit(c, b)
    BY <1>1 DEF SameUnit
  <1>4. QED
    BY <1>2, <1>3

-----------------------------------------------------------------------------
(* A packet arrives *)

Fresh(p) ==
  /\ p \in Packet /\ p.kind # "plain" /\ p.via = <<>>
  /\ p.spread = Spread /\ p.steady = TRUE /\ p.id = arrived + 1

LEMMA FreshInHand ==
  ASSUME HandoffInv, NEW p, Fresh(p)
  PROVE  /\ InHand(queue, p, arrived + 1)
         /\ \A x \in Slots(queue) : At(queue, x).id \in Nat /\ At(queue, x).id < p.id
  <1>1. arrived \in Nat /\ done \subseteq 1 .. arrived /\ queue \in Queues
        /\ IdsOf(queue) \subseteq (1 .. arrived) \ done
    BY DEF HandoffInv, DataTypes, IdsInv
  <1>2. 1 .. arrived \subseteq 1 .. arrived + 1 /\ arrived + 1 \in 1 .. arrived + 1
        /\ arrived + 1 \notin 1 .. arrived
    BY <1>1
  <1>3. \A n \in QueueNodes, t \in Threads : Len(queue[n][t]) <= Len(queue[n][t])
    <2>1. \A n \in QueueNodes, t \in Threads : Len(queue[n][t]) \in Nat
      BY <1>1 DEF Queues
    <2>2. QED
      BY <2>1
  <1>4. ASSUME NEW x \in Slots(queue)
        PROVE  At(queue, x).id \in Nat /\ At(queue, x).id < p.id
    <2>1. At(queue, x).id \in 1 .. arrived
      BY <1>1 DEF IdsOf
    <2>2. QED
      BY <1>1, <2>1 DEF Fresh
  <1>5. Cardinality(IdsOf(queue)) + 1 + Cardinality(done)
          + congestion["l2tvpp-handoff"] + congestion["l2tvpp-flow-handoff"] = arrived + 1
    <2>1. Cardinality(done) \in Nat /\ Cardinality(IdsOf(queue)) \in Nat
      BY <1>1, CountSets
    <2>2. congestion["l2tvpp-handoff"] \in Nat /\ congestion["l2tvpp-flow-handoff"] \in Nat
      BY DEF HandoffInv, DataTypes, HandoffNodes
    <2>3. QED
      BY <2>1, <2>2 DEF HandoffInv, CountedInv
  <1>6. QED
    BY <1>1, <1>2, <1>3, <1>4, <1>5 DEF InHand, HandoffInv, Fresh

\* A packet of its unit that waits went the way the new one will go.
LEMMA FreshUnit ==
  ASSUME HandoffInv, NEW p, Fresh(p), NEW x \in Slots(queue), At(queue, x).steady,
         SameUnit(p, At(queue, x))
  PROVE  /\ Spread # "spray"
         /\ x[1] = Eth => Detours(p)
         /\ x[1] # Eth /\ ~Detours(p) =>
              IF if_data.enabled /\ FlowKindOf(p) = "FAST"
              THEN FlowThread(p) # RxOf(p) ELSE handoff_enabled
         /\ x[1] = L2tp \/ x[1] = Eth
  <1> DEFINE y == At(queue, x)
  <1>1. y \in Packet /\ x[1] \in QueueNodes
    BY SlotFacts DEF HandoffInv, QueueInv
  <1>2. PacketInv(x[1], x[2], y)
    BY DEF HandoffInv, QueueInv, PlacesInv
  <1>3. y.spread = Spread /\ y.kind # "plain"
    BY <1>2 DEF PacketInv
  <1>4. Spread # "spray"
    BY <1>3, SameUnitFacts, SpreadFacts
  <1>5. Placed(x[1], x[2], y)
    BY <1>2, <1>3, <1>4 DEF PacketInv
  <1>6. /\ RxOf(p) = RxOf(y) /\ Detours(p) = Detours(y)
        /\ if_data.enabled => FlowKindOf(p) = FlowKindOf(y) /\ FlowThread(p) = FlowThread(y)
    BY <1>1, <1>3, UnitRoute DEF HandoffInv, Fresh
  <1> HIDE DEF y
  <1>7. QED
    BY <1>1, <1>4, <1>5, <1>6 DEF Placed, QueueNodes, Eth, L2tp

\* It may join any queue it is sent to.
LEMMA FreshJoins ==
  ASSUME HandoffInv, NEW p, Fresh(p), NEW n \in QueueNodes, NEW w \in Threads,
         PacketInv(n, w, Stamped(p, n)), n = L2tp => Spread = "spray" \/ ~Detours(p)
  PROVE  Joins(queue, n, w, Stamped(p, n))
  <1> DEFINE s == Stamped(p, n)
  <1>1. /\ s \in Packet /\ s.id = p.id /\ s.flow = p.flow /\ s.kind = p.kind
        /\ s.spread = p.spread /\ s.steady /\ p.id \in Nat
    BY StampedFacts DEF Fresh, Packet
  <1> HIDE DEF s
  <1>2. \A x \in Slots(queue) : At(queue, x).id \in Nat /\ At(queue, x).id < s.id
    BY <1>1, FreshInHand
  <1>3. ASSUME NEW x \in Slots(queue)
        PROVE  /\ Apart(s, At(queue, x)) /\ Apart(At(queue, x), s)
               /\ InOrder(At(queue, x), s)
    <2>1. At(queue, x).id < s.id /\ At(queue, x).id # s.id
      BY <1>1, <1>2
    <2>2. QED
      BY <1>1, <2>1 DEF Apart, InOrder
  <1>4. ASSUME NEW x \in Slots(queue), n = L2tp, x[1] = Eth, At(queue, x).steady,
               SameUnit(s, At(queue, x))
        PROVE  FALSE
    <2>1. SameUnit(p, At(queue, x))
      BY <1>1, <1>4, SameFlowUnit
    <2>2. QED
      BY <1>4, <2>1, FreshUnit
  <1>5. QED
    BY <1>2, <1>3, <1>4 DEF Joins, s

\* It leaves at once only when nothing of its unit waits.
LEMMA FreshLeaves ==
  ASSUME HandoffInv, NEW p, Fresh(p),
         Spread = "spray" \/ ~Detours(p),
         Spread = "spray" \/ IF if_data.enabled /\ FlowKindOf(p) = "FAST"
                            THEN FlowThread(p) = RxOf(p) ELSE ~handoff_enabled
  PROVE  Leaves(queue, p)
  <1>1. Len(p.via) <= 1 /\ p.via = <<>>
    BY DEF Fresh
  <1>2. ASSUME NEW x \in Slots(queue), p.via = At(queue, x).via
        PROVE  FALSE
    <2>1. PacketInv(x[1], x[2], At(queue, x)) /\ x[1] \in QueueNodes
      BY SlotFacts DEF HandoffInv, QueueInv, PlacesInv
    <2>2. At(queue, x).via \in {<<Eth>>, <<L2tp>>, <<Eth, L2tp>>}
      BY <2>1 DEF PacketInv, QueueNodes, Eth, L2tp
    <2>3. QED
      BY <1>1, <1>2, <2>2, SMTT(60)
  <1>3. ASSUME NEW x \in Slots(queue), At(queue, x).steady, SameUnit(p, At(queue, x))
        PROVE  FALSE
    BY <1>3, FreshUnit DEF L2tp, Eth
  <1>4. QED
    BY <1>1, <1>2, <1>3 DEF Leaves

\* ethernet-input on the thread it arrived on.
LEMMA FreshEthernet ==
  ASSUME HandoffInv, UNCHANGED <<vars, configVars>>, arrived' = arrived + 1,
         NEW p, Fresh(p), EthernetInput(queue, p, RxOf(p)),
         if_data.enabled => /\ FlowKindOf(p) # "FAST"
                            /\ Spread # "spray" => FlowThread(p) = RxOf(p)
  PROVE  HandoffInv'
  <1> DEFINE w == Target(p, RxOf(p))
  <1>1. p \in Packet /\ w \in Threads /\ L2tp \in QueueNodes
    BY PacketThreads DEF Fresh, L2tp, QueueNodes
  <1>2. InHand(queue, p, arrived + 1)
    BY FreshInHand
  <1>3. Spread = "spray" \/ ~Detours(p)
    BY DEF Detours
  <1>4. CASE handoff_enabled /\ Enqueue(queue, "l2tvpp-handoff", L2tp, w, p) /\ NoInput
    <2> DEFINE s == Stamped(p, L2tp)
    <2>1. /\ s.flow = p.flow /\ s.kind = p.kind /\ s.spread = Spread
          /\ s.steady = TRUE /\ s.via = <<L2tp>> /\ s.kind # "plain"
      BY <1>1, StampedFacts DEF Fresh
    <2> HIDE DEF s
    <2>2. /\ RxOf(s) = RxOf(p) /\ FlowKindOf(s) = FlowKindOf(p) /\ Detours(s) = Detours(p)
          /\ Target(s, RxOf(p)) = w
      BY <2>1, SameFlowRoute
    <2>3. Spread # "spray" => Placed(L2tp, w, s)
      BY <1>3, <1>4, <2>1, <2>2 DEF Placed
    <2>4. Len(s.via) = 1
      BY <2>1
    <2>5. PacketInv(L2tp, w, s)
      BY <2>1, <2>2, <2>3, <2>4 DEF PacketInv, L2tp, Eth
    <2>6. Joins(queue, L2tp, w, s)
      BY <1>1, <1>3, <2>5, FreshJoins DEF s
    <2>7. "l2tvpp-handoff" \in HandoffNodes
      BY DEF HandoffNodes
    <2>8. QED
      BY <1>1, <1>2, <1>4, <2>6, <2>7, EnqueueStep DEF s
  <1>5. CASE ~handoff_enabled /\ InputHere(queue, p)
    <2>1. Leaves(queue, p)
      BY <1>3, <1>5, FreshLeaves
    <2>2. QED
      BY <1>2, <1>5, <2>1, InputStep
  <1>6. QED
    BY <1>4, <1>5 DEF EthernetInput, L2tp

\* The flow handoff on the thread it arrived on.
LEMMA FreshFlow ==
  ASSUME HandoffInv, UNCHANGED <<vars, configVars>>, arrived' = arrived + 1,
         NEW p, Fresh(p), if_data.enabled, FlowHandoff(p, RxOf(p))
  PROVE  HandoffInv'
  <1> DEFINE t == RxOf(p)
             k == FlowKindOf(p)
             node == IF k = "FAST" THEN L2tp ELSE Eth
  <1>1. p \in Packet /\ InHand(queue, p, arrived + 1)
    BY FreshInHand DEF Fresh
  <1>2. Spread # "rx" /\ (Spread # "spray" => ~if_data.spray)
    BY SpreadFacts
  <1>3. PICK w \in FlowThreads(k, p, t) :
          \/ w = t /\ node = L2tp /\ InputHere(queue, p)
          \/ w = t /\ node = Eth /\ EthernetInput(queue, p, t)
          \/ w # t /\ Enqueue(queue, "l2tvpp-flow-handoff", node, w, p) /\ NoInput
    BY DEF FlowHandoff, FlowKindOf, L2tp, Eth
  <1>4. w \in Threads /\ (Spread # "spray" => w = FlowThread(p))
    BY <1>1, <1>2, <1>3, FlowThreadFacts DEF HandoffInv
  <1>5. CASE w = t /\ node = L2tp /\ InputHere(queue, p)
    <2>1. k = "FAST"
      BY <1>5 DEF L2tp, Eth
    <2>2. Leaves(queue, p)
      BY <1>4, <1>5, <2>1, FreshLeaves DEF Detours
    <2>3. QED
      BY <1>1, <1>5, <2>2, InputStep
  <1>6. CASE w = t /\ node = Eth /\ EthernetInput(queue, p, t)
    <2>1. k # "FAST"
      BY <1>6 DEF L2tp, Eth
    <2>2. QED
      BY <1>4, <1>6, <2>1, FreshEthernet
  <1>7. CASE w # t /\ Enqueue(queue, "l2tvpp-flow-handoff", node, w, p) /\ NoInput
    <2> DEFINE s == Stamped(p, node)
    <2>0. node \in QueueNodes /\ "l2tvpp-flow-handoff" \in HandoffNodes
      BY DEF QueueNodes, HandoffNodes, L2tp, Eth
    <2>1. /\ s.flow = p.flow /\ s.kind = p.kind /\ s.spread = Spread
          /\ s.steady = TRUE /\ s.via = <<node>> /\ s.kind # "plain"
      BY <1>1, <2>0, StampedFacts DEF Fresh
    <2>2. /\ RxOf(s) = RxOf(p) /\ FlowKindOf(s) = FlowKindOf(p) /\ Detours(s) = Detours(p)
          /\ FlowThread(s) = FlowThread(p)
      BY <2>1, SameFlowRoute
    <2>3. k # "FAST" => node = Eth
      OBVIOUS
    <2>4. k = "FAST" => node = L2tp
      OBVIOUS
    <2> HIDE DEF s, node
    <2>5. Spread # "spray" => Placed(node, w, s)
      BY <1>4, <1>7, <2>1, <2>2, <2>3, <2>4 DEF Placed, Detours
    <2>6. Len(s.via) = 1
      BY <2>1
    <2>7. PacketInv(node, w, s)
      BY <1>2, <2>1, <2>5, <2>6, <2>3, <2>4 DEF PacketInv, L2tp, Eth
    <2>8. node = L2tp => ~Detours(p)
      BY <2>3, <2>4 DEF Detours, L2tp, Eth
    <2>9. Joins(queue, node, w, s)
      BY <1>4, <2>0, <2>7, <2>8, FreshJoins DEF s
    <2>10. QED
      BY <1>1, <1>4, <1>7, <2>0, <2>9, EnqueueStep DEF s
  <1>8. QED
    BY <1>3, <1>5, <1>6, <1>7

LEMMA ReceiveStep ==
  ASSUME HandoffInv, NEW x \in Traffic, Receive(x[1], x[2])
  PROVE  HandoffInv'
  <1> DEFINE p == [id |-> arrived + 1, flow |-> x[1], kind |-> x[2], via |-> <<>>,
                   spread |-> Spread, steady |-> TRUE]
  <1>1. Fresh(p) /\ p \in Packet
    <2>1. x[1] \in Flows /\ x[2] \in AllKinds /\ x[2] # "plain"
      BY HandoffAssumption
    <2>2. arrived + 1 \in Nat
      BY DEF HandoffInv, DataTypes
    <2>3. <<>> \in Seq(QueueNodes) /\ Spread \in {"rx", "one", "flow", "spray"}
      BY SpreadFacts
    <2>4. p \in Packet
      BY <2>1, <2>2, <2>3 DEF Packet
    <2>5. QED
      BY <2>1, <2>4 DEF Fresh
  <1>2. /\ arrived' = arrived + 1 /\ UNCHANGED <<vars, configVars>>
        /\ \/ if_data.enabled /\ FlowHandoff(p, RxOf(p))
           \/ ~if_data.enabled /\ EthernetInput(queue, p, RxOf(p))
    BY DEF Receive, RxOf
  <1> HIDE DEF p
  <1>4. CASE if_data.enabled /\ FlowHandoff(p, RxOf(p))
    BY <1>1, <1>2, <1>4, FreshFlow
  <1>5. CASE ~if_data.enabled /\ EthernetInput(queue, p, RxOf(p))
    BY <1>1, <1>2, <1>5, FreshEthernet
  <1>6. QED
    BY <1>2, <1>4, <1>5

-----------------------------------------------------------------------------
(* A packet is taken off a queue *)

LEMMA HeadInHand ==
  ASSUME HandoffInv, NEW n \in QueueNodes, NEW t \in Threads, queue[n][t] # <<>>
  PROVE  InHand(Popped(queue, n, t), Head(queue[n][t]), arrived)
  <1> DEFINE q == Popped(queue, n, t)
             p == Head(queue[n][t])
  <1>1. QueueInv(queue) /\ queue \in Queues
    BY DEF HandoffInv, QueueInv
  <1>2. /\ QueueInv(q) /\ p \in Packet
        /\ IdsOf(queue) = IdsOf(q) \cup {p.id} /\ p.id \notin IdsOf(q)
    BY <1>1, PopKeeps
  <1>3. \A m \in QueueNodes, w \in Threads : Len(q[m][w]) <= Len(queue[m][w])
    <2>1. /\ Len(q[n][t]) <= Len(queue[n][t])
          /\ \A m \in QueueNodes, w \in Threads : m # n \/ w # t => q[m][w] = queue[m][w]
      BY <1>1, PopSlots
    <2>2. \A m \in QueueNodes, w \in Threads : Len(queue[m][w]) \in Nat
      BY <1>1 DEF Queues
    <2> HIDE DEF q
    <2>3. QED
      BY <2>1, <2>2
  <1> HIDE DEF q, p
  <1>4. arrived \in Nat /\ done \subseteq 1 .. arrived
        /\ IdsOf(queue) \subseteq (1 .. arrived) \ done
    BY DEF HandoffInv, DataTypes, IdsInv
  <1>5. Cardinality(IdsOf(q)) + 1 + Cardinality(done)
          + congestion["l2tvpp-handoff"] + congestion["l2tvpp-flow-handoff"] = arrived
    <2>1. /\ Cardinality(IdsOf(queue)) = Cardinality(IdsOf(q)) + 1
          /\ Cardinality(IdsOf(q)) \in Nat
      BY <1>2, <1>4, CountSets
    <2>2. QED
      BY <2>1 DEF HandoffInv, CountedInv
  <1>6. QED
    BY <1>2, <1>3, <1>4, <1>5 DEF InHand, q, p

\* Two packets of one unit, both steady, wait in one queue or in the two that follow
\* each other.
LEMMA UnitPlaces ==
  ASSUME ConfigTypes, NEW a \in Packet, NEW b \in Packet, NEW m, NEW v, NEW n, NEW t,
         PacketInv(m, v, a), PacketInv(n, t, b), a.steady, b.steady, SameUnit(a, b)
  PROVE  /\ m = n => v = t
         /\ m = Eth => Detours(b)
         /\ Detours(b) /\ n = L2tp => handoff_enabled
  <1>1. a.spread = Spread /\ b.spread = Spread /\ a.kind # "plain" /\ b.kind # "plain"
    BY DEF PacketInv
  <1>2. Spread # "spray"
    BY <1>1, SameUnitFacts, SpreadFacts
  <1>3. Placed(m, v, a) /\ Placed(n, t, b)
    BY <1>1, <1>2 DEF PacketInv
  <1>4. /\ RxOf(a) = RxOf(b) /\ Detours(a) = Detours(b)
        /\ \A w : Target(a, w) = Target(b, w)
        /\ if_data.enabled => FlowKindOf(a) = FlowKindOf(b) /\ FlowThread(a) = FlowThread(b)
    BY <1>1, UnitRoute
  <1>5. Detours(a) => if_data.enabled
    BY DEF Detours
  <1>6. QED
    BY <1>3, <1>4, <1>5 DEF Placed, Eth, L2tp

\* A packet at the head of the queue to l2tvpp-input overtakes nothing it must not.
LEMMA HeadLeaves ==
  ASSUME HandoffInv, NEW n \in QueueNodes, NEW t \in Threads, queue[n][t] # <<>>,
         n = Eth => ~handoff_enabled
  PROVE  Leaves(Popped(queue, n, t), Head(queue[n][t]))
  <1> DEFINE q == Popped(queue, n, t)
             p == Head(queue[n][t])
  <1>1. QueueInv(queue) /\ ConfigTypes
    BY DEF HandoffInv
  <1>2. /\ QueueInv(q) /\ p \in Packet /\ PacketInv(n, t, p)
        /\ \A x \in Slots(q) : Apart(p, At(q, x)) /\ Apart(At(q, x), p)
        /\ \A x \in Slots(q) : x[1] = n /\ x[2] = t => InOrder(p, At(q, x))
        /\ \A x \in Slots(q) :
             n = L2tp /\ x[1] = Eth /\ At(q, x).steady /\ SameUnit(p, At(q, x)) =>
               p.id < At(q, x).id
    BY <1>1, PopKeeps
  <1> HIDE DEF q, p
  <1>3. ASSUME NEW x \in Slots(q)
        PROVE  /\ At(q, x) \in Packet /\ x[1] \in {Eth, L2tp} /\ x[1] \in QueueNodes
               /\ PacketInv(x[1], x[2], At(q, x))
    BY <1>2, SlotFacts DEF QueueInv, PlacesInv, QueueNodes, Eth, L2tp
  <1>4. ASSUME NEW x \in Slots(q),
               KeyOfPacket(p) = KeyOfPacket(At(q, x)), IsData(p), IsData(At(q, x)),
               p.spread = "rx", At(q, x).spread = "rx"
        PROVE  p.id < At(q, x).id
    <2>1. n # Eth /\ x[1] # Eth /\ n \in {Eth, L2tp}
      BY <1>2, <1>3, <1>4 DEF PacketInv, QueueNodes, Eth, L2tp
    <2>2. t = Target(p, RxOf(p)) /\ x[2] = Target(At(q, x), RxOf(At(q, x)))
      BY <1>2, <1>3, <1>4 DEF PacketInv
    <2>3. Target(p, RxOf(p)) = Target(At(q, x), RxOf(At(q, x)))
      BY <1>4 DEF Target, RxOf, HandoffWorker, IsData
    <2>4. InOrder(p, At(q, x))
      BY <1>2, <1>3, <2>1, <2>2, <2>3
    <2>5. QED
      BY <1>4, <2>4 DEF InOrder
  <1>5. ASSUME NEW x \in Slots(q), At(q, x).steady, SameUnit(p, At(q, x))
        PROVE  p.id < At(q, x).id
    <2>1. CASE ~p.steady
      BY <1>2, <1>5, <2>1 DEF Apart
    <2>2. CASE p.steady /\ x[1] = n
      <3>1. x[2] = t
        BY <1>1, <1>2, <1>3, <1>5, <2>2, UnitPlaces
      <3>2. QED
        BY <1>2, <1>5, <2>2, <3>1 DEF InOrder
    <2>3. CASE n = L2tp /\ x[1] = Eth
      BY <1>2, <1>5, <2>3
    <2>4. CASE p.steady /\ n = Eth /\ x[1] = L2tp
      BY <1>1, <1>2, <1>3, <1>5, <2>4, UnitPlaces
    <2>5. QED
      BY <1>3, <2>1, <2>2, <2>3, <2>4 DEF QueueNodes, Eth, L2tp
  <1>6. ~by_hand /\ p.steady => Len(p.via) <= 1
    BY <1>2 DEF PacketInv
  <1>7. QED
    BY <1>4, <1>5, <1>6 DEF Leaves, q, p

\* A packet at the head of a queue to ethernet-input may join the queue to
\* l2tvpp-input of its session's worker.
LEMMA HeadJoins ==
  ASSUME HandoffInv, NEW t \in Threads, queue[Eth][t] # <<>>, handoff_enabled
  PROVE  LET p == Head(queue[Eth][t])
         IN Joins(Popped(queue, Eth, t), L2tp, Target(p, t), Stamped(p, L2tp))
  <1> DEFINE q == Popped(queue, Eth, t)
             p == Head(queue[Eth][t])
             s == Stamped(p, L2tp)
             w == Target(p, t)
  <1>1. QueueInv(queue) /\ ConfigTypes /\ ExclusiveInv
    BY DEF HandoffInv
  <1>2. Eth \in QueueNodes /\ L2tp \in QueueNodes /\ Eth # L2tp
    BY DEF QueueNodes, Eth, L2tp
  <1>3. /\ QueueInv(q) /\ p \in Packet /\ PacketInv(Eth, t, p)
        /\ \A x \in Slots(q) : Apart(p, At(q, x)) /\ Apart(At(q, x), p)
        /\ \A x \in Slots(q) : x[1] = Eth /\ x[2] = t => InOrder(p, At(q, x))
        /\ \A x \in Slots(q) :
             x[1] = L2tp /\ p.steady /\ SameUnit(At(q, x), p) => At(q, x).id < p.id
    BY <1>1, <1>2, PopKeeps
  <1>4. /\ s \in Packet /\ s.id = p.id /\ s.flow = p.flow /\ s.kind = p.kind
        /\ s.spread = p.spread /\ s.steady = p.steady /\ s.via = <<Eth, L2tp>>
    <2>1. /\ s \in Packet /\ s.id = p.id /\ s.flow = p.flow /\ s.kind = p.kind
          /\ s.spread = p.spread /\ s.steady = p.steady /\ s.via = Append(p.via, L2tp)
      BY <1>2, <1>3, StampedFacts
    <2>2. p.via = <<Eth>>
      BY <1>3 DEF PacketInv
    <2>3. QED
      BY <2>1, <2>2, SMTT(60)
  <1> HIDE DEF q, p, s, w
  <1>5. /\ RxOf(s) = RxOf(p) /\ FlowThread(s) = FlowThread(p) /\ Detours(s) = Detours(p)
        /\ \A v : Target(s, v) = Target(p, v)
    BY <1>4, SameFlowRoute
  <1>6. \A b : SameUnit(s, b) = SameUnit(p, b) /\ SameUnit(b, s) = SameUnit(b, p)
    BY <1>4, SameFlowUnit
  <1>7. p.spread # "rx" /\ p.kind # "plain"
    BY <1>3 DEF PacketInv
  <1>8. PacketInv(L2tp, w, s)
    <2>1. ASSUME p.steady, p.spread # "spray" PROVE Placed(L2tp, w, s)
      <3>1. Placed(Eth, t, p)
        BY <1>3, <2>1 DEF PacketInv
      <3>2. Detours(p) /\ t = FlowThread(p)
        BY <3>1, <1>2 DEF Placed
      <3>3. QED
        BY <1>4, <1>5, <3>2 DEF Placed, w
    <2>2. ASSUME p.steady PROVE p.spread = Spread /\ by_hand
      <3>1. p.spread = Spread
        BY <1>3, <2>2 DEF PacketInv
      <3>2. if_data.enabled
        BY <1>7, <3>1, SpreadFacts
      <3>3. QED
        BY <1>1, <3>1, <3>2 DEF ExclusiveInv
    <2>3. QED
      BY <1>2, <1>4, <1>7, <2>1, <2>2 DEF PacketInv
  <1>9. ASSUME NEW x \in Slots(q)
        PROVE  Apart(s, At(q, x)) /\ Apart(At(q, x), s)
    BY <1>3, <1>4 DEF Apart
  <1>10. ASSUME NEW x \in Slots(q), x[1] = L2tp
         PROVE  InOrder(At(q, x), s)
    BY <1>3, <1>4, <1>6, <1>7, <1>10 DEF InOrder
  <1>11. ASSUME NEW x \in Slots(q), x[1] = Eth, At(q, x).steady, SameUnit(s, At(q, x))
         PROVE  s.id < At(q, x).id
    <2>1. SameUnit(p, At(q, x))
      BY <1>6, <1>11
    <2>2. CASE ~p.steady
      BY <1>3, <1>4, <1>11, <2>2 DEF Apart
    <2>3. CASE p.steady
      <3>1. At(q, x) \in Packet /\ PacketInv(x[1], x[2], At(q, x))
        BY <1>3, SlotFacts DEF QueueInv, PlacesInv
      <3>2. x[2] = t
        BY <1>1, <1>3, <1>11, <2>1, <2>3, <3>1, UnitPlaces
      <3>3. QED
        BY <1>3, <1>4, <1>11, <2>1, <3>2 DEF InOrder
    <2>4. QED
      BY <2>2, <2>3
  <1>12. QED
    BY <1>2, <1>8, <1>9, <1>10, <1>11 DEF Joins, q, p, s, w

LEMMA DequeueStep ==
  ASSUME HandoffInv, NEW n \in QueueNodes, NEW t \in Threads, Dequeue(n, t)
  PROVE  HandoffInv'
  <1> DEFINE q == Popped(queue, n, t)
             p == Head(queue[n][t])
  <1>1. queue[n][t] # <<>> /\ UNCHANGED <<vars, configVars>> /\ arrived' = arrived
    BY DEF Dequeue
  <1>2. \/ n = L2tp /\ InputHere(q, p)
        \/ n = Eth /\ EthernetInput(q, p, t)
    BY DEF Dequeue, Popped, L2tp, Eth
  <1>3. InHand(q, p, arrived)
    BY <1>1, HeadInHand
  <1>4. n = L2tp => n # Eth
    BY DEF L2tp, Eth
  <1>5. (n = L2tp \/ ~handoff_enabled) => Leaves(q, p)
    BY <1>1, <1>4, HeadLeaves
  <1>6. n = Eth /\ handoff_enabled => Joins(q, L2tp, Target(p, t), Stamped(p, L2tp))
    BY <1>1, HeadJoins
  <1> HIDE DEF q, p
  <1>7. CASE InputHere(q, p) /\ (n = L2tp \/ ~handoff_enabled)
    BY <1>1, <1>3, <1>5, <1>7, InputStep
  <1>8. CASE n = Eth /\ EthernetInput(q, p, t)
    <2>1. CASE handoff_enabled /\ Enqueue(q, "l2tvpp-handoff", L2tp, Target(p, t), p) /\ NoInput
      <3>1. p \in Packet
        BY <1>3 DEF InHand
      <3>2. /\ Target(p, t) \in Threads /\ L2tp \in QueueNodes
            /\ "l2tvpp-handoff" \in HandoffNodes
        BY <3>1, PacketThreads DEF L2tp, QueueNodes, HandoffNodes
      <3>3. QED
        BY <1>1, <1>3, <1>6, <1>8, <2>1, <3>2, EnqueueStep
    <2>2. CASE ~handoff_enabled /\ InputHere(q, p)
      BY <1>7, <2>2
    <2>3. QED
      BY <1>8, <2>1, <2>2 DEF EthernetInput, L2tp
  <1>9. QED
    BY <1>2, <1>7, <1>8

-----------------------------------------------------------------------------
(* The control plane *)

\* A call moves no packet.
SameContents ==
  /\ IdsOf(queue)' = IdsOf(queue)
  /\ \A n \in QueueNodes, t \in Threads : Len(queue'[n][t]) = Len(queue[n][t])

LEMMA CallKeepsData ==
  ASSUME HandoffInv, QueueInv(queue)', SameContents, NoInput, UNCHANGED <<arrived, congestion>>
  PROVE  DataTypes' /\ IdsInv' /\ CountedInv' /\ OutInv'
  <1>1. /\ done' = done /\ out' = {} /\ arrived' = arrived /\ congestion' = congestion
        /\ IdsOf(queue)' = IdsOf(queue)
    BY DEF NoInput, SameContents
  <1>2. DataTypes'
    BY <1>1 DEF HandoffInv, DataTypes, QueueInv
  <1>3. IdsInv' /\ CountedInv'
    BY <1>1 DEF HandoffInv, IdsInv, CountedInv
  <1>4. OutInv'
    BY <1>1 DEF OutInv, DeliveredToOwner
  <1>5. QED
    BY <1>2, <1>3, <1>4

LEMMA CallKeepsIndex ==
  ASSUME IndexInv, UNCHANGED vars
  PROVE  IndexInv'
  <1>1. reply \in [rv : Retval, index : TunnelIdx \cup SwIf \cup {NoIndex}]
    BY DEF IndexInv, TypeOK
  <1>2. QED
    BY <1>1, UnchangedIndex DEF vars

\* The queue to ethernet-input, created now or before, is as deep as the other one.
LEMMA DepthOnUse ==
  ASSUME DepthInv, SameContents, queue \in Queues, UNCHANGED handoff_queue_nelts,
         depth' = [depth EXCEPT !["ethernet-input"] = EthDepth(@)]
  PROVE  DepthInv'
  <1>1. PICK n \in ConfigNelts : handoff_queue_nelts = LegalNelts(n)
    BY DEF DepthInv
  <1>2. /\ LegalNelts(handoff_queue_nelts) = handoff_queue_nelts
        /\ handoff_queue_nelts \in Nat /\ handoff_queue_nelts # 0
    BY <1>1, NeltsBounds, LegalNeltsFacts
  <1>3. depth \in [QueueNodes -> {0, handoff_queue_nelts}] /\ depth[L2tp] = handoff_queue_nelts
        /\ Eth \in QueueNodes /\ L2tp \in QueueNodes /\ Eth # L2tp
    BY DEF DepthInv, Eth, L2tp, QueueNodes
  <1>4. EthDepth(depth[Eth]) = handoff_queue_nelts
    BY <1>2, <1>3 DEF EthDepth
  <1>5. depth' = [depth EXCEPT ![Eth] = handoff_queue_nelts]
    BY <1>4 DEF Eth
  <1>6. /\ depth' \in [QueueNodes -> {0, handoff_queue_nelts}]
        /\ depth'[L2tp] = handoff_queue_nelts /\ depth'[Eth] = handoff_queue_nelts
    BY <1>3, <1>5
  <1>7. ASSUME NEW m \in QueueNodes, NEW t \in Threads PROVE Len(queue'[m][t]) <= depth'[m]
    <2>1. Len(queue'[m][t]) = Len(queue[m][t]) /\ Len(queue[m][t]) <= depth[m]
          /\ Len(queue[m][t]) \in Nat
      BY DEF SameContents, DepthInv, Queues
    <2>2. depth[m] \in {0, handoff_queue_nelts} /\ depth'[m] = handoff_queue_nelts
      BY <1>3, <1>6 DEF QueueNodes, Eth, L2tp
    <2>3. QED
      BY <1>2, <2>1, <2>2
  <1>8. QED
    BY <1>1, <1>2, <1>6, <1>7 DEF DepthInv

LEMMA SetHandoffStep ==
  ASSUME HandoffInv, NEW enable \in BOOLEAN, SetHandoff(enable)
  PROVE  HandoffInv'
  <1>1. QueueInv(queue)' /\ SameContents
    BY UnsettleKeeps DEF SetHandoff, HandoffInv, SameContents
  <1>2. DataTypes' /\ IdsInv' /\ CountedInv' /\ OutInv' /\ IndexInv'
    BY <1>1, CallKeepsData, CallKeepsIndex DEF SetHandoff, HandoffInv
  <1>3. ConfigTypes' /\ ExclusiveInv'
    BY DEF SetHandoff, HandoffInv, ConfigTypes, ExclusiveInv
  <1>4. DepthInv'
    BY <1>1 DEF SetHandoff, HandoffInv, DepthInv, SameContents
  <1>5. QED
    BY <1>1, <1>2, <1>3, <1>4 DEF HandoffInv

LEMMA FlowEnableStep ==
  ASSUME HandoffInv, NEW workers \in WorkerLists, NEW fastpath \in BOOLEAN,
         NEW spray \in BOOLEAN, FlowEnable(workers, fastpath, spray)
  PROVE  HandoffInv'
  <1>1. QueueInv(queue)' /\ SameContents
    BY UnsettleKeeps DEF FlowEnable, HandoffInv, SameContents
  <1>2. DataTypes' /\ IdsInv' /\ CountedInv' /\ OutInv' /\ IndexInv'
    BY <1>1, CallKeepsData, CallKeepsIndex DEF FlowEnable, HandoffInv
  <1>3. workers \in Seq(Threads)
    <2>1. workers \in Seq(Nat \ {0})
      BY HandoffAssumption
    <2>2. \A i \in DOMAIN workers : workers[i] \in Threads
      BY DEF FlowEnable
    <2>3. DOMAIN workers = 1 .. Len(workers) /\ Len(workers) \in Nat
          /\ workers = [i \in 1 .. Len(workers) |-> workers[i]]
      BY <2>1
    <2>4. QED
      BY <2>2, <2>3, SeqDef
  <1>4. ConfigTypes' /\ ExclusiveInv'
    BY <1>3 DEF FlowEnable, SessionHandoffOff, ConfigTypes, ExclusiveInv
  <1>5. DepthInv'
    BY <1>1, DepthOnUse DEF FlowEnable, HandoffInv, DataTypes
  <1>6. QED
    BY <1>1, <1>2, <1>4, <1>5 DEF HandoffInv

LEMMA FlowDisableStep ==
  ASSUME HandoffInv, FlowDisable
  PROVE  HandoffInv'
  <1>1. QueueInv(queue)' /\ SameContents
    BY UnsettleKeeps DEF FlowDisable, HandoffInv, SameContents
  <1>2. DataTypes' /\ IdsInv' /\ CountedInv' /\ OutInv' /\ IndexInv'
    BY <1>1, CallKeepsData, CallKeepsIndex DEF FlowDisable, HandoffInv
  <1>3. Disabled \in [enabled : BOOLEAN, workers : Seq(Threads), fastpath : BOOLEAN,
                      spray : BOOLEAN] /\ ~Disabled.enabled
    BY DEF Disabled
  <1>4. ConfigTypes' /\ ExclusiveInv'
    BY <1>3 DEF FlowDisable, HandoffInv, ConfigTypes, ExclusiveInv
  <1>5. DepthInv'
    BY <1>1, DepthOnUse DEF FlowDisable, HandoffInv, DataTypes
  <1>6. QED
    BY <1>1, <1>2, <1>4, <1>5 DEF HandoffInv

LEMMA ObjectCallStep ==
  ASSUME HandoffInv, ObjectCall
  PROVE  HandoffInv'
  <1>1. /\ Next /\ UNCHANGED configVars /\ NoInput /\ UNCHANGED <<arrived, congestion>>
        /\ IF local_ip4s' = local_ip4s THEN UNCHANGED queue ELSE Unsettle
    BY DEF ObjectCall
  <1>2. QueueInv(queue)' /\ SameContents
    <2>1. CASE local_ip4s' = local_ip4s /\ queue' = queue
      <3>1. QueueInv(queue)
        BY DEF HandoffInv
      <3>2. PICK q : q = queue
        OBVIOUS
      <3>3. QueueInv(q) /\ queue' = q
        BY <2>1, <3>1, <3>2
      <3>4. QueueInv(queue)'
        BY <1>1, <2>1, <3>3, ConfigSame
      <3>5. QED
        BY <2>1, <3>4 DEF SameContents, IdsOf, Slots, At
    <2>2. CASE Unsettle
      BY <2>2, UnsettleKeeps DEF HandoffInv, SameContents
    <2>3. QED
      BY <1>1, <2>1, <2>2
  <1>3. DataTypes' /\ IdsInv' /\ CountedInv' /\ OutInv'
    BY <1>1, <1>2, CallKeepsData
  <1>4. IndexInv'
    BY <1>1, NextIndex DEF HandoffInv
  <1>5. ConfigTypes' /\ ExclusiveInv'
    BY <1>1 DEF configVars, HandoffInv, ConfigTypes, ExclusiveInv
  <1>6. DepthInv'
    BY <1>1, <1>2 DEF configVars, HandoffInv, DepthInv, SameContents
  <1>7. QED
    BY <1>2, <1>3, <1>4, <1>5, <1>6 DEF HandoffInv

-----------------------------------------------------------------------------
(* Theorems *)

LEMMA HandoffStart == HInit => HandoffInv
  <1>1. SUFFICES ASSUME HInit PROVE HandoffInv
    OBVIOUS
  <1>2. IndexInv
    BY <1>1, InitIndex DEF HInit
  <1>3. ConfigTypes /\ ExclusiveInv
    <2>1. Disabled \in [enabled : BOOLEAN, workers : Seq(Threads), fastpath : BOOLEAN,
                        spray : BOOLEAN] /\ ~Disabled.enabled
      BY DEF Disabled
    <2>2. handoff_enabled \in BOOLEAN
      BY <1>1, HandoffAssumption DEF HInit
    <2>3. if_data = Disabled /\ by_hand = FALSE
      BY <1>1 DEF HInit
    <2>4. QED
      BY <2>1, <2>2, <2>3 DEF ConfigTypes, ExclusiveInv
  <1>4. queue \in Queues /\ \A n \in QueueNodes, t \in Threads : queue[n][t] = <<>>
    BY <1>1 DEF HInit, Queues
  <1>5. Slots(queue) = {}
    BY <1>4, SlotFacts
  <1>6. IdsOf(queue) = {}
    BY <1>5 DEF IdsOf
  <1>7. QueueInv(queue)
    BY <1>4, <1>5 DEF QueueInv, PlacesInv, ApartInv, LineInv, TandemInv
  <1>8. DataTypes /\ IdsInv
    BY <1>1, <1>4, <1>6 DEF HInit, DataTypes, IdsInv
  <1>9. CountedInv
    <2>1. /\ arrived = 0 /\ done = {}
          /\ congestion["l2tvpp-handoff"] = 0 /\ congestion["l2tvpp-flow-handoff"] = 0
      BY <1>1 DEF HInit, HandoffNodes
    <2>2. QED
      BY <1>6, <2>1, FS_EmptySet DEF CountedInv
  <1>10. DepthInv
    <2>1. PICK n \in ConfigNelts : handoff_queue_nelts = LegalNelts(n)
      BY <1>1 DEF HInit
    <2>2. handoff_queue_nelts \in Nat
      BY <2>1, NeltsBounds, LegalNeltsFacts
    <2>3. /\ depth \in [QueueNodes -> {0, handoff_queue_nelts}]
          /\ depth[L2tp] = handoff_queue_nelts
      BY <1>1 DEF HInit, QueueNodes, L2tp
    <2>4. ~if_data.enabled
      BY <1>1 DEF HInit, Disabled
    <2>5. ASSUME NEW m \in QueueNodes, NEW t \in Threads PROVE Len(queue[m][t]) <= depth[m]
      <3>1. Len(queue[m][t]) = 0 /\ depth[m] \in Nat
        BY <1>4, <2>2, <2>3
      <3>2. QED
        BY <3>1
    <2>6. QED
      BY <2>1, <2>3, <2>4, <2>5 DEF DepthInv
  <1>11. OutInv
    BY <1>1 DEF HInit, OutInv, DeliveredToOwner
  <1>12. QED
    BY <1>2, <1>3, <1>7, <1>8, <1>9, <1>10, <1>11 DEF HandoffInv

LEMMA HandoffStutter == HandoffInv /\ UNCHANGED hvars => HandoffInv'
  <1>1. SUFFICES ASSUME HandoffInv, UNCHANGED hvars PROVE HandoffInv'
    OBVIOUS
  <1>2. UNCHANGED <<vars, configVars, dataVars>> /\ UNCHANGED local_ip4s
    BY <1>1 DEF hvars, vars, objVars
  <1>3. PICK q : q = queue /\ queue' = q
    BY <1>2 DEF dataVars
  <1>4. QueueInv(queue)'
    BY <1>1, <1>2, <1>3, ConfigSame DEF HandoffInv
  <1>5. IndexInv' /\ ConfigTypes' /\ ExclusiveInv'
    BY <1>1, <1>2, WorkerFrame, SMTT(60)
  <1>6. DepthInv' /\ DataTypes' /\ IdsInv' /\ CountedInv'
    BY <1>1, <1>2, SMTT(60) DEF HandoffInv, DepthInv, DataTypes, IdsInv, CountedInv, configVars,
       dataVars, IdsOf, Slots, At
  <1>7. OutInv'
    BY <1>1, <1>2 DEF HandoffInv, OutInv, DeliveredToOwner, Leaves, configVars, dataVars,
       Slots, At, vars, objVars, KeyOf
  <1>8. QED
    BY <1>4, <1>5, <1>6, <1>7 DEF HandoffInv

LEMMA HandoffStep == HandoffInv /\ [HNext]_hvars => HandoffInv'
  <1>1. SUFFICES ASSUME HandoffInv, [HNext]_hvars PROVE HandoffInv'
    OBVIOUS
  <1>2. CASE \E x \in Traffic : Receive(x[1], x[2])
    BY <1>1, <1>2, ReceiveStep
  <1>3. CASE \E n \in QueueNodes, t \in Threads : Dequeue(n, t)
    BY <1>1, <1>3, DequeueStep
  <1>4. CASE \E enable \in BOOLEAN : SetHandoff(enable)
    BY <1>1, <1>4, SetHandoffStep
  <1>5. CASE \E workers \in WorkerLists, fastpath, spray \in BOOLEAN :
               FlowEnable(workers, fastpath, spray)
    BY <1>1, <1>5, FlowEnableStep
  <1>6. CASE FlowDisable
    BY <1>1, <1>6, FlowDisableStep
  <1>7. CASE ObjectCall
    BY <1>1, <1>7, ObjectCallStep
  <1>8. CASE UNCHANGED hvars
    BY <1>1, <1>8, HandoffStutter
  <1>9. QED
    BY <1>1, <1>2, <1>3, <1>4, <1>5, <1>6, <1>7, <1>8 DEF HNext, ControlPlane

\* The inductive invariant: where a packet may wait under the present configuration,
\* which packets are in order, and that every one is waiting, done or counted.
THEOREM HandoffInvariant == HSpec => []HandoffInv
  BY HandoffStart, HandoffStep, PTL DEF HSpec

LEMMA WaitingSlots ==
  ASSUME HandoffInv
  PROVE  /\ \A b \in Waiting : \E x \in Slots(queue) : b = At(queue, x)
         /\ \A x \in Slots(queue) : At(queue, x) \in Waiting
         /\ WaitingIds = IdsOf(queue)
  <1>1. queue \in Queues
    BY DEF HandoffInv, QueueInv
  <1>2. ASSUME NEW n \in QueueNodes, NEW t \in Threads, NEW i \in DOMAIN queue[n][t]
        PROVE  <<n, t, i>> \in Slots(queue) /\ At(queue, <<n, t, i>>) = queue[n][t][i]
    <2>1. i \in 1 .. Len(queue[n][t])
      <3>1. queue[n][t] \in Seq(Packet)
        BY <1>1 DEF Queues
      <3>2. QED
        BY <3>1
    <2>2. QED
      BY <1>1, <2>1, SlotFacts
  <1>3. ASSUME NEW b \in Waiting PROVE \E x \in Slots(queue) : b = At(queue, x)
    <2>1. PICK n \in QueueNodes, t \in Threads : b \in Entries(queue[n][t])
      BY DEF Waiting
    <2>2. PICK i \in DOMAIN queue[n][t] : b = queue[n][t][i]
      BY <2>1 DEF Entries
    <2>3. QED
      BY <1>2, <2>2
  <1>4. ASSUME NEW x \in Slots(queue) PROVE At(queue, x) \in Waiting
    <2>1. x[1] \in QueueNodes /\ x[2] \in Threads /\ x[3] \in DOMAIN queue[x[1]][x[2]]
      BY DEF Slots
    <2>2. At(queue, x) \in Entries(queue[x[1]][x[2]])
      BY <2>1 DEF At, Entries
    <2>3. QED
      BY <2>1, <2>2 DEF Waiting
  <1>5. WaitingIds = IdsOf(queue)
    BY <1>3, <1>4 DEF WaitingIds, IdsOf
  <1>6. QED
    BY <1>3, <1>4, <1>5

\* Two packets that wait have two numbers.
LEMMA WaitingCounted ==
  ASSUME HandoffInv
  PROVE  Cardinality(WaitingIds) = Cardinality(Waiting)
  <1> DEFINE f == [b \in Waiting |-> b.id]
  <1>1. IsFiniteSet(WaitingIds)
    <2>1. WaitingIds \subseteq 1 .. arrived /\ arrived \in Nat
      BY WaitingSlots DEF HandoffInv, IdsInv, DataTypes
    <2>2. IsFiniteSet(1 .. arrived)
      BY <2>1, FS_Interval
    <2>3. QED
      BY <2>1, <2>2, FS_Subset
  <1>2. f \in [Waiting -> WaitingIds]
    BY DEF WaitingIds
  <1>3. ASSUME NEW a \in Waiting, NEW b \in Waiting, f[a] = f[b] PROVE a = b
    <2>1. PICK x \in Slots(queue), y \in Slots(queue) : a = At(queue, x) /\ b = At(queue, y)
      BY WaitingSlots
    <2>2. a.id = b.id
      BY <1>3
    <2>3. QED
      BY <2>1, <2>2 DEF HandoffInv, QueueInv, ApartInv, Apart
  <1>4. f \in Injection(Waiting, WaitingIds)
    BY <1>2, <1>3 DEF Injection, IsInjective
  <1>5. f \in Surjection(Waiting, WaitingIds)
    BY <1>2 DEF Surjection, WaitingIds
  <1>6. QED
    BY <1>1, <1>4, <1>5, FS_Injection

\* For any configured depth and number of threads, both frame queues have a depth that
\* vlib_frame_queue_alloc accepts, and neither ever holds more.
THEOREM QueuesBounded == HSpec => []QueueDepthLegal
  <1>1. HandoffInv => QueueDepthLegal
    <2>1. SUFFICES ASSUME HandoffInv PROVE QueueDepthLegal
      OBVIOUS
    <2>2. PICK n \in ConfigNelts : handoff_queue_nelts = LegalNelts(n)
      BY <2>1 DEF HandoffInv, DepthInv
    <2>3. /\ LegalNelts(n) \in PowersOfTwo
          /\ LegalNelts(n) >= MinNelts /\ n <= LegalNelts(n)
      BY NeltsBounds, LegalNeltsFacts
    <2>4. /\ depth[L2tp] = LegalNelts(n) /\ depth[Eth] \in {0, depth[L2tp]}
          /\ if_data.enabled => depth[Eth] # 0
          /\ \A m \in QueueNodes, t \in Threads : Len(queue[m][t]) <= depth[m]
      BY <2>1, <2>2 DEF HandoffInv, DepthInv, QueueNodes, Eth, L2tp
    <2>5. QED
      BY <2>3, <2>4 DEF QueueDepthLegal, Eth, L2tp
  <1>2. QED
    BY <1>1, HandoffInvariant, PTL

\* Handed off once, twice or not at all, congested or reconfigured meanwhile: each
\* packet waits in one place, has been through l2tvpp-input once, or is in a counter.
THEOREM NothingLost == HSpec => []Conserved
  <1>1. HandoffInv => Conserved
    BY WaitingSlots, WaitingCounted DEF HandoffInv, IdsInv, CountedInv, Conserved
  <1>2. QED
    BY <1>1, HandoffInvariant, PTL

\* One session always maps to one worker, so the session handoff keeps a session's data
\* in order, whatever the hash and whatever is toggled meanwhile.
THEOREM SessionsInOrder == HSpec => []SessionOrder
  <1>1. HandoffInv => SessionOrder
    BY WaitingSlots DEF HandoffInv, OutInv, Leaves, SessionOrder
  <1>2. QED
    BY <1>1, HandoffInvariant, PTL

\* Flow handoff, with or without the session handoff behind it, keeps the order it
\* promises, for any worker list and hashes.
THEOREM FlowsInOrder == HSpec => []OrderKept
  <1>1. HandoffInv => OrderKept
    BY WaitingSlots DEF HandoffInv, OutInv, Leaves, OrderKept
  <1>2. QED
    BY <1>1, HandoffInvariant, PTL

\* A packet that waited while sessions came and went is received on the interface of
\* the session that has its key now.
THEOREM OwnerAlways == HSpec => []DeliveredToOwner
  <1>1. HandoffInv => DeliveredToOwner
    BY DEF HandoffInv, OutInv
  <1>2. QED
    BY <1>1, HandoffInvariant, PTL

\* Unless an operator turned the session handoff on beside it, flow handoff is the only
\* handoff of a packet.
THEOREM OneHandoff == HSpec => []HandedOffOnce
  <1>1. HandoffInv => HandedOffOnce
    <2>1. SUFFICES ASSUME HandoffInv, ~by_hand,
                          NEW p \in Waiting \cup {o.packet : o \in out}, p.steady
                   PROVE  Len(p.via) <= 1
      BY DEF HandedOffOnce
    <2>2. CASE p \in Waiting
      <3>1. PICK x \in Slots(queue) : p = At(queue, x)
        BY <2>1, <2>2, WaitingSlots
      <3>2. PacketInv(x[1], x[2], p)
        BY <2>1, <3>1 DEF HandoffInv, QueueInv, PlacesInv
      <3>3. QED
        BY <2>1, <3>2 DEF PacketInv
    <2>3. CASE p \in {o.packet : o \in out}
      BY <2>1, <2>3 DEF HandoffInv, OutInv, Leaves
    <2>4. QED
      BY <2>1, <2>2, <2>3
  <1>2. QED
    BY <1>1, HandoffInvariant, PTL
=============================================================================
