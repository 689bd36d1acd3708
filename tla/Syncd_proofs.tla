---------------------------- MODULE Syncd_proofs ----------------------------
(***************************************************************************)
(* Proofs about Syncd: what holds between the daemon's records, VPP and    *)
(* the kernel at every step of a pass, for any number of sessions, ids,    *)
(* prefixes and events.                                                    *)
(***************************************************************************)
EXTENDS Syncd, L2tvppRoutes_proofs

-----------------------------------------------------------------------------
(* The inductive invariant *)

Running == {"idle", "tunnels", "adding", "tunnel", "session", "routes",
            "removing", "unroute", "prune"}
AddPhase == {"adding", "tunnel", "session", "routes"}
RemovePhase == {"removing", "unroute"}
AtJob == {"tunnel", "session", "routes", "unroute"}
Want == [peer : Peers, local : Locals \cup {NoLocal}, peer_tid : PeerTids,
         peer_sid : PeerSids, ifname : IfNames]

\* The fields that pass and job have.
IsPass(p) == p = [want |-> p.want, todo |-> p.todo, cache |-> p.cache,
                  resync |-> p.resync, removed |-> p.removed]
IsJob(j) == j = [key |-> j.key, tidx |-> j.tidx, swif |-> j.swif,
                 adds |-> j.adds, dels |-> j.dels, routes |-> j.routes]

\* The kernel's sessions: netdevs and prefixes of their own, tunnels in common.
KernelOK ==
  /\ DOMAIN kernel \subseteq SessionKey
  /\ kernel \in [DOMAIN kernel -> KSession]
  /\ \A j, k \in DOMAIN kernel :
       /\ j # k => /\ kernel[j].ifname # kernel[k].ifname
                   /\ kernel[j].routes \cap kernel[k].routes = {}
       /\ j[1] = k[1] => /\ kernel[j].peer = kernel[k].peer
                         /\ kernel[j].local = kernel[k].local
                         /\ kernel[j].peer_tid = kernel[k].peer_tid

\* The daemon's variables hold values of their types.
SyncTypes ==
  /\ connected /\ pc \in Running
  /\ DOMAIN installed \subseteq SessionKey
  /\ \A k \in DOMAIN installed : installed[k].routes \subseteq Prefixes
  /\ IsPass(pass)
  /\ DOMAIN pass.want \subseteq SessionKey
  /\ pass.want \in [DOMAIN pass.want -> Want]
  /\ pass.resync \in BOOLEAN /\ pass.removed \in BOOLEAN
  /\ settled \in {"no", "pass", "keys", "routes"}

\* The session the daemon is at, and what is left to do for it.
JobRight ==
  /\ IsJob(job)
  /\ pc \notin AtJob => job = NoJob
  /\ pc \in AtJob => job.routes \subseteq Prefixes /\ job.key \in pass.todo
  /\ pc \in {"tunnel", "session"} =>
       job.key \notin DOMAIN installed /\ job.adds = job.routes /\ job.dels = {}
  /\ pc = "routes" => /\ job.adds \subseteq job.routes
                      /\ job.dels \subseteq Prefixes \ job.routes
  /\ pc = "unroute" => /\ job.adds = {} /\ job.dels \subseteq job.routes
                       /\ job.key \in DOMAIN installed
                       /\ job.routes = installed[job.key].routes

\* The sessions in VPP are the recorded ones and the one being set up, and the
\* records name their interfaces and tunnels.
RecordsLive ==
  /\ DOMAIN session_by_key = DOMAIN installed \cup {k \in {job.key} : pc = "routes"}
  /\ \A k \in DOMAIN installed :
       /\ installed[k].sw_if_index = VppSession(k).sw_if_index
       /\ installed[k].tunnel_index = VppSession(k).tunnel_index
  /\ pc \in {"routes", "unroute"} =>
       /\ job.swif = VppSession(job.key).sw_if_index
       /\ job.tidx = VppSession(job.key).tunnel_index

\* What is routed through a session, halfway through its route calls included.
PathsOf(k) ==
  IF pc = "routes" /\ k = job.key THEN (job.routes \ job.adds) \cup job.dels
  ELSE IF pc = "unroute" /\ k = job.key THEN job.dels
  ELSE installed[k].routes

PathsExact ==
  /\ fib \subseteq Prefixes \X interfaces
  /\ \A k \in DOMAIN session_by_key, p \in Prefixes :
       <<p, VppSession(k).sw_if_index>> \in fib <=> p \in PathsOf(k)

\* tunnels_cache is what a dump would return, and the tunnel found in it is the
\* one the session belongs on.
CacheRight ==
  /\ pc \in AddPhase =>
       /\ \A tk \in DOMAIN pass.cache :
            /\ pass.cache[tk] \in DOMAIN tunnels
            /\ tk = <<tunnels[pass.cache[tk]].peer, tunnels[pass.cache[tk]].local_tid>>
       /\ \A i \in DOMAIN tunnels :
            <<tunnels[i].peer, tunnels[i].local_tid>> \in DOMAIN pass.cache
  /\ pc = "tunnel" =>
       /\ pass.want[job.key].local # NoLocal
       /\ <<pass.want[job.key].peer, job.key[1]>> \notin DOMAIN pass.cache
  /\ pc = "session" =>
       /\ job.tidx \in DOMAIN tunnels
       /\ tunnels[job.tidx].local_tid = job.key[1]
       /\ tunnels[job.tidx].peer = pass.want[job.key].peer

\* What the loops of reconcile still have to do.
TodoRight ==
  /\ pc \in AddPhase => /\ pass.todo \subseteq DOMAIN pass.want
                        /\ DOMAIN pass.want \ pass.todo \subseteq DOMAIN installed
  /\ pc \in RemovePhase => /\ DOMAIN pass.want \subseteq DOMAIN installed
                           /\ pass.todo = DOMAIN installed \ DOMAIN pass.want
                           /\ pass.todo # {} => pass.removed
  /\ pc = "prune" => DOMAIN installed = DOMAIN pass.want

\* A tunnel without sessions is about to get one, or about to go.
EmptiesKnown ==
  /\ \A i \in DOMAIN tunnels :
       \/ SessionsOf(i) # {}
       \/ pc = "session" /\ i = job.tidx
       \/ pc \in RemovePhase /\ pass.removed
       \/ pc = "prune" /\ <<tunnels[i].peer, tunnels[i].local_tid>> \in pass.todo
  /\ pc = "prune" =>
       \A tk \in pass.todo : \E i \in DOMAIN tunnels :
         tk = <<tunnels[i].peer, tunnels[i].local_tid>> /\ SessionsOf(i) = {}

\* What a pass over an unchanged kernel has achieved so far.
SettledRight ==
  /\ settled \in {"keys", "routes"} => pc = "idle" /\ DOMAIN installed = DOMAIN kernel
  /\ settled = "routes" => \A k \in DOMAIN kernel : installed[k].routes = kernel[k].routes
  /\ settled = "pass" =>
       /\ pc # "idle"
       /\ DOMAIN pass.want = DOMAIN kernel
       /\ \A k \in DOMAIN kernel : pass.want[k].ifname = kernel[k].ifname
       /\ pc \in AddPhase \ {"adding"} => job.routes = kernel[job.key].routes
       /\ pc \in AddPhase /\ pass.resync =>
            \A k \in DOMAIN kernel \ pass.todo : installed[k].routes = kernel[k].routes
       /\ pc \in RemovePhase \cup {"prune"} /\ pass.resync =>
            \A k \in DOMAIN kernel : installed[k].routes = kernel[k].routes

BaseInv ==
  /\ CountInv /\ SyncTypes /\ JobRight /\ RecordsLive /\ PathsExact
  /\ CacheRight /\ TodoRight /\ EmptiesKnown /\ SettledRight

\* A prefix is recorded, or being installed, for one session only.
RoutesApart ==
  /\ \A k \in DOMAIN pass.want, j \in DOMAIN kernel :
       kernel[j].ifname = pass.want[k].ifname => j = k
  /\ \A k \in DOMAIN kernel : kernel[k].routes \cap RoutesElsewhere(k) = {}
  /\ \A j, k \in DOMAIN installed :
       j # k => installed[j].routes \cap installed[k].routes = {}
  /\ pc \in AtJob => \A k \in DOMAIN installed \ {job.key} :
                       installed[k].routes \cap job.routes = {}

\* What VPP has, and what the snapshot says, of a tunnel the kernel has is what
\* the kernel has.
MirrorRight ==
  /\ \A k \in DOMAIN kernel \cap DOMAIN session_by_key : Mirrors(k)
  /\ \A k \in DOMAIN kernel, i \in DOMAIN tunnels :
       tunnels[i].local_tid = k[1] /\ tunnels[i].peer = kernel[k].peer =>
         tunnels[i].local = kernel[k].local /\ tunnels[i].peer_tid = kernel[k].peer_tid
  /\ \A k \in DOMAIN kernel \cap DOMAIN pass.want :
       pass.want[k].peer_sid = kernel[k].peer_sid
  /\ \A j \in DOMAIN pass.want, k \in DOMAIN kernel :
       j[1] = k[1] =>
         /\ pass.want[j].peer \in {kernel[k].peer, ProcPeer} =>
              pass.want[j].peer_tid = kernel[k].peer_tid
         /\ pass.want[j].peer = kernel[k].peer => pass.want[j].local = kernel[k].local
  /\ pc = "tunnels" =>
       \A j \in DOMAIN pass.want : pass.want[j].peer = ProcPeer /\ pass.want[j].local = Fallback
  /\ pc \in AddPhase =>
       \A k \in DOMAIN kernel \cap DOMAIN pass.want :
         \/ pass.want[k].peer = kernel[k].peer
         \/ pass.want[k].peer = ProcPeer /\ Fallback = NoLocal
  /\ Fallback = NoLocal =>
       /\ \A i \in DOMAIN tunnels : tunnels[i].peer # ProcPeer
       /\ \A j \in DOMAIN pass.want :
            pass.want[j].peer = ProcPeer => pass.want[j].local = NoLocal

SyncInv ==
  /\ KernelOK
  /\ Unbroken => BaseInv
  /\ NothingMoved => RoutesApart
  /\ hit \subseteq KernelFaults => MirrorRight

\* Every endpoint is an IPv4 one; the plugin refuses the others.
AllIp4 == Locals \cup Peers \subseteq Ip4

-----------------------------------------------------------------------------
(* What the plugin's calls do to what the daemon relies on *)

\* A tunnel that is not there yet is added under a free index.
LEMMA TunnelAdded ==
  ASSUME NEW l \in Ip4, NEW p \in Ip4, NEW tid, NEW pt,
         TunnelFind(p, tid) = {}, TunnelAdd(l, p, tid, pt)
  PROVE  \E i \in TunnelIdx \ DOMAIN tunnels :
           /\ reply'.index = i
           /\ DOMAIN tunnels' = DOMAIN tunnels \cup {i}
           /\ tunnels'[i] = [local |-> l, peer |-> p, local_tid |-> tid,
                             peer_tid |-> pt, n_sessions |-> 0]
           /\ \A j \in DOMAIN tunnels : tunnels'[j] = tunnels[j]
           /\ UNCHANGED <<sessions, session_by_key, interfaces>>
  BY DEF TunnelAdd, Put, Answer

\* A session with a new key is added on an interface of its own.
LEMMA SessionAdded ==
  ASSUME IndexInv, NEW t \in DOMAIN tunnels, NEW key \in SessionKey, NEW ps,
         tunnels[t].local_tid = key[1], key \notin DOMAIN session_by_key,
         SessionAdd(t, key[2], ps)
  PROVE  \E w \in SwIf \ interfaces :
           /\ reply'.index = w
           /\ interfaces' = interfaces \cup {w}
           /\ DOMAIN session_by_key' = DOMAIN session_by_key \cup {key}
           /\ VppSession(key)'.tunnel_index = t /\ VppSession(key)'.sw_if_index = w
           /\ VppSession(key)'.peer_sid = ps
           /\ \A k \in DOMAIN session_by_key : VppSession(k)' = VppSession(k)
           /\ \A j : SessionsOf(j) # {} => SessionsOf(j)' # {}
           /\ SessionsOf(t)' # {}
           /\ DOMAIN tunnels' = DOMAIN tunnels
           /\ \A j \in DOMAIN tunnels :
                /\ tunnels'[j].peer = tunnels[j].peer
                /\ tunnels'[j].local_tid = tunnels[j].local_tid
                /\ tunnels'[j].local = tunnels[j].local
                /\ tunnels'[j].peer_tid = tunnels[j].peer_tid
  <1>0. key = <<tunnels[t].local_tid, key[2]>>
    BY DEF SessionKey
  <1>1. PICK i \in SessionIdx \ DOMAIN sessions, w \in SwIf \ interfaces :
          /\ sessions' = Put(sessions, i,
                             [tunnel_index |-> t,
                              local_tid |-> key[1],
                              local_sid |-> key[2], peer_sid |-> ps,
                              sw_if_index |-> w])
          /\ interfaces' = interfaces \cup {w}
          /\ session_by_key' = Put(session_by_key, key, i)
          /\ reply' = [rv |-> "OK", index |-> w]
    BY <1>0 DEF SessionAdd, Answer
  <1>2. tunnels' = [tunnels EXCEPT ![t].n_sessions = Inc(@)]
    BY <1>0 DEF SessionAdd
  <1>3. /\ DOMAIN sessions' = DOMAIN sessions \cup {i}
        /\ sessions'[i] = [tunnel_index |-> t, local_tid |-> key[1],
                           local_sid |-> key[2], peer_sid |-> ps, sw_if_index |-> w]
        /\ \A j \in DOMAIN sessions : sessions'[j] = sessions[j]
    BY <1>1 DEF Put
  <1>4. /\ DOMAIN session_by_key' = DOMAIN session_by_key \cup {key}
        /\ session_by_key'[key] = i
        /\ \A k \in DOMAIN session_by_key : session_by_key'[k] = session_by_key[k]
    BY <1>1 DEF Put
  <1>5. \A k \in DOMAIN session_by_key : session_by_key[k] \in DOMAIN sessions
    BY DEF IndexInv, KeyIndexAgrees
  <1>6. \A k \in DOMAIN session_by_key : VppSession(k)' = VppSession(k)
    BY <1>3, <1>4, <1>5 DEF VppSession
  <1>7. /\ VppSession(key)'.tunnel_index = t /\ VppSession(key)'.sw_if_index = w
        /\ VppSession(key)'.peer_sid = ps
    BY <1>3, <1>4 DEF VppSession
  <1>8. \A j : SessionsOf(j) # {} => SessionsOf(j)' # {}
    BY <1>3 DEF SessionsOf
  <1>9. SessionsOf(t)' # {}
    BY <1>3 DEF SessionsOf
  <1>10. tunnels \in [DOMAIN tunnels -> Tunnel]
    BY DEF IndexInv, TypeOK
  <1>11. /\ DOMAIN tunnels' = DOMAIN tunnels
         /\ \A j \in DOMAIN tunnels :
              /\ tunnels'[j].peer = tunnels[j].peer
              /\ tunnels'[j].local_tid = tunnels[j].local_tid
              /\ tunnels'[j].local = tunnels[j].local
              /\ tunnels'[j].peer_tid = tunnels[j].peer_tid
    BY <1>2, <1>10 DEF Tunnel
  <1>12. reply'.index = w /\ interfaces' = interfaces \cup {w}
    BY <1>1
  <1>13. QED
    BY <1>4, <1>6, <1>7, <1>8, <1>9, <1>11, <1>12

\* A session is found by its key, on an interface no other session has.
LEMMA SessionFacts ==
  ASSUME IndexInv, NEW k \in DOMAIN session_by_key
  PROVE  /\ VppSession(k) \in Session
         /\ session_by_key[k] \in DOMAIN sessions
         /\ VppSession(k).sw_if_index \in interfaces \cap SwIf
         /\ VppSession(k).local_tid = k[1] /\ VppSession(k).local_sid = k[2]
         /\ IsSessionSwIf(VppSession(k).sw_if_index)
         /\ \A j \in DOMAIN session_by_key :
              VppSession(j).sw_if_index = VppSession(k).sw_if_index => j = k
  <1>1. session_by_key[k] \in DOMAIN sessions /\ KeyOf(VppSession(k)) = k
    BY DEF IndexInv, KeyIndexAgrees, VppSession
  <1>2. VppSession(k) \in Session
    BY <1>1 DEF IndexInv, TypeOK, VppSession
  <1>3. VppSession(k).local_tid = k[1] /\ VppSession(k).local_sid = k[2]
    BY <1>1 DEF KeyOf
  <1>4. VppSession(k).sw_if_index \in interfaces \cap SwIf
    BY <1>1, <1>2 DEF IndexInv, SwIfIndexAgrees, VppSession, Session
  <1>5. \A j \in DOMAIN session_by_key :
          /\ session_by_key[j] \in DOMAIN sessions
          /\ session_index_by_sw_if_index[VppSession(j).sw_if_index] = session_by_key[j]
          /\ KeyOf(VppSession(j)) = j
    BY DEF IndexInv, KeyIndexAgrees, SwIfIndexAgrees, VppSession
  <1>6. \A j \in DOMAIN session_by_key :
          VppSession(j).sw_if_index = VppSession(k).sw_if_index => j = k
    BY <1>5 DEF VppSession
  <1>7. session_by_key[k] # NoIndex
    BY <1>1, IndexAssumption DEF IndexInv, TypeOK
  <1>8. IsSessionSwIf(VppSession(k).sw_if_index)
    BY <1>4, <1>5, <1>7 DEF IsSessionSwIf
  <1>9. QED
    BY <1>1, <1>2, <1>3, <1>4, <1>6, <1>8

\* Every pool entry is some key's.
LEMMA SessionKeyed ==
  ASSUME IndexInv, NEW i \in DOMAIN sessions
  PROVE  \E k \in DOMAIN session_by_key : session_by_key[k] = i
  BY DEF IndexInv, KeyIndexAgrees

\* A session is deleted, and nothing of another session.
LEMMA SessionDeleted ==
  ASSUME IndexInv, NEW t \in DOMAIN tunnels, NEW key \in DOMAIN session_by_key,
         tunnels[t].local_tid = key[1], SessionDel(t, key[2])
  PROVE  /\ interfaces' = interfaces \ {VppSession(key).sw_if_index}
         /\ DOMAIN session_by_key' = DOMAIN session_by_key \ {key}
         /\ \A k \in DOMAIN session_by_key \ {key} :
              VppSession(k)' = VppSession(k)
         /\ DOMAIN tunnels' = DOMAIN tunnels
         /\ \A j \in DOMAIN tunnels :
              /\ tunnels'[j].peer = tunnels[j].peer
              /\ tunnels'[j].local_tid = tunnels[j].local_tid
              /\ tunnels'[j].local = tunnels[j].local
              /\ tunnels'[j].peer_tid = tunnels[j].peer_tid
  <1> DEFINE i == session_by_key[key]
  <1>1. /\ session_by_key' = Drop(session_by_key, key)
        /\ interfaces' = interfaces \ {sessions[i].sw_if_index}
        /\ sessions' = Drop(sessions, i)
        /\ tunnels' = [tunnels EXCEPT ![t].n_sessions = Dec(@)]
    BY DEF SessionDel, RemoveKey, IndexInv, TypeOK, SessionKey
  <1>2. /\ DOMAIN session_by_key' = DOMAIN session_by_key \ {key}
        /\ \A k \in DOMAIN session_by_key \ {key} : session_by_key'[k] = session_by_key[k]
    BY <1>1 DEF Drop
  <1>3. \A j \in DOMAIN sessions \ {i} : sessions'[j] = sessions[j]
    BY <1>1 DEF Drop
  <1>4. \A k \in DOMAIN session_by_key \ {key} : session_by_key[k] \in DOMAIN sessions \ {i}
    BY DEF IndexInv, KeyIndexAgrees
  <1>5. \A k \in DOMAIN session_by_key \ {key} : VppSession(k)' = VppSession(k)
    BY <1>2, <1>3, <1>4 DEF VppSession
  <1>6. tunnels \in [DOMAIN tunnels -> Tunnel]
    BY DEF IndexInv, TypeOK
  <1>7. /\ DOMAIN tunnels' = DOMAIN tunnels
        /\ \A j \in DOMAIN tunnels :
             /\ tunnels'[j].peer = tunnels[j].peer
             /\ tunnels'[j].local_tid = tunnels[j].local_tid
             /\ tunnels'[j].local = tunnels[j].local
             /\ tunnels'[j].peer_tid = tunnels[j].peer_tid
    BY <1>1, <1>6 DEF Tunnel
  <1>8. interfaces' = interfaces \ {VppSession(key).sw_if_index}
    BY <1>1 DEF VppSession
  <1>9. QED
    BY <1>2, <1>5, <1>7, <1>8

\* A tunnel without sessions is deleted when asked to.
LEMMA TunnelDeleted ==
  ASSUME CountInv, NEW l \in Ip4, NEW p \in Ip4, NEW tid, NEW i \in DOMAIN tunnels,
         tunnels[i].peer = p, tunnels[i].local_tid = tid, SessionsOf(i) = {},
         TunnelDel(l, p, tid)
  PROVE  /\ DOMAIN tunnels' = DOMAIN tunnels \ {i}
         /\ \A j \in DOMAIN tunnels \ {i} : tunnels'[j] = tunnels[j]
         /\ UNCHANGED <<sessions, session_by_key, interfaces>>
  <1>1. TunnelFind(p, tid) = {i}
    BY DEF CountInv, IndexInv, TunnelsIdentified, TunnelFind
  <1>2. Cardinality(SessionsOf(i)) = 0
    BY FS_EmptySet
  <1>3. ~InUse(i)
    BY <1>2 DEF CountInv, SessionCountExact, InUse
  <1>4. tunnels' = Drop(tunnels, i) /\ UNCHANGED <<sessions, session_by_key, interfaces>>
    BY <1>1, <1>3 DEF TunnelDel
  <1>5. QED
    BY <1>4 DEF Drop

\* A route call on a session's interface is accepted.
LEMMA RouteCalled ==
  ASSUME IndexInv, NEW k \in DOMAIN session_by_key, NEW p,
         NEW w, w = VppSession(k).sw_if_index
  PROVE  /\ RouteAdd(p, w) => UNCHANGED objVars /\ fib' = fib \cup {<<p, w>>}
         /\ RouteDel(p, w) => UNCHANGED objVars /\ fib' = fib \ {<<p, w>>}
  BY SessionFacts DEF RouteAdd, RouteDel

-----------------------------------------------------------------------------
(* Every step keeps the invariant *)

\* It holds initially.
LEMMA InitSync == SInit => SyncInv
  <1>1. SUFFICES ASSUME SInit PROVE SyncInv
    OBVIOUS
  <1>2. RInit /\ Init
    BY <1>1 DEF SInit, RInit
  <1>3. CountInv
    BY <1>2, InitCount
  <1>4. /\ DOMAIN tunnels = {} /\ DOMAIN sessions = {} /\ DOMAIN session_by_key = {}
        /\ fib = {}
    BY <1>2 DEF RInit, Init
  <1>5. /\ DOMAIN kernel = {} /\ kernel \in [{} -> KSession]
        /\ DOMAIN installed = {} /\ pc = "idle" /\ job = NoJob /\ connected = TRUE
        /\ settled = "no" /\ hit = {}
        /\ pass = NoPass /\ pass.want = Empty /\ DOMAIN pass.want = {}
    BY <1>1 DEF SInit, Empty, NoPass
  <1>6. KernelOK
    BY <1>5 DEF KernelOK
  <1>7. SyncTypes
    BY <1>5 DEF SyncTypes, NoPass, Running, Empty, IsPass
  <1>8. JobRight
    BY <1>5 DEF JobRight, AtJob, NoJob, IsJob
  <1>9. RecordsLive /\ PathsExact
    BY <1>4, <1>5 DEF RecordsLive, PathsExact
  <1>10. CacheRight /\ TodoRight /\ EmptiesKnown /\ SettledRight
    BY <1>4, <1>5 DEF CacheRight, TodoRight, EmptiesKnown, SettledRight, AddPhase, RemovePhase
  <1>11. RoutesApart
    BY <1>5 DEF RoutesApart, AtJob
  <1>12. MirrorRight
    BY <1>4, <1>5 DEF MirrorRight, AddPhase
  <1>13. QED
    BY <1>3, <1>6, <1>7, <1>8, <1>9, <1>10, <1>11, <1>12 DEF SyncInv, BaseInv

\* hit is a history: a fault stays committed.
LEMMA HitGrows ==
  ASSUME hit \subseteq hit'
  PROVE  /\ Unbroken' => Unbroken
         /\ NothingMoved' => NothingMoved /\ Unbroken'
         /\ (hit \subseteq KernelFaults)' => hit \subseteq KernelFaults /\ Unbroken'
  <1>1. \A f \in KernelFaults : f \notin {"crash", "vpp"}
    BY DEF KernelFaults, FaultIf
  <1>2. KernelFaults' = KernelFaults
    BY DEF KernelFaults, FaultIf
  <1>3. QED
    BY <1>1, <1>2 DEF Unbroken, NothingMoved

\* The kernel changes under the daemon: nothing between daemon and VPP does.
LEMMA KernelStepBase ==
  ASSUME BaseInv, UNCHANGED OtherVars, settled' = "no"
  PROVE  BaseInv'
  <1>1. /\ UNCHANGED <<tunnels, sessions, session_by_key, session_index_by_sw_if_index,
                       interfaces, local_ip4s, reply, fib>>
        /\ UNCHANGED <<pc, installed, connected, pass, job>>
    BY DEF OtherVars, rvars, vars, objVars, routeVars
  <1>2. CountInv'
    BY <1>1, OwnNextCount DEF BaseInv, vars, objVars
  <1>3. SyncTypes'
    BY <1>1 DEF BaseInv, SyncTypes
  <1>4. JobRight'
    BY <1>1 DEF BaseInv, JobRight
  <1>5. RecordsLive'
    BY <1>1 DEF BaseInv, RecordsLive, VppSession
  <1>6. PathsExact'
    BY <1>1 DEF BaseInv, PathsExact, PathsOf, VppSession
  <1>7. CacheRight'
    BY <1>1 DEF BaseInv, CacheRight
  <1>8. TodoRight'
    BY <1>1 DEF BaseInv, TodoRight
  <1>9. EmptiesKnown'
    BY <1>1 DEF BaseInv, EmptiesKnown, SessionsOf
  <1>10. SettledRight'
    BY DEF SettledRight
  <1>11. QED
    BY <1>2, <1>3, <1>4, <1>5, <1>6, <1>7, <1>8, <1>9, <1>10 DEF BaseInv

\* What a session that comes up does to the kernel, and which faults it is not.
LEMMA KernelUpFacts ==
  ASSUME NEW k \in SessionKey, NEW s \in KSession, KernelUp(k, s)
  PROVE  /\ k \notin DOMAIN kernel
         /\ DOMAIN kernel' = DOMAIN kernel \cup {k}
         /\ kernel'[k] = s
         /\ \A j \in DOMAIN kernel :
              /\ kernel'[j] = kernel[j]
              /\ kernel[j].ifname # s.ifname
              /\ kernel[j].routes \cap s.routes = {}
              /\ j[1] = k[1] => /\ kernel[j].peer = s.peer /\ kernel[j].local = s.local
                                /\ kernel[j].peer_tid = s.peer_tid
         /\ settled' = "no" /\ UNCHANGED OtherVars /\ hit \subseteq hit'
         /\ "reuse" \notin hit' => k \notin KnownKeys
         /\ "renewed" \notin hit' => ~Renewed(k[1], s)
         /\ "ifname" \notin hit' => \A j \in DOMAIN pass.want : pass.want[j].ifname # s.ifname
         /\ "move" \notin hit' => s.routes \cap RoutesElsewhere(k) = {}
  <1>1. kernel' = Put(kernel, k, s)
    BY DEF KernelUp
  <1>2. /\ DOMAIN kernel' = DOMAIN kernel \cup {k}
        /\ kernel'[k] = s
        /\ k \notin DOMAIN kernel
        /\ \A j \in DOMAIN kernel : kernel'[j] = kernel[j]
    BY <1>1 DEF Put, KernelUp
  <1>3. /\ hit \subseteq hit'
        /\ FaultIf("reuse", k \in KnownKeys) \subseteq hit'
        /\ FaultIf("ifname", \E j \in DOMAIN pass.want : pass.want[j].ifname = s.ifname)
             \subseteq hit'
        /\ FaultIf("renewed", Renewed(k[1], s)) \subseteq hit'
        /\ FaultIf("move", s.routes \cap RoutesElsewhere(k) # {}) \subseteq hit'
        /\ settled' = "no" /\ UNCHANGED OtherVars
    BY DEF KernelUp, Event
  <1>4. /\ "reuse" \notin hit' => k \notin KnownKeys
        /\ "renewed" \notin hit' => ~Renewed(k[1], s)
        /\ "ifname" \notin hit' => \A j \in DOMAIN pass.want : pass.want[j].ifname # s.ifname
        /\ "move" \notin hit' => s.routes \cap RoutesElsewhere(k) = {}
    BY <1>3 DEF FaultIf
  <1>5. \A j \in DOMAIN kernel :
          /\ kernel[j].ifname # s.ifname
          /\ kernel[j].routes \cap s.routes = {}
          /\ j[1] = k[1] => /\ kernel[j].peer = s.peer /\ kernel[j].local = s.local
                            /\ kernel[j].peer_tid = s.peer_tid
    BY DEF KernelUp
  <1>6. QED
    BY <1>2, <1>3, <1>4, <1>5

\* A session comes up.
LEMMA KernelUpKeeps ==
  ASSUME SyncInv, NEW k \in SessionKey, NEW s \in KSession, KernelUp(k, s)
  PROVE  SyncInv'
  <1>1. /\ k \notin DOMAIN kernel
        /\ DOMAIN kernel' = DOMAIN kernel \cup {k}
        /\ kernel'[k] = s
        /\ settled' = "no" /\ UNCHANGED OtherVars /\ hit \subseteq hit'
        /\ "reuse" \notin hit' => k \notin KnownKeys
        /\ "renewed" \notin hit' => ~Renewed(k[1], s)
        /\ "ifname" \notin hit' => \A j \in DOMAIN pass.want : pass.want[j].ifname # s.ifname
        /\ "move" \notin hit' => s.routes \cap RoutesElsewhere(k) = {}
    BY KernelUpFacts
  <1>2. \A j \in DOMAIN kernel :
          /\ kernel'[j] = kernel[j]
          /\ kernel[j].ifname # s.ifname
          /\ kernel[j].routes \cap s.routes = {}
          /\ j[1] = k[1] => /\ kernel[j].peer = s.peer /\ kernel[j].local = s.local
                            /\ kernel[j].peer_tid = s.peer_tid
    BY KernelUpFacts, ZenonT(60)
  <1>3. /\ UNCHANGED <<tunnels, sessions, session_by_key, interfaces, fib>>
        /\ UNCHANGED <<pc, installed, connected, pass, job>>
    BY <1>1 DEF OtherVars, rvars, vars, objVars, routeVars
  <1>4. KernelOK'
    <2>1. DOMAIN kernel' \subseteq SessionKey
      BY <1>1 DEF SyncInv, KernelOK
    <2>2. kernel' \in [DOMAIN kernel' -> KSession]
      <3>1. kernel' = Put(kernel, k, s)
        BY DEF KernelUp
      <3>2. QED
        BY <3>1, PutType DEF SyncInv, KernelOK
    <2>3. \A i, j \in DOMAIN kernel' :
            i # j => /\ kernel'[i].ifname # kernel'[j].ifname
                     /\ kernel'[i].routes \cap kernel'[j].routes = {}
      BY <1>1, <1>2 DEF SyncInv, KernelOK
    <2>4. \A i, j \in DOMAIN kernel' :
            i[1] = j[1] => /\ kernel'[i].peer = kernel'[j].peer
                           /\ kernel'[i].local = kernel'[j].local
                           /\ kernel'[i].peer_tid = kernel'[j].peer_tid
      BY <1>1, <1>2 DEF SyncInv, KernelOK
    <2>5. QED
      BY <2>1, <2>2, <2>3, <2>4 DEF KernelOK
  <1>5. Unbroken' => BaseInv'
    BY <1>1, HitGrows, KernelStepBase DEF SyncInv
  <1>6. ASSUME NothingMoved' PROVE RoutesApart'
    <2>1. RoutesApart /\ "ifname" \notin hit' /\ "move" \notin hit'
      BY <1>1, <1>6, HitGrows DEF SyncInv, NothingMoved
    <2>2. \A j : RoutesElsewhere(j)' = RoutesElsewhere(j)
      BY <1>3 DEF RoutesElsewhere
    <2>3. \A j \in DOMAIN pass'.want, i \in DOMAIN kernel' :
            kernel'[i].ifname = pass'.want[j].ifname => i = j
      BY <1>1, <1>2, <1>3, <2>1 DEF RoutesApart
    <2>4. \A j \in DOMAIN kernel' : kernel'[j].routes \cap RoutesElsewhere(j)' = {}
      BY <1>1, <1>2, <2>1, <2>2 DEF RoutesApart
    <2>5. QED
      BY <1>3, <2>1, <2>3, <2>4 DEF RoutesApart
  <1>7. ASSUME (hit \subseteq KernelFaults)' PROVE MirrorRight'
    <2>1. MirrorRight /\ "reuse" \notin hit' /\ "renewed" \notin hit'
      BY <1>1, <1>7, HitGrows DEF SyncInv, KernelFaults, FaultIf
    <2>2. k \notin DOMAIN session_by_key /\ k \notin DOMAIN pass.want
      BY <1>1, <2>1 DEF KnownKeys
    <2>3. s.peer # ProcPeer
      BY DEF KSession
    <2>4. \A j \in DOMAIN kernel' \cap DOMAIN session_by_key' : Mirrors(j)'
      BY <1>1, <1>2, <1>3, <2>1, <2>2 DEF MirrorRight, Mirrors, VppSession
    <2>5. \A j \in DOMAIN kernel', i \in DOMAIN tunnels' :
            tunnels'[i].local_tid = j[1] /\ tunnels'[i].peer = kernel'[j].peer =>
              /\ tunnels'[i].local = kernel'[j].local
              /\ tunnels'[i].peer_tid = kernel'[j].peer_tid
      BY <1>1, <1>2, <1>3, <2>1 DEF MirrorRight, Renewed
    <2>6. \A j \in DOMAIN kernel' \cap DOMAIN pass'.want :
            pass'.want[j].peer_sid = kernel'[j].peer_sid
      BY <1>1, <1>2, <1>3, <2>1, <2>2 DEF MirrorRight
    <2>7. \A j \in DOMAIN pass'.want, i \in DOMAIN kernel' :
            j[1] = i[1] =>
              /\ pass'.want[j].peer \in {kernel'[i].peer, ProcPeer} =>
                   pass'.want[j].peer_tid = kernel'[i].peer_tid
              /\ pass'.want[j].peer = kernel'[i].peer =>
                   pass'.want[j].local = kernel'[i].local
      BY <1>1, <1>2, <1>3, <2>1 DEF MirrorRight, Renewed
    <2>8. pc' \in AddPhase =>
            \A j \in DOMAIN kernel' \cap DOMAIN pass'.want :
              \/ pass'.want[j].peer = kernel'[j].peer
              \/ pass'.want[j].peer = ProcPeer /\ Fallback = NoLocal
      BY <1>1, <1>2, <1>3, <2>1, <2>2 DEF MirrorRight
    <2>9. /\ pc' = "tunnels" =>
               \A j \in DOMAIN pass'.want :
                 pass'.want[j].peer = ProcPeer /\ pass'.want[j].local = Fallback
          /\ Fallback = NoLocal =>
               /\ \A i \in DOMAIN tunnels' : tunnels'[i].peer # ProcPeer
               /\ \A j \in DOMAIN pass'.want :
                    pass'.want[j].peer = ProcPeer => pass'.want[j].local = NoLocal
      BY <1>3, <2>1 DEF MirrorRight
    <2>10. QED
      BY <2>4, <2>5, <2>6, <2>7, <2>8, <2>9 DEF MirrorRight
  <1>8. QED
    BY <1>4, <1>5, <1>6, <1>7 DEF SyncInv

\* Losing sessions, or changing routes, leaves what is left mirrored.
LEMMA FewerMirrored ==
  ASSUME MirrorRight, DOMAIN kernel' \subseteq DOMAIN kernel,
         \A j \in DOMAIN kernel' :
           /\ kernel'[j].peer = kernel[j].peer /\ kernel'[j].local = kernel[j].local
           /\ kernel'[j].peer_tid = kernel[j].peer_tid
           /\ kernel'[j].peer_sid = kernel[j].peer_sid,
         UNCHANGED <<tunnels, sessions, session_by_key, pc, pass>>
  PROVE  MirrorRight'
  <1>1. \A j \in DOMAIN kernel' \cap DOMAIN session_by_key' : Mirrors(j)'
    BY DEF MirrorRight, Mirrors, VppSession
  <1>2. \A j \in DOMAIN kernel', i \in DOMAIN tunnels' :
          tunnels'[i].local_tid = j[1] /\ tunnels'[i].peer = kernel'[j].peer =>
            /\ tunnels'[i].local = kernel'[j].local
            /\ tunnels'[i].peer_tid = kernel'[j].peer_tid
    BY DEF MirrorRight
  <1>3. \A j \in DOMAIN kernel' \cap DOMAIN pass'.want :
          pass'.want[j].peer_sid = kernel'[j].peer_sid
    BY DEF MirrorRight
  <1>4. \A j \in DOMAIN pass'.want, i \in DOMAIN kernel' :
          j[1] = i[1] =>
            /\ pass'.want[j].peer \in {kernel'[i].peer, ProcPeer} =>
                 pass'.want[j].peer_tid = kernel'[i].peer_tid
            /\ pass'.want[j].peer = kernel'[i].peer =>
                 pass'.want[j].local = kernel'[i].local
    BY DEF MirrorRight
  <1>5. pc' \in AddPhase =>
          \A j \in DOMAIN kernel' \cap DOMAIN pass'.want :
            \/ pass'.want[j].peer = kernel'[j].peer
            \/ pass'.want[j].peer = ProcPeer /\ Fallback = NoLocal
    BY DEF MirrorRight
  <1>6. /\ pc' = "tunnels" =>
             \A j \in DOMAIN pass'.want :
               pass'.want[j].peer = ProcPeer /\ pass'.want[j].local = Fallback
        /\ Fallback = NoLocal =>
             /\ \A i \in DOMAIN tunnels' : tunnels'[i].peer # ProcPeer
             /\ \A j \in DOMAIN pass'.want :
                  pass'.want[j].peer = ProcPeer => pass'.want[j].local = NoLocal
    BY DEF MirrorRight
  <1>7. QED
    BY <1>1, <1>2, <1>3, <1>4, <1>5, <1>6 DEF MirrorRight

\* A session goes down.
LEMMA KernelDownKeeps ==
  ASSUME SyncInv, NEW k \in DOMAIN kernel, KernelDown(k)
  PROVE  SyncInv'
  <1>1. kernel' = Drop(kernel, k) /\ UNCHANGED OtherVars /\ settled' = "no" /\ hit' = hit
    BY DEF KernelDown, Event
  <1>2. DOMAIN kernel' = DOMAIN kernel \ {k} /\ \A j \in DOMAIN kernel' : kernel'[j] = kernel[j]
    BY <1>1 DEF Drop
  <1>3. /\ UNCHANGED <<tunnels, sessions, session_by_key, interfaces, fib>>
        /\ UNCHANGED <<pc, installed, connected, pass, job>>
    BY <1>1 DEF OtherVars, rvars, vars, objVars, routeVars
  <1>4. KernelOK'
    <2>1. kernel' \in [DOMAIN kernel' -> KSession]
      BY <1>1, DropType DEF SyncInv, KernelOK
    <2>2. QED
      BY <1>2, <2>1 DEF SyncInv, KernelOK
  <1>5. Unbroken' => BaseInv'
    BY <1>1, HitGrows, KernelStepBase DEF SyncInv
  <1>6. ASSUME NothingMoved' PROVE RoutesApart'
    <2>1. RoutesApart
      BY <1>1, <1>6, HitGrows DEF SyncInv
    <2>2. \A j : RoutesElsewhere(j)' = RoutesElsewhere(j)
      BY <1>3 DEF RoutesElsewhere
    <2>3. QED
      BY <1>2, <1>3, <2>1, <2>2 DEF RoutesApart
  <1>7. ASSUME (hit \subseteq KernelFaults)' PROVE MirrorRight'
    <2>1. MirrorRight
      BY <1>1, <1>7, HitGrows DEF SyncInv
    <2>2. QED
      BY <1>2, <1>3, <2>1, FewerMirrored
  <1>8. QED
    BY <1>4, <1>5, <1>6, <1>7 DEF SyncInv

\* A session's prefixes change.
LEMMA KernelRoutesKeeps ==
  ASSUME SyncInv, NEW k \in DOMAIN kernel, NEW r \in SUBSET Prefixes, KernelRoutes(k, r)
  PROVE  SyncInv'
  <1>1. /\ kernel' = [kernel EXCEPT ![k].routes = r]
        /\ \A j \in DOMAIN kernel \ {k} : kernel[j].routes \cap r = {}
        /\ UNCHANGED OtherVars /\ settled' = "no" /\ hit \subseteq hit'
        /\ FaultIf("move", (r \ kernel[k].routes) \cap RoutesElsewhere(k) # {}) \subseteq hit'
    BY DEF KernelRoutes, Event
  <1>2. kernel \in [DOMAIN kernel -> KSession]
    BY DEF SyncInv, KernelOK
  <1>3. /\ DOMAIN kernel' = DOMAIN kernel
        /\ kernel'[k].routes = r
        /\ \A j \in DOMAIN kernel \ {k} : kernel'[j] = kernel[j]
        /\ \A j \in DOMAIN kernel :
             /\ kernel'[j].peer = kernel[j].peer /\ kernel'[j].local = kernel[j].local
             /\ kernel'[j].peer_tid = kernel[j].peer_tid
             /\ kernel'[j].peer_sid = kernel[j].peer_sid
             /\ kernel'[j].ifname = kernel[j].ifname
    BY <1>1, <1>2 DEF KSession
  <1>4. /\ UNCHANGED <<tunnels, sessions, session_by_key, interfaces, fib>>
        /\ UNCHANGED <<pc, installed, connected, pass, job>>
    BY <1>1 DEF OtherVars, rvars, vars, objVars, routeVars
  <1>5. KernelOK'
    <2>1. kernel' \in [DOMAIN kernel' -> KSession]
      BY <1>1, <1>2 DEF KSession
    <2>2. \A i, j \in DOMAIN kernel' :
            i # j => /\ kernel'[i].ifname # kernel'[j].ifname
                     /\ kernel'[i].routes \cap kernel'[j].routes = {}
      BY <1>1, <1>3 DEF SyncInv, KernelOK
    <2>3. QED
      BY <1>3, <2>1, <2>2 DEF SyncInv, KernelOK
  <1>6. Unbroken' => BaseInv'
    BY <1>1, HitGrows, KernelStepBase DEF SyncInv
  <1>7. ASSUME NothingMoved' PROVE RoutesApart'
    <2>1. RoutesApart /\ "move" \notin hit'
      BY <1>1, <1>7, HitGrows DEF SyncInv, NothingMoved
    <2>2. \A j : RoutesElsewhere(j)' = RoutesElsewhere(j)
      BY <1>4 DEF RoutesElsewhere
    <2>3. (r \ kernel[k].routes) \cap RoutesElsewhere(k) = {}
      BY <1>1, <2>1 DEF FaultIf
    <2>4. \A j \in DOMAIN kernel' : kernel'[j].routes \cap RoutesElsewhere(j)' = {}
      BY <1>3, <2>1, <2>2, <2>3 DEF RoutesApart
    <2>5. QED
      BY <1>3, <1>4, <2>1, <2>4 DEF RoutesApart
  <1>8. ASSUME (hit \subseteq KernelFaults)' PROVE MirrorRight'
    <2>1. MirrorRight
      BY <1>1, <1>8, HitGrows DEF SyncInv
    <2>2. QED
      BY <1>3, <1>4, <2>1, FewerMirrored
  <1>9. QED
    BY <1>5, <1>6, <1>7, <1>8 DEF SyncInv

\* After a kill or a VPP restart nothing is claimed but of the kernel.
LEMMA BrokenKeeps ==
  ASSUME SyncInv, UNCHANGED kernel, ~Unbroken'
  PROVE  SyncInv'
  <1>1. KernelOK'
    BY DEF SyncInv, KernelOK
  <1>2. ~NothingMoved' /\ ~(hit \subseteq KernelFaults)'
    BY DEF Unbroken, NothingMoved, KernelFaults, FaultIf
  <1>3. QED
    BY <1>1, <1>2 DEF SyncInv

\* VPP restarts, the daemon is killed, started again, or finds its socket gone.
LEMMA BreaksKeep ==
  ASSUME SyncInv, VppRestart \/ Crash \/ Restart \/ CallRaises
  PROVE  SyncInv'
  <1>1. CASE VppRestart \/ Crash
    <2>1. UNCHANGED kernel /\ ~Unbroken'
      BY <1>1 DEF VppRestart, Crash, Event, Unbroken
    <2>2. QED
      BY <2>1, BrokenKeeps
  <1>2. CASE Restart \/ CallRaises
    <2>1. UNCHANGED <<kernel, hit>> /\ (pc = "down" \/ ~connected)
      BY <1>2 DEF Restart, CallRaises, Raise, envVars
    <2>2. ~Unbroken
      BY <2>1 DEF SyncInv, BaseInv, SyncTypes, Running
    <2>3. ~Unbroken'
      BY <2>1, <2>2 DEF Unbroken
    <2>4. QED
      BY <2>1, <2>3, BrokenKeeps
  <1>3. QED
    BY <1>1, <1>2

\* A step of the daemon's own, away from a session's routes.
LEMMA QuietRecords ==
  ASSUME BaseInv, UNCHANGED rvars, UNCHANGED installed,
         pc \notin {"routes", "unroute"}, pc' \notin {"routes", "unroute"}
  PROVE  CountInv' /\ RecordsLive' /\ PathsExact'
  <1>1. UNCHANGED <<tunnels, sessions, session_by_key, interfaces, fib>> /\ UNCHANGED vars
    BY DEF rvars, vars, objVars, routeVars
  <1>2. CountInv'
    BY <1>1, OwnNextCount DEF BaseInv
  <1>3. RecordsLive'
    BY <1>1 DEF BaseInv, RecordsLive, VppSession
  <1>4. PathsExact'
    <2>1. \A k : VppSession(k)' = VppSession(k) /\ PathsOf(k)' = PathsOf(k)
      BY <1>1 DEF VppSession, PathsOf
    <2>2. QED
      BY <1>1, <2>1 DEF BaseInv, PathsExact
  <1>5. QED
    BY <1>2, <1>3, <1>4

\* A step of the daemon's own keeps what is mirrored.
LEMMA QuietMirror ==
  ASSUME MirrorRight, UNCHANGED <<tunnels, sessions, session_by_key, kernel>>,
         DOMAIN pass'.want \subseteq DOMAIN pass.want,
         \A j \in DOMAIN pass'.want : pass'.want[j] = pass.want[j],
         pc' # "tunnels", pc' \in AddPhase => pc \in AddPhase
  PROVE  MirrorRight'
  <1>1. \A j \in DOMAIN kernel' \cap DOMAIN session_by_key' : Mirrors(j)'
    BY DEF MirrorRight, Mirrors, VppSession
  <1>2. \A j \in DOMAIN kernel', i \in DOMAIN tunnels' :
          tunnels'[i].local_tid = j[1] /\ tunnels'[i].peer = kernel'[j].peer =>
            /\ tunnels'[i].local = kernel'[j].local
            /\ tunnels'[i].peer_tid = kernel'[j].peer_tid
    BY DEF MirrorRight
  <1>3. \A j \in DOMAIN kernel' \cap DOMAIN pass'.want :
          pass'.want[j].peer_sid = kernel'[j].peer_sid
    BY DEF MirrorRight
  <1>4. \A j \in DOMAIN pass'.want, i \in DOMAIN kernel' :
          j[1] = i[1] =>
            /\ pass'.want[j].peer \in {kernel'[i].peer, ProcPeer} =>
                 pass'.want[j].peer_tid = kernel'[i].peer_tid
            /\ pass'.want[j].peer = kernel'[i].peer =>
                 pass'.want[j].local = kernel'[i].local
    BY DEF MirrorRight
  <1>5. pc' \in AddPhase =>
          \A j \in DOMAIN kernel' \cap DOMAIN pass'.want :
            \/ pass'.want[j].peer = kernel'[j].peer
            \/ pass'.want[j].peer = ProcPeer /\ Fallback = NoLocal
    BY DEF MirrorRight
  <1>6. Fallback = NoLocal =>
          /\ \A i \in DOMAIN tunnels' : tunnels'[i].peer # ProcPeer
          /\ \A j \in DOMAIN pass'.want :
               pass'.want[j].peer = ProcPeer => pass'.want[j].local = NoLocal
    BY DEF MirrorRight
  <1>7. QED
    BY <1>1, <1>2, <1>3, <1>4, <1>5, <1>6 DEF MirrorRight

\* A step of the daemon's own that records nothing and takes up no prefix keeps
\* prefixes apart.
LEMMA QuietApart ==
  ASSUME RoutesApart, UNCHANGED <<kernel, installed>>,
         DOMAIN pass'.want \subseteq DOMAIN pass.want,
         \A j \in DOMAIN pass'.want : pass'.want[j].ifname = pass.want[j].ifname,
         job' = NoJob \/ (job'.key = job.key /\ job'.routes = job.routes /\ pc \in AtJob)
  PROVE  RoutesApart'
  <1>1. CASE job' = NoJob
    <2>1. job'.routes = {}
      BY <1>1 DEF NoJob
    <2>2. \A k : RoutesElsewhere(k)' \subseteq RoutesElsewhere(k)
      BY <2>1 DEF RoutesElsewhere
    <2>3. QED
      BY <2>1, <2>2 DEF RoutesApart
  <1>2. CASE job'.key = job.key /\ job'.routes = job.routes /\ pc \in AtJob
    <2>1. \A k : RoutesElsewhere(k)' = RoutesElsewhere(k)
      BY <1>2 DEF RoutesElsewhere
    <2>2. QED
      BY <1>2, <2>1 DEF RoutesApart
  <1>3. QED
    BY <1>1, <1>2

\* A pass begins with the kernel's sessions, their endpoints still unknown.
LEMMA StartPassKeeps ==
  ASSUME SyncInv, StartPass
  PROVE  SyncInv'
  <1>1. /\ pc = "idle" /\ pc' = "tunnels" /\ settled' = "pass"
        /\ UNCHANGED <<rvars, kernel, hit, installed, connected, job>>
    BY DEF StartPass, envVars
  <1> DEFINE want == [k \in DOMAIN kernel |->
                        [peer |-> ProcPeer, local |-> Fallback,
                         peer_tid |-> kernel[k].peer_tid,
                         peer_sid |-> kernel[k].peer_sid,
                         ifname |-> kernel[k].ifname]]
  <1>20. pass'.want = want
    BY DEF StartPass, NoPass
  <1>21. IsPass(pass)' /\ pass'.resync \in BOOLEAN /\ pass'.removed \in BOOLEAN
    BY DEF StartPass, NoPass, IsPass
  <1>22. /\ DOMAIN want = DOMAIN kernel
         /\ \A k \in DOMAIN kernel :
              /\ want[k].peer = ProcPeer /\ want[k].local = Fallback
              /\ want[k].peer_tid = kernel[k].peer_tid
              /\ want[k].peer_sid = kernel[k].peer_sid
              /\ want[k].ifname = kernel[k].ifname
    OBVIOUS
  <1> HIDE DEF want
  <1>2. /\ DOMAIN pass'.want = DOMAIN kernel
        /\ \A k \in DOMAIN kernel :
             /\ pass'.want[k].peer = ProcPeer /\ pass'.want[k].local = Fallback
             /\ pass'.want[k].peer_tid = kernel[k].peer_tid
             /\ pass'.want[k].peer_sid = kernel[k].peer_sid
             /\ pass'.want[k].ifname = kernel[k].ifname
    BY <1>20, <1>22
  <1>3. UNCHANGED <<tunnels, sessions, session_by_key, interfaces, fib>>
    BY <1>1 DEF rvars, vars, objVars, routeVars
  <1>4. \A k \in DOMAIN kernel : kernel[k] \in KSession
    BY DEF SyncInv, KernelOK
  <1>5. KernelOK'
    BY <1>1 DEF SyncInv, KernelOK
  <1>6. ASSUME Unbroken' PROVE BaseInv'
    <2>1. BaseInv
      BY <1>1, <1>6 DEF SyncInv, Unbroken
    <2>2. CountInv' /\ RecordsLive' /\ PathsExact'
      BY <1>1, <2>1, QuietRecords
    <2>3. SyncTypes'
      <3>1. want \in [DOMAIN kernel -> Want]
        BY <1>4, SyncdAssumption DEF Want, KSession, want
      <3>2. pass'.want \in [DOMAIN pass'.want -> Want]
        BY <1>20, <1>22, <3>1
      <3>3. DOMAIN pass'.want \subseteq SessionKey
        BY <1>2 DEF SyncInv, KernelOK
      <3>4. QED
        BY <1>1, <1>21, <2>1, <3>2, <3>3 DEF BaseInv, SyncTypes, Running
    <2>4. JobRight'
      BY <1>1, <2>1 DEF BaseInv, JobRight, AtJob
    <2>5. CacheRight' /\ TodoRight'
      BY <1>1 DEF CacheRight, TodoRight, AddPhase, RemovePhase
    <2>6. EmptiesKnown'
      BY <1>1, <1>3, <2>1 DEF BaseInv, EmptiesKnown, SessionsOf, RemovePhase
    <2>7. SettledRight'
      BY <1>1, <1>2 DEF SettledRight, AddPhase, RemovePhase
    <2>8. QED
      BY <2>2, <2>3, <2>4, <2>5, <2>6, <2>7 DEF BaseInv
  <1>7. ASSUME NothingMoved' PROVE RoutesApart'
    <2>1. RoutesApart
      BY <1>1, <1>7 DEF SyncInv, NothingMoved
    <2>2. \A k : RoutesElsewhere(k)' = RoutesElsewhere(k)
      BY <1>1 DEF RoutesElsewhere
    <2>3. QED
      BY <1>1, <1>2, <2>1, <2>2 DEF RoutesApart, SyncInv, KernelOK, AtJob
  <1>8. ASSUME (hit \subseteq KernelFaults)' PROVE MirrorRight'
    <2>1. MirrorRight
      BY <1>1, <1>8, HitGrows DEF SyncInv
    <2>2. \A j \in DOMAIN kernel' \cap DOMAIN session_by_key' : Mirrors(j)'
      BY <1>1, <1>3, <2>1 DEF MirrorRight, Mirrors, VppSession
    <2>3. \A j \in DOMAIN pass'.want, i \in DOMAIN kernel' :
            /\ pass'.want[j].peer = ProcPeer /\ pass'.want[j].local = Fallback
            /\ kernel'[i].peer # ProcPeer
            /\ j[1] = i[1] => pass'.want[j].peer_tid = kernel'[i].peer_tid
      BY <1>1, <1>2, <1>4 DEF SyncInv, KernelOK, KSession
    <2>4. \A j \in DOMAIN pass'.want :
            /\ pass'.want[j].peer = ProcPeer /\ pass'.want[j].local = Fallback
            /\ pass'.want[j].peer_sid = kernel'[j].peer_sid
      BY <1>1, <1>2
    <2>5. QED
      BY <1>1, <1>3, <2>1, <2>2, <2>3, <2>4 DEF MirrorRight, AddPhase
  <1>9. QED
    BY <1>5, <1>6, <1>7, <1>8 DEF SyncInv

\* With the tunnels identified, vpp_tunnels loses none of them.
LEMMA DumpRight ==
  ASSUME IndexInv
  PROVE  /\ \A tk \in DOMAIN VppTunnels :
              /\ VppTunnels[tk] \in DOMAIN tunnels
              /\ tk = <<tunnels[VppTunnels[tk]].peer, tunnels[VppTunnels[tk]].local_tid>>
         /\ \A i \in DOMAIN tunnels :
              /\ <<tunnels[i].peer, tunnels[i].local_tid>> \in DOMAIN VppTunnels
              /\ VppTunnels[<<tunnels[i].peer, tunnels[i].local_tid>>] = i
  <1>1. TunnelDump(NoIndex) = DOMAIN tunnels
    BY DEF TunnelDump
  <1> DEFINE D == {<<tunnels[i].peer, tunnels[i].local_tid>> : i \in DOMAIN tunnels}
             At(tk) == CHOOSE i \in DOMAIN tunnels :
                         tk = <<tunnels[i].peer, tunnels[i].local_tid>>
  <1>2. DOMAIN VppTunnels = D /\ \A tk \in D : VppTunnels[tk] = At(tk)
    BY <1>1 DEF VppTunnels
  <1>3. \A tk \in D : At(tk) \in DOMAIN tunnels
                        /\ tk = <<tunnels[At(tk)].peer, tunnels[At(tk)].local_tid>>
    OBVIOUS
  <1> HIDE DEF At
  <1>4. \A i \in DOMAIN tunnels : <<tunnels[i].peer, tunnels[i].local_tid>> \in D
    OBVIOUS
  <1>5. ASSUME NEW i \in DOMAIN tunnels
        PROVE  At(<<tunnels[i].peer, tunnels[i].local_tid>>) = i
    BY <1>3, <1>4 DEF IndexInv, TunnelsIdentified
  <1> HIDE DEF D
  <1>6. QED
    BY <1>2, <1>3, <1>4, <1>5

\* An assignment to todo leaves the rest of pass.
LEMMA PassTodoSet ==
  ASSUME IsPass(pass), NEW x, pass' = [pass EXCEPT !.todo = x]
  PROVE  IsPass(pass)' /\ pass'.todo = x /\ pass'.want = pass.want
         /\ pass'.cache = pass.cache /\ pass'.resync = pass.resync /\ pass'.removed = pass.removed
  <1>1. PICK a, b, c, d, e : pass = [want |-> a, todo |-> b, cache |-> c, resync |-> d,
                                     removed |-> e]
    BY DEF IsPass
  <1>2. pass' = [want |-> a, todo |-> x, cache |-> c, resync |-> d, removed |-> e]
    BY <1>1
  <1>3. QED
    BY <1>1, <1>2 DEF IsPass

\* So does one to cache.
LEMMA PassCacheSet ==
  ASSUME IsPass(pass), NEW x, pass' = [pass EXCEPT !.cache = x]
  PROVE  IsPass(pass)' /\ pass'.cache = x /\ pass'.want = pass.want
         /\ pass'.todo = pass.todo /\ pass'.resync = pass.resync /\ pass'.removed = pass.removed
  <1>1. PICK a, b, c, d, e : pass = [want |-> a, todo |-> b, cache |-> c, resync |-> d,
                                     removed |-> e]
    BY DEF IsPass
  <1>2. pass' = [want |-> a, todo |-> b, cache |-> x, resync |-> d, removed |-> e]
    BY <1>1
  <1>3. QED
    BY <1>1, <1>2 DEF IsPass

\* BeginRemovals sets todo and removed.
LEMMA PassRemoval ==
  ASSUME IsPass(pass), NEW x, NEW y, pass' = [pass EXCEPT !.todo = x, !.removed = y]
  PROVE  IsPass(pass)' /\ pass'.todo = x /\ pass'.removed = y
         /\ pass'.want = pass.want /\ pass'.cache = pass.cache /\ pass'.resync = pass.resync
  <1>1. PICK a, b, c, d, e : pass = [want |-> a, todo |-> b, cache |-> c, resync |-> d,
                                     removed |-> e]
    BY DEF IsPass
  <1>2. pass' = [want |-> a, todo |-> x, cache |-> c, resync |-> d, removed |-> y]
    BY <1>1
  <1>3. QED
    BY <1>1, <1>2 DEF IsPass

\* merge_tunnel_endpoints gives a session the endpoints of the kernel's tunnel.
LEMMA MergeFacts ==
  ASSUME KernelOK, NEW want, want \in [DOMAIN want -> Want],
         NEW tids \in SUBSET KernelTids
  PROVE  LET new == MergeTunnelEndpoints(want, tids)
         IN /\ DOMAIN new = DOMAIN want /\ new \in [DOMAIN want -> Want]
            /\ \A k \in DOMAIN want :
                 /\ new[k].peer_tid = want[k].peer_tid
                 /\ new[k].peer_sid = want[k].peer_sid
                 /\ new[k].ifname = want[k].ifname
                 /\ k[1] \notin tids => new[k] = want[k]
                 /\ k[1] \in tids => /\ new[k].peer # ProcPeer
                                     /\ \A j \in DOMAIN kernel : j[1] = k[1] =>
                                          /\ new[k].peer = kernel[j].peer
                                          /\ new[k].local = kernel[j].local
  <1> DEFINE new == MergeTunnelEndpoints(want, tids)
             At(tid) == CHOOSE j \in DOMAIN kernel : j[1] = tid
  <1>1. \A tid \in tids : At(tid) \in DOMAIN kernel /\ At(tid)[1] = tid
    BY DEF KernelTids
  <1>2. /\ DOMAIN new = DOMAIN want
        /\ \A k \in DOMAIN want :
             new[k] = IF k[1] \in tids
                      THEN [want[k] EXCEPT !.peer = kernel[At(k[1])].peer,
                                           !.local = kernel[At(k[1])].local]
                      ELSE want[k]
    BY DEF MergeTunnelEndpoints
  <1> HIDE DEF At, new
  <1>3. \A j \in DOMAIN kernel : kernel[j].peer \in Peers \ {ProcPeer}
                                   /\ kernel[j].local \in Locals
    BY DEF KernelOK, KSession
  <1>4. ASSUME NEW k \in DOMAIN want
        PROVE  /\ new[k] \in Want
               /\ new[k].peer_tid = want[k].peer_tid
               /\ new[k].peer_sid = want[k].peer_sid
               /\ new[k].ifname = want[k].ifname
               /\ k[1] \notin tids => new[k] = want[k]
               /\ k[1] \in tids => /\ new[k].peer = kernel[At(k[1])].peer
                                   /\ new[k].local = kernel[At(k[1])].local
    <2>1. want[k] \in Want
      OBVIOUS
    <2>2. CASE k[1] \notin tids
      BY <1>2, <2>1, <2>2
    <2>3. CASE k[1] \in tids
      <3>1. new[k] = [want[k] EXCEPT !.peer = kernel[At(k[1])].peer,
                                     !.local = kernel[At(k[1])].local]
        BY <1>2, <2>3
      <3>2. kernel[At(k[1])].peer \in Peers /\ kernel[At(k[1])].local \in Locals
        BY <1>1, <1>3, <2>3
      <3>3. QED
        BY <2>1, <2>3, <3>1, <3>2 DEF Want
    <2>4. QED
      BY <2>2, <2>3
  <1>5. ASSUME NEW k \in DOMAIN want, k[1] \in tids
        PROVE  /\ new[k].peer # ProcPeer
               /\ \A j \in DOMAIN kernel : j[1] = k[1] =>
                    /\ new[k].peer = kernel[j].peer
                    /\ new[k].local = kernel[j].local
    BY <1>1, <1>3, <1>4, <1>5 DEF KernelOK
  <1>6. new \in [DOMAIN want -> Want]
    <2>1. new = [k \in DOMAIN want |-> new[k]]
      BY DEF new, MergeTunnelEndpoints
    <2>2. QED
      BY <1>4, <2>1
  <1>7. QED
    BY <1>2, <1>4, <1>5, <1>6 DEF new

\* What an `ip' command says, and whether it is all.
LEMMA IpFacts ==
  ASSUME NEW all, NEW out, IpPrints(all, out)
  PROVE  /\ out \subseteq all /\ UNCHANGED kernel /\ hit \subseteq hit'
         /\ \/ out = all /\ settled' = settled
            \/ "ip" \in hit' /\ settled' = "no"
  BY DEF IpPrints, Event, envVars

\* The second read of the kernel, and the dump of VPP's tunnels.
LEMMA ReadTunnelsKeeps ==
  ASSUME SyncInv, ReadTunnels
  PROVE  SyncInv'
  <1>1. /\ pc = "tunnels" /\ pc' = "adding"
        /\ UNCHANGED <<rvars, installed, connected, job>>
    BY DEF ReadTunnels
  <1>2. PICK tids \in SUBSET KernelTids :
          /\ IpPrints(KernelTids, tids)
          /\ pass' = [pass EXCEPT !.want = MergeTunnelEndpoints(pass.want, tids),
                                  !.cache = VppTunnels, !.todo = PassTodo]
    BY DEF ReadTunnels
  <1>3. /\ UNCHANGED kernel /\ hit \subseteq hit'
        /\ \/ tids = KernelTids /\ settled' = settled
           \/ "ip" \in hit' /\ settled' = "no"
    BY <1>2, IpFacts
  <1>4. UNCHANGED <<tunnels, sessions, session_by_key, interfaces, fib>>
    BY <1>1 DEF rvars, vars, objVars, routeVars
  <1>5. KernelOK /\ KernelOK'
    BY <1>3 DEF SyncInv, KernelOK
  <1>6. ASSUME Unbroken'
        PROVE  /\ BaseInv /\ job = NoJob
               /\ pass'.cache = VppTunnels /\ pass'.todo = PassTodo /\ IsPass(pass)'
               /\ pass'.resync = pass.resync /\ pass'.removed = pass.removed
               /\ DOMAIN pass'.want = DOMAIN pass.want
               /\ pass'.want \in [DOMAIN pass.want -> Want]
               /\ \A k \in DOMAIN pass.want :
                    /\ pass'.want[k].peer_tid = pass.want[k].peer_tid
                    /\ pass'.want[k].peer_sid = pass.want[k].peer_sid
                    /\ pass'.want[k].ifname = pass.want[k].ifname
                    /\ k[1] \notin tids => pass'.want[k] = pass.want[k]
                    /\ k[1] \in tids => /\ pass'.want[k].peer # ProcPeer
                                        /\ \A j \in DOMAIN kernel : j[1] = k[1] =>
                                             /\ pass'.want[k].peer = kernel[j].peer
                                             /\ pass'.want[k].local = kernel[j].local
    <2>1. BaseInv
      BY <1>3, <1>6, HitGrows DEF SyncInv
    <2>2. job = NoJob
      BY <1>1, <2>1 DEF BaseInv, JobRight, AtJob
    <2>3. IsPass(pass) /\ pass.want \in [DOMAIN pass.want -> Want]
      BY <2>1 DEF BaseInv, SyncTypes
    <2>4. /\ pass'.cache = VppTunnels /\ pass'.todo = PassTodo /\ IsPass(pass)'
          /\ pass'.resync = pass.resync /\ pass'.removed = pass.removed
          /\ pass'.want = MergeTunnelEndpoints(pass.want, tids)
      <3>1. PICK x, y, z : /\ x = MergeTunnelEndpoints(pass.want, tids)
                           /\ y = VppTunnels /\ z = PassTodo
        OBVIOUS
      <3>2. pass' = [pass EXCEPT !.want = x, !.cache = y, !.todo = z]
        BY <1>2, <3>1
      <3>3. PICK a, b, c, d, e : pass = [want |-> a, todo |-> b, cache |-> c, resync |-> d,
                                         removed |-> e]
        BY <2>3 DEF IsPass
      <3>4. pass' = [want |-> x, todo |-> z, cache |-> y, resync |-> d, removed |-> e]
        BY <3>2, <3>3
      <3>5. QED
        BY <3>1, <3>3, <3>4 DEF IsPass
    <2>5. PICK new : new = MergeTunnelEndpoints(pass.want, tids)
      OBVIOUS
    <2>6. /\ DOMAIN new = DOMAIN pass.want /\ new \in [DOMAIN pass.want -> Want]
          /\ \A k \in DOMAIN pass.want :
               /\ new[k].peer_tid = pass.want[k].peer_tid
               /\ new[k].peer_sid = pass.want[k].peer_sid
               /\ new[k].ifname = pass.want[k].ifname
               /\ k[1] \notin tids => new[k] = pass.want[k]
               /\ k[1] \in tids => /\ new[k].peer # ProcPeer
                                   /\ \A j \in DOMAIN kernel : j[1] = k[1] =>
                                        /\ new[k].peer = kernel[j].peer
                                        /\ new[k].local = kernel[j].local
      BY <1>5, <2>3, <2>5, MergeFacts
    <2>7. new = pass'.want
      BY <2>4, <2>5
    <2>8. /\ DOMAIN pass'.want = DOMAIN pass.want
          /\ pass'.want \in [DOMAIN pass.want -> Want]
          /\ \A k \in DOMAIN pass.want :
               /\ pass'.want[k].peer_tid = pass.want[k].peer_tid
               /\ pass'.want[k].peer_sid = pass.want[k].peer_sid
               /\ pass'.want[k].ifname = pass.want[k].ifname
               /\ k[1] \notin tids => pass'.want[k] = pass.want[k]
               /\ k[1] \in tids => /\ pass'.want[k].peer # ProcPeer
                                   /\ \A j \in DOMAIN kernel : j[1] = k[1] =>
                                        /\ pass'.want[k].peer = kernel[j].peer
                                        /\ pass'.want[k].local = kernel[j].local
      BY <2>6, <2>7
    <2>9. QED
      BY <2>1, <2>2, <2>4, <2>8, Zenon
  <1>7. ASSUME Unbroken' PROVE BaseInv'
    <2>1. BaseInv
      BY <1>6, <1>7
    <2>2. CountInv' /\ RecordsLive' /\ PathsExact'
      BY <1>1, <2>1, QuietRecords
    <2>3. SyncTypes'
      BY <1>1, <1>3, <1>6, <1>7 DEF BaseInv, SyncTypes, Running
    <2>4. JobRight'
      BY <1>1, <2>1 DEF BaseInv, JobRight, AtJob
    <2>5. CacheRight'
      <3>1. IndexInv
        BY <2>1 DEF BaseInv, CountInv
      <3>2. pass'.cache = VppTunnels
        BY <1>6, <1>7
      <3>3. QED
        BY <1>1, <1>4, <3>1, <3>2, DumpRight DEF CacheRight
    <2>6. /\ pass'.todo = {k \in DOMAIN pass.want : k \notin DOMAIN installed \/ pass.resync}
          /\ DOMAIN pass'.want = DOMAIN pass.want
      BY <1>6, <1>7 DEF PassTodo
    <2>7. TodoRight'
      BY <1>1, <2>6 DEF TodoRight, RemovePhase
    <2>8. EmptiesKnown'
      BY <1>1, <1>4, <2>1 DEF BaseInv, EmptiesKnown, SessionsOf, RemovePhase
    <2>9. SettledRight'
      <3>1. CASE settled' = "no"
        BY <3>1 DEF SettledRight
      <3>2. CASE settled' = settled
        <4>1. settled \notin {"keys", "routes"}
          BY <1>1, <2>1 DEF BaseInv, SettledRight
        <4>2. settled = "pass" =>
                /\ DOMAIN pass.want = DOMAIN kernel
                /\ \A k \in DOMAIN kernel : pass.want[k].ifname = kernel[k].ifname
          BY <2>1 DEF BaseInv, SettledRight
        <4>3. \A k \in DOMAIN pass.want : pass'.want[k].ifname = pass.want[k].ifname
          BY <1>6, <1>7
        <4>4. pass'.resync = pass.resync
          BY <1>6, <1>7
        <4>5. QED
          BY <1>1, <1>3, <2>6, <3>2, <4>1, <4>2, <4>3, <4>4
             DEF SettledRight, AddPhase, RemovePhase
      <3>3. QED
        BY <1>3, <3>1, <3>2
    <2>10. QED
      BY <2>2, <2>3, <2>4, <2>5, <2>7, <2>8, <2>9 DEF BaseInv
  <1>8. ASSUME NothingMoved' PROVE RoutesApart'
    <2>1. Unbroken' /\ RoutesApart
      BY <1>3, <1>8, HitGrows DEF SyncInv
    <2>2. /\ job' = NoJob /\ DOMAIN pass'.want = DOMAIN pass.want
          /\ \A k \in DOMAIN pass.want : pass'.want[k].ifname = pass.want[k].ifname
      BY <1>1, <1>6, <2>1
    <2>3. QED
      BY <1>1, <1>3, <2>1, <2>2, QuietApart
  <1>9. ASSUME (hit \subseteq KernelFaults)' PROVE MirrorRight'
    <2>1. Unbroken' /\ MirrorRight
      BY <1>3, <1>9, HitGrows DEF SyncInv
    <2>2. "ip" \in hit' => Fallback = NoLocal
      BY <1>9 DEF KernelFaults, FaultIf
    <2>3. \A j \in DOMAIN pass.want : pass.want[j].peer = ProcPeer /\ pass.want[j].local = Fallback
      BY <1>1, <2>1 DEF MirrorRight
    <2>4. \A j \in DOMAIN kernel : kernel[j].peer # ProcPeer /\ j[1] \in KernelTids
      BY <1>5 DEF KernelOK, KSession, KernelTids
    <2>5. /\ DOMAIN pass'.want = DOMAIN pass.want
          /\ \A k \in DOMAIN pass.want :
               /\ pass'.want[k].peer_tid = pass.want[k].peer_tid
               /\ pass'.want[k].peer_sid = pass.want[k].peer_sid
               /\ k[1] \notin tids => pass'.want[k] = pass.want[k]
               /\ k[1] \in tids => /\ pass'.want[k].peer # ProcPeer
                                   /\ \A j \in DOMAIN kernel : j[1] = k[1] =>
                                        /\ pass'.want[k].peer = kernel[j].peer
                                        /\ pass'.want[k].local = kernel[j].local
      BY <1>6, <2>1
    <2>6. \A j \in DOMAIN kernel' \cap DOMAIN session_by_key' : Mirrors(j)'
      BY <1>3, <1>4, <2>1 DEF MirrorRight, Mirrors, VppSession
    <2>7. \A j \in DOMAIN kernel', i \in DOMAIN tunnels' :
            tunnels'[i].local_tid = j[1] /\ tunnels'[i].peer = kernel'[j].peer =>
              /\ tunnels'[i].local = kernel'[j].local
              /\ tunnels'[i].peer_tid = kernel'[j].peer_tid
      BY <1>3, <1>4, <2>1 DEF MirrorRight
    <2>8. \A j \in DOMAIN kernel' \cap DOMAIN pass'.want :
            pass'.want[j].peer_sid = kernel'[j].peer_sid
      BY <1>3, <2>1, <2>5 DEF MirrorRight
    <2>9. \A j \in DOMAIN pass'.want, i \in DOMAIN kernel' :
            j[1] = i[1] =>
              /\ pass'.want[j].peer_tid = kernel'[i].peer_tid
              /\ pass'.want[j].peer = kernel'[i].peer =>
                   pass'.want[j].local = kernel'[i].local
      BY <1>3, <2>1, <2>3, <2>4, <2>5 DEF MirrorRight
    <2>10. \A j \in DOMAIN kernel' \cap DOMAIN pass'.want :
             \/ pass'.want[j].peer = kernel'[j].peer
             \/ pass'.want[j].peer = ProcPeer /\ Fallback = NoLocal
      BY <1>3, <2>2, <2>3, <2>4, <2>5
    <2>11. Fallback = NoLocal =>
             /\ \A i \in DOMAIN tunnels' : tunnels'[i].peer # ProcPeer
             /\ \A j \in DOMAIN pass'.want :
                  pass'.want[j].peer = ProcPeer => pass'.want[j].local = NoLocal
      BY <1>4, <2>1, <2>3, <2>5 DEF MirrorRight
    <2>12. QED
      BY <1>1, <2>6, <2>7, <2>8, <2>9, <2>10, <2>11 DEF MirrorRight
  <1>10. QED
    BY <1>5, <1>7, <1>8, <1>9 DEF SyncInv

\* The second loop begins with the sessions the kernel no longer has.
LEMMA BeginRemovalsKeeps ==
  ASSUME SyncInv, BeginRemovals
  PROVE  SyncInv'
  <1>1. /\ pc = "adding" /\ pc' = "removing" /\ pass.todo = {}
        /\ UNCHANGED <<rvars, kernel, hit, installed, connected, job, settled>>
    BY DEF BeginRemovals, envVars
  <1>2. PICK gone, some : /\ gone = DOMAIN installed \ DOMAIN pass.want
                          /\ some = (gone # {}) /\ some \in BOOLEAN
                          /\ pass' = [pass EXCEPT !.todo = gone, !.removed = some]
    BY DEF BeginRemovals
  <1>3. UNCHANGED <<tunnels, sessions, session_by_key, interfaces, fib>>
    BY <1>1 DEF rvars, vars, objVars, routeVars
  <1>4. KernelOK'
    BY <1>1 DEF SyncInv, KernelOK
  <1>5. ASSUME Unbroken'
        PROVE  /\ BaseInv /\ job = NoJob /\ IsPass(pass)'
               /\ pass'.todo = gone /\ pass'.removed = some
               /\ pass'.want = pass.want /\ pass'.resync = pass.resync
    <2>1. BaseInv
      BY <1>1, <1>5 DEF SyncInv, Unbroken
    <2>2. IsPass(pass) /\ job = NoJob
      BY <1>1, <2>1 DEF BaseInv, SyncTypes, JobRight, AtJob
    <2>3. IsPass(pass)' /\ pass'.todo = gone /\ pass'.removed = some
           /\ pass'.want = pass.want /\ pass'.resync = pass.resync
      BY <1>2, <2>2, PassRemoval, Zenon
    <2>4. QED
      BY <2>1, <2>2, <2>3
  <1>6. ASSUME Unbroken' PROVE BaseInv'
    <2>1. BaseInv
      BY <1>5, <1>6
    <2>2. CountInv' /\ RecordsLive' /\ PathsExact'
      BY <1>1, <2>1, QuietRecords
    <2>3. SyncTypes'
      BY <1>1, <1>2, <1>5, <1>6 DEF BaseInv, SyncTypes, Running
    <2>4. JobRight' /\ CacheRight'
      BY <1>1, <2>1 DEF BaseInv, JobRight, CacheRight, AtJob, AddPhase
    <2>5. DOMAIN pass.want \subseteq DOMAIN installed
      BY <1>1, <2>1 DEF BaseInv, TodoRight, AddPhase
    <2>6. TodoRight'
      BY <1>1, <1>2, <1>5, <1>6, <2>5 DEF TodoRight, AddPhase
    <2>7. EmptiesKnown'
      BY <1>1, <1>3, <2>1 DEF BaseInv, EmptiesKnown, SessionsOf, RemovePhase
    <2>8. SettledRight'
      BY <1>1, <1>5, <1>6 DEF BaseInv, SettledRight, AddPhase, RemovePhase
    <2>9. QED
      BY <2>2, <2>3, <2>4, <2>6, <2>7, <2>8 DEF BaseInv
  <1>7. ASSUME NothingMoved' PROVE RoutesApart'
    <2>1. Unbroken' /\ RoutesApart
      BY <1>1, <1>7, HitGrows DEF SyncInv
    <2>2. job' = NoJob /\ pass'.want = pass.want
      BY <1>1, <1>5, <2>1
    <2>3. QED
      BY <1>1, <2>1, <2>2, QuietApart
  <1>8. ASSUME (hit \subseteq KernelFaults)' PROVE MirrorRight'
    <2>1. Unbroken' /\ MirrorRight
      BY <1>1, <1>8, HitGrows DEF SyncInv
    <2>2. pass'.want = pass.want
      BY <1>5, <2>1
    <2>3. QED
      BY <1>1, <1>3, <2>1, <2>2, QuietMirror DEF AddPhase
  <1>9. QED
    BY <1>4, <1>6, <1>7, <1>8 DEF SyncInv


\* reconcile fails before it has called for a session: the pass is dropped.
LEMMA RaiseKeeps ==
  ASSUME SyncInv, Raise, pc = "adding"
  PROVE  SyncInv'
  <1>1. /\ pc' = "idle" /\ pass' = NoPass /\ job' = NoJob /\ settled' = "no"
        /\ UNCHANGED <<rvars, kernel, hit, installed, connected>>
    BY DEF Raise, envVars
  <1>2. UNCHANGED <<tunnels, sessions, session_by_key, interfaces, fib>>
    BY <1>1 DEF rvars, vars, objVars, routeVars
  <1>3. DOMAIN pass'.want = {} /\ pass'.want = Empty
    BY <1>1 DEF NoPass, Empty
  <1>4. KernelOK'
    BY <1>1 DEF SyncInv, KernelOK
  <1>5. ASSUME Unbroken' PROVE BaseInv'
    <2>1. BaseInv
      BY <1>1, <1>5 DEF SyncInv, Unbroken
    <2>2. CountInv' /\ RecordsLive' /\ PathsExact'
      BY <1>1, <2>1, QuietRecords
    <2>3. SyncTypes'
      BY <1>1, <1>3, <2>1 DEF BaseInv, SyncTypes, NoPass, Running, Empty, IsPass
    <2>4. JobRight'
      BY <1>1 DEF JobRight, AtJob, NoJob, IsJob
    <2>5. CacheRight' /\ TodoRight' /\ SettledRight'
      BY <1>1 DEF CacheRight, TodoRight, SettledRight, AddPhase, RemovePhase
    <2>6. EmptiesKnown'
      BY <1>1, <1>2, <2>1 DEF BaseInv, EmptiesKnown, SessionsOf, RemovePhase
    <2>7. QED
      BY <2>2, <2>3, <2>4, <2>5, <2>6 DEF BaseInv
  <1>6. ASSUME NothingMoved' PROVE RoutesApart'
    <2>1. RoutesApart
      BY <1>1, <1>6 DEF SyncInv, NothingMoved
    <2>2. QED
      BY <1>1, <1>3, <2>1, QuietApart
  <1>7. ASSUME (hit \subseteq KernelFaults)' PROVE MirrorRight'
    <2>1. MirrorRight
      BY <1>1, <1>7, HitGrows DEF SyncInv
    <2>2. QED
      BY <1>1, <1>2, <1>3, <2>1, QuietMirror DEF AddPhase
  <1>8. QED
    BY <1>4, <1>5, <1>6, <1>7 DEF SyncInv

\* `ip route' lists the prefixes of the one session that has the netdev.
LEMMA PppRoutesFacts ==
  ASSUME KernelOK, NEW name
  PROVE  /\ PppRoutes(name) \subseteq Prefixes
         /\ \A k \in DOMAIN kernel : kernel[k].ifname = name => PppRoutes(name) = kernel[k].routes
  <1>1. \A k \in DOMAIN kernel : kernel[k].routes \subseteq Prefixes
    BY DEF KernelOK, KSession
  <1>2. ASSUME NEW k \in DOMAIN kernel, kernel[k].ifname = name
        PROVE  PppRoutes(name) = kernel[k].routes
    <2>1. {j \in DOMAIN kernel : kernel[j].ifname = name} = {k}
      BY <1>2 DEF KernelOK
    <2>2. QED
      BY <2>1 DEF PppRoutes
  <1>3. QED
    BY <1>1, <1>2 DEF PppRoutes

\* The prefixes fetched for a session are no other session's, as long as its
\* netdev is still its own.
LEMMA FetchApart ==
  ASSUME RoutesApart, KernelOK, UNCHANGED <<kernel, installed, pass>>,
         NEW k \in DOMAIN pass.want, job'.key = k,
         job'.routes \subseteq PppRoutes(pass.want[k].ifname)
  PROVE  RoutesApart'
  <1>1. \A j \in DOMAIN kernel : kernel[j].ifname = pass.want[k].ifname => j = k
    BY DEF RoutesApart
  <1>2. \A p \in job'.routes : k \in DOMAIN kernel /\ p \in kernel[k].routes
    BY <1>1 DEF PppRoutes
  <1>3. \A j \in DOMAIN kernel \ {k} : kernel[j].routes \cap job'.routes = {}
    BY <1>2 DEF KernelOK
  <1>4. \A j \in DOMAIN kernel, i \in DOMAIN installed :
          i # j => kernel[j].routes \cap installed[i].routes = {}
    BY DEF RoutesApart, RoutesElsewhere
  <1>5. \A j \in DOMAIN kernel : kernel[j].routes \cap RoutesElsewhere(j)' = {}
    BY <1>3, <1>4 DEF RoutesElsewhere
  <1>6. \A j \in DOMAIN installed \ {k} : installed[j].routes \cap job'.routes = {}
    BY <1>2, <1>4
  <1>7. \A i, j \in DOMAIN installed :
          i # j => installed[i].routes \cap installed[j].routes = {}
    BY DEF RoutesApart
  <1>8. \A i \in DOMAIN pass.want, j \in DOMAIN kernel :
          kernel[j].ifname = pass.want[i].ifname => j = i
    BY DEF RoutesApart
  <1>9. QED
    BY <1>5, <1>6, <1>7, <1>8 DEF RoutesApart

\* add_session fetches the routes and looks for the tunnel.
LEMMA BeginAddKeeps ==
  ASSUME SyncInv, NEW k \in SessionKey, BeginAdd(k)
  PROVE  SyncInv'
  <1>1. CASE Raise
    BY <1>1, RaiseKeeps DEF BeginAdd
  <1>2. CASE ~Raise
    <2> DEFINE tk == <<pass.want[k].peer, k[1]>>
               known == tk \in DOMAIN pass.cache
    <2>1. /\ pc = "adding" /\ k \in pass.todo \ DOMAIN installed
          /\ known \/ pass.want[k].local # NoLocal
          /\ pc' = IF known THEN "session" ELSE "tunnel"
          /\ UNCHANGED <<rvars, installed, connected, pass>>
      BY <1>2 DEF BeginAdd
    <2>2. PICK out, t :
            /\ out \subseteq PppRoutes(pass.want[k].ifname)
            /\ IpPrints(PppRoutes(pass.want[k].ifname), out)
            /\ t = IF known THEN pass.cache[tk] ELSE NoIndex
            /\ job' = [NoJob EXCEPT !.key = k, !.routes = out, !.adds = out, !.tidx = t]
      BY <1>2 DEF BeginAdd
    <2> HIDE DEF known
    <2>3. job' = [key |-> k, tidx |-> t, swif |-> NoIndex, adds |-> out, dels |-> {},
                  routes |-> out]
      BY <2>2 DEF NoJob
    <2>4. /\ IsJob(job)' /\ job'.key = k /\ job'.tidx = t /\ job'.adds = out
          /\ job'.dels = {} /\ job'.routes = out
      BY <2>3 DEF IsJob
    <2>5. /\ UNCHANGED kernel /\ hit \subseteq hit'
          /\ \/ out = PppRoutes(pass.want[k].ifname) /\ settled' = settled
             \/ "ip" \in hit' /\ settled' = "no"
      BY <2>2, IpFacts
    <2>6. UNCHANGED <<tunnels, sessions, session_by_key, interfaces, fib>>
      BY <2>1 DEF rvars, vars, objVars, routeVars
    <2>7. KernelOK /\ KernelOK'
      BY <2>5 DEF SyncInv, KernelOK
    <2>8. pc' \in {"tunnel", "session"}
      BY <2>1
    <2>9. ASSUME Unbroken' PROVE BaseInv /\ k \in DOMAIN pass.want
      BY <2>1, <2>5, <2>9, HitGrows DEF SyncInv, BaseInv, TodoRight, AddPhase
    <2>10. ASSUME Unbroken' PROVE BaseInv'
      <3>1. BaseInv /\ k \in DOMAIN pass.want
        BY <2>9, <2>10
      <3>2. CountInv' /\ RecordsLive' /\ PathsExact'
        BY <2>1, <2>8, <3>1, QuietRecords
      <3>3. SyncTypes'
        BY <2>1, <2>5, <2>8, <3>1 DEF BaseInv, SyncTypes, Running
      <3>4. JobRight'
        BY <2>1, <2>2, <2>4, <2>7, <2>8, PppRoutesFacts DEF JobRight, AtJob
      <3>5. CacheRight'
        <4>1. /\ pass'.cache = pass.cache /\ pass'.want = pass.want
              /\ UNCHANGED tunnels /\ job'.key = k /\ job'.tidx = t
          BY <2>1, <2>4, <2>6
        <4>2. /\ \A x \in DOMAIN pass.cache :
                   /\ pass.cache[x] \in DOMAIN tunnels
                   /\ x = <<tunnels[pass.cache[x]].peer, tunnels[pass.cache[x]].local_tid>>
              /\ \A i \in DOMAIN tunnels :
                   <<tunnels[i].peer, tunnels[i].local_tid>> \in DOMAIN pass.cache
          BY <2>1, <3>1 DEF BaseInv, CacheRight, AddPhase
        <4>3. CASE known
          <5>1. pc' = "session" /\ t = pass.cache[tk] /\ tk \in DOMAIN pass.cache
            BY <2>1, <2>2, <4>3 DEF known
          <5>2. /\ t \in DOMAIN tunnels
                /\ tunnels[t].peer = pass.want[k].peer /\ tunnels[t].local_tid = k[1]
            BY <4>2, <5>1
          <5>3. QED
            BY <4>1, <4>2, <5>1, <5>2 DEF CacheRight
        <4>4. CASE ~known
          <5>1. /\ pc' = "tunnel" /\ pass.want[k].local # NoLocal
                /\ <<pass.want[k].peer, k[1]>> \notin DOMAIN pass.cache
            BY <2>1, <4>4 DEF known
          <5>2. QED
            BY <4>1, <4>2, <5>1 DEF CacheRight
        <4>5. QED
          BY <4>3, <4>4
      <3>6. TodoRight'
        BY <2>1, <2>8, <3>1 DEF BaseInv, TodoRight, AddPhase, RemovePhase
      <3>7. EmptiesKnown'
        BY <2>1, <2>6, <2>8, <3>1 DEF BaseInv, EmptiesKnown, SessionsOf, RemovePhase
      <3>8. SettledRight'
        <4>1. CASE settled' = "no"
          BY <4>1 DEF SettledRight
        <4>2. CASE out = PppRoutes(pass.want[k].ifname) /\ settled' = settled
          <5>1. settled \notin {"keys", "routes"}
            BY <2>1, <3>1 DEF BaseInv, SettledRight
          <5>2. settled = "pass" => job'.routes = kernel[k].routes
            BY <2>4, <2>7, <3>1, <4>2, PppRoutesFacts DEF BaseInv, SettledRight
          <5>3. QED
            BY <2>1, <2>4, <2>5, <2>8, <3>1, <4>2, <5>1, <5>2
               DEF BaseInv, SettledRight, AddPhase, RemovePhase
        <4>3. QED
          BY <2>5, <4>1, <4>2
      <3>9. QED
        BY <3>2, <3>3, <3>4, <3>5, <3>6, <3>7, <3>8 DEF BaseInv
    <2>11. ASSUME NothingMoved' PROVE RoutesApart'
      <3>1. Unbroken' /\ RoutesApart
        BY <2>5, <2>11, HitGrows DEF SyncInv
      <3>2. QED
        BY <2>1, <2>2, <2>4, <2>5, <2>7, <2>9, <3>1, FetchApart
    <2>12. ASSUME (hit \subseteq KernelFaults)' PROVE MirrorRight'
      <3>1. MirrorRight
        BY <2>5, <2>12, HitGrows DEF SyncInv
      <3>2. QED
        BY <2>1, <2>5, <2>6, <2>8, <3>1, QuietMirror DEF AddPhase
    <2>13. QED
      BY <2>7, <2>10, <2>11, <2>12, SMTT(60) DEF SyncInv
  <1>3. QED
    BY <1>1, <1>2, SMTT(60)


\* sync_routes of an installed session: what to add and what to withdraw.
LEMMA BeginSyncKeeps ==
  ASSUME SyncInv, NEW k \in SessionKey, BeginSync(k)
  PROVE  SyncInv'
  <1>1. /\ pc = "adding" /\ pc' = "routes" /\ k \in pass.todo /\ k \in DOMAIN installed
        /\ UNCHANGED <<rvars, installed, connected, pass>>
    BY DEF BeginSync
  <1>2. PICK out, have, t, w :
          /\ out \subseteq PppRoutes(pass.want[k].ifname)
          /\ IpPrints(PppRoutes(pass.want[k].ifname), out)
          /\ have = installed[k].routes
          /\ t = installed[k].tunnel_index /\ w = installed[k].sw_if_index
          /\ job' = [key |-> k, tidx |-> t, swif |-> w, adds |-> out \ have,
                     dels |-> have \ out, routes |-> out]
    BY DEF BeginSync, LostRoutes
  <1>3. /\ IsJob(job)' /\ job'.key = k /\ job'.tidx = t /\ job'.swif = w
        /\ job'.adds = out \ have /\ job'.dels = have \ out /\ job'.routes = out
    BY <1>2 DEF IsJob
  <1>4. /\ UNCHANGED kernel /\ hit \subseteq hit'
        /\ \/ out = PppRoutes(pass.want[k].ifname) /\ settled' = settled
           \/ "ip" \in hit' /\ settled' = "no"
    BY <1>2, IpFacts
  <1>5. UNCHANGED <<tunnels, sessions, session_by_key, interfaces, fib>> /\ UNCHANGED vars
    BY <1>1 DEF rvars, vars, objVars, routeVars
  <1>6. KernelOK /\ KernelOK'
    BY <1>4 DEF SyncInv, KernelOK
  <1>7. ASSUME Unbroken' PROVE BaseInv /\ k \in DOMAIN pass.want
    BY <1>1, <1>4, <1>7, HitGrows DEF SyncInv, BaseInv, TodoRight, AddPhase
  <1>8. ASSUME Unbroken' PROVE BaseInv'
    <2>1. BaseInv /\ k \in DOMAIN pass.want
      BY <1>7, <1>8
    <2>2. CountInv'
      BY <1>5, <2>1, OwnNextCount DEF BaseInv
    <2>3. SyncTypes'
      BY <1>1, <1>4, <2>1 DEF BaseInv, SyncTypes, Running
    <2>4. have \subseteq Prefixes
      BY <1>1, <1>2, <2>1 DEF BaseInv, SyncTypes
    <2>5. JobRight'
      BY <1>1, <1>2, <1>3, <1>6, <2>4, PppRoutesFacts DEF JobRight, AtJob
    <2>6. \A j : VppSession(j)' = VppSession(j)
      BY <1>5 DEF VppSession
    <2>7. DOMAIN session_by_key = DOMAIN installed
      BY <1>1, <2>1 DEF BaseInv, RecordsLive
    <2>8. RecordsLive'
      <3>1. \A j \in DOMAIN installed :
              /\ installed[j].sw_if_index = VppSession(j).sw_if_index
              /\ installed[j].tunnel_index = VppSession(j).tunnel_index
        BY <2>1 DEF BaseInv, RecordsLive
      <3>2. w = VppSession(k).sw_if_index /\ t = VppSession(k).tunnel_index
        BY <1>1, <1>2, <3>1
      <3>3. \A j \in DOMAIN installed' :
              /\ installed'[j].sw_if_index = VppSession(j)'.sw_if_index
              /\ installed'[j].tunnel_index = VppSession(j)'.tunnel_index
        BY <1>1, <2>6, <3>1
      <3>4. /\ job'.swif = VppSession(job.key)'.sw_if_index
            /\ job'.tidx = VppSession(job.key)'.tunnel_index
        BY <1>3, <1>5, <3>2 DEF VppSession
      <3>5. DOMAIN session_by_key' = DOMAIN installed' \cup {j \in {job'.key} : pc' = "routes"}
        BY <1>1, <1>3, <1>5, <2>7
      <3>6. QED
        BY <3>3, <3>4, <3>5 DEF RecordsLive
    <2>9. PathsExact'
      <3>1. \A j \in DOMAIN installed : PathsOf(j)' = PathsOf(j)
        BY <1>1, <1>2, <1>3 DEF PathsOf
      <3>2. QED
        BY <1>5, <2>1, <2>6, <2>7, <3>1 DEF BaseInv, PathsExact
    <2>10. CacheRight' /\ TodoRight'
      BY <1>1, <1>5, <2>1 DEF BaseInv, CacheRight, TodoRight, AddPhase, RemovePhase
    <2>11. EmptiesKnown'
      BY <1>1, <1>5, <2>1 DEF BaseInv, EmptiesKnown, SessionsOf, RemovePhase
    <2>12. SettledRight'
      <3>1. CASE settled' = "no"
        BY <3>1 DEF SettledRight
      <3>2. CASE out = PppRoutes(pass.want[k].ifname) /\ settled' = settled
        <4>1. settled \notin {"keys", "routes"}
          BY <1>1, <2>1 DEF BaseInv, SettledRight
        <4>2. settled = "pass" => job'.routes = kernel[k].routes
          BY <1>3, <1>6, <2>1, <3>2, PppRoutesFacts DEF BaseInv, SettledRight
        <4>3. QED
          BY <1>1, <1>3, <1>4, <2>1, <3>2, <4>1, <4>2
             DEF BaseInv, SettledRight, AddPhase, RemovePhase
      <3>3. QED
        BY <1>4, <3>1, <3>2
    <2>13. QED
      BY <2>2, <2>3, <2>5, <2>8, <2>9, <2>10, <2>11, <2>12 DEF BaseInv
  <1>9. ASSUME NothingMoved' PROVE RoutesApart'
    <2>1. Unbroken' /\ RoutesApart
      BY <1>4, <1>9, HitGrows DEF SyncInv
    <2>2. QED
      BY <1>1, <1>2, <1>3, <1>4, <1>6, <1>7, <2>1, FetchApart
  <1>10. ASSUME (hit \subseteq KernelFaults)' PROVE MirrorRight'
    <2>1. MirrorRight
      BY <1>4, <1>10, HitGrows DEF SyncInv
    <2>2. QED
      BY <1>1, <1>4, <1>5, <2>1, QuietMirror DEF AddPhase
  <1>11. QED
    BY <1>6, <1>8, <1>9, <1>10 DEF SyncInv

\* del_session takes up a session with the routes recorded for it.
LEMMA BeginDelKeeps ==
  ASSUME SyncInv, NEW k \in SessionKey, BeginDel(k)
  PROVE  SyncInv'
  <1>1. /\ pc = "removing" /\ pc' = "unroute" /\ k \in pass.todo
        /\ UNCHANGED <<rvars, kernel, hit, settled, installed, connected, pass>>
    BY DEF BeginDel, envVars
  <1>2. PICK have, t, w :
          /\ have = installed[k].routes
          /\ t = installed[k].tunnel_index /\ w = installed[k].sw_if_index
          /\ job' = [NoJob EXCEPT !.key = k, !.tidx = t, !.swif = w, !.dels = have,
                                  !.routes = have]
    BY DEF BeginDel, TeardownRoutes
  <1>3. job' = [key |-> k, tidx |-> t, swif |-> w, adds |-> {}, dels |-> have, routes |-> have]
    BY <1>2 DEF NoJob
  <1>4. /\ IsJob(job)' /\ job'.key = k /\ job'.tidx = t /\ job'.swif = w
        /\ job'.adds = {} /\ job'.dels = have /\ job'.routes = have
    BY <1>3 DEF IsJob
  <1>5. UNCHANGED <<tunnels, sessions, session_by_key, interfaces, fib>> /\ UNCHANGED vars
    BY <1>1 DEF rvars, vars, objVars, routeVars
  <1>6. KernelOK'
    BY <1>1 DEF SyncInv, KernelOK
  <1>7. ASSUME Unbroken' PROVE BaseInv /\ k \in DOMAIN installed
    BY <1>1, <1>7, HitGrows DEF SyncInv, BaseInv, TodoRight, RemovePhase
  <1>8. ASSUME Unbroken' PROVE BaseInv'
    <2>1. BaseInv /\ k \in DOMAIN installed
      BY <1>7, <1>8
    <2>2. CountInv'
      BY <1>5, <2>1, OwnNextCount DEF BaseInv
    <2>3. SyncTypes'
      BY <1>1, <2>1 DEF BaseInv, SyncTypes, Running
    <2>4. have \subseteq Prefixes
      BY <1>2, <2>1 DEF BaseInv, SyncTypes
    <2>5. JobRight'
      BY <1>1, <1>2, <1>4, <2>1, <2>4 DEF JobRight, AtJob
    <2>6. \A j : VppSession(j)' = VppSession(j)
      BY <1>5 DEF VppSession
    <2>7. DOMAIN session_by_key = DOMAIN installed
      BY <1>1, <2>1 DEF BaseInv, RecordsLive
    <2>8. RecordsLive'
      <3>1. \A j \in DOMAIN installed :
              /\ installed[j].sw_if_index = VppSession(j).sw_if_index
              /\ installed[j].tunnel_index = VppSession(j).tunnel_index
        BY <2>1 DEF BaseInv, RecordsLive
      <3>2. w = VppSession(k).sw_if_index /\ t = VppSession(k).tunnel_index
        BY <1>2, <2>1, <3>1
      <3>3. \A j \in DOMAIN installed' :
              /\ installed'[j].sw_if_index = VppSession(j)'.sw_if_index
              /\ installed'[j].tunnel_index = VppSession(j)'.tunnel_index
        BY <1>1, <2>6, <3>1
      <3>4. /\ job'.swif = VppSession(job.key)'.sw_if_index
            /\ job'.tidx = VppSession(job.key)'.tunnel_index
        BY <1>4, <1>5, <3>2 DEF VppSession
      <3>5. DOMAIN session_by_key' = DOMAIN installed' \cup {j \in {job'.key} : pc' = "routes"}
        BY <1>1, <1>4, <1>5, <2>7
      <3>6. QED
        BY <3>3, <3>4, <3>5 DEF RecordsLive
    <2>9. PathsExact'
      <3>1. \A j \in DOMAIN installed : PathsOf(j)' = PathsOf(j)
        BY <1>1, <1>2, <1>4 DEF PathsOf
      <3>2. QED
        BY <1>5, <2>1, <2>6, <2>7, <3>1 DEF BaseInv, PathsExact
    <2>10. CacheRight' /\ TodoRight'
      BY <1>1, <1>5, <2>1 DEF BaseInv, CacheRight, TodoRight, AddPhase, RemovePhase
    <2>11. EmptiesKnown'
      BY <1>1, <1>5, <2>1 DEF BaseInv, EmptiesKnown, SessionsOf, RemovePhase
    <2>12. SettledRight'
      BY <1>1, <2>1 DEF BaseInv, SettledRight, AddPhase, RemovePhase
    <2>13. QED
      BY <2>2, <2>3, <2>5, <2>8, <2>9, <2>10, <2>11, <2>12 DEF BaseInv
  <1>9. ASSUME NothingMoved' PROVE RoutesApart'
    <2>1. Unbroken' /\ RoutesApart
      BY <1>1, <1>9, HitGrows DEF SyncInv
    <2>2. k \in DOMAIN installed
      BY <1>7, <2>1
    <2>3. \A j : RoutesElsewhere(j)' \subseteq RoutesElsewhere(j)
      BY <1>1, <1>2, <1>4, <2>2 DEF RoutesElsewhere
    <2>4. \A j \in DOMAIN kernel' : kernel'[j].routes \cap RoutesElsewhere(j)' = {}
      BY <1>1, <2>1, <2>3 DEF RoutesApart
    <2>5. \A j \in DOMAIN installed' \ {job'.key} : installed'[j].routes \cap job'.routes = {}
      BY <1>1, <1>2, <1>4, <2>1, <2>2 DEF RoutesApart
    <2>6. QED
      BY <1>1, <2>1, <2>4, <2>5 DEF RoutesApart
  <1>10. ASSUME (hit \subseteq KernelFaults)' PROVE MirrorRight'
    <2>1. MirrorRight
      BY <1>1, <1>10, HitGrows DEF SyncInv
    <2>2. QED
      BY <1>1, <1>5, <2>1, QuietMirror DEF AddPhase
  <1>11. QED
    BY <1>6, <1>8, <1>9, <1>10 DEF SyncInv

\* The session is set up or re-checked: it is recorded.
LEMMA RecordSessionKeeps ==
  ASSUME SyncInv, RecordSession
  PROVE  SyncInv'
  <1>1. /\ pc = "routes" /\ pc' = "adding" /\ job.adds = {} /\ job.dels = {} /\ job' = NoJob
        /\ UNCHANGED <<rvars, kernel, hit, settled, connected>>
    BY DEF RecordSession, envVars
  <1>2. PICK k, t, w, have, todo :
          /\ k = job.key /\ t = job.tidx /\ w = job.swif /\ have = job.routes
          /\ todo = pass.todo \ {k}
          /\ installed' = Put(installed, k, [sw_if_index |-> w, tunnel_index |-> t,
                                             routes |-> have])
          /\ pass' = [pass EXCEPT !.todo = todo]
    BY DEF RecordSession
  <1>3. /\ DOMAIN installed' = DOMAIN installed \cup {k}
        /\ installed'[k].sw_if_index = w /\ installed'[k].tunnel_index = t
        /\ installed'[k].routes = have
        /\ \A j \in DOMAIN installed \ {k} : installed'[j] = installed[j]
    BY <1>2 DEF Put
  <1>4. job'.routes = {}
    BY <1>1 DEF NoJob
  <1>5. UNCHANGED <<tunnels, sessions, session_by_key, interfaces, fib>> /\ UNCHANGED vars
    BY <1>1 DEF rvars, vars, objVars, routeVars
  <1>6. KernelOK'
    BY <1>1 DEF SyncInv, KernelOK
  <1>7. ASSUME Unbroken'
        PROVE  /\ BaseInv /\ IsPass(pass)' /\ pass'.todo = todo /\ pass'.want = pass.want
               /\ pass'.cache = pass.cache /\ pass'.resync = pass.resync
               /\ pass'.removed = pass.removed
    <2>1. BaseInv
      BY <1>1, <1>7 DEF SyncInv, Unbroken
    <2>2. IsPass(pass)
      BY <2>1 DEF BaseInv, SyncTypes
    <2>3. IsPass(pass)' /\ pass'.todo = todo /\ pass'.want = pass.want
            /\ pass'.cache = pass.cache /\ pass'.resync = pass.resync
            /\ pass'.removed = pass.removed
      BY <1>2, <2>2, PassTodoSet, Zenon
    <2>4. QED
      BY <2>1, <2>3
  <1>8. ASSUME Unbroken' PROVE BaseInv'
    <2>1. BaseInv
      BY <1>7, <1>8
    <2>2. CountInv'
      BY <1>5, <2>1, OwnNextCount DEF BaseInv
    <2>3. /\ k \in pass.todo /\ k \in DOMAIN pass.want /\ have \subseteq Prefixes
          /\ k \in SessionKey
      BY <1>1, <1>2, <2>1 DEF BaseInv, JobRight, AtJob, TodoRight, AddPhase, SyncTypes
    <2>4. SyncTypes'
      BY <1>1, <1>3, <1>7, <1>8, <2>3 DEF BaseInv, SyncTypes, Running
    <2>5. JobRight'
      BY <1>1 DEF JobRight, AtJob, NoJob, IsJob
    <2>6. \A j : VppSession(j)' = VppSession(j)
      BY <1>5 DEF VppSession
    <2>7. DOMAIN session_by_key = DOMAIN installed \cup {k}
      BY <1>1, <1>2, <2>1 DEF BaseInv, RecordsLive
    <2>8. RecordsLive'
      <3>1. \A j \in DOMAIN installed :
              /\ installed[j].sw_if_index = VppSession(j).sw_if_index
              /\ installed[j].tunnel_index = VppSession(j).tunnel_index
        BY <2>1 DEF BaseInv, RecordsLive
      <3>2. w = VppSession(k).sw_if_index /\ t = VppSession(k).tunnel_index
        BY <1>1, <1>2, <2>1 DEF BaseInv, RecordsLive
      <3>3. \A j \in DOMAIN installed' :
              /\ installed'[j].sw_if_index = VppSession(j)'.sw_if_index
              /\ installed'[j].tunnel_index = VppSession(j)'.tunnel_index
        BY <1>3, <2>6, <3>1, <3>2
      <3>4. DOMAIN session_by_key' = DOMAIN installed' \cup {j \in {job'.key} : pc' = "routes"}
        BY <1>1, <1>3, <1>5, <2>7
      <3>5. QED
        BY <1>1, <3>3, <3>4 DEF RecordsLive
    <2>9. PathsExact'
      <3>1. \A j \in DOMAIN installed \cup {k} : PathsOf(j)' = PathsOf(j)
        BY <1>1, <1>2, <1>3 DEF PathsOf
      <3>2. QED
        BY <1>5, <2>1, <2>6, <2>7, <3>1 DEF BaseInv, PathsExact
    <2>10. CacheRight'
      BY <1>1, <1>5, <1>7, <1>8 DEF BaseInv, CacheRight, AddPhase
    <2>11. TodoRight'
      BY <1>1, <1>2, <1>3, <1>7, <1>8 DEF BaseInv, TodoRight, AddPhase, RemovePhase
    <2>12. EmptiesKnown'
      BY <1>1, <1>5, <2>1 DEF BaseInv, EmptiesKnown, SessionsOf, RemovePhase
    <2>13. SettledRight'
      <3>1. settled \notin {"keys", "routes"}
        BY <1>1, <2>1 DEF BaseInv, SettledRight
      <3>2. settled = "pass" =>
              /\ DOMAIN pass.want = DOMAIN kernel
              /\ \A j \in DOMAIN kernel : pass.want[j].ifname = kernel[j].ifname
              /\ have = kernel[k].routes
              /\ pass.resync => \A j \in DOMAIN kernel \ pass.todo :
                                  installed[j].routes = kernel[j].routes
        BY <1>1, <1>2, <2>1 DEF BaseInv, SettledRight, AddPhase
      <3>3. DOMAIN kernel \ pass.todo \subseteq DOMAIN installed \/ settled # "pass"
        BY <1>1, <2>1, <3>2 DEF BaseInv, TodoRight, AddPhase
      <3>4. settled = "pass" /\ pass.resync =>
              \A j \in DOMAIN kernel \ todo : installed'[j].routes = kernel[j].routes
        BY <1>2, <1>3, <3>2, <3>3
      <3>5. /\ pass'.want = pass.want /\ pass'.todo = todo /\ pass'.resync = pass.resync
        BY <1>7, <1>8
      <3>6. QED
        BY <1>1, <3>1, <3>2, <3>4, <3>5 DEF SettledRight, AddPhase, RemovePhase
    <2>14. QED
      BY <2>2, <2>4, <2>5, <2>8, <2>9, <2>10, <2>11, <2>12, <2>13 DEF BaseInv
  <1>9. ASSUME NothingMoved' PROVE RoutesApart'
    <2>1. Unbroken' /\ RoutesApart
      BY <1>1, <1>9, HitGrows DEF SyncInv
    <2>2. pass'.want = pass.want
      BY <1>7, <2>1
    <2>3. \A j : RoutesElsewhere(j)' \subseteq RoutesElsewhere(j)
      BY <1>2, <1>3, <1>4 DEF RoutesElsewhere
    <2>4. \A j \in DOMAIN kernel' : kernel'[j].routes \cap RoutesElsewhere(j)' = {}
      BY <1>1, <2>1, <2>3 DEF RoutesApart
    <2>5. \A j \in DOMAIN installed \ {k} : installed[j].routes \cap have = {}
      BY <1>1, <1>2, <2>1 DEF RoutesApart, AtJob
    <2>6. \A i, j \in DOMAIN installed' :
            i # j => installed'[i].routes \cap installed'[j].routes = {}
      BY <1>3, <2>1, <2>5 DEF RoutesApart
    <2>7. QED
      BY <1>1, <2>1, <2>2, <2>4, <2>6 DEF RoutesApart, AtJob
  <1>10. ASSUME (hit \subseteq KernelFaults)' PROVE MirrorRight'
    <2>1. Unbroken' /\ MirrorRight
      BY <1>1, <1>10, HitGrows DEF SyncInv
    <2>2. pass'.want = pass.want
      BY <1>7, <2>1
    <2>3. QED
      BY <1>1, <1>5, <2>1, <2>2, QuietMirror DEF AddPhase
  <1>11. QED
    BY <1>6, <1>8, <1>9, <1>10 DEF SyncInv


\* The indexes and counters after a call that changes no object.
LEMMA QuietCount ==
  ASSUME CountInv, UNCHANGED objVars,
         reply' \in [rv : Retval, index : TunnelIdx \cup SwIf \cup {NoIndex}]
  PROVE  CountInv'
  <1>1. IndexInv'
    BY UnchangedIndex DEF CountInv
  <1>2. SessionCountExact' /\ NoDanglingTunnel'
    BY UnchangedCount DEF CountInv, objVars
  <1>3. QED
    BY <1>1, <1>2 DEF CountInv

\* A route call of the daemon adds one of the paths it means to add, or removes
\* one of those it means to remove, on its own session's interface.
LEMMA CallRouteFacts ==
  ASSUME BaseInv, CallRoute
  PROVE  \E k \in DOMAIN session_by_key, p \in Prefixes, w \in interfaces :
           /\ k = job.key /\ w = job.swif /\ w = VppSession(k).sw_if_index
           /\ UNCHANGED objVars
           /\ reply' \in [rv : Retval, index : TunnelIdx \cup SwIf \cup {NoIndex}]
           /\ IsJob(job)' /\ job'.key = k /\ job'.tidx = job.tidx /\ job'.swif = w
           /\ job'.routes = job.routes
           /\ \/ /\ RouteAdd(p, w) /\ fib' = fib \cup {<<p, w>>}
                 /\ pc = "routes" /\ p \in job.adds
                 /\ job'.adds = job.adds \ {p} /\ job'.dels = job.dels
              \/ /\ RouteDel(p, w) /\ fib' = fib \ {<<p, w>>}
                 /\ p \in job.dels /\ job.adds = {}
                 /\ job'.adds = {} /\ job'.dels = job.dels \ {p}
  <1>1. pc \in {"routes", "unroute"}
    BY DEF CallRoute
  <1>2. PICK k, t, w, a, d, r :
          /\ job = [key |-> k, tidx |-> t, swif |-> w, adds |-> a, dels |-> d, routes |-> r]
    BY DEF BaseInv, JobRight, IsJob
  <1>3. /\ job.key = k /\ job.tidx = t /\ job.swif = w /\ job.adds = a /\ job.dels = d
        /\ job.routes = r
    BY <1>2
  <1>4. k \in DOMAIN session_by_key /\ w = VppSession(k).sw_if_index
    BY <1>1, <1>3 DEF BaseInv, RecordsLive, JobRight
  <1>5. w \in interfaces
    BY <1>4, SessionFacts DEF BaseInv, CountInv
  <1>6. a \subseteq Prefixes /\ d \subseteq Prefixes /\ (pc = "unroute" => a = {})
    BY <1>1, <1>3 DEF BaseInv, JobRight, AtJob
  <1>7. CASE \E p \in job.adds : RouteAdd(p, job.swif) /\ job' = [job EXCEPT !.adds = @ \ {p}]
    <2>1. PICK p \in a : RouteAdd(p, w) /\ job' = [job EXCEPT !.adds = @ \ {p}]
      BY <1>3, <1>7
    <2>2. PICK x : x = a \ {p}
      OBVIOUS
    <2>3. job' = [key |-> k, tidx |-> t, swif |-> w, adds |-> x, dels |-> d, routes |-> r]
      BY <1>2, <2>1, <2>2
    <2>4. /\ IsJob(job)' /\ job'.key = k /\ job'.tidx = t /\ job'.swif = w
          /\ job'.routes = r /\ job'.adds = a \ {p} /\ job'.dels = d
      BY <2>2, <2>3 DEF IsJob
    <2>5. UNCHANGED objVars /\ fib' = fib \cup {<<p, w>>}
      BY <1>4, <2>1, RouteCalled DEF BaseInv, CountInv
    <2>6. reply' \in [rv : Retval, index : TunnelIdx \cup SwIf \cup {NoIndex}]
      BY <2>1 DEF RouteAdd, Refuse, Answer, Retval
    <2>7. pc = "routes" /\ p \in Prefixes
      BY <1>1, <1>6
    <2>8. QED
      BY <1>3, <1>4, <1>5, <2>1, <2>4, <2>5, <2>6, <2>7
  <1>8. CASE job.adds = {} /\ \E p \in job.dels :
               RouteDel(p, job.swif) /\ job' = [job EXCEPT !.dels = @ \ {p}]
    <2>1. PICK p \in d : RouteDel(p, w) /\ job' = [job EXCEPT !.dels = @ \ {p}]
      BY <1>3, <1>8
    <2>2. PICK x : x = d \ {p}
      OBVIOUS
    <2>3. job' = [key |-> k, tidx |-> t, swif |-> w, adds |-> a, dels |-> x, routes |-> r]
      BY <1>2, <2>1, <2>2
    <2>4. /\ IsJob(job)' /\ job'.key = k /\ job'.tidx = t /\ job'.swif = w
          /\ job'.routes = r /\ job'.adds = {} /\ job'.dels = d \ {p}
      BY <1>3, <1>8, <2>2, <2>3 DEF IsJob
    <2>5. UNCHANGED objVars /\ fib' = fib \ {<<p, w>>}
      BY <1>4, <2>1, RouteCalled DEF BaseInv, CountInv
    <2>6. reply' \in [rv : Retval, index : TunnelIdx \cup SwIf \cup {NoIndex}]
      BY <2>1 DEF RouteDel, Refuse, Answer, Retval
    <2>7. p \in Prefixes
      BY <1>6
    <2>8. QED
      BY <1>3, <1>4, <1>5, <1>8, <2>1, <2>4, <2>5, <2>6, <2>7
  <1>9. QED
    BY <1>7, <1>8 DEF CallRoute

\* One l2tvpp_route_add_del.
LEMMA CallRouteKeeps ==
  ASSUME SyncInv, CallRoute
  PROVE  SyncInv'
  <1>1. /\ pc \in {"routes", "unroute"}
        /\ UNCHANGED <<kernel, hit, pc, installed, connected, pass, settled>>
    BY DEF CallRoute, envVars
  <1>2. KernelOK'
    BY <1>1 DEF SyncInv, KernelOK
  <1>3. Unbroken' => BaseInv
    BY <1>1 DEF SyncInv, Unbroken
  <1>4. CASE ~Unbroken'
    BY <1>1, <1>4, BrokenKeeps
  <1>5. CASE Unbroken'
    <2>1. BaseInv
      BY <1>3, <1>5
    <2>2. PICK k \in DOMAIN session_by_key, p \in Prefixes, w \in interfaces :
            /\ k = job.key /\ w = job.swif /\ w = VppSession(k).sw_if_index
            /\ UNCHANGED objVars
            /\ reply' \in [rv : Retval, index : TunnelIdx \cup SwIf \cup {NoIndex}]
            /\ IsJob(job)' /\ job'.key = k /\ job'.tidx = job.tidx /\ job'.swif = w
            /\ job'.routes = job.routes
            /\ \/ /\ RouteAdd(p, w) /\ fib' = fib \cup {<<p, w>>}
                  /\ pc = "routes" /\ p \in job.adds
                  /\ job'.adds = job.adds \ {p} /\ job'.dels = job.dels
               \/ /\ RouteDel(p, w) /\ fib' = fib \ {<<p, w>>}
                  /\ p \in job.dels /\ job.adds = {}
                  /\ job'.adds = {} /\ job'.dels = job.dels \ {p}
      BY <2>1, CallRouteFacts
    <2>3. UNCHANGED <<tunnels, sessions, session_by_key, interfaces>>
      BY <2>2 DEF objVars
    <2>4. CountInv'
      BY <2>1, <2>2, QuietCount DEF BaseInv
    <2>5. SyncTypes'
      BY <1>1, <2>1 DEF BaseInv, SyncTypes
    <2>6. JobRight'
      BY <1>1, <2>1, <2>2 DEF BaseInv, JobRight, AtJob
    <2>7. \A j : VppSession(j)' = VppSession(j)
      BY <2>3 DEF VppSession
    <2>8. RecordsLive'
      <3>1. /\ job'.swif = VppSession(job.key)'.sw_if_index
            /\ job'.tidx = VppSession(job.key)'.tunnel_index
        BY <1>1, <2>1, <2>2, <2>3 DEF BaseInv, RecordsLive, VppSession
      <3>2. DOMAIN session_by_key' = DOMAIN installed' \cup {j \in {job'.key} : pc' = "routes"}
        BY <1>1, <2>1, <2>2, <2>3 DEF BaseInv, RecordsLive
      <3>3. \A j \in DOMAIN installed' :
              /\ installed'[j].sw_if_index = VppSession(j)'.sw_if_index
              /\ installed'[j].tunnel_index = VppSession(j)'.tunnel_index
        BY <1>1, <2>1, <2>7 DEF BaseInv, RecordsLive
      <3>4. QED
        BY <3>1, <3>2, <3>3 DEF RecordsLive
    <2>9. PathsExact'
      <3>1. \A j \in DOMAIN session_by_key \ {k} : PathsOf(j)' = PathsOf(j)
        BY <1>1, <2>2 DEF PathsOf
      <3>2. \A j \in DOMAIN session_by_key \ {k} : VppSession(j).sw_if_index # w
        BY <2>1, <2>2, SessionFacts DEF BaseInv, CountInv
      <3>3. /\ fib \subseteq Prefixes \X interfaces
            /\ \A j \in DOMAIN session_by_key, q \in Prefixes :
                 <<q, VppSession(j).sw_if_index>> \in fib <=> q \in PathsOf(j)
        BY <2>1 DEF BaseInv, PathsExact
      <3>4. \/ fib' = fib \cup {<<p, w>>} /\ PathsOf(k)' = PathsOf(k) \cup {p}
            \/ fib' = fib \ {<<p, w>>} /\ PathsOf(k)' = PathsOf(k) \ {p}
        <4>1. CASE pc = "routes"
          <5>1. job.adds \subseteq job.routes /\ job.dels \cap job.routes = {}
            BY <2>1, <4>1 DEF BaseInv, JobRight
          <5>2. /\ PathsOf(k) = (job.routes \ job.adds) \cup job.dels
                /\ PathsOf(k)' = (job'.routes \ job'.adds) \cup job'.dels
            BY <1>1, <2>2, <4>1 DEF PathsOf
          <5>3. QED
            BY <2>2, <5>1, <5>2
        <4>2. CASE pc = "unroute"
          <5>1. PathsOf(k) = job.dels /\ PathsOf(k)' = job'.dels
            BY <1>1, <2>2, <4>2 DEF PathsOf
          <5>2. QED
            BY <2>2, <4>2, <5>1
        <4>3. QED
          BY <1>1, <4>1, <4>2
      <3>5. fib' \subseteq Prefixes \X interfaces'
        BY <2>2, <2>3, <3>3, <3>4
      <3>6. \A j \in DOMAIN session_by_key, q \in Prefixes :
              <<q, VppSession(j).sw_if_index>> \in fib' <=> q \in PathsOf(j)'
        <4>1. ASSUME NEW j \in DOMAIN session_by_key, NEW q \in Prefixes
              PROVE  <<q, VppSession(j).sw_if_index>> \in fib' <=> q \in PathsOf(j)'
          <5>1. <<q, VppSession(j).sw_if_index>> \in fib <=> q \in PathsOf(j)
            BY <3>3
          <5>2. CASE j = k
            BY <2>2, <3>4, <5>1, <5>2
          <5>3. CASE j # k
            <6>1. <<q, VppSession(j).sw_if_index>> \in fib'
                    <=> <<q, VppSession(j).sw_if_index>> \in fib
              BY <3>2, <3>4, <5>3
            <6>2. QED
              BY <3>1, <5>1, <5>3, <6>1
          <5>4. QED
            BY <5>2, <5>3
        <4>2. QED
          BY <4>1
      <3>7. QED
        BY <2>3, <2>7, <3>5, <3>6 DEF PathsExact
    <2>10. CacheRight' /\ TodoRight'
      BY <1>1, <2>1, <2>3 DEF BaseInv, CacheRight, TodoRight, AddPhase, RemovePhase
    <2>11. EmptiesKnown'
      BY <1>1, <2>1, <2>3 DEF BaseInv, EmptiesKnown, SessionsOf, RemovePhase
    <2>12. SettledRight'
      BY <1>1, <2>1, <2>2 DEF BaseInv, SettledRight, AddPhase, RemovePhase
    <2>13. BaseInv'
      BY <2>4, <2>5, <2>6, <2>8, <2>9, <2>10, <2>11, <2>12 DEF BaseInv
    <2>14. ASSUME NothingMoved' PROVE RoutesApart'
      <3>1. RoutesApart
        BY <1>1, <2>14, HitGrows DEF SyncInv
      <3>2. QED
        BY <1>1, <2>2, <3>1, QuietApart DEF AtJob
    <2>15. ASSUME (hit \subseteq KernelFaults)' PROVE MirrorRight'
      <3>1. MirrorRight
        BY <1>1, <2>15, HitGrows DEF SyncInv
      <3>2. QED
        BY <1>1, <2>3, <3>1, QuietMirror
    <2>16. QED
      BY <1>2, <2>13, <2>14, <2>15 DEF SyncInv
  <1>6. QED
    BY <1>4, <1>5

\* The pass is over: the record is saved.
LEMMA SaveStateKeeps ==
  ASSUME SyncInv, SaveState
  PROVE  SyncInv'
  <1>1. /\ pc' = "idle" /\ pass' = NoPass /\ pass.todo = {}
        /\ pc = "prune" \/ (pc = "removing" /\ ~pass.removed)
        /\ settled' = IF settled # "pass" THEN "no"
                      ELSE IF pass.resync THEN "routes" ELSE "keys"
        /\ UNCHANGED <<rvars, kernel, hit, installed, connected, job>>
    BY DEF SaveState, envVars
  <1>2. UNCHANGED <<tunnels, sessions, session_by_key, interfaces, fib>>
    BY <1>1 DEF rvars, vars, objVars, routeVars
  <1>3. DOMAIN pass'.want = {} /\ pass'.want = Empty
    BY <1>1 DEF NoPass, Empty
  <1>4. KernelOK'
    BY <1>1 DEF SyncInv, KernelOK
  <1>5. ASSUME Unbroken' PROVE BaseInv /\ job = NoJob
    BY <1>1, <1>5 DEF SyncInv, Unbroken, BaseInv, JobRight, AtJob
  <1>6. ASSUME Unbroken' PROVE BaseInv'
    <2>1. BaseInv
      BY <1>5, <1>6
    <2>2. CountInv' /\ RecordsLive' /\ PathsExact'
      BY <1>1, <2>1, QuietRecords
    <2>3. SyncTypes'
      BY <1>1, <1>3, <2>1 DEF BaseInv, SyncTypes, NoPass, Running, Empty, IsPass
    <2>4. JobRight'
      BY <1>1, <1>5, <1>6 DEF JobRight, AtJob, NoJob, IsJob
    <2>5. CacheRight' /\ TodoRight'
      BY <1>1 DEF CacheRight, TodoRight, AddPhase, RemovePhase
    <2>6. EmptiesKnown'
      BY <1>1, <1>2, <2>1 DEF BaseInv, EmptiesKnown, SessionsOf, RemovePhase
    <2>7. DOMAIN installed = DOMAIN pass.want
      BY <1>1, <2>1 DEF BaseInv, TodoRight, RemovePhase
    <2>8. SettledRight'
      BY <1>1, <2>1, <2>7 DEF BaseInv, SettledRight, RemovePhase
    <2>9. QED
      BY <2>2, <2>3, <2>4, <2>5, <2>6, <2>8 DEF BaseInv
  <1>7. ASSUME NothingMoved' PROVE RoutesApart'
    <2>1. Unbroken' /\ RoutesApart
      BY <1>1, <1>7, HitGrows DEF SyncInv
    <2>2. job' = NoJob
      BY <1>1, <1>5, <2>1
    <2>3. QED
      BY <1>1, <1>3, <2>1, <2>2, QuietApart
  <1>8. ASSUME (hit \subseteq KernelFaults)' PROVE MirrorRight'
    <2>1. MirrorRight
      BY <1>1, <1>8, HitGrows DEF SyncInv
    <2>2. QED
      BY <1>1, <1>2, <1>3, <2>1, QuietMirror DEF AddPhase
  <1>9. QED
    BY <1>4, <1>6, <1>7, <1>8 DEF SyncInv


\* The tunnel ensure_tunnel asks for is not there, and is added as asked.
LEMMA AddTunnelFacts ==
  ASSUME AllIp4, BaseInv, AddTunnel
  PROVE  \E k \in DOMAIN pass.want \ DOMAIN installed, i \in TunnelIdx \ DOMAIN tunnels :
           /\ k = job.key /\ k \in SessionKey /\ pass.want[k] \in Want
           /\ pass.want[k].local \in Locals /\ pass.want[k].local # NoLocal
           /\ TunnelAdd(pass.want[k].local, pass.want[k].peer, k[1], pass.want[k].peer_tid)
           /\ DOMAIN tunnels' = DOMAIN tunnels \cup {i}
           /\ tunnels'[i].local = pass.want[k].local
           /\ tunnels'[i].peer = pass.want[k].peer
           /\ tunnels'[i].local_tid = k[1]
           /\ tunnels'[i].peer_tid = pass.want[k].peer_tid
           /\ \A j \in DOMAIN tunnels : tunnels'[j] = tunnels[j]
           /\ UNCHANGED <<sessions, session_by_key, interfaces>>
           /\ IsPass(pass)' /\ pass'.cache = Put(pass.cache, <<pass.want[k].peer, k[1]>>, i)
           /\ pass'.want = pass.want /\ pass'.todo = pass.todo
           /\ pass'.resync = pass.resync /\ pass'.removed = pass.removed
           /\ IsJob(job)' /\ job'.key = k /\ job'.tidx = i /\ job'.adds = job.adds
           /\ job'.dels = job.dels /\ job'.routes = job.routes
  <1>1. /\ pc = "tunnel"
        /\ TunnelAdd(pass.want[job.key].local, pass.want[job.key].peer, job.key[1],
                     pass.want[job.key].peer_tid)
        /\ pass' = [pass EXCEPT
             !.cache = Put(@, <<pass.want[job.key].peer, job.key[1]>>, reply'.index)]
        /\ job' = [job EXCEPT !.tidx = reply'.index]
    BY DEF AddTunnel
  <1>2. PICK k : k = job.key
    OBVIOUS
  <1>3. /\ k \in DOMAIN pass.want /\ k \notin DOMAIN installed /\ k \in SessionKey
        /\ pass.want[k] \in Want
    BY <1>1, <1>2 DEF BaseInv, JobRight, AtJob, TodoRight, AddPhase, SyncTypes
  <1>4. pass.want[k].local # NoLocal /\ <<pass.want[k].peer, k[1]>> \notin DOMAIN pass.cache
    BY <1>1, <1>2 DEF BaseInv, CacheRight
  <1>5. /\ pass.want[k].local \in Locals /\ pass.want[k].local \in Ip4
        /\ pass.want[k].peer \in Ip4
    BY <1>3, <1>4 DEF Want, AllIp4
  <1>6. TunnelFind(pass.want[k].peer, k[1]) = {}
    <2>1. \A i \in DOMAIN tunnels :
            <<tunnels[i].peer, tunnels[i].local_tid>> \in DOMAIN pass.cache
      BY <1>1 DEF BaseInv, CacheRight, AddPhase
    <2>2. QED
      BY <1>4, <2>1 DEF TunnelFind
  <1>7. TunnelAdd(pass.want[k].local, pass.want[k].peer, k[1], pass.want[k].peer_tid)
    BY <1>1, <1>2
  <1>8. PICK i \in TunnelIdx \ DOMAIN tunnels :
          /\ reply'.index = i
          /\ DOMAIN tunnels' = DOMAIN tunnels \cup {i}
          /\ tunnels'[i] = [local |-> pass.want[k].local, peer |-> pass.want[k].peer,
                            local_tid |-> k[1], peer_tid |-> pass.want[k].peer_tid,
                            n_sessions |-> 0]
          /\ \A j \in DOMAIN tunnels : tunnels'[j] = tunnels[j]
          /\ UNCHANGED <<sessions, session_by_key, interfaces>>
    BY <1>5, <1>6, <1>7, TunnelAdded
  <1>9. /\ tunnels'[i].local = pass.want[k].local
        /\ tunnels'[i].peer = pass.want[k].peer
        /\ tunnels'[i].local_tid = k[1]
        /\ tunnels'[i].peer_tid = pass.want[k].peer_tid
    BY <1>8
  <1>10. PICK x : x = Put(pass.cache, <<pass.want[k].peer, k[1]>>, i)
    OBVIOUS
  <1>11. pass' = [pass EXCEPT !.cache = x]
    BY <1>1, <1>2, <1>8, <1>10
  <1>12. IsPass(pass)
    BY DEF BaseInv, SyncTypes
  <1>13. IsPass(pass)' /\ pass'.cache = x /\ pass'.want = pass.want
         /\ pass'.todo = pass.todo /\ pass'.resync = pass.resync /\ pass'.removed = pass.removed
    BY <1>11, <1>12, PassCacheSet, Zenon
  <1>14. PICK t, w, a, d, r :
           job = [key |-> k, tidx |-> t, swif |-> w, adds |-> a, dels |-> d, routes |-> r]
    BY <1>2 DEF BaseInv, JobRight, IsJob
  <1>15. job' = [key |-> k, tidx |-> i, swif |-> w, adds |-> a, dels |-> d, routes |-> r]
    BY <1>1, <1>8, <1>14
  <1>16. /\ IsJob(job)' /\ job'.key = k /\ job'.tidx = i /\ job'.adds = job.adds
         /\ job'.dels = job.dels /\ job'.routes = job.routes
    BY <1>14, <1>15 DEF IsJob
  <1>17. QED
    BY <1>2, <1>3, <1>4, <1>5, <1>7, <1>8, <1>9, <1>10, <1>13, <1>16, Zenon

\* ensure_tunnel adds the tunnel the session belongs on.
LEMMA AddTunnelKeeps ==
  ASSUME AllIp4, SyncInv, AddTunnel
  PROVE  SyncInv'
  <1>1. /\ pc = "tunnel" /\ pc' = "session"
        /\ UNCHANGED <<routeVars, kernel, hit, settled, installed, connected>>
    BY DEF AddTunnel, envVars
  <1>2. KernelOK /\ KernelOK'
    BY <1>1 DEF SyncInv, KernelOK
  <1>3. CASE ~Unbroken'
    BY <1>1, <1>3, BrokenKeeps
  <1>4. CASE Unbroken'
    <2>1. BaseInv
      BY <1>1, <1>4 DEF SyncInv, Unbroken
    <2>2. PICK k \in DOMAIN pass.want \ DOMAIN installed, i \in TunnelIdx \ DOMAIN tunnels :
            /\ k = job.key /\ k \in SessionKey /\ pass.want[k] \in Want
            /\ pass.want[k].local \in Locals /\ pass.want[k].local # NoLocal
            /\ TunnelAdd(pass.want[k].local, pass.want[k].peer, k[1], pass.want[k].peer_tid)
            /\ DOMAIN tunnels' = DOMAIN tunnels \cup {i}
            /\ tunnels'[i].local = pass.want[k].local
            /\ tunnels'[i].peer = pass.want[k].peer
            /\ tunnels'[i].local_tid = k[1]
            /\ tunnels'[i].peer_tid = pass.want[k].peer_tid
            /\ \A j \in DOMAIN tunnels : tunnels'[j] = tunnels[j]
            /\ UNCHANGED <<sessions, session_by_key, interfaces>>
            /\ IsPass(pass)' /\ pass'.cache = Put(pass.cache, <<pass.want[k].peer, k[1]>>, i)
            /\ pass'.want = pass.want /\ pass'.todo = pass.todo
            /\ pass'.resync = pass.resync /\ pass'.removed = pass.removed
            /\ IsJob(job)' /\ job'.key = k /\ job'.tidx = i /\ job'.adds = job.adds
            /\ job'.dels = job.dels /\ job'.routes = job.routes
      BY <2>1, AddTunnelFacts, Zenon
    <2>3. CountInv'
      <3>1. CountInv /\ IndexInv
        BY <2>1 DEF BaseInv, CountInv
      <3>2. /\ pass.want[k].peer \in Peers /\ k[1] \in Tids /\ pass.want[k].peer_tid \in PeerTids
            /\ pass.want[k].local \in Locals
            /\ TunnelAdd(pass.want[k].local, pass.want[k].peer, k[1], pass.want[k].peer_tid)
        BY <2>2 DEF Want, SessionKey
      <3>3. IndexInv'
        BY <3>1, <3>2, TunnelAddIndex
      <3>4. SessionCountExact' /\ NoDanglingTunnel'
        BY <3>1, <3>2, TunnelAddCount
      <3>5. QED
        BY <3>3, <3>4 DEF CountInv
    <2>4. SyncTypes'
      BY <1>1, <2>1, <2>2 DEF BaseInv, SyncTypes, Running
    <2>5. JobRight'
      BY <1>1, <2>1, <2>2 DEF BaseInv, JobRight, AtJob
    <2>6. UNCHANGED fib /\ \A j : VppSession(j)' = VppSession(j) /\ SessionsOf(j)' = SessionsOf(j)
      BY <1>1, <2>2 DEF VppSession, SessionsOf, routeVars
    <2>7. RecordsLive'
      BY <1>1, <2>1, <2>2, <2>6 DEF BaseInv, RecordsLive
    <2>8. PathsExact'
      <3>1. \A j : PathsOf(j)' = PathsOf(j)
        BY <1>1 DEF PathsOf
      <3>2. QED
        BY <2>1, <2>2, <2>6, <3>1 DEF BaseInv, PathsExact
    <2>9. CacheRight'
      <3>1. /\ \A tk \in DOMAIN pass.cache :
                 /\ pass.cache[tk] \in DOMAIN tunnels
                 /\ tk = <<tunnels[pass.cache[tk]].peer, tunnels[pass.cache[tk]].local_tid>>
            /\ \A j \in DOMAIN tunnels :
                 <<tunnels[j].peer, tunnels[j].local_tid>> \in DOMAIN pass.cache
        BY <1>1, <2>1 DEF BaseInv, CacheRight, AddPhase
      <3>2. PICK new : new = <<pass.want[k].peer, k[1]>>
        OBVIOUS
      <3>3. /\ DOMAIN pass'.cache = DOMAIN pass.cache \cup {new}
            /\ pass'.cache[new] = i
            /\ \A tk \in DOMAIN pass.cache \ {new} : pass'.cache[tk] = pass.cache[tk]
        BY <2>2, <3>2 DEF Put
      <3>4. new = <<tunnels'[i].peer, tunnels'[i].local_tid>>
        BY <2>2, <3>2, SMTT(60)
      <3>5. \A tk \in DOMAIN pass'.cache :
              /\ pass'.cache[tk] \in DOMAIN tunnels'
              /\ tk = <<tunnels'[pass'.cache[tk]].peer, tunnels'[pass'.cache[tk]].local_tid>>
        BY <2>2, <3>1, <3>3, <3>4, SMTT(60)
      <3>6. \A j \in DOMAIN tunnels' :
              <<tunnels'[j].peer, tunnels'[j].local_tid>> \in DOMAIN pass'.cache
        BY <2>2, <3>1, <3>3, <3>4
      <3>7. /\ job'.tidx \in DOMAIN tunnels'
            /\ tunnels'[job'.tidx].local_tid = job'.key[1]
            /\ tunnels'[job'.tidx].peer = pass'.want[job'.key].peer
        BY <2>2
      <3>8. QED
        BY <1>1, <3>5, <3>6, <3>7 DEF CacheRight
    <2>10. TodoRight'
      BY <1>1, <2>1, <2>2 DEF BaseInv, TodoRight, AddPhase, RemovePhase
    <2>11. EmptiesKnown'
      BY <1>1, <2>1, <2>2, <2>6 DEF BaseInv, EmptiesKnown, RemovePhase
    <2>12. SettledRight'
      BY <1>1, <2>1, <2>2 DEF BaseInv, SettledRight, AddPhase, RemovePhase
    <2>13. BaseInv'
      BY <2>3, <2>4, <2>5, <2>7, <2>8, <2>9, <2>10, <2>11, <2>12 DEF BaseInv
    <2>14. ASSUME NothingMoved' PROVE RoutesApart'
      <3>1. RoutesApart
        BY <1>1, <2>14, HitGrows, SMTT(60) DEF SyncInv
      <3>2. QED
        BY <1>1, <2>2, <3>1, QuietApart DEF AtJob
    <2>15. ASSUME (hit \subseteq KernelFaults)' PROVE MirrorRight'
      <3>1. MirrorRight
        BY <1>1, <2>15, HitGrows DEF SyncInv
      <3>2. \A j \in DOMAIN kernel' \cap DOMAIN session_by_key' : Mirrors(j)'
        BY <1>1, <2>2, <2>6, <3>1 DEF MirrorRight, Mirrors
      <3>3. \A j \in DOMAIN kernel', t \in DOMAIN tunnels' :
              tunnels'[t].local_tid = j[1] /\ tunnels'[t].peer = kernel'[j].peer =>
                /\ tunnels'[t].local = kernel'[j].local
                /\ tunnels'[t].peer_tid = kernel'[j].peer_tid
        BY <1>1, <2>2, <3>1 DEF MirrorRight
      <3>4. Fallback = NoLocal =>
              /\ \A t \in DOMAIN tunnels' : tunnels'[t].peer # ProcPeer
              /\ \A j \in DOMAIN pass'.want :
                   pass'.want[j].peer = ProcPeer => pass'.want[j].local = NoLocal
        BY <2>2, <3>1 DEF MirrorRight
      <3>5. QED
        BY <1>1, <2>2, <3>1, <3>2, <3>3, <3>4 DEF MirrorRight, AddPhase
    <2>16. QED
      BY <1>2, <2>13, <2>14, <2>15 DEF SyncInv
  <1>5. QED
    BY <1>3, <1>4


\* add_session's call is accepted: the session is new, its tunnel is there.
LEMMA AddSessionFacts ==
  ASSUME BaseInv, AddSession
  PROVE  \E k \in DOMAIN pass.want \ DOMAIN installed, t \in DOMAIN tunnels,
            w \in SwIf \ interfaces :
           /\ k = job.key /\ t = job.tidx /\ k \in SessionKey /\ pass.want[k] \in Want
           /\ tunnels[t].local_tid = k[1] /\ tunnels[t].peer = pass.want[k].peer
           /\ SessionAdd(t, k[2], pass.want[k].peer_sid)
           /\ interfaces' = interfaces \cup {w}
           /\ DOMAIN session_by_key' = DOMAIN session_by_key \cup {k}
           /\ VppSession(k)'.tunnel_index = t /\ VppSession(k)'.sw_if_index = w
           /\ VppSession(k)'.peer_sid = pass.want[k].peer_sid
           /\ \A j \in DOMAIN session_by_key : VppSession(j)' = VppSession(j)
           /\ \A j : SessionsOf(j) # {} => SessionsOf(j)' # {}
           /\ SessionsOf(t)' # {}
           /\ DOMAIN tunnels' = DOMAIN tunnels
           /\ \A j \in DOMAIN tunnels :
                /\ tunnels'[j].peer = tunnels[j].peer
                /\ tunnels'[j].local_tid = tunnels[j].local_tid
                /\ tunnels'[j].local = tunnels[j].local
                /\ tunnels'[j].peer_tid = tunnels[j].peer_tid
           /\ IsJob(job)' /\ job'.key = k /\ job'.tidx = t /\ job'.swif = w
           /\ job'.adds = job.adds /\ job'.dels = job.dels /\ job'.routes = job.routes
  <1>1. /\ pc = "session"
        /\ SessionAdd(job.tidx, job.key[2], pass.want[job.key].peer_sid)
        /\ job' = [job EXCEPT !.swif = reply'.index]
    BY DEF AddSession
  <1>2. PICK k, t, sw, a, d, r :
          job = [key |-> k, tidx |-> t, swif |-> sw, adds |-> a, dels |-> d, routes |-> r]
    BY DEF BaseInv, JobRight, IsJob
  <1>3. /\ k = job.key /\ t = job.tidx /\ a = job.adds /\ d = job.dels /\ r = job.routes
    BY <1>2
  <1>4. /\ k \in DOMAIN pass.want /\ k \notin DOMAIN installed /\ k \in SessionKey
        /\ pass.want[k] \in Want
    BY <1>1, <1>3 DEF BaseInv, JobRight, AtJob, TodoRight, AddPhase, SyncTypes
  <1>5. /\ t \in DOMAIN tunnels /\ tunnels[t].local_tid = k[1]
        /\ tunnels[t].peer = pass.want[k].peer
    BY <1>1, <1>3 DEF BaseInv, CacheRight
  <1>6. PICK ps : ps = pass.want[k].peer_sid
    OBVIOUS
  <1>7. k \notin DOMAIN session_by_key
    BY <1>1, <1>4 DEF BaseInv, RecordsLive
  <1>8. /\ IndexInv /\ t \in DOMAIN tunnels /\ tunnels[t].local_tid = k[1]
        /\ k \in SessionKey /\ k \notin DOMAIN session_by_key /\ SessionAdd(t, k[2], ps)
    BY <1>1, <1>3, <1>4, <1>5, <1>6, <1>7 DEF BaseInv, CountInv
  <1>9. PICK w \in SwIf \ interfaces :
          /\ reply'.index = w
          /\ interfaces' = interfaces \cup {w}
          /\ DOMAIN session_by_key' = DOMAIN session_by_key \cup {k}
          /\ VppSession(k)'.tunnel_index = t /\ VppSession(k)'.sw_if_index = w
          /\ VppSession(k)'.peer_sid = ps
          /\ \A j \in DOMAIN session_by_key : VppSession(j)' = VppSession(j)
          /\ \A j : SessionsOf(j) # {} => SessionsOf(j)' # {}
          /\ SessionsOf(t)' # {}
          /\ DOMAIN tunnels' = DOMAIN tunnels
          /\ \A j \in DOMAIN tunnels :
               /\ tunnels'[j].peer = tunnels[j].peer
               /\ tunnels'[j].local_tid = tunnels[j].local_tid
               /\ tunnels'[j].local = tunnels[j].local
               /\ tunnels'[j].peer_tid = tunnels[j].peer_tid
    BY <1>8, SessionAdded, Zenon
  <1>10. job' = [key |-> k, tidx |-> t, swif |-> w, adds |-> a, dels |-> d, routes |-> r]
    BY <1>1, <1>2, <1>9
  <1>11. /\ IsJob(job)' /\ job'.key = k /\ job'.tidx = t /\ job'.swif = w
         /\ job'.adds = a /\ job'.dels = d /\ job'.routes = r
    BY <1>10 DEF IsJob
  <1>12. QED
    BY <1>3, <1>4, <1>5, <1>6, <1>8, <1>9, <1>11, Zenon

\* add_session puts the session in VPP.
LEMMA AddSessionKeeps ==
  ASSUME SyncInv, AddSession
  PROVE  SyncInv'
  <1>1. /\ pc = "session" /\ pc' = "routes"
        /\ UNCHANGED <<routeVars, kernel, hit, settled, installed, connected, pass>>
    BY DEF AddSession, envVars
  <1>2. KernelOK /\ KernelOK'
    BY <1>1 DEF SyncInv, KernelOK
  <1>3. CASE ~Unbroken'
    BY <1>1, <1>3, BrokenKeeps
  <1>4. CASE Unbroken'
    <2>1. BaseInv
      BY <1>1, <1>4 DEF SyncInv, Unbroken
    <2>2. PICK k \in DOMAIN pass.want \ DOMAIN installed, t \in DOMAIN tunnels,
               w \in SwIf \ interfaces :
            /\ k = job.key /\ t = job.tidx /\ k \in SessionKey /\ pass.want[k] \in Want
            /\ tunnels[t].local_tid = k[1] /\ tunnels[t].peer = pass.want[k].peer
            /\ SessionAdd(t, k[2], pass.want[k].peer_sid)
            /\ interfaces' = interfaces \cup {w}
            /\ DOMAIN session_by_key' = DOMAIN session_by_key \cup {k}
            /\ VppSession(k)'.tunnel_index = t /\ VppSession(k)'.sw_if_index = w
            /\ VppSession(k)'.peer_sid = pass.want[k].peer_sid
            /\ \A j \in DOMAIN session_by_key : VppSession(j)' = VppSession(j)
            /\ \A j : SessionsOf(j) # {} => SessionsOf(j)' # {}
            /\ SessionsOf(t)' # {}
            /\ DOMAIN tunnels' = DOMAIN tunnels
            /\ \A j \in DOMAIN tunnels :
                 /\ tunnels'[j].peer = tunnels[j].peer
                 /\ tunnels'[j].local_tid = tunnels[j].local_tid
                 /\ tunnels'[j].local = tunnels[j].local
                 /\ tunnels'[j].peer_tid = tunnels[j].peer_tid
            /\ IsJob(job)' /\ job'.key = k /\ job'.tidx = t /\ job'.swif = w
            /\ job'.adds = job.adds /\ job'.dels = job.dels /\ job'.routes = job.routes
      BY <2>1, AddSessionFacts, Zenon
    <2>3. CountInv'
      <3>1. CountInv /\ IndexInv
        BY <2>1 DEF BaseInv, CountInv
      <3>2. /\ k[2] \in Sids /\ pass.want[k].peer_sid \in PeerSids
            /\ SessionAdd(t, k[2], pass.want[k].peer_sid)
        BY <2>2 DEF Want, SessionKey
      <3>3. IndexInv'
        BY <3>1, <3>2, SessionAddIndex
      <3>4. TypeOK'
        BY <3>3 DEF IndexInv
      <3>5. SessionCountExact' /\ NoDanglingTunnel'
        BY <3>1, <3>2, <3>4, SessionAddCount
      <3>6. QED
        BY <3>3, <3>5 DEF CountInv
    <2>4. SyncTypes'
      BY <1>1, <2>1 DEF BaseInv, SyncTypes, Running
    <2>5. JobRight'
      BY <1>1, <2>1, <2>2 DEF BaseInv, JobRight, AtJob
    <2>6. DOMAIN session_by_key = DOMAIN installed /\ UNCHANGED fib
      BY <1>1, <2>1 DEF BaseInv, RecordsLive, routeVars
    <2>7. RecordsLive'
      <3>1. PICK key : key = job'.key
        OBVIOUS
      <3>2. key = k
        BY <2>2, <3>1
      <3>3. VppSession(job.key)' = VppSession(key)'
        BY <3>1 DEF VppSession
      <3>4. VppSession(key)' = VppSession(k)'
        BY <3>2
      <3>5. /\ job'.swif = VppSession(job.key)'.sw_if_index
            /\ job'.tidx = VppSession(job.key)'.tunnel_index
        BY <2>2, <3>3, <3>4
      <3>6. DOMAIN session_by_key' = DOMAIN installed' \cup {j \in {job'.key} : pc' = "routes"}
        BY <1>1, <2>2, <2>6
      <3>7. \A j \in DOMAIN installed' :
              /\ installed'[j].sw_if_index = VppSession(j)'.sw_if_index
              /\ installed'[j].tunnel_index = VppSession(j)'.tunnel_index
        BY <1>1, <2>1, <2>2, <2>6 DEF BaseInv, RecordsLive
      <3>8. QED
        BY <3>5, <3>6, <3>7 DEF RecordsLive
    <2>8. PathsExact'
      <3>1. /\ fib \subseteq Prefixes \X interfaces
            /\ \A j \in DOMAIN session_by_key, q \in Prefixes :
                 <<q, VppSession(j).sw_if_index>> \in fib <=> q \in PathsOf(j)
        BY <2>1 DEF BaseInv, PathsExact
      <3>2. \A j \in DOMAIN session_by_key : PathsOf(j)' = PathsOf(j)
        BY <1>1, <2>2, <2>6 DEF PathsOf
      <3>3. PathsOf(k)' = {}
        BY <1>1, <2>1, <2>2 DEF PathsOf, BaseInv, JobRight
      <3>4. \A q : <<q, w>> \notin fib
        BY <2>2, <3>1
      <3>5. fib' \subseteq Prefixes \X interfaces'
        BY <2>2, <2>6, <3>1
      <3>6. \A j \in DOMAIN session_by_key', q \in Prefixes :
              <<q, VppSession(j)'.sw_if_index>> \in fib' <=> q \in PathsOf(j)'
        BY <2>2, <2>6, <3>1, <3>2, <3>3, <3>4
      <3>7. QED
        BY <3>5, <3>6 DEF PathsExact
    <2>9. CacheRight'
      BY <1>1, <2>1, <2>2 DEF BaseInv, CacheRight, AddPhase
    <2>10. TodoRight'
      BY <1>1, <2>1 DEF BaseInv, TodoRight, AddPhase, RemovePhase
    <2>11. EmptiesKnown'
      BY <1>1, <2>1, <2>2 DEF BaseInv, EmptiesKnown, RemovePhase
    <2>12. SettledRight'
      BY <1>1, <2>1, <2>2 DEF BaseInv, SettledRight, AddPhase, RemovePhase
    <2>13. BaseInv'
      BY <2>3, <2>4, <2>5, <2>7, <2>8, <2>9, <2>10, <2>11, <2>12 DEF BaseInv
    <2>14. ASSUME NothingMoved' PROVE RoutesApart'
      <3>1. RoutesApart
        BY <1>1, <2>14, HitGrows DEF SyncInv
      <3>2. QED
        BY <1>1, <2>2, <3>1, QuietApart DEF AtJob
    <2>15. ASSUME (hit \subseteq KernelFaults)' PROVE MirrorRight'
      <3>1. MirrorRight
        BY <1>1, <2>15, HitGrows DEF SyncInv
      <3>2. \A j \in DOMAIN kernel', i \in DOMAIN tunnels' :
              tunnels'[i].local_tid = j[1] /\ tunnels'[i].peer = kernel'[j].peer =>
                /\ tunnels'[i].local = kernel'[j].local
                /\ tunnels'[i].peer_tid = kernel'[j].peer_tid
        BY <1>1, <2>2, <3>1 DEF MirrorRight
      <3>3. \A j \in DOMAIN session_by_key :
              VppSession(j).tunnel_index \in DOMAIN tunnels
        BY <2>1, SessionFacts DEF BaseInv, CountInv, NoDanglingTunnel, VppSession
      <3>4. \A j \in DOMAIN kernel \cap DOMAIN session_by_key : Mirrors(j)'
        BY <1>1, <2>2, <3>1, <3>3 DEF MirrorRight, Mirrors
      <3>5. k \in DOMAIN kernel => Mirrors(k)'
        <4>1. SUFFICES ASSUME k \in DOMAIN kernel PROVE Mirrors(k)'
          OBVIOUS
        <4>2. pass.want[k].peer_sid = kernel[k].peer_sid
          BY <3>1, <4>1 DEF MirrorRight
        <4>3. tunnels[t].peer = kernel[k].peer
          BY <1>1, <2>2, <3>1, <4>1 DEF MirrorRight, AddPhase
        <4>4. tunnels[t].local = kernel[k].local /\ tunnels[t].peer_tid = kernel[k].peer_tid
          BY <2>2, <3>1, <4>1, <4>3 DEF MirrorRight
        <4>5. QED
          BY <1>1, <2>2, <4>2, <4>3, <4>4 DEF Mirrors
      <3>6. \A j \in DOMAIN kernel' \cap DOMAIN session_by_key' : Mirrors(j)'
        BY <1>1, <2>2, <3>4, <3>5
      <3>7. Fallback = NoLocal => \A i \in DOMAIN tunnels' : tunnels'[i].peer # ProcPeer
        BY <2>2, <3>1 DEF MirrorRight
      <3>8. QED
        BY <1>1, <3>1, <3>2, <3>6, <3>7 DEF MirrorRight, AddPhase
    <2>16. QED
      BY <1>2, <2>13, <2>14, <2>15 DEF SyncInv
  <1>5. QED
    BY <1>3, <1>4


\* del_session's call is accepted, through the session's own tunnel and with no
\* path left on it.
LEMMA DelSessionFacts ==
  ASSUME BaseInv, DelSession
  PROVE  \E k \in DOMAIN installed \cap DOMAIN session_by_key, t \in DOMAIN tunnels :
           /\ k = job.key /\ t = job.tidx /\ k \in SessionKey /\ k \in pass.todo
           /\ tunnels[t].local_tid = k[1]
           /\ SessionDel(t, k[2]) /\ OwnTunnel(t, k[2])
           /\ \A p \in Prefixes : <<p, VppSession(k).sw_if_index>> \notin fib
           /\ interfaces' = interfaces \ {VppSession(k).sw_if_index}
           /\ DOMAIN session_by_key' = DOMAIN session_by_key \ {k}
           /\ \A j \in DOMAIN session_by_key \ {k} : VppSession(j)' = VppSession(j)
           /\ DOMAIN tunnels' = DOMAIN tunnels
           /\ \A j \in DOMAIN tunnels :
                /\ tunnels'[j].peer = tunnels[j].peer
                /\ tunnels'[j].local_tid = tunnels[j].local_tid
                /\ tunnels'[j].local = tunnels[j].local
                /\ tunnels'[j].peer_tid = tunnels[j].peer_tid
           /\ IsPass(pass)' /\ pass'.todo = pass.todo \ {k} /\ pass'.want = pass.want
           /\ pass'.cache = pass.cache /\ pass'.resync = pass.resync
           /\ pass'.removed = pass.removed
  <1>1. /\ pc = "unroute" /\ job.dels = {}
        /\ SessionDel(job.tidx, job.key[2])
        /\ pass' = [pass EXCEPT !.todo = @ \ {job.key}]
    BY DEF DelSession
  <1>2. PICK k, t : k = job.key /\ t = job.tidx
    OBVIOUS
  <1>3. k \in DOMAIN installed /\ k \in pass.todo /\ k \in SessionKey
    BY <1>1, <1>2 DEF BaseInv, JobRight, AtJob, SyncTypes
  <1>4. k \in DOMAIN session_by_key /\ t = VppSession(k).tunnel_index
    BY <1>1, <1>2, <1>3 DEF BaseInv, RecordsLive
  <1>5. IndexInv
    BY DEF BaseInv, CountInv
  <1>6. session_by_key[k] \in DOMAIN sessions /\ VppSession(k).local_tid = k[1]
    BY <1>4, <1>5, SessionFacts
  <1>7. t \in DOMAIN tunnels /\ tunnels[t].local_tid = k[1]
    BY <1>4, <1>6 DEF BaseInv, CountInv, NoDanglingTunnel, VppSession
  <1>8. k = <<tunnels[t].local_tid, k[2]>>
    BY <1>3, <1>7 DEF SessionKey
  <1>9. OwnTunnel(t, k[2])
    BY <1>4, <1>8 DEF OwnTunnel, VppSession
  <1>10. SessionDel(t, k[2])
    BY <1>1, <1>2
  <1>11. \A p \in Prefixes : <<p, VppSession(k).sw_if_index>> \notin fib
    BY <1>1, <1>2, <1>4 DEF BaseInv, PathsExact, PathsOf
  <1>12. /\ interfaces' = interfaces \ {VppSession(k).sw_if_index}
         /\ DOMAIN session_by_key' = DOMAIN session_by_key \ {k}
         /\ \A j \in DOMAIN session_by_key \ {k} : VppSession(j)' = VppSession(j)
         /\ DOMAIN tunnels' = DOMAIN tunnels
         /\ \A j \in DOMAIN tunnels :
              /\ tunnels'[j].peer = tunnels[j].peer
              /\ tunnels'[j].local_tid = tunnels[j].local_tid
              /\ tunnels'[j].local = tunnels[j].local
              /\ tunnels'[j].peer_tid = tunnels[j].peer_tid
    BY <1>4, <1>5, <1>7, <1>10, SessionDeleted, Zenon
  <1>13. PICK x : x = pass.todo \ {k}
    OBVIOUS
  <1>14. pass' = [pass EXCEPT !.todo = x] /\ IsPass(pass)
    BY <1>1, <1>2, <1>13 DEF BaseInv, SyncTypes
  <1>15. IsPass(pass)' /\ pass'.todo = x /\ pass'.want = pass.want
         /\ pass'.cache = pass.cache /\ pass'.resync = pass.resync /\ pass'.removed = pass.removed
    BY <1>14, PassTodoSet, Zenon
  <1>16. QED
    BY <1>2, <1>3, <1>4, <1>7, <1>9, <1>10, <1>11, <1>12, <1>13, <1>15, Zenon

\* del_session removes the session and its record.
LEMMA DelSessionKeeps ==
  ASSUME SyncInv, DelSession
  PROVE  SyncInv'
  <1>1. /\ pc = "unroute" /\ pc' = "removing" /\ job' = NoJob
        /\ installed' = Drop(installed, job.key)
        /\ UNCHANGED <<routeVars, kernel, hit, settled, connected>>
    BY DEF DelSession, envVars
  <1>2. KernelOK /\ KernelOK'
    BY <1>1 DEF SyncInv, KernelOK
  <1>3. CASE ~Unbroken'
    BY <1>1, <1>3, BrokenKeeps
  <1>4. CASE Unbroken'
    <2>1. BaseInv
      BY <1>1, <1>4 DEF SyncInv, Unbroken
    <2>2. PICK k \in DOMAIN installed \cap DOMAIN session_by_key, t \in DOMAIN tunnels :
            /\ k = job.key /\ t = job.tidx /\ k \in SessionKey /\ k \in pass.todo
            /\ tunnels[t].local_tid = k[1]
            /\ SessionDel(t, k[2]) /\ OwnTunnel(t, k[2])
            /\ \A p \in Prefixes : <<p, VppSession(k).sw_if_index>> \notin fib
            /\ interfaces' = interfaces \ {VppSession(k).sw_if_index}
            /\ DOMAIN session_by_key' = DOMAIN session_by_key \ {k}
            /\ \A j \in DOMAIN session_by_key \ {k} : VppSession(j)' = VppSession(j)
            /\ DOMAIN tunnels' = DOMAIN tunnels
            /\ \A j \in DOMAIN tunnels :
                 /\ tunnels'[j].peer = tunnels[j].peer
                 /\ tunnels'[j].local_tid = tunnels[j].local_tid
                 /\ tunnels'[j].local = tunnels[j].local
                 /\ tunnels'[j].peer_tid = tunnels[j].peer_tid
            /\ IsPass(pass)' /\ pass'.todo = pass.todo \ {k} /\ pass'.want = pass.want
            /\ pass'.cache = pass.cache /\ pass'.resync = pass.resync
            /\ pass'.removed = pass.removed
      BY <2>1, DelSessionFacts, Zenon
    <2>3. /\ DOMAIN installed' = DOMAIN installed \ {k}
          /\ \A j \in DOMAIN installed' : installed'[j] = installed[j]
      BY <1>1, <2>2 DEF Drop
    <2>4. CountInv'
      <3>1. CountInv /\ IndexInv
        BY <2>1 DEF BaseInv, CountInv
      <3>2. k[2] \in Sids /\ SessionDel(t, k[2]) /\ OwnTunnel(t, k[2])
        BY <2>2 DEF SessionKey
      <3>3. IndexInv'
        BY <3>1, <3>2, SessionDelIndex
      <3>4. SessionCountExact' /\ NoDanglingTunnel'
        BY <3>1, <3>2, SessionDelCount
      <3>5. QED
        BY <3>3, <3>4 DEF CountInv
    <2>5. SyncTypes'
      BY <1>1, <2>1, <2>2, <2>3 DEF BaseInv, SyncTypes, Running
    <2>6. JobRight'
      BY <1>1 DEF JobRight, AtJob, NoJob, IsJob
    <2>7. DOMAIN session_by_key = DOMAIN installed /\ UNCHANGED fib
      BY <1>1, <2>1 DEF BaseInv, RecordsLive, routeVars
    <2>8. RecordsLive'
      <3>1. DOMAIN session_by_key' = DOMAIN installed' \cup {j \in {job'.key} : pc' = "routes"}
        BY <1>1, <2>2, <2>3, <2>7
      <3>2. \A j \in DOMAIN installed' :
              /\ installed'[j].sw_if_index = VppSession(j)'.sw_if_index
              /\ installed'[j].tunnel_index = VppSession(j)'.tunnel_index
        BY <2>1, <2>2, <2>3, <2>7 DEF BaseInv, RecordsLive
      <3>3. QED
        BY <1>1, <3>1, <3>2 DEF RecordsLive
    <2>9. PathsExact'
      <3>1. /\ fib \subseteq Prefixes \X interfaces
            /\ \A j \in DOMAIN session_by_key, q \in Prefixes :
                 <<q, VppSession(j).sw_if_index>> \in fib <=> q \in PathsOf(j)
        BY <2>1 DEF BaseInv, PathsExact
      <3>2. \A j \in DOMAIN installed' : PathsOf(j)' = PathsOf(j)
        BY <1>1, <2>2, <2>3 DEF PathsOf
      <3>3. fib' \subseteq Prefixes \X interfaces'
        BY <2>2, <2>7, <3>1
      <3>4. \A j \in DOMAIN session_by_key', q \in Prefixes :
              <<q, VppSession(j)'.sw_if_index>> \in fib' <=> q \in PathsOf(j)'
        BY <2>2, <2>3, <2>7, <3>1, <3>2
      <3>5. QED
        BY <3>3, <3>4 DEF PathsExact
    <2>10. CacheRight'
      BY <1>1 DEF CacheRight, AddPhase
    <2>11. TodoRight'
      BY <1>1, <2>1, <2>2, <2>3 DEF BaseInv, TodoRight, AddPhase, RemovePhase
    <2>12. pass.removed
      BY <1>1, <2>1, <2>2 DEF BaseInv, TodoRight, RemovePhase
    <2>13. EmptiesKnown'
      BY <1>1, <2>2, <2>12 DEF EmptiesKnown, RemovePhase
    <2>14. SettledRight'
      <3>1. k \notin DOMAIN pass.want
        BY <1>1, <2>1, <2>2 DEF BaseInv, TodoRight, RemovePhase
      <3>2. DOMAIN pass.want \subseteq DOMAIN installed
        BY <1>1, <2>1 DEF BaseInv, TodoRight, RemovePhase
      <3>3. settled \notin {"keys", "routes"}
        BY <1>1, <2>1 DEF BaseInv, SettledRight
      <3>4. settled = "pass" =>
              /\ DOMAIN pass.want = DOMAIN kernel
              /\ \A j \in DOMAIN kernel : pass.want[j].ifname = kernel[j].ifname
              /\ pass.resync => \A j \in DOMAIN kernel : installed[j].routes = kernel[j].routes
        BY <1>1, <2>1 DEF BaseInv, SettledRight, RemovePhase
      <3>5. settled = "pass" /\ pass.resync =>
              \A j \in DOMAIN kernel : installed'[j].routes = kernel[j].routes
        BY <2>3, <3>1, <3>2, <3>4
      <3>6. QED
        BY <1>1, <2>2, <3>3, <3>4, <3>5 DEF SettledRight, AddPhase
    <2>15. BaseInv'
      BY <2>4, <2>5, <2>6, <2>8, <2>9, <2>10, <2>11, <2>13, <2>14 DEF BaseInv
    <2>16. ASSUME NothingMoved' PROVE RoutesApart'
      <3>1. RoutesApart
        BY <1>1, <2>16, HitGrows DEF SyncInv
      <3>2. job'.routes = {}
        BY <1>1 DEF NoJob
      <3>3. \A j : RoutesElsewhere(j)' \subseteq RoutesElsewhere(j)
        BY <2>3, <3>2 DEF RoutesElsewhere
      <3>4. \A j \in DOMAIN kernel' : kernel'[j].routes \cap RoutesElsewhere(j)' = {}
        BY <1>1, <3>1, <3>3 DEF RoutesApart
      <3>5. QED
        BY <1>1, <2>2, <2>3, <3>1, <3>4 DEF RoutesApart, AtJob
    <2>17. ASSUME (hit \subseteq KernelFaults)' PROVE MirrorRight'
      <3>1. MirrorRight
        BY <1>1, <2>17, HitGrows DEF SyncInv
      <3>2. \A j \in DOMAIN kernel', i \in DOMAIN tunnels' :
              tunnels'[i].local_tid = j[1] /\ tunnels'[i].peer = kernel'[j].peer =>
                /\ tunnels'[i].local = kernel'[j].local
                /\ tunnels'[i].peer_tid = kernel'[j].peer_tid
        BY <1>1, <2>2, <3>1 DEF MirrorRight
      <3>3. \A j \in DOMAIN kernel' \cap DOMAIN session_by_key' : Mirrors(j)'
        BY <1>1, <2>2, <3>1 DEF MirrorRight, Mirrors
      <3>4. Fallback = NoLocal => \A i \in DOMAIN tunnels' : tunnels'[i].peer # ProcPeer
        BY <2>2, <3>1 DEF MirrorRight
      <3>5. QED
        BY <1>1, <2>2, <3>1, <3>2, <3>3, <3>4 DEF MirrorRight, AddPhase
    <2>18. QED
      BY <1>2, <2>15, <2>16, <2>17 DEF SyncInv
  <1>5. QED
    BY <1>3, <1>4

\* The two dumps of prune_tunnels find the tunnels without sessions.
LEMMA UnusedRight ==
  ASSUME IndexInv
  PROVE  /\ \A i \in DOMAIN tunnels :
              SessionsOf(i) = {} => <<tunnels[i].peer, tunnels[i].local_tid>> \in UnusedTunnels
         /\ \A tk \in UnusedTunnels : \E i \in DOMAIN tunnels :
              tk = <<tunnels[i].peer, tunnels[i].local_tid>> /\ SessionsOf(i) = {}
  <1>1. SessionDump(NoIndex) = DOMAIN sessions
    BY DEF SessionDump
  <1>2. \A tk : tk \in UnusedTunnels
                  <=> tk \in DOMAIN VppTunnels /\ SessionsOf(VppTunnels[tk]) = {}
    BY <1>1 DEF UnusedTunnels, SessionsOf
  <1>3. QED
    BY <1>2, DumpRight

\* prune_tunnels begins.
LEMMA BeginPruneKeeps ==
  ASSUME SyncInv, BeginPrune
  PROVE  SyncInv'
  <1>1. /\ pc = "removing" /\ pc' = "prune" /\ pass.todo = {}
        /\ UNCHANGED <<rvars, kernel, hit, installed, connected, job, settled>>
    BY DEF BeginPrune, envVars
  <1>2. PICK x : x = UnusedTunnels /\ pass' = [pass EXCEPT !.todo = x]
    BY DEF BeginPrune
  <1>3. UNCHANGED <<tunnels, sessions, session_by_key, interfaces, fib>>
    BY <1>1 DEF rvars, vars, objVars, routeVars
  <1>4. KernelOK'
    BY <1>1 DEF SyncInv, KernelOK
  <1>5. ASSUME Unbroken'
        PROVE  /\ BaseInv /\ job = NoJob /\ IsPass(pass)' /\ pass'.todo = x
               /\ pass'.want = pass.want /\ pass'.resync = pass.resync
               /\ pass'.removed = pass.removed
    <2>1. BaseInv
      BY <1>1, <1>5 DEF SyncInv, Unbroken
    <2>2. IsPass(pass) /\ job = NoJob
      BY <1>1, <2>1 DEF BaseInv, SyncTypes, JobRight, AtJob
    <2>3. IsPass(pass)' /\ pass'.todo = x /\ pass'.want = pass.want
           /\ pass'.resync = pass.resync /\ pass'.removed = pass.removed
      BY <1>2, <2>2, PassTodoSet, Zenon
    <2>4. QED
      BY <2>1, <2>2, <2>3
  <1>6. ASSUME Unbroken' PROVE BaseInv'
    <2>1. BaseInv
      BY <1>5, <1>6
    <2>2. CountInv' /\ RecordsLive' /\ PathsExact'
      BY <1>1, <2>1, QuietRecords
    <2>3. SyncTypes'
      BY <1>1, <1>5, <1>6 DEF BaseInv, SyncTypes, Running
    <2>4. JobRight' /\ CacheRight'
      BY <1>1, <2>1 DEF BaseInv, JobRight, CacheRight, AtJob, AddPhase
    <2>5. TodoRight'
      BY <1>1, <1>5, <1>6 DEF BaseInv, TodoRight, AddPhase, RemovePhase
    <2>6. EmptiesKnown'
      <3>1. /\ \A i \in DOMAIN tunnels : SessionsOf(i) = {} =>
                 <<tunnels[i].peer, tunnels[i].local_tid>> \in x
            /\ \A tk \in x : \E i \in DOMAIN tunnels :
                 tk = <<tunnels[i].peer, tunnels[i].local_tid>> /\ SessionsOf(i) = {}
        BY <1>2, <2>1, UnusedRight DEF BaseInv, CountInv
      <3>2. \A i : SessionsOf(i)' = SessionsOf(i)
        BY <1>3 DEF SessionsOf
      <3>3. pass'.todo = x
        BY <1>5, <1>6
      <3>4. QED
        BY <1>1, <1>3, <3>1, <3>2, <3>3 DEF EmptiesKnown
    <2>7. SettledRight'
      BY <1>1, <1>5, <1>6 DEF BaseInv, SettledRight, AddPhase, RemovePhase
    <2>8. QED
      BY <2>2, <2>3, <2>4, <2>5, <2>6, <2>7 DEF BaseInv
  <1>7. ASSUME NothingMoved' PROVE RoutesApart'
    <2>1. Unbroken' /\ RoutesApart
      BY <1>1, <1>7, HitGrows DEF SyncInv
    <2>2. job' = NoJob /\ pass'.want = pass.want
      BY <1>1, <1>5, <2>1
    <2>3. QED
      BY <1>1, <2>1, <2>2, QuietApart
  <1>8. ASSUME (hit \subseteq KernelFaults)' PROVE MirrorRight'
    <2>1. Unbroken' /\ MirrorRight
      BY <1>1, <1>8, HitGrows DEF SyncInv
    <2>2. pass'.want = pass.want
      BY <1>5, <2>1
    <2>3. QED
      BY <1>1, <1>3, <2>1, <2>2, QuietMirror DEF AddPhase
  <1>9. QED
    BY <1>4, <1>6, <1>7, <1>8 DEF SyncInv


\* A call of prune_tunnels finds a tunnel without sessions, and deletes it.
LEMMA PruneTunnelFacts ==
  ASSUME AllIp4, BaseInv, NEW tk \in Peers \X Tids, PruneTunnel(tk)
  PROVE  \E i \in DOMAIN tunnels :
           /\ tk = <<tunnels[i].peer, tunnels[i].local_tid>> /\ SessionsOf(i) = {}
           /\ TunnelDel(Fallback, tk[1], tk[2])
           /\ DOMAIN tunnels' = DOMAIN tunnels \ {i}
           /\ \A j \in DOMAIN tunnels \ {i} : tunnels'[j] = tunnels[j]
           /\ UNCHANGED <<sessions, session_by_key, interfaces>>
           /\ IsPass(pass)' /\ pass'.todo = pass.todo \ {tk} /\ pass'.want = pass.want
           /\ pass'.cache = pass.cache /\ pass'.resync = pass.resync
           /\ pass'.removed = pass.removed
  <1>1. /\ pc = "prune" /\ tk \in pass.todo /\ TunnelDel(Fallback, tk[1], tk[2])
        /\ pass' = [pass EXCEPT !.todo = @ \ {tk}]
    BY DEF PruneTunnel
  <1>2. PICK i \in DOMAIN tunnels :
          tk = <<tunnels[i].peer, tunnels[i].local_tid>> /\ SessionsOf(i) = {}
    BY <1>1 DEF BaseInv, EmptiesKnown
  <1>3. Fallback \in Ip4 /\ tk[1] \in Ip4
    BY SyncdAssumption DEF AllIp4
  <1>4. tunnels[i].peer = tk[1] /\ tunnels[i].local_tid = tk[2] /\ CountInv
    BY <1>2 DEF BaseInv
  <1>5. /\ DOMAIN tunnels' = DOMAIN tunnels \ {i}
        /\ \A j \in DOMAIN tunnels \ {i} : tunnels'[j] = tunnels[j]
        /\ UNCHANGED <<sessions, session_by_key, interfaces>>
    BY <1>1, <1>2, <1>3, <1>4, TunnelDeleted
  <1>6. PICK x : x = pass.todo \ {tk}
    OBVIOUS
  <1>7. pass' = [pass EXCEPT !.todo = x] /\ IsPass(pass)
    BY <1>1, <1>6 DEF BaseInv, SyncTypes
  <1>8. IsPass(pass)' /\ pass'.todo = x /\ pass'.want = pass.want
         /\ pass'.cache = pass.cache /\ pass'.resync = pass.resync /\ pass'.removed = pass.removed
    BY <1>7, PassTodoSet, Zenon
  <1>9. QED
    BY <1>1, <1>2, <1>5, <1>6, <1>8, Zenon

\* prune_tunnels deletes a tunnel.
LEMMA PruneTunnelKeeps ==
  ASSUME AllIp4, SyncInv, NEW tk \in Peers \X Tids, PruneTunnel(tk)
  PROVE  SyncInv'
  <1>1. /\ pc = "prune" /\ tk \in pass.todo
        /\ UNCHANGED <<routeVars, kernel, hit, settled, pc, installed, connected, job>>
    BY DEF PruneTunnel, envVars
  <1>2. KernelOK /\ KernelOK'
    BY <1>1 DEF SyncInv, KernelOK
  <1>3. CASE ~Unbroken'
    BY <1>1, <1>3, BrokenKeeps
  <1>4. CASE Unbroken'
    <2>1. BaseInv
      BY <1>1, <1>4 DEF SyncInv, Unbroken
    <2>2. PICK i \in DOMAIN tunnels :
            /\ tk = <<tunnels[i].peer, tunnels[i].local_tid>> /\ SessionsOf(i) = {}
            /\ TunnelDel(Fallback, tk[1], tk[2])
            /\ DOMAIN tunnels' = DOMAIN tunnels \ {i}
            /\ \A j \in DOMAIN tunnels \ {i} : tunnels'[j] = tunnels[j]
            /\ UNCHANGED <<sessions, session_by_key, interfaces>>
            /\ IsPass(pass)' /\ pass'.todo = pass.todo \ {tk} /\ pass'.want = pass.want
            /\ pass'.cache = pass.cache /\ pass'.resync = pass.resync
            /\ pass'.removed = pass.removed
      BY <2>1, PruneTunnelFacts, Zenon
    <2>3. CountInv'
      <3>1. CountInv /\ IndexInv
        BY <2>1 DEF BaseInv, CountInv
      <3>2. tk[1] \in Peers /\ tk[2] \in Tids /\ TunnelDel(Fallback, tk[1], tk[2])
        BY <2>2
      <3>3. IndexInv'
        BY <3>1, <3>2, TunnelDelIndex
      <3>4. SessionCountExact' /\ NoDanglingTunnel'
        BY <3>1, <3>2, TunnelDelCount
      <3>5. QED
        BY <3>3, <3>4 DEF CountInv
    <2>4. SyncTypes'
      BY <1>1, <2>1, <2>2 DEF BaseInv, SyncTypes
    <2>5. job = NoJob
      BY <1>1, <2>1 DEF BaseInv, JobRight, AtJob
    <2>6. JobRight'
      BY <1>1, <2>5 DEF JobRight, AtJob, NoJob, IsJob
    <2>7. UNCHANGED fib /\ \A j : VppSession(j)' = VppSession(j) /\ SessionsOf(j)' = SessionsOf(j)
      BY <1>1, <2>2 DEF VppSession, SessionsOf, routeVars
    <2>8. RecordsLive'
      BY <1>1, <2>1, <2>2, <2>7 DEF BaseInv, RecordsLive
    <2>9. PathsExact'
      <3>1. \A j : PathsOf(j)' = PathsOf(j)
        BY <1>1 DEF PathsOf
      <3>2. QED
        BY <2>1, <2>2, <2>7, <3>1 DEF BaseInv, PathsExact
    <2>10. CacheRight' /\ TodoRight'
      BY <1>1, <2>1, <2>2 DEF BaseInv, CacheRight, TodoRight, AddPhase, RemovePhase
    <2>11. EmptiesKnown'
      <3>1. \A j \in DOMAIN tunnels' :
              /\ j \in DOMAIN tunnels \ {i} /\ tunnels'[j] = tunnels[j]
              /\ <<tunnels[j].peer, tunnels[j].local_tid>> # tk
        BY <2>1, <2>2 DEF BaseInv, CountInv, IndexInv, TunnelsIdentified
      <3>2. \A j \in DOMAIN tunnels :
              SessionsOf(j) # {} \/ <<tunnels[j].peer, tunnels[j].local_tid>> \in pass.todo
        BY <1>1, <2>1 DEF BaseInv, EmptiesKnown, RemovePhase
      <3>3. \A j \in DOMAIN tunnels' :
              SessionsOf(j)' # {}
                \/ <<tunnels'[j].peer, tunnels'[j].local_tid>> \in pass'.todo
        BY <2>2, <2>7, <3>1, <3>2
      <3>4. \A x \in pass'.todo : \E j \in DOMAIN tunnels' :
              x = <<tunnels'[j].peer, tunnels'[j].local_tid>> /\ SessionsOf(j)' = {}
        <4>1. \A x \in pass.todo : \E j \in DOMAIN tunnels :
                x = <<tunnels[j].peer, tunnels[j].local_tid>> /\ SessionsOf(j) = {}
          BY <1>1, <2>1 DEF BaseInv, EmptiesKnown
        <4>2. QED
          BY <2>2, <2>7, <4>1
      <3>5. QED
        BY <1>1, <3>3, <3>4 DEF EmptiesKnown
    <2>12. SettledRight'
      BY <1>1, <2>1, <2>2 DEF BaseInv, SettledRight, AddPhase, RemovePhase
    <2>13. BaseInv'
      BY <2>3, <2>4, <2>6, <2>8, <2>9, <2>10, <2>11, <2>12 DEF BaseInv
    <2>14. ASSUME NothingMoved' PROVE RoutesApart'
      <3>1. RoutesApart
        BY <1>1, <2>14, HitGrows DEF SyncInv
      <3>2. QED
        BY <1>1, <2>2, <2>5, <3>1, QuietApart
    <2>15. ASSUME (hit \subseteq KernelFaults)' PROVE MirrorRight'
      <3>1. MirrorRight
        BY <1>1, <2>15, HitGrows DEF SyncInv
      <3>2. \A j \in DOMAIN session_by_key :
              VppSession(j).tunnel_index \in DOMAIN tunnels \ {i}
        <4>1. ASSUME NEW j \in DOMAIN session_by_key
              PROVE  VppSession(j).tunnel_index \in DOMAIN tunnels \ {i}
          <5>1. session_by_key[j] \in DOMAIN sessions
            BY <2>1, SessionFacts DEF BaseInv, CountInv
          <5>2. VppSession(j).tunnel_index \in DOMAIN tunnels
            BY <2>1, <5>1 DEF BaseInv, CountInv, NoDanglingTunnel, VppSession
          <5>3. VppSession(j).tunnel_index # i
            BY <2>2, <5>1 DEF SessionsOf, VppSession
          <5>4. QED
            BY <5>2, <5>3
        <4>2. QED
          BY <4>1
      <3>3. \A j \in DOMAIN kernel' \cap DOMAIN session_by_key' : Mirrors(j)'
        BY <1>1, <2>2, <2>7, <3>1, <3>2 DEF MirrorRight, Mirrors
      <3>4. \A j \in DOMAIN kernel', t \in DOMAIN tunnels' :
              tunnels'[t].local_tid = j[1] /\ tunnels'[t].peer = kernel'[j].peer =>
                /\ tunnels'[t].local = kernel'[j].local
                /\ tunnels'[t].peer_tid = kernel'[j].peer_tid
        BY <1>1, <2>2, <3>1 DEF MirrorRight
      <3>5. Fallback = NoLocal => \A t \in DOMAIN tunnels' : tunnels'[t].peer # ProcPeer
        BY <2>2, <3>1 DEF MirrorRight
      <3>6. QED
        BY <1>1, <2>2, <3>1, <3>3, <3>4, <3>5 DEF MirrorRight, AddPhase
    <2>16. QED
      BY <1>2, <2>13, <2>14, <2>15 DEF SyncInv
  <1>5. QED
    BY <1>3, <1>4

\* A step that changes nothing keeps it.
LEMMA StutterKeeps ==
  ASSUME SyncInv, UNCHANGED syncVars
  PROVE  SyncInv'
  <1>1. /\ UNCHANGED <<tunnels, sessions, session_by_key, interfaces, fib>>
        /\ UNCHANGED <<kernel, hit, pc, installed, connected, pass, job, settled>>
        /\ UNCHANGED vars
    BY DEF syncVars, envVars, rvars, vars, objVars, routeVars
  <1>2. KernelOK'
    BY <1>1 DEF SyncInv, KernelOK
  <1>3. ASSUME Unbroken' PROVE BaseInv'
    <2>1. BaseInv
      BY <1>1, <1>3 DEF SyncInv, Unbroken
    <2>2. CountInv'
      BY <1>1, <2>1, OwnNextCount DEF BaseInv
    <2>3. SyncTypes' /\ JobRight'
      BY <1>1, <2>1 DEF BaseInv, SyncTypes, JobRight
    <2>4. RecordsLive' /\ PathsExact'
      BY <1>1, <2>1 DEF BaseInv, RecordsLive, PathsExact, PathsOf, VppSession
    <2>5. CacheRight' /\ TodoRight'
      BY <1>1, <2>1 DEF BaseInv, CacheRight, TodoRight
    <2>6. EmptiesKnown' /\ SettledRight'
      BY <1>1, <2>1 DEF BaseInv, EmptiesKnown, SettledRight, SessionsOf
    <2>7. QED
      BY <2>2, <2>3, <2>4, <2>5, <2>6 DEF BaseInv
  <1>4. NothingMoved' => RoutesApart'
    BY <1>1 DEF SyncInv, NothingMoved, RoutesApart, RoutesElsewhere
  <1>5. ASSUME (hit \subseteq KernelFaults)' PROVE MirrorRight'
    <2>1. MirrorRight
      BY <1>1, <1>5, HitGrows DEF SyncInv
    <2>2. QED
      BY <1>1, <2>1 DEF MirrorRight, Mirrors, VppSession
  <1>6. QED
    BY <1>2, <1>3, <1>4, <1>5 DEF SyncInv

\* Every step keeps the invariant.
LEMMA SyncNextKeeps == AllIp4 /\ SyncInv /\ [SNext]_syncVars => SyncInv'
  <1>1. SUFFICES ASSUME AllIp4, SyncInv, [SNext]_syncVars PROVE SyncInv'
    OBVIOUS
  <1>2. CASE StartPass
    BY <1>1, <1>2, StartPassKeeps
  <1>3. CASE ReadTunnels
    BY <1>1, <1>3, ReadTunnelsKeeps
  <1>4. ASSUME NEW k \in SessionKey, BeginAdd(k) PROVE SyncInv'
    BY <1>1, <1>4, BeginAddKeeps
  <1>5. ASSUME NEW k \in SessionKey, BeginSync(k) PROVE SyncInv'
    BY <1>1, <1>5, BeginSyncKeeps
  <1>6. ASSUME NEW k \in SessionKey, BeginDel(k) PROVE SyncInv'
    BY <1>1, <1>6, BeginDelKeeps
  <1>7. CASE AddTunnel
    BY <1>1, <1>7, AddTunnelKeeps
  <1>8. CASE AddSession
    BY <1>1, <1>8, AddSessionKeeps
  <1>9. CASE CallRoute
    BY <1>1, <1>9, CallRouteKeeps
  <1>10. CASE RecordSession
    BY <1>1, <1>10, RecordSessionKeeps
  <1>11. CASE BeginRemovals
    BY <1>1, <1>11, BeginRemovalsKeeps
  <1>12. CASE DelSession
    BY <1>1, <1>12, DelSessionKeeps
  <1>13. CASE BeginPrune
    BY <1>1, <1>13, BeginPruneKeeps
  <1>14. ASSUME NEW tk \in Peers \X Tids, PruneTunnel(tk) PROVE SyncInv'
    BY <1>1, <1>14, PruneTunnelKeeps
  <1>15. CASE SaveState
    BY <1>1, <1>15, SaveStateKeeps
  <1>16. CASE VppRestart \/ Crash \/ Restart \/ CallRaises
    BY <1>1, <1>16, BreaksKeep
  <1>17. ASSUME NEW k \in SessionKey, NEW s \in KSession, KernelUp(k, s) PROVE SyncInv'
    BY <1>1, <1>17, KernelUpKeeps
  <1>18. ASSUME NEW k \in DOMAIN kernel, KernelDown(k) PROVE SyncInv'
    BY <1>1, <1>18, KernelDownKeeps
  <1>19. ASSUME NEW k \in DOMAIN kernel, NEW r \in SUBSET Prefixes, KernelRoutes(k, r)
         PROVE  SyncInv'
    BY <1>1, <1>19, KernelRoutesKeeps
  <1>20. CASE UNCHANGED syncVars
    BY <1>1, <1>20, StutterKeeps
  <1>21. CASE SNext
    BY <1>2, <1>3, <1>4, <1>5, <1>6, <1>7, <1>8, <1>9, <1>10, <1>11, <1>12, <1>13, <1>14,
       <1>15, <1>16, <1>17, <1>18, <1>19, <1>21 DEF SNext, DaemonStep, EnvStep
  <1>22. QED
    BY <1>1, <1>20, <1>21

\* What holds between the kernel, the daemon's records and VPP at every step of
\* every pass, from the first one on.
THEOREM SyncInvariant ==
  ASSUME AllIp4
  PROVE  SSpec => []SyncInv
  <1>1. SyncInv /\ [SNext]_syncVars => SyncInv'
    BY SyncNextKeeps
  <1>2. QED
    BY <1>1, InitSync, PTL DEF SSpec


-----------------------------------------------------------------------------
(* What a pass achieves *)

\* The record the daemon tears down from names live objects and their routes.
THEOREM RecordsAlwaysAccurate ==
  ASSUME AllIp4
  PROVE  SSpec => []RecordsAccurate
  <1>1. SyncInv => RecordsAccurate
    <2>1. SUFFICES ASSUME SyncInv, Unbroken, NEW k \in DOMAIN installed, job.key # k
                   PROVE  /\ k \in DOMAIN session_by_key
                          /\ VppSession(k).sw_if_index = installed[k].sw_if_index
                          /\ VppSession(k).tunnel_index = installed[k].tunnel_index
                          /\ {p \in Prefixes : <<p, installed[k].sw_if_index>> \in fib}
                               = installed[k].routes
      BY DEF RecordsAccurate
    <2>2. BaseInv
      BY <2>1 DEF SyncInv
    <2>3. /\ k \in DOMAIN session_by_key
          /\ VppSession(k).sw_if_index = installed[k].sw_if_index
          /\ VppSession(k).tunnel_index = installed[k].tunnel_index
      BY <2>1, <2>2 DEF BaseInv, RecordsLive
    <2>4. \A p \in Prefixes : <<p, VppSession(k).sw_if_index>> \in fib
                                <=> p \in installed[k].routes
      BY <2>1, <2>2, <2>3 DEF BaseInv, PathsExact, PathsOf
    <2>5. installed[k].routes \subseteq Prefixes
      BY <2>2 DEF BaseInv, SyncTypes
    <2>6. QED
      BY <2>3, <2>4, <2>5
  <1>2. QED
    BY <1>1, SyncInvariant, PTL

\* When a pass is over every tunnel has a session.
THEOREM NoTunnelLeft ==
  ASSUME AllIp4
  PROVE  SSpec => []NoEmptyTunnels
  <1>1. SyncInv => NoEmptyTunnels
    BY DEF SyncInv, BaseInv, SettledRight, EmptiesKnown, RemovePhase, NoEmptyTunnels
  <1>2. QED
    BY <1>1, SyncInvariant, PTL

\* A pass over an unchanged kernel leaves VPP with exactly the kernel's sessions.
THEOREM PassMirrors ==
  ASSUME AllIp4
  PROVE  SSpec => []PassMirrorsSessions
  <1>1. SyncInv => PassMirrorsSessions
    <2>1. SUFFICES ASSUME SyncInv, hit \subseteq KernelFaults, settled \in {"keys", "routes"}
                   PROVE  SessionsMirrored
      BY DEF PassMirrorsSessions
    <2>2. BaseInv /\ MirrorRight
      BY <2>1 DEF SyncInv, Unbroken, KernelFaults, FaultIf
    <2>3. DOMAIN session_by_key = DOMAIN kernel
      BY <2>1, <2>2 DEF BaseInv, SettledRight, RecordsLive
    <2>4. QED
      BY <2>2, <2>3 DEF MirrorRight, SessionsMirrored
  <1>2. QED
    BY <1>1, SyncInvariant, PTL

\* A pass that re-checks routes leaves VPP with exactly the kernel's prefixes.
THEOREM PassRoutes ==
  ASSUME AllIp4
  PROVE  SSpec => []PassMirrorsRoutes
  <1>1. SyncInv => PassMirrorsRoutes
    <2>1. SUFFICES ASSUME SyncInv, hit \subseteq KernelFaults, settled = "routes"
                   PROVE  RoutesMirrored
      BY DEF PassMirrorsRoutes
    <2>2. BaseInv /\ IndexInv
      BY <2>1 DEF SyncInv, Unbroken, KernelFaults, FaultIf, BaseInv, CountInv
    <2>3. /\ pc = "idle" /\ DOMAIN session_by_key = DOMAIN kernel
          /\ DOMAIN installed = DOMAIN kernel
          /\ \A k \in DOMAIN kernel : installed[k].routes = kernel[k].routes
      BY <2>1, <2>2 DEF BaseInv, SettledRight, RecordsLive
    <2>4. /\ fib \subseteq Prefixes \X interfaces
          /\ \A k \in DOMAIN kernel, p \in Prefixes :
               <<p, VppSession(k).sw_if_index>> \in fib <=> p \in kernel[k].routes
      BY <2>2, <2>3 DEF BaseInv, PathsExact, PathsOf
    <2>5. \A k \in DOMAIN kernel : kernel[k].routes \subseteq Prefixes
      BY <2>1 DEF SyncInv, KernelOK, KSession
    <2>6. ASSUME NEW w \in interfaces
          PROVE  \E k \in DOMAIN kernel : VppSession(k).sw_if_index = w
      <3>1. PICK i \in DOMAIN sessions : sessions[i].sw_if_index = w
        BY <2>2 DEF IndexInv, SwIfIndexAgrees
      <3>2. PICK k \in DOMAIN session_by_key : session_by_key[k] = i
        BY <2>2, SessionKeyed
      <3>3. QED
        BY <2>3, <3>1, <3>2 DEF VppSession
    <2> DEFINE Paths(k) == {<<p, VppSession(k).sw_if_index>> : p \in kernel[k].routes}
    <2>7. ASSUME NEW x \in fib PROVE \E k \in DOMAIN kernel : x \in Paths(k)
      <3>1. PICK p \in Prefixes, w \in interfaces : x = <<p, w>>
        BY <2>4, <2>7
      <3>2. PICK k \in DOMAIN kernel : VppSession(k).sw_if_index = w
        BY <2>6
      <3>3. p \in kernel[k].routes
        BY <2>4, <3>1, <3>2
      <3>4. QED
        BY <3>1, <3>2, <3>3
    <2>8. ASSUME NEW k \in DOMAIN kernel, NEW x \in Paths(k) PROVE x \in fib
      BY <2>4, <2>5
    <2>9. fib = UNION {Paths(k) : k \in DOMAIN kernel}
      <3> HIDE DEF Paths
      <3>1. QED
        BY <2>7, <2>8
    <2>10. QED
      BY <2>3, <2>9 DEF RoutesMirrored
  <1>2. QED
    BY <1>1, SyncInvariant, PTL

-----------------------------------------------------------------------------
(* The daemon is a careful caller *)

\* A tunnel is found and deleted whichever local address the caller names.
LEMMA DelAnyLocal ==
  ASSUME NEW l \in Ip4, NEW m \in Ip4, NEW p \in Ip4, NEW tid, TunnelDel(l, p, tid)
  PROVE  TunnelDel(m, p, tid)
  BY DEF TunnelDel

\* The route calls of the daemon are those of a careful caller.
LEMMA CallRouteCareful ==
  ASSUME BaseInv, RoutesApart, CallRoute
  PROVE  CarefulNext
  <1>1. PICK k \in DOMAIN session_by_key, p \in Prefixes, w \in interfaces :
          /\ k = job.key /\ w = job.swif /\ w = VppSession(k).sw_if_index
          /\ UNCHANGED objVars
          /\ reply' \in [rv : Retval, index : TunnelIdx \cup SwIf \cup {NoIndex}]
          /\ IsJob(job)' /\ job'.key = k /\ job'.tidx = job.tidx /\ job'.swif = w
          /\ job'.routes = job.routes
          /\ \/ /\ RouteAdd(p, w) /\ fib' = fib \cup {<<p, w>>}
                /\ pc = "routes" /\ p \in job.adds
                /\ job'.adds = job.adds \ {p} /\ job'.dels = job.dels
             \/ /\ RouteDel(p, w) /\ fib' = fib \ {<<p, w>>}
                /\ p \in job.dels /\ job.adds = {}
                /\ job'.adds = {} /\ job'.dels = job.dels \ {p}
    BY CallRouteFacts
  <1>2. /\ fib \subseteq Prefixes \X interfaces
        /\ \A j \in DOMAIN session_by_key, q \in Prefixes :
             <<q, VppSession(j).sw_if_index>> \in fib <=> q \in PathsOf(j)
    BY DEF BaseInv, PathsExact
  <1>3. IndexInv /\ interfaces \subseteq SwIf
    BY DEF BaseInv, CountInv, IndexInv, TypeOK
  <1>4. CASE RouteAdd(p, w) /\ pc = "routes" /\ p \in job.adds
    <2>1. job.adds \subseteq job.routes /\ job.dels \cap job.routes = {}
      BY <1>4 DEF BaseInv, JobRight
    <2>2. ASSUME NEW v \in SwIf, <<p, v>> \in fib PROVE FALSE
      <3>1. v \in interfaces
        BY <1>2, <2>2
      <3>2. PICK i \in DOMAIN sessions : sessions[i].sw_if_index = v
        BY <1>3, <3>1 DEF IndexInv, SwIfIndexAgrees
      <3>3. PICK j \in DOMAIN session_by_key : session_by_key[j] = i
        BY <1>3, SessionKeyed
      <3>4. VppSession(j).sw_if_index = v
        BY <3>2, <3>3 DEF VppSession
      <3>5. p \in PathsOf(j)
        BY <1>2, <2>2, <3>4
      <3>6. CASE j = k
        BY <1>1, <1>4, <2>1, <3>5, <3>6 DEF PathsOf
      <3>7. CASE j # k
        <4>1. j \in DOMAIN installed /\ p \in installed[j].routes
          BY <1>1, <1>4, <3>5, <3>7 DEF BaseInv, RecordsLive, PathsOf
        <4>2. QED
          BY <1>1, <1>4, <2>1, <3>7, <4>1 DEF RoutesApart, AtJob
      <3>8. QED
        BY <3>6, <3>7
    <2>3. QED
      BY <1>3, <1>4, <2>2 DEF CarefulNext, AnySwIf
  <1>5. CASE RouteDel(p, w) /\ p \in job.dels /\ job.adds = {}
    <2>1. p \in PathsOf(k)
      BY <1>1, <1>5 DEF PathsOf, CallRoute
    <2>2. <<p, w>> \in fib
      BY <1>1, <1>2, <2>1
    <2>3. QED
      BY <1>3, <1>5, <2>2 DEF CarefulNext, AnySwIf
  <1>6. QED
    BY <1>1, <1>4, <1>5

\* A call of the daemon is one of a careful caller, as long as no prefix and no
\* netdev name in its hands went to another session.
LEMMA DaemonCareful ==
  AllIp4 /\ SyncInv /\ [SNext]_syncVars => (NothingMoved' => [CarefulNext]_rvars)
  <1>1. SUFFICES ASSUME AllIp4, SyncInv, [SNext]_syncVars, NothingMoved'
                 PROVE  [CarefulNext]_rvars
    OBVIOUS
  <1>2. CASE \/ StartPass \/ ReadTunnels \/ RecordSession \/ BeginRemovals \/ BeginPrune
             \/ SaveState \/ CallRaises \/ Restart \/ Crash \/ UNCHANGED syncVars
    BY <1>2 DEF StartPass, ReadTunnels, RecordSession, BeginRemovals, BeginPrune, SaveState,
                CallRaises, Raise, Restart, Crash, syncVars
  <1>3. ASSUME NEW k, BeginAdd(k) \/ BeginSync(k) \/ BeginDel(k) PROVE UNCHANGED rvars
    BY <1>3 DEF BeginAdd, BeginSync, BeginDel, Raise
  <1>4. ASSUME NEW k, \/ \E s : KernelUp(k, s)
                      \/ KernelDown(k) \/ \E r : KernelRoutes(k, r)
        PROVE  UNCHANGED rvars
    BY <1>4 DEF KernelUp, KernelDown, KernelRoutes, OtherVars
  <1>5. ~VppRestart
    BY <1>1 DEF VppRestart, Event, NothingMoved
  <1>6. ASSUME UNCHANGED hit PROVE BaseInv /\ RoutesApart
    BY <1>1, <1>6, HitGrows DEF SyncInv
  <1>7. CASE AddTunnel
    <2>1. BaseInv /\ UNCHANGED routeVars
      BY <1>6, <1>7 DEF AddTunnel, envVars
    <2>2. PICK k \in DOMAIN pass.want \ DOMAIN installed :
            /\ k \in SessionKey /\ pass.want[k] \in Want /\ pass.want[k].local \in Locals
            /\ TunnelAdd(pass.want[k].local, pass.want[k].peer, k[1], pass.want[k].peer_tid)
      BY <1>1, <1>7, <2>1, AddTunnelFacts, Zenon
    <2>3. /\ pass.want[k].peer \in Peers /\ k[1] \in Tids /\ pass.want[k].peer_tid \in PeerTids
      BY <2>2 DEF Want, SessionKey
    <2>4. TunnelAddCalls(Tids)
      BY <2>2, <2>3 DEF TunnelAddCalls
    <2>5. QED
      BY <2>1, <2>4 DEF CarefulNext, TunnelAndSessionAdds
  <1>8. CASE AddSession
    <2>1. BaseInv /\ UNCHANGED routeVars
      BY <1>6, <1>8 DEF AddSession, envVars
    <2>2. PICK k \in DOMAIN pass.want \ DOMAIN installed, t \in DOMAIN tunnels :
            /\ k \in SessionKey /\ pass.want[k] \in Want
            /\ SessionAdd(t, k[2], pass.want[k].peer_sid)
      BY <1>8, <2>1, AddSessionFacts, ZenonT(60)
    <2>3. k[2] \in Sids /\ pass.want[k].peer_sid \in PeerSids
      BY <2>2 DEF Want, SessionKey
    <2>4. t \in AnyIndex
      BY <2>1 DEF BaseInv, CountInv, IndexInv, TypeOK, AnyIndex
    <2>5. SessionAddCalls
      BY <2>2, <2>3, <2>4 DEF SessionAddCalls
    <2>6. QED
      BY <2>1, <2>5 DEF CarefulNext, TunnelAndSessionAdds
  <1>9. CASE CallRoute
    <2>1. BaseInv /\ RoutesApart
      BY <1>6, <1>9 DEF CallRoute, envVars
    <2>2. QED
      BY <1>9, <2>1, CallRouteCareful
  <1>10. CASE DelSession
    <2>1. BaseInv /\ UNCHANGED routeVars
      BY <1>6, <1>10 DEF DelSession, envVars
    <2>2. PICK k \in DOMAIN installed \cap DOMAIN session_by_key, t \in DOMAIN tunnels :
            /\ k \in SessionKey /\ tunnels[t].local_tid = k[1]
            /\ SessionDel(t, k[2]) /\ OwnTunnel(t, k[2])
            /\ \A p \in Prefixes : <<p, VppSession(k).sw_if_index>> \notin fib
      BY <1>10, <2>1, DelSessionFacts, Zenon
    <2>3. k = <<tunnels[t].local_tid, k[2]>> /\ k[2] \in Sids
      BY <2>2 DEF SessionKey
    <2>4. Unrouted(t, k[2])
      BY <2>2, <2>3 DEF Unrouted, VppSession
    <2>5. t \in AnyIndex
      BY <2>1 DEF BaseInv, CountInv, IndexInv, TypeOK, AnyIndex
    <2>6. QED
      BY <2>1, <2>2, <2>3, <2>4, <2>5 DEF CarefulNext
  <1>11. ASSUME NEW tk \in Peers \X Tids, PruneTunnel(tk) PROVE CarefulNext
    <2>1. BaseInv /\ UNCHANGED routeVars
      BY <1>6, <1>11 DEF PruneTunnel, envVars
    <2>2. PICK i \in DOMAIN tunnels : TunnelDel(Fallback, tk[1], tk[2])
      BY <1>1, <1>11, <2>1, PruneTunnelFacts, Zenon
    <2>3. tunnels[i].local \in Locals
      BY <2>1 DEF BaseInv, CountInv, IndexInv, TypeOK, Tunnel
    <2>4. PICK l : l = tunnels[i].local
      OBVIOUS
    <2>5. l \in Locals /\ l \in Ip4 /\ Fallback \in Ip4 /\ tk[1] \in Ip4 /\ tk[1] \in Peers
            /\ tk[2] \in Tids
      BY <1>1, <2>3, <2>4, SyncdAssumption DEF AllIp4
    <2>6. TunnelDel(l, tk[1], tk[2])
      BY <2>2, <2>5, DelAnyLocal
    <2>7. TunnelDelCalls
      BY <2>5, <2>6 DEF TunnelDelCalls
    <2>8. QED
      BY <2>1, <2>7 DEF CarefulNext, TunnelAndSessionAdds
  <1>12. CASE SNext
    BY <1>2, <1>3, <1>4, <1>5, <1>7, <1>8, <1>9, <1>10, <1>11, <1>12
       DEF SNext, DaemonStep, EnvStep
  <1>13. QED
    BY <1>1, <1>2, <1>12

\* The daemon is the careful caller that L2tvppRoutes' theorems are about.
THEOREM DaemonIsCareful ==
  ASSUME AllIp4
  PROVE  SSpec => CarefulCaller
  <1>1. SyncInv /\ [SNext]_syncVars => [NothingMoved' => [CarefulNext]_rvars]_syncVars
    BY DaemonCareful
  <1>2. QED
    BY <1>1, SyncInvariant, PTL DEF SSpec, CarefulCaller


\* No step takes a fault back.
LEMMA HitNext == [SNext]_syncVars => hit \subseteq hit'
  <1>1. SUFFICES ASSUME [SNext]_syncVars PROVE hit \subseteq hit'
    OBVIOUS
  <1>2. CASE \/ StartPass \/ RecordSession \/ BeginRemovals \/ BeginPrune \/ SaveState
             \/ CallRaises \/ Restart \/ AddTunnel \/ AddSession \/ CallRoute \/ DelSession
             \/ UNCHANGED syncVars
    BY <1>2 DEF StartPass, RecordSession, BeginRemovals, BeginPrune, SaveState, CallRaises,
                Raise, Restart, AddTunnel, AddSession, CallRoute, DelSession, envVars, syncVars
  <1>3. CASE ReadTunnels
    BY <1>3, IpFacts, SMTT(60) DEF ReadTunnels
  <1>4. ASSUME NEW k, BeginAdd(k) \/ BeginSync(k) PROVE hit \subseteq hit'
    BY <1>4, IpFacts DEF BeginAdd, BeginSync, Raise, envVars
  <1>5. ASSUME NEW k, BeginDel(k) \/ PruneTunnel(k) PROVE hit \subseteq hit'
    BY <1>5 DEF BeginDel, PruneTunnel, envVars
  <1>6. ASSUME NEW k, \/ \E s : KernelUp(k, s)
                      \/ KernelDown(k) \/ \E r : KernelRoutes(k, r)
        PROVE  hit \subseteq hit'
    BY <1>6 DEF KernelUp, KernelDown, KernelRoutes, Event
  <1>7. CASE VppRestart \/ Crash
    BY <1>7 DEF VppRestart, Crash, Event
  <1>8. CASE SNext
    BY <1>2, <1>3, <1>4, <1>5, <1>6, <1>7, <1>8 DEF SNext, DaemonStep, EnvStep
  <1>9. QED
    BY <1>1, <1>2, <1>8

\* Driven by the daemon, the fast path is the /32 routes, the locks are its
\* entries' and no path outlives its session, halfway through a pass too.
THEOREM DaemonKeepsLocks ==
  ASSUME AllIp4
  PROVE  SSpec => []LocksFollowRoutes
  <1> DEFINE Held == NothingMoved => CarefulInv
  <1>1. SInit => Held
    BY InitCareful DEF SInit
  <1>2. SyncInv /\ Held /\ [SNext]_syncVars => Held'
    <2>1. SUFFICES ASSUME SyncInv, Held, [SNext]_syncVars, NothingMoved' PROVE CarefulInv'
      OBVIOUS
    <2>2. NothingMoved
      BY <2>1, HitNext, HitGrows
    <2>3. [CarefulNext]_rvars
      BY <2>1, DaemonCareful
    <2>4. QED
      BY <2>1, <2>2, <2>3, CarefulNextKeeps
  <1>3. Held => LocksFollowRoutes
    BY CarefulImplies DEF LocksFollowRoutes
  <1> HIDE DEF Held
  <1>4. QED
    BY <1>1, <1>2, <1>3, SyncInvariant, PTL DEF SSpec
=============================================================================
