-------------------------------- MODULE Syncd --------------------------------
(***************************************************************************)
(* l2tvppd (syncd/l2tvppd.py) mirroring the kernel's L2TP/PPP sessions     *)
(* into the plugin.  One reconcile pass reads the kernel twice             *)
(* (/proc/net/pppol2tp, then `ip l2tp show tunnel'), adds what is missing, *)
(* removes what is gone, prunes empty tunnels and saves its record of what *)
(* it installed.  Every binary-API call is a step of its own, taken by the *)
(* plugin's action of L2tvppRoutes; the kernel may change, the daemon be   *)
(* killed and VPP restart between any two steps.                           *)
(*                                                                         *)
(* vpp_papi returns a refused call's reply like any other, and the daemon  *)
(* does not look at retval; a call raises only when the socket is gone.    *)
(***************************************************************************)
EXTENDS L2tvppRoutes

CONSTANTS
  IfNames,      \* ppp netdev names
  NoLocal,      \* Python's None for a local address; vpp_papi packs it 0.0.0.0
  Fallback,     \* --local-ip, NoLocal unless given
  ProcPeer,     \* what the addr field of /proc/net/pppol2tp decodes to: the
                \* LNS's own address, no peer's (parse_l2tp_tunnels)
  ResyncEvery,  \* ROUTE_RESYNC_EVERY: 6 in the code
  MaxEvents,    \* bound on kernel changes, crashes and restarts
  Faults        \* which of the faults below the environment may commit

(* "crash":   the daemon is killed (SIGTERM, SIGKILL) between two steps     *)
(* "vpp":     VPP restarts, empty, and the daemon's socket is gone          *)
(* "reuse":   a (tid, sid) the daemon still knows is given to a new session *)
(* "tid":     a tid VPP still has a tunnel for is given to another peer     *)
(* "renewed": a tid VPP still has a tunnel for is given to a new tunnel of  *)
(*            the same peer, with another peer tid or local address         *)
(* "move":    a prefix the daemon still has installed moves to another      *)
(*            session                                                       *)
(* "ifname":  a netdev name of the daemon's snapshot is given to another    *)
(*            session before the daemon asks for its routes                 *)
(* "ip":      an `ip' command fails and prints less than there is           *)
AllFaults == {"crash", "vpp", "reuse", "tid", "renewed", "move", "ifname", "ip"}

ASSUME SyncdAssumption ==
  /\ NoLocal \in Ip4 \ Locals
  /\ Fallback \in Locals \cup {NoLocal}
  /\ ProcPeer \in Peers
  /\ ResyncEvery \in Nat \ {0}
  /\ MaxEvents \in Nat
  /\ Faults \subseteq AllFaults

VARIABLES
  kernel,     \* (tid, sid) -> the kernel's session, once it has its netdev
  events,     \* environment steps taken
  hit,        \* history: the faults committed so far
  pc,         \* where the daemon is
  installed,  \* self.installed
  disk,       \* the state file
  tick,       \* tick % ROUTE_RESYNC_EVERY
  connected,  \* the API socket reaches the running VPP
  pass,       \* locals of reconcile: want, keys to do, tunnels_cache, flags
  job,        \* the session add_session, sync_routes or del_session is at
  settled     \* history: what the last pass saw of an unchanged kernel

envVars == <<kernel, events, hit>>
syncVars == <<rvars, envVars, pc, installed, disk, tick, connected, pass, job,
              settled>>

KSession == [peer : Peers \ {ProcPeer}, peer_tid : PeerTids, local : Locals,
             peer_sid : PeerSids, ifname : IfNames, routes : SUBSET Prefixes]
Record == [sw_if_index : SwIf \cup {NoIndex},
           tunnel_index : TunnelIdx \cup {NoIndex},
           routes : SUBSET Prefixes]

Empty == [x \in {} |-> {}]
NoPass == [want |-> Empty, todo |-> {}, cache |-> Empty,
           resync |-> FALSE, removed |-> FALSE]
NoJob == [key |-> NoIndex, tidx |-> NoIndex, swif |-> NoIndex,
          adds |-> {}, dels |-> {}, routes |-> {}]

SInit ==
  /\ RInit
  /\ kernel = Empty /\ events = 0 /\ hit = {}
  /\ pc = "idle" /\ installed = Empty /\ disk = Empty /\ tick = 0
  /\ connected = TRUE
  /\ pass = NoPass /\ job = NoJob
  /\ settled = "no"

-----------------------------------------------------------------------------
(* The environment: accel-ppp and the kernel (external) *)

\* The environment acts, committing these faults.
Event(faults) ==
  /\ events < MaxEvents /\ events' = events + 1
  /\ faults \subseteq Faults /\ hit' = hit \cup faults
  /\ settled' = "no"

OtherVars == <<rvars, pc, installed, disk, tick, connected, pass, job>>

FaultIf(fault, cond) == {f \in {fault} : cond}

\* Prefixes the daemon has, or is putting, on another session.
RoutesElsewhere(k) ==
  (UNION {installed[j].routes : j \in DOMAIN installed \ {k}})
    \cup (IF job.key = k THEN {} ELSE job.routes)

KnownKeys == DOMAIN installed \cup DOMAIN disk \cup DOMAIN pass.want
               \cup DOMAIN session_by_key

TidTaken(tid, peer) ==
  \/ \E i \in DOMAIN tunnels : tunnels[i].local_tid = tid /\ tunnels[i].peer # peer
  \/ \E j \in DOMAIN pass.want : j[1] = tid /\ pass.want[j].peer \notin {peer, ProcPeer}

Renewed(tid, s) ==
  \/ \E i \in DOMAIN tunnels :
       /\ tunnels[i].local_tid = tid /\ tunnels[i].peer = s.peer
       /\ tunnels[i].local # s.local \/ tunnels[i].peer_tid # s.peer_tid
  \/ \E j \in DOMAIN pass.want :
       /\ j[1] = tid /\ pass.want[j].peer \in {s.peer, ProcPeer}
       /\ \/ pass.want[j].peer_tid # s.peer_tid
          \/ pass.want[j].peer = s.peer /\ pass.want[j].local # s.local

\* A session comes up; sessions of one tid share a kernel tunnel.
KernelUp(k, s) ==
  /\ k \notin DOMAIN kernel
  /\ \A j \in DOMAIN kernel :
       /\ kernel[j].ifname # s.ifname
       /\ kernel[j].routes \cap s.routes = {}
       /\ j[1] = k[1] => /\ kernel[j].peer = s.peer /\ kernel[j].local = s.local
                         /\ kernel[j].peer_tid = s.peer_tid
  /\ Event(FaultIf("reuse", k \in KnownKeys)
             \cup FaultIf("ifname", \E j \in DOMAIN pass.want : pass.want[j].ifname = s.ifname)
             \cup FaultIf("tid", TidTaken(k[1], s.peer))
             \cup FaultIf("renewed", Renewed(k[1], s))
             \cup FaultIf("move", s.routes \cap RoutesElsewhere(k) # {}))
  /\ kernel' = Put(kernel, k, s)
  /\ UNCHANGED OtherVars

KernelDown(k) ==
  /\ Event({})
  /\ kernel' = Drop(kernel, k)
  /\ UNCHANGED OtherVars

\* The subscriber gains or loses a prefix (IPCP completes, a PD comes or goes).
KernelRoutes(k, routes) ==
  /\ routes # kernel[k].routes
  /\ \A j \in DOMAIN kernel \ {k} : kernel[j].routes \cap routes = {}
  /\ Event(FaultIf("move", (routes \ kernel[k].routes) \cap RoutesElsewhere(k) # {}))
  /\ kernel' = [kernel EXCEPT ![k].routes = routes]
  /\ UNCHANGED OtherVars

\* VPP restarts: every plugin object, path and cache entry is gone.
VppRestart ==
  /\ Event({"vpp"})
  /\ tunnels' = Empty /\ sessions' = Empty /\ session_by_key' = Empty
  /\ session_index_by_sw_if_index' = [w \in SwIf |-> NoIndex]
  /\ interfaces' = {} /\ local_ip4s' = {}
  /\ reply' = [rv |-> "OK", index |-> NoIndex]
  /\ fib' = {} /\ encap_adj_by_ip4' = Empty /\ encap_adj_count' = 0
  /\ adj_lock' = [a \in Hosts \X SwIf |-> 0]
  /\ connected' = FALSE
  /\ UNCHANGED <<kernel, pc, installed, disk, tick, pass, job>>

\* The daemon dies where it stands; run_daemon's SIGTERM handler saves nothing.
Crash ==
  /\ pc # "down"
  /\ Event({"crash"})
  /\ pc' = "down" /\ pass' = NoPass /\ job' = NoJob /\ installed' = Empty
  /\ UNCHANGED <<rvars, kernel, disk, tick, connected>>

\* systemd starts it again (Restart=always in the image's unit, on-failure in
\* syncd's): connect_vpp_retry, _load_state.
\* After a VPP restart the operator restarts it, whatever it is doing.
Restart ==
  /\ pc = "down" \/ ~connected
  /\ pc' = "idle" /\ pass' = NoPass /\ job' = NoJob
  /\ installed' = disk /\ tick' = 0 /\ connected' = TRUE
  /\ settled' = "no"
  /\ UNCHANGED <<rvars, envVars, disk>>

-----------------------------------------------------------------------------
(* The daemon *)

\* vpp_tunnels: the dump as a dict keyed (peer, local_tid).
VppTunnels ==
  [tk \in {<<tunnels[i].peer, tunnels[i].local_tid>> : i \in TunnelDump(NoIndex)} |->
     CHOOSE i \in TunnelDump(NoIndex) : tk = <<tunnels[i].peer, tunnels[i].local_tid>>]

\* _ppp_routes: what `ip' says of the netdev now, whosever it is.
PppRoutes(ifname) ==
  UNION {kernel[k].routes : k \in {j \in DOMAIN kernel : kernel[j].ifname = ifname}}

\* An `ip' command prints all there is; one that fails prints less, which the
\* daemon takes for all there is.
IpPrints(all, out) ==
  /\ out \subseteq all
  /\ \/ out = all /\ UNCHANGED <<envVars, settled>>
     \/ out # all /\ Event({"ip"}) /\ UNCHANGED kernel

\* Mutant: the failed pass is retried with the snapshot it had.
RaiseAndRetry ==
  /\ pc' = "tunnels" /\ job' = NoJob /\ settled' = "no"
  /\ UNCHANGED <<rvars, envVars, installed, disk, tick, connected, pass>>

\* An exception leaves reconcile, and run_daemon logs it and sleeps: what is
\* in self.installed stays, nothing is saved, tick does not advance.
Raise ==
  /\ pc' = "idle" /\ pass' = NoPass /\ job' = NoJob /\ settled' = "no"
  /\ UNCHANGED <<rvars, envVars, installed, disk, tick, connected>>

\* kernel_sessions, first read: /proc/net/pppol2tp (parse_pppol2tp).
StartPass ==
  /\ pc = "idle"
  /\ pc' = "tunnels"
  /\ pass' = [NoPass EXCEPT
       !.want = [k \in DOMAIN kernel |->
                   [peer |-> ProcPeer, local |-> Fallback,
                    peer_tid |-> kernel[k].peer_tid,
                    peer_sid |-> kernel[k].peer_sid,
                    ifname |-> kernel[k].ifname]],
       !.resync = (tick = 0)]
  /\ settled' = "pass"
  /\ UNCHANGED <<rvars, envVars, installed, disk, tick, connected, job>>

\* merge_tunnel_endpoints: a session's endpoints are those of the kernel
\* tunnel with its tid, if `ip l2tp' lists it.
MergeTunnelEndpoints(want, tids) ==
  [k \in DOMAIN want |->
     IF k[1] \in tids
     THEN LET t == kernel[CHOOSE j \in DOMAIN kernel : j[1] = k[1]]
          IN [want[k] EXCEPT !.peer = t.peer, !.local = t.local]
     ELSE want[k]]

KernelTids == {j[1] : j \in DOMAIN kernel}

\* Mutants: additions only on a route-resync pass; routes never re-checked.
TodoOnResync == {k \in DOMAIN pass.want : pass.resync}
TodoNewOnly == {k \in DOMAIN pass.want : k \notin DOMAIN installed}

\* The keys reconcile's first loop acts on; it skips the others.
PassTodo == {k \in DOMAIN pass.want : k \notin DOMAIN installed \/ pass.resync}

\* kernel_sessions, second read (`ip l2tp show tunnel'), and the head of
\* reconcile: tunnels_cache, and its first loop.
ReadTunnels ==
  /\ pc = "tunnels" /\ connected
  /\ pc' = "adding"
  /\ \E tids \in SUBSET KernelTids :
       /\ IpPrints(KernelTids, tids)
       /\ pass' = [pass EXCEPT
            !.want = MergeTunnelEndpoints(pass.want, tids),
            !.cache = VppTunnels,
            !.todo = PassTodo]
  /\ UNCHANGED <<rvars, installed, disk, tick, connected, job>>

\* add_session up to the API call of ensure_tunnel: the routes are fetched,
\* then the tunnel is known, or must be added, or has no local address.
BeginAdd(k) ==
  /\ pc = "adding" /\ k \in pass.todo \ DOMAIN installed
  /\ LET s  == pass.want[k]
         tk == <<s.peer, k[1]>>
         known == tk \in DOMAIN pass.cache
     IN \/ ~known /\ s.local = NoLocal /\ Raise
        \/ /\ known \/ s.local # NoLocal
           /\ pc' = IF known THEN "session" ELSE "tunnel"
           /\ \E out \in SUBSET PppRoutes(s.ifname) :
                /\ IpPrints(PppRoutes(s.ifname), out)
                /\ job' = [NoJob EXCEPT !.key = k, !.routes = out, !.adds = out,
                             !.tidx = IF known THEN pass.cache[tk] ELSE NoIndex]
           /\ UNCHANGED <<rvars, installed, disk, tick, connected, pass>>

\* ensure_tunnel's l2tvpp_tunnel_add_del: tunnel_index is cached as replied.
AddTunnel ==
  /\ pc = "tunnel" /\ connected
  /\ LET s == pass.want[job.key]
     IN /\ TunnelAdd(s.local, s.peer, job.key[1], s.peer_tid)
        /\ pass' = [pass EXCEPT
             !.cache = Put(@, <<s.peer, job.key[1]>>, reply'.index)]
  /\ job' = [job EXCEPT !.tidx = reply'.index]
  /\ pc' = "session"
  /\ UNCHANGED <<routeVars, envVars, installed, disk, tick, connected, settled>>

\* add_session's l2tvpp_session_add_del: sw_if_index is taken as replied.
AddSession ==
  /\ pc = "session" /\ connected
  /\ SessionAdd(job.tidx, job.key[2], pass.want[job.key].peer_sid)
  /\ job' = [job EXCEPT !.swif = reply'.index]
  /\ pc' = "routes"
  /\ UNCHANGED <<routeVars, envVars, installed, disk, tick, connected, pass,
                 settled>>

\* Mutant: a lost prefix is never withdrawn.
LostNone(have, want) == {}
LostRoutes(have, want) == have \ want

\* sync_routes of a session already installed: want - have, have - want.
BeginSync(k) ==
  /\ pc = "adding" /\ k \in pass.todo \cap DOMAIN installed
  /\ LET rec == installed[k]
         all == PppRoutes(pass.want[k].ifname)
     IN \E want \in SUBSET all :
          /\ IpPrints(all, want)
          /\ job' = [key |-> k, tidx |-> rec.tunnel_index, swif |-> rec.sw_if_index,
                     adds |-> want \ rec.routes, dels |-> LostRoutes(rec.routes, want),
                     routes |-> want]
  /\ pc' = "routes"
  /\ UNCHANGED <<rvars, installed, disk, tick, connected, pass>>

\* One l2tvpp_route_add_del of add_session, sync_routes or del_session; all
\* additions come before the removals.
CallRoute ==
  /\ pc \in {"routes", "unroute"} /\ connected
  /\ \/ \E p \in job.adds :
          /\ RouteAdd(p, job.swif)
          /\ job' = [job EXCEPT !.adds = @ \ {p}]
     \/ /\ job.adds = {}
        /\ \E p \in job.dels :
             /\ RouteDel(p, job.swif)
             /\ job' = [job EXCEPT !.dels = @ \ {p}]
  /\ UNCHANGED <<envVars, pc, installed, disk, tick, connected, pass, settled>>

\* The tail of add_session or sync_routes: the record of what was installed.
RecordSession ==
  /\ pc = "routes" /\ job.adds = {} /\ job.dels = {}
  /\ installed' = Put(installed, job.key,
                      [sw_if_index |-> job.swif, tunnel_index |-> job.tidx,
                       routes |-> job.routes])
  /\ pass' = [pass EXCEPT !.todo = @ \ {job.key}]
  /\ pc' = "adding" /\ job' = NoJob
  /\ UNCHANGED <<rvars, envVars, disk, tick, connected, settled>>

\* reconcile's second loop: the recorded sessions the kernel no longer has.
BeginRemovals ==
  /\ pc = "adding" /\ pass.todo = {}
  /\ LET gone == DOMAIN installed \ DOMAIN pass.want
     IN pass' = [pass EXCEPT !.todo = gone, !.removed = (gone # {})]
  /\ pc' = "removing"
  /\ UNCHANGED <<rvars, envVars, installed, disk, tick, connected, job, settled>>

\* Mutant: the session is deleted with its routes in place.
TeardownNothing(rec) == {}
TeardownRoutes(rec) == rec.routes

BeginDel(k) ==
  /\ pc = "removing" /\ k \in pass.todo
  /\ job' = [NoJob EXCEPT !.key = k, !.tidx = installed[k].tunnel_index,
                          !.swif = installed[k].sw_if_index,
                          !.dels = TeardownRoutes(installed[k]),
                          !.routes = installed[k].routes]
  /\ pc' = "unroute"
  /\ UNCHANGED <<rvars, envVars, installed, disk, tick, connected, pass, settled>>

\* del_session's l2tvpp_session_add_del, and the record is dropped whatever
\* the reply.
DelSession ==
  /\ pc = "unroute" /\ job.dels = {} /\ connected
  /\ SessionDel(job.tidx, job.key[2])
  /\ installed' = Drop(installed, job.key)
  /\ pass' = [pass EXCEPT !.todo = @ \ {job.key}]
  /\ pc' = "removing" /\ job' = NoJob
  /\ UNCHANGED <<routeVars, envVars, disk, tick, connected, settled>>

\* Mutant: nothing is pruned.
UnusedNone == {}

\* prune_tunnels' two dumps: the tunnels no session is on.
UnusedTunnels ==
  LET live == {sessions[i].tunnel_index : i \in SessionDump(NoIndex)}
  IN {tk \in DOMAIN VppTunnels : VppTunnels[tk] \notin live}

BeginPrune ==
  /\ pc = "removing" /\ pass.todo = {} /\ pass.removed /\ connected
  /\ pass' = [pass EXCEPT !.todo = UnusedTunnels]
  /\ pc' = "prune"
  /\ UNCHANGED <<rvars, envVars, installed, disk, tick, connected, job, settled>>

PruneTunnel(tk) ==
  /\ pc = "prune" /\ tk \in pass.todo /\ connected
  /\ TunnelDel(Fallback, tk[1], tk[2])
  /\ pass' = [pass EXCEPT !.todo = @ \ {tk}]
  /\ UNCHANGED <<routeVars, envVars, pc, installed, disk, tick, connected, job,
                 settled>>

NextTick == (tick + 1) % ResyncEvery

\* _save_state writes a temporary file and renames it; the pass has succeeded.
SaveState ==
  /\ pass.todo = {}
  /\ pc = "prune" \/ (pc = "removing" /\ ~pass.removed)
  /\ disk' = installed
  /\ tick' = NextTick
  /\ settled' = IF settled # "pass" THEN "no"
                ELSE IF pass.resync THEN "routes" ELSE "keys"
  /\ pc' = "idle" /\ pass' = NoPass
  /\ UNCHANGED <<rvars, envVars, installed, connected, job>>

\* The next thing the daemon does is a call on a socket that is gone.
CallRaises ==
  /\ ~connected
  /\ \/ pc \in {"tunnels", "tunnel", "session", "unroute"}
     \/ pc = "routes" /\ job.adds \cup job.dels # {}
     \/ pc = "removing" /\ pass.todo = {} /\ pass.removed
     \/ pc = "prune" /\ pass.todo # {}
  /\ Raise

DaemonStep ==
  \/ StartPass \/ ReadTunnels
  \/ \E k \in SessionKey : BeginAdd(k) \/ BeginSync(k) \/ BeginDel(k)
  \/ AddTunnel \/ AddSession \/ CallRoute \/ RecordSession
  \/ BeginRemovals \/ DelSession
  \/ BeginPrune \/ (\E tk \in Peers \X Tids : PruneTunnel(tk))
  \/ SaveState \/ CallRaises

EnvStep ==
  \/ \E k \in SessionKey, s \in KSession : KernelUp(k, s)
  \/ \E k \in DOMAIN kernel : KernelDown(k)
  \/ \E k \in DOMAIN kernel, r \in SUBSET Prefixes : KernelRoutes(k, r)
  \/ VppRestart \/ Crash

SNext == DaemonStep \/ Restart \/ EnvStep

SSpec == SInit /\ [][SNext]_syncVars

\* The loop of run_daemon always comes round (interval sleep, exceptions
\* caught) and systemd restarts a dead daemon; nothing obliges the kernel.
FairSpec == SSpec /\ WF_syncVars(DaemonStep) /\ WF_syncVars(Restart)

-----------------------------------------------------------------------------
(* Properties *)

\* VPP's session with this key, and its interface.
VppSession(k) == sessions[session_by_key[k]]

\* VPP has the kernel's session, towards the same peer.
Mirrors(k) ==
  /\ k \in DOMAIN session_by_key
  /\ VppSession(k).peer_sid = kernel[k].peer_sid
  /\ VppSession(k).tunnel_index \in DOMAIN tunnels
  /\ LET t == tunnels[VppSession(k).tunnel_index]
     IN t.peer = kernel[k].peer /\ t.peer_tid = kernel[k].peer_tid
          /\ t.local = kernel[k].local

SessionsMirrored ==
  /\ DOMAIN session_by_key = DOMAIN kernel
  /\ \A k \in DOMAIN kernel : Mirrors(k)

\* The paths are the kernel's prefixes, each through its own session.
RoutesMirrored ==
  /\ DOMAIN kernel \subseteq DOMAIN session_by_key
  /\ fib = UNION {{<<p, VppSession(k).sw_if_index>> : p \in kernel[k].routes} :
                   k \in DOMAIN kernel}

\* Faults the daemon takes in its stride: the kernel's and its tools'.  With
\* --local-ip given, an `ip l2tp' that fails is not one of them.
KernelFaults ==
  {"tid", "move", "ifname"} \cup FaultIf("ip", Fallback = NoLocal)

\* Neither the daemon nor VPP was restarted; and no prefix or netdev name that the
\* daemon still uses went to another session.
Unbroken == hit \cap {"crash", "vpp"} = {}
NothingMoved == hit \cap {"crash", "vpp", "move", "ifname"} = {}

\* "Make VPP match the given kernel session list" (reconcile): once a pass has
\* run against a kernel that did not change meanwhile, VPP has exactly the
\* kernel's sessions, whatever the kernel did during the passes before and
\* whichever `ip' failed.
PassMirrorsSessions ==
  hit \subseteq KernelFaults /\ settled \in {"keys", "routes"} => SessionsMirrored

\* Once such a pass has also re-checked routes, VPP routes exactly the kernel's
\* prefixes, each to its own subscriber's session.
PassMirrorsRoutes ==
  hit \subseteq KernelFaults /\ settled = "routes" => RoutesMirrored

\* When a pass is over no tunnel without sessions is left behind, whatever the
\* kernel does and whichever `ip' fails.
NoEmptyTunnels ==
  Unbroken /\ settled \in {"keys", "routes"} =>
    \A i \in DOMAIN tunnels : SessionsOf(i) # {}

\* The record the daemon tears down from names live objects only: each record's
\* interface is the session's, and the routes are those installed through it,
\* whatever ids, names and prefixes the kernel gives to whom meanwhile.
RecordsAccurate ==
  Unbroken =>
    \A k \in DOMAIN installed :
      job.key # k =>
        /\ k \in DOMAIN session_by_key
        /\ VppSession(k).sw_if_index = installed[k].sw_if_index
        /\ VppSession(k).tunnel_index = installed[k].tunnel_index
        /\ {p \in Prefixes : <<p, installed[k].sw_if_index>> \in fib}
             = installed[k].routes

\* The daemon is the careful caller the plugin's theorems assume: a prefix goes
\* through one session at a time, only what was added is removed, and a session's
\* routes go before the session.
CarefulCaller ==
  [][NothingMoved' => [CarefulNext]_rvars]_syncVars

\* Driven by the daemon, and halfway through a pass too, the fast path is exactly
\* the /32 routes, the adjacency locks are those of its entries and no path
\* outlives its session.
LocksFollowRoutes ==
  NothingMoved => FastpathMirrorsFib /\ LocksMatchCache /\ NoDanglingRoute

\* After a pass the cache holds exactly the adjacencies it should, and no lock it
\* took outlives its entry (l2tvpp.c:419, "a lock keeps it alive for the cache,
\* released on remove").
PassReleasesLocks == settled = "routes" => FastpathMirrorsFib /\ LocksMatchCache

\* After a pass VPP has the kernel's sessions, also when VPP or the daemon was
\* restarted ("so a restart is harmless").
RestartHarmless ==
  settled \in {"keys", "routes"} => \A k \in DOMAIN kernel : Mirrors(k)

\* "Make VPP match the given kernel session list" (reconcile), whatever
\* the kernel did, the daemon's options are and whether it was killed meanwhile.
PassMatchesKernel == settled \in {"keys", "routes"} => SessionsMirrored

\* "never let one bad pass kill the loop" (run_daemon): whatever the kernel,
\* VPP and the operator did, passes keep completing once they are quiet.
PassesComplete == []<>(settled \in {"keys", "routes"})

\* Once the kernel is quiet VPP comes to mirror it, and stays so: also prefixes
\* withdrawn because an `ip' failed come back.
Converges == <>[](hit \subseteq KernelFaults => SessionsMirrored /\ RoutesMirrored)
=============================================================================
