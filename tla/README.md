# l2tvpp: TLA+ specification and proofs

l2tvpp is an L2TPv2 LNS data plane: a VPP plugin (C) that decapsulates and
encapsulates subscriber traffic, a daemon (Python) that mirrors the kernel's
L2TP/PPP sessions into the plugin, and an XDP program that spreads the kernel's own
L2TP over cores where VPP is not used. The modules here model the plugin's control
plane, its data path, the daemon, and the XDP program with its loader.

## Inventory

| component | state | operations | interacts with |
|---|---|---|---|
| tunnel/session objects (`plugin/l2tvpp/l2tvpp.c`) | pools `tunnels`, `sessions`; bihash `session_by_key`; vector `session_index_by_sw_if_index`; `n_sessions`; `local_ip4s` | tunnel add/del, session add/del | called by API and CLI on the main thread; read by every data-path node |
| subscriber routes and encap cache (`l2tvpp.c`, `encap_fastpath.c`) | FIB paths under the plugin's source, `encap_adj_by_ip4`, adjacency locks, `encap_adj_count` | route add/del; lookup per packet | objects (is the interface a session's?), FIB, adjacencies |
| encap rewrite (`l2tvpp.c`) | rewrite, fixup pointer and peer of each adjacency; checksum base per session | update_adj, fixup, delegate removal | tunnels, session pool, peer FIB entry |
| decap (`node.c`, `l2tvpp.h`) | none | parse, look up, strip, forward or punt | `session_by_key`, `sessions` |
| session handoff (`handoff.c`) | frame queue per worker, `handoff_enabled` | pick a worker, enqueue, drop when full; toggle | decap on the target worker |
| flow handoff (`flow_handoff.c`) | workers, modes and cursor per interface, a second frame queue | classify, hash, enqueue; enable/disable | session handoff, decap, `local_ip4s` |
| queue sizing (`l2tvpp.c`) | `handoff_queue_nelts` | parse config, round up | both handoffs |
| binary API, CLI (`l2tvpp_api.c`, `l2tvpp_cli.c`) | none | decode, call, reply; dumps | all of the above |
| l2tvppd (`syncd/l2tvppd.py`) | `installed`, the state file, `tick`; locals of a pass | `reconcile`: read the kernel, add, re-check routes, remove, prune, save | kernel (`/proc`, `ip`), plugin through the API socket |
| XDP steering (`xdp/`) | maps, pins, attach state | redirect by session; attach, detach | the kernel's L2TP |

What makes each correct, and what is hard:

* **Objects.** Three structures are updated one after the other and indices are
  reused at once, so the danger is an index entry of a former owner. The
  data path dereferences without a check. The counter that protects a tunnel from
  deletion belongs to whichever tunnel the caller names.
* **Routes and cache.** The cache is keyed by host alone, the FIB by host and
  interface; a cached adjacency outlives everything else about a session and
  must stay locked. Routes can only be withdrawn while the session exists.
* **Encap.** An adjacency is rewritten once, when it is made, and keeps a pointer into
  a pool that grows; sessions, slots and interfaces are reused under it.
* **Handoffs.** Packets wait in bounded queues, possibly in two one after the other,
  between the worker that chose their destination and the one that looks the session up,
  while either handoff is reconfigured and sessions change.
* **Parsers.** Five pieces of code walk the same bytes. None may read past the buffer,
  and the ones a packet meets in turn must agree about it.
* **Daemon.** Two kernel reads and tens of API calls per pass, none of them
  atomic with another; ids, prefixes and netdev names change hands between any
  two; a failing `ip` looks like an empty answer; it can be killed anywhere and saves
  only at the end; it never looks at a reply's `retval`; VPP can restart under it.
* **XDP loader.** A dozen system calls, each of which can fail; pins and attachment are
  two pieces of kernel state that it updates one after the other.

`PROJECT.json` lists the hazards line by line with the property that covers each.

## Modules

| module | models | extends |
|---|---|---|
| `SessionTable` | what the session objects promise: a table from (tid, sid) to an interface of its own | |
| `L2tvppObjects` | the objects and their indexes; `ImplementsTable` | |
| `L2tvppRoutes` | routes and the encap cache | `L2tvppObjects` |
| `Encap` | adjacencies, rewrites, checksum fixup, pool memory | `L2tvppRoutes` |
| `PacketKinds` | what the parsing nodes do with a packet, by kind | |
| `Handoff` | both handoffs, their queues and configuration, against changing sessions | `L2tvppObjects`, `PacketKinds` |
| `PacketLayout` | frames as the wire has them, put together from their fields | |
| `Decap` | one frame through the parsers, octet by octet | `PacketLayout`, `PacketKinds` |
| `Steer` | the XDP loader and what the program does meanwhile | |
| `Syncd` | the daemon, kernel and faults, calling the plugin's actions | `L2tvppRoutes` |
| `MC...` | constants and symmetry sets for TLC | the module of that name |
| `L2tvppObjects_proofs`, `L2tvppRoutes_proofs` | theorems on the plugin's state, for any caller and for a careful one | the module of that name |
| `SessionTable_proofs` | the refinement of `SessionTable` | `L2tvppObjects_proofs` |
| `Encap_proofs`, `Syncd_proofs` | theorems on rewrites and on the daemon | the module of that name, `L2tvppRoutes_proofs` |
| `Handoff_proofs` | theorems on both handoffs | `Handoff`, `L2tvppObjects_proofs` |
| `Decap_proofs`, `Steer_proofs` | theorems on the parsers and on the loader | the module of that name |

**`L2tvppObjects`.** A pool is a function whose domain is the set of allocated
indices; `pool_get` may return any free one. `TunnelAdd`, `TunnelDel`,
`SessionAdd` and `SessionDel` are the two `add_del` functions, one disjunct per
return value, in the order of the code's tests. API and CLI handlers run on the
main thread with the workers at the barrier (none of them is marked thread safe), so a
call is one step. `reply` is the reply message: the index is `~0` (`NoIndex`) when the
call refuses, which matters because l2tvppd uses it without looking at `retval`. An
endpoint is an address with its port. `n_sessions` wraps at `Wrap`. Left out as data no
property tells apart: acfc/pfc, hw_if_index, interface flags, fib index.
Three callers are specified: `Spec` (any call with any arguments), `OwnSpec`
(sessions are deleted through the tunnel they were added to), `RfcSpec` (local tids
are unique, as the comment at `l2tvpp_session_key` assumes).

**`SessionTable`.** What a reader of the hash may rely on: a key has one interface,
two keys never share one, and an entry only comes and goes as a whole.
`InterfaceOf` is the refinement mapping: follow `session_by_key` to the pool and take
the interface found there, which is what `l2tvpp-input` does.

**`L2tvppRoutes`.** `fib` is the set of (prefix, interface) paths under the
plugin's source; VPP's FIB itself is external. `EncapAdjAdd` and `EncapAdjDel`
are the two branches of `l2tvpp_encap_adj_add_del`, `EncapNext` is the lookup of
the fast-path node. `adj_lock` counts the cache's own locks. `RSpec` is any caller;
`CarefulSpec` one that deletes a session through its own tunnel and after its routes,
and routes a prefix through one session at a time.

**`Encap`.** Every step of a careful caller, with what it does to adjacencies:
one that paths or locks come to refer to is made (`UpdateAdj`), one that nothing refers to
is gone. Which slot of the session pool an address means depends on the block of memory
the pool is in; with `Moves` a pool that grows may move, and a pointer into the old block
reads anything (`FixupReads`). `Fixup` is the end-around-carry arithmetic of
`ip_csum_update` on words of `Word` values; the header's constant words are represented
by their sum (`HdrSum`). The PPP protocol is not in the rewrite's model, nor the empty rewrite for a
link type other than IPv4 and IPv6: no property reads them, and no subscriber route makes such an adjacency. For a careful caller no adjacency is left when its session is
deleted, so the walk that removes delegates (`RemoveDelegate`) finds none; it matters to
callers that delete a session under its routes.

**`Handoff`.** A packet is its flow and its *kind* (`PacketKinds`). `Receive` is the driver,
which hands it to `l2tvpp-flow-handoff` (`FlowHandoff`) or `ethernet-input`; behind the
latter is the node registered for udp/1701, the session handoff or `l2tvpp-input` itself
(`EthernetInput`, `Input`). `Dequeue` is a thread taking a packet off one of its two vlib
frame queues (external: bounded, FIFO, polled). `Hash`, `FlowHash` and `OuterHash` stand for
the mixes and CRCs, any functions of what they are computed from; `RxThread` for NIC RSS. In
spray mode any worker may be next, as threads race on the cursor. Queues are created with the
depth `LegalNelts` computes, the one to `ethernet-input` on first use. History: `done` and
`out` (what went through `l2tvpp-input`), `by_hand`, and in a packet the queues it took
(`via`), how its interface spread packets (`spread`) and whether anything that
steers packets changed while it waited (`steady`).

**`Decap`.** `Samples` are frames with every combination of L2TP flag bits, offset sizes and
PPP compressions that matters, and outer headers with every field that some check looks at;
each also cut off after every number of octets. Every walk returns the end of the furthest
octet it looked at. The actions are the nodes; which of them a frame meets is left open.
`PacketLayout` describes a frame from its fields, without taking it apart, and `KindOf` says
what it is; the properties compare the two. This is also what ties `PacketKinds`, which
`Handoff` uses, to the octets. `hashed` is the
place of the header whose hash picks the worker. `Delivered` is the external local path of VPP, which
verifies the UDP length and checksum too (`udp_valid`), as the code here does not. The version
nibble of an IP header is taken to agree with the Ethernet type before it.

**`Steer`.** One action per system call of the loader that leaves something behind, each with
its failure, in the order of `main` (`After`), and `Kill` between any two; an interface the kernel
does not know ends a run before it begins (`UnknownInterface`). Two results that the loader ignores
are taken to be successes: the updates of the array maps (`l2tp_steer.c:221`, `:224`), whose index is
in range, and the removal of a pin that the same run has just made. The unlinks of `-d`, which it
ignores as well, may fail, and `before.stuck` remembers which did. `SteerTo` is what the
program does with a packet of a session in the present state of its maps. Object lifetime,
pinning and attaching are the kernel's (external, stated in the module's header).

**`Syncd`.** One action per step of a pass that another party can get in
between: `StartPass` (`/proc/net/pppol2tp`), `ReadTunnels` (`ip l2tp`, tunnel
dump), then per session `BeginAdd`/`AddTunnel`/`AddSession`/`CallRoute`/
`RecordSession` or `BeginSync`/`CallRoute`/`RecordSession`, per gone session
`BeginDel`/`CallRoute`/`DelSession`, then `BeginPrune`/`PruneTunnel` and
`SaveState`. Each API step takes the plugin's own action, conjoined. `Raise` is an
exception leaving `reconcile`: `self.installed` keeps what it has, nothing is
saved. The order in which a dict is walked does not matter to the code and is
left open. Parsing is modelled by what it yields: `/proc` gives ids, the netdev name
and an address that is *not* the peer's but the LNS's own (`ProcPeer`), `ip l2tp` the
endpoints; a failing `ip` gives any part of its output (`IpPrints`).
`settled` is a history variable: it records that a pass started and ended with no
event in between, and whether it re-checked routes. The environment commits faults
(`Faults`: a key reused, a tid with another LAC, a tunnel re-established by its LAC under the same
tid, a prefix or a netdev name moving, `ip` failing, a kill, a VPP restart), at most `MaxEvents` events in all; `hit` remembers which, and each
property says under which of them it holds. `Fallback` is `--local-ip`; whether a failing
`ip l2tp` belongs to what the daemon copes with (`KernelFaults`) depends on it.

## Runs

| run | spec | checks |
|---|---|---|
| `routes_any` | `RSpec` | `TypeOK`, `KeyIndexAgrees`, `SwIfIndexAgrees`, `TunnelsIdentified`, `CachedAdjLocked`, `FastpathWithinFib`, `CountCoversCache`, `ImplementsTable` |
| `encap_careful` | `ESpec` | `SessionCountExact`, `NoDanglingTunnel`, `FastpathMirrorsFib`, `LocksMatchCache`, `NoDanglingRoute`, `RewriteFollowsSession`, `EmittedHeaderValid` |
| `handoff` | `HSpec` | `Conserved`, `SessionOrder`, `OrderKept`, `QueueDepthLegal`, `DeliveredToOwner`, `HandedOffOnce` |
| `decap` | `DSpec` | `NoReadPastEnd`, `VerdictMatchesLayout`, `PuntRestoresIp`, `ClassifierAgrees`, `XdpMatchesLayout`, `HashFollowsFlow` |
| `steer` | `SSpec` | `AttachedSteers`, `FailureLeavesNothing`, `DetachCleans`, `SessionOnOneCpu` |
| `syncd` | `SSpec`, all faults | `NoEmptyTunnels`, `PassMirrorsSessions`, `PassMirrorsRoutes`, `RecordsAccurate`, `LocksFollowRoutes`, `CarefulCaller` |
| `syncd_live` | `FairSpec`, all faults | `PassesComplete`, `Converges` |
| `objects_shared_tid` | `Spec` | `NoDanglingTunnel` is violated |
| `syncd_move_locks` | `SSpec`, prefixes move | `PassReleasesLocks` is violated |
| `syncd_stale_record` | `SSpec`, kills, two tids | `RestartHarmless` is violated |
| `syncd_local_ip` | `SSpec`, `ip` failing, `--local-ip` | `PassMatchesKernel` is violated |
| `encap_pool_moves` | `ESpec`, `Moves` | `EmittedHeaderValid` is violated |

What the passing runs show: no sequence of calls makes an index disagree
with its pool or lets the fast path use an unlocked adjacency. The guarantees
that need a disciplined caller (exact counters, cache equal to FIB, no adjacency with the ids of
a former session, valid checksums) hold for the discipline that `CarefulNext` states, and
`CarefulCaller` checks that every step of the daemon follows it as long as no prefix or netdev
name moves and nobody is killed or restarted; `LocksFollowRoutes` is what follows for the fast
path. A packet that waits in a queue while its session
is deleted, re-added or its index reused is delivered to the session that has its key when it is
decapsulated, or punted; it is counted when dropped,
and is not overtaken within its unit of order (session or flow, by mode) unless something was
reconfigured. No parser reads past a cut frame. The decap fast path takes only what
the nodes it skips would have delivered to us, but for the UDP length and checksum, which nobody
verifies then; of the encap fast path nothing of the kind is claimed. The header that picks a
packet's worker is the one `l2tvpp-input` will find. Passes of the daemon over a quiet kernel repair what the kernel and its
tools did (`KernelFaults`)
during earlier ones, and no combination of kills, restarts, failing commands and kernel changes
stops them from completing. An attached XDP program never steers to a cpu that does not exist or
moves a session, however its loader ends.

What the failing runs show, each against a line of the repository
(`findings` in `PROJECT.json`):

* `objects_shared_tid`: nothing enforces unique local tids, and a session
  delete through the wrong tunnel of a shared tid frees a tunnel in use.
* `syncd_move_locks`: a subscriber that reconnects with the same /32 before the
  old session is removed ends up without a fast-path entry; the old
  adjacency's lock is leaked and the counter is off.
* `syncd_stale_record`: a kill after a pass removed a session, and before it saved, leaves the
  record of a session that is gone. The restarted daemon deletes it again by tunnel index and
  sid; if the index has gone to a new tunnel, that takes a live session away, which the daemon
  has on record and so never installs again.
* `syncd_local_ip`: when `ip l2tp` fails, a daemon without `--local-ip` raises and tries again;
  one with it installs the tunnel towards the address in `/proc/net/pppol2tp`, which is the LNS's
  own, and keeps it. `docs/m0-notes.md` lists this very symptom as fixed.
* `encap_pool_moves`: a new session may move the session pool; adjacencies made before
  complete checksums from memory that is no longer the session's.

Other faults break the same two properties; they are one change of `Faults` in these
configurations away:

* `RestartHarmless` with `"vpp"`: after a VPP restart the daemon trusts its state file and does
  not reinstall. (`docs/vyos-deploy.md` has the LAC re-establish the tunnel, which gives the
  sessions new ids.)
* `PassMatchesKernel` with `"crash"`: a kill between a session's install and the end of the pass
  forgets it; if the kernel session ends too, VPP keeps it for good.
* `PassMatchesKernel` with `"reuse"` and two values of `PeerSids`: a (tid, sid) given to another
  subscriber between two passes is taken for the session on record; VPP keeps sending to the
  former peer session id.
* `PassMatchesKernel` with `"renewed"` and two values of `PeerTids`: a tunnel is looked up by
  peer, port and local tid only; when the LAC re-establishes it with another tunnel id, new
  sessions are put on the former one.

Smaller things met on the way, with no run of their own. `l2tvpp handoff on` after flow
handoff was enabled is accepted, and packets are then handed off twice, which the comments at
`flow_handoff.c:46` and `:536` rule out; `HandedOffOnce` is stated up to that command. The
comment at `flow_handoff.c:280` says the fast path checks "everything ip4-input + ip4-lookup +
ip4-receive would have checked"; the UDP length and checksum, which VPP's local path verifies before
udp-local, it does not, and `ClassifierAgrees` names them as the exception. `flow_handoff.c:37` says
truncated packets stay on the RX worker, while the code sends them to the worker of their outer hash
(`goto outer`). And `:337` explains the fast path's hash of 0 by a "non-IP PPP payload", which never
gets there: such a packet takes `goto outer` before, off the fast path, and what gets a hash of 0 is
an inner IP header that is cut off or of neither version. The properties state what the code does.
-d on an interface that is gone exits before it unlinks anything (`l2tp_steer.c:159`), so that pins
left by a killed run have to be removed by a `-d` on another interface.

### Bounds

Two tunnels, two or three sessions, two peers and two tids are the least with which a
tid can be shared, an index reused while another object lives, and a prefix move between
sessions. Hosts and other prefixes are separate because only hosts are cached.
`objects_shared_tid` and `encap_pool_moves` have three sessions, so that counters go above 1 and
a pool grows beside a live adjacency. `Wrap` is above the number of sessions (the code has 2^32),
so a decrement below zero is seen. `MaxLock` bounds locks and counter: 2 or 3 in the route runs,
6 with the daemon. `Word` is 8 in place of 2^16: every carry of the fixup happens, sums of all
ones included. `MaxEvents` is 4, or 3 with liveness: a session up, a reconnect and a
fault; passes are unbounded. `ResyncEvery` is 2 instead of 6: both kinds of pass alternate.
`syncd_stale_record` has two tids, for a tunnel index to go from one to the other.
`decap` has the flag combinations of `MCDecap` with every cut; its only bounds are the samples
and `OffsetCap`, the pad a frame really has, beyond which an offset points past the end.
`handoff` has two workers, worker lists of none, one and two, two packets out of two flows of one
session and three kinds (data, truncated data, control), and queue depths of 1 and, rounded up
from 3, of 4: a queue of one fills and drops on either hop. One session index makes every re-add
reuse it. `steer` has two interfaces, three objects (one attached on
each interface, or one attached and one of which only pins are left, and the one being loaded; a
fourth would add a load beside both, whose pinning fails on the leftovers in the same way), three cpus, and cpu lists that are empty, good, and with a cpu too many.
Symmetry is over indices and names that no definition orders; the runs with liveness use none.

### Fairness

`FairSpec` assumes weak fairness of the daemon's own steps and of `Restart`:
the loop in `run_daemon` catches every exception and always sleeps a bounded
time, its calls return or raise, systemd restarts it (`Restart=always` in the
image's unit, `on-failure` in the one in `syncd/`, which a kill is), and after a VPP
restart the deployment guide has the operator restart the daemon. Nothing
is assumed of the kernel; events are bounded, so it becomes quiet.

`HSpec` assumes none: that a frame queue is polled is vlib's affair, not the repository's.

## Proofs

TLAPS checks every theorem for every value of the constants that satisfies the named
assumptions. These say no more than what the code or its types give:

| assumption | says | because |
|---|---|---|
| `IndexAssumption` | `~0` is no index; the session pool is finite and smaller than `Wrap` | a u32 counter, a pool of u32 indices |
| `PrefixAssumption` | hosts are a finite set, distinct from other prefixes | /32s are a kind of prefix |
| `EncapAssumption` | the words have at least two values; header sums and lengths are nonzero words | `Word` is 2^16, version and length are never 0 |
| `HandoffAssumption` | hashes are functions into Nat; depths are at most 2^30 | CRCs; above 2^31 `1 << max_log2` shifts by 32 |
| `LayoutAssumption` | PPP protocols are as RFC 1661 has them; an offset has its pad or points past the frame's end | otherwise the octets would be another frame |
| `SteerAssumption` | a cpu list has at most `MaxCpus` entries | `parse_cpulist` is given that bound |
| `SyncdAssumption`, `AllIp4` | None is no local address; endpoints are IPv4 | the plugin is IPv4 only and refuses others (`l2tvpp.c:261`); `FROM_TO_RE` (`l2tvppd.py:126`) itself would take any address from `ip l2tp` |

`AllIp4` is a hypothesis of each theorem on the daemon; every other theorem has no hypothesis but its
specification.

**Plugin, any caller.** `IndexInv` (types, both index agreements, tunnel identity) is
inductive for `Spec`. The agreements need each other: `SessionDel` finds the session
by key and clears the vector by its interface, so only injectivity of both indexes
together shows that no other session's entry is touched. Gives
`TypeCorrect`, `KeyIndexSafe`, `SwIfIndexSafe`, `TunnelIdentity`. `RouteInv` (types, a cached entry
is locked, is a FIB path, and is counted) gives `RouteTypes`, `CachedLocked`,
`FastpathFollowsFib`, `CountCovers`. A delete removes the entry for any interface, which is what
keeps the cache within the FIB.

**Refinement.** `TableRefinement`: `Spec` implements `SessionTable`. Initial states map to
the empty table; under `IndexInv` a session add maps to `Add` (the interface is new, so no other
key has it), a delete to `Remove` (the pool slot that goes is that of the key that goes), and
everything else, refusals included, to a stutter.

**Own-tunnel callers, unique tids.** `CountInv` adds `SessionCountExact` and
`NoDanglingTunnel`. They are inductive only together: the in-use test is right
because the count is exact, and the count of a new tunnel is 0 because no session names a
free index. Gives `CountExact`, `TunnelsOutliveSessions`. With distinct local tids every call is
one of an own-tunnel caller (`RfcStepOwn`), hence `RfcCountExact`: what the comment in `l2tvpp.h`
assumes is enough.

**Careful callers.** `CarefulInv` adds one path per prefix, cache equal to
host routes, locks equal to cache and `NoDanglingRoute`, on top of `IndexInv`:
the vector lookup shows that a routed interface is a live session's. Gives
`CarefulFastpath`, `CarefulLocks`, `CarefulRoutes`.

**Encap.** `EncapInv` says that the adjacencies are exactly the FIB's paths and that each is
*current* (`AdjCurrent`): written from the session that has its interface, pointing at that
session's slot in the block the pool had then, whose checksum base is the session's. It needs `CarefulInv` (a
lock is on a path, so nothing else keeps an adjacency alive) and `CountInv` (the tunnel whose
addresses are in the rewrite is still the session's). Gives `RewriteCurrent`, and
`HeadersValid`, both with pool moves: a header is valid through every adjacency whose pointer is into
the block the pool is in now, hence through all of them until the first move, and
`encap_pool_moves` shows that after one it need not be. `FixupValid` is the arithmetic: for any word size, header sum and
length, the end-around sum of the header, the length and the completed checksum is all ones. `EncapTunnels` carries the
theorems on counters over.

**Parsers.** `FrameOK` describes a frame as `PacketLayout` puts it together; one lemma per field
says which octet of `L2tpOctets` it is (`HeaderOctets` is a concatenation of optional parts, so these are
proved by cases on the flags), and one lemma per parser that its walk finds what `KindOf` says and
reads no further than the end. `DecapInv` then only has to carry from node to node that what
arrives at `l2tvpp-input` is a delivered datagram with its cursor at the L2TP header and its outer IP
header on record (`Place`), on the fast path as on the slow one. Gives `ReadsInside`, `InputRight`,
`PuntsRestored`, `ClassifierSound`, `XdpRight`, `FlowsHashed`, for frames of any flags, version,
offset, protocol and outer header, cut anywhere.

**Handoffs.** `HandoffInv` describes the queues' contents by four relations: what holds of one
packet in a queue (`PacketInv`: which queues it took, and that, unless something was reconfigured,
it is where the present configuration would put it), of any two (distinct ids), of two in
one queue (`LineInv`), and of one in each of two queues in turn (`TandemInv`): a packet in the
second queue is ahead of those of its unit of order still in the first. The last one is what
makes order across two hops inductive; with it, `Placed` shows that packets of one unit meet in the
same queue. Every `Unsettle` of a reconfiguration gives up exactly the claims that need the
configuration. Gives `SessionsInOrder`, `FlowsInOrder`, `OneHandoff`; `OwnerAlways` from
`IndexInv`; `NothingLost` from the count of distinct ids waiting; `QueuesBounded` from `DepthInv`,
for which the powers of two up to 2^30 are enumerated.

**XDP loader.** `SteerInv`: the object being loaded is attached nowhere (`LoadingInv`) and filled
as far as the loader has come, every attached object is completely filled (`Ready`), and at each step
of an attach the pins differ from those before the run in a prefix of the list of maps only
(`PinnedSince`). Gives `AttachedAlwaysSteers`, `FailedAttachUndone`, `DetachUnpins`, and the action
property `SteeringStable`.

**Daemon.** `SyncInv` has a layer per class of faults, since what the daemon may rely on depends
on them:

* always, `KernelOK`: what the kernel guarantees of netdevs, prefixes and tunnels;
* unless the daemon or VPP was restarted, `BaseInv`: `CountInv` of the plugin; VPP's sessions
  are the recorded ones and the one at hand (`RecordsLive`), routed by their records or, for the
  one at hand, by what its remaining calls leave (`PathsExact`); `tunnels_cache` is what a dump would
  return (`CacheRight`); the loops have left what they have left (`TodoRight`); a tunnel without
  sessions is about to get one or about to go (`EmptiesKnown`); and what a pass over an unchanged
  kernel has achieved so far (`SettledRight`);
* if also no prefix or netdev name moved, `RoutesApart`: no prefix is on record, or being
  installed, for two sessions;
* under `KernelFaults` only, `MirrorRight`: what VPP has and what the snapshot says of a
  kernel tunnel is right, so that a session put on a tunnel found in the cache is on its own.

`BaseInv` makes every call of the daemon succeed, so that its not looking at `retval` does no
harm; that is the reason `RecordsAlwaysAccurate` and `NoTunnelLeft` need nothing but the absence of
restarts, reused keys and renewed tunnels included. `PassMirrors` and `PassRoutes` add
`MirrorRight`. `DaemonIsCareful` shows each step to be one of `CarefulNext` from `BaseInv` and
`RoutesApart`, and `DaemonKeepsLocks` composes it with the proof that careful steps keep
`CarefulInv`: the guarantees of cache and locks hold for the plugin as the daemon drives it.
`SyncInv` was first checked with TLC, on the instance of `syncd`, one with two tids and peer ids, and
one with `--local-ip`.

**Only model-checked.** Liveness (`PassesComplete`, `Converges`): fairness and ENABLED
are outside the prover. The failing runs are counterexamples, which need no proof; their
properties have no theorem because they are false.

## Plan

Every safety property of a passing run has its theorem. What is left: the invariants of the passes
after a restart of the daemon alone (what a stale record can and cannot do), and a specification of
the daemon's promise, a table of sessions mirrored with a delay, that `Syncd` would refine under
`KernelFaults`.

## Not modelled

* The one-shot `l2tvppd reconcile` beside a running daemon. `l2tvppd.py:33-40` calls it safe from cron
  or by hand and suggests it as accel-ppp's hook, so the two may well meet: one state file, and the
  last to save wins. It takes a second copy of the pass's variables, which is out of reach of the
  present instances.
* The bitmap of interfaces with the encap fast path: its only other state is vnet's feature arc.
* What skipping `ip4-input` on the encap fast path gives up (checksum and length checks): the
  model has the fast path's own guards and reads, and no claim that they amount to the nodes skipped.
* Inner IPv4 fragments, whose later ones are hashed without ports; the CLI's truncation of
  32-bit numbers; queue depths above 2^30.
* Interface and error counters, statistics, show commands, packet traces and logging; build, image
  and release tooling.
