----------------------------- MODULE L2tvppRoutes -----------------------------
(***************************************************************************)
(* Subscriber routes (l2tvpp_route_add_del) over the session objects: the  *)
(* FIB paths the plugin installs under its own source, and the encap       *)
(* fast-path cache that maps a subscriber's IPv4 address to the midchain   *)
(* adjacency of its session, one adjacency lock per cached entry.          *)
(*                                                                         *)
(* The neighbour adjacency of host h on interface w is the pair <<h, w>>;  *)
(* adj_lock counts the locks taken on it by the cache (the FIB's own locks *)
(* are the FIB's business).                                                *)
(***************************************************************************)
EXTENDS L2tvppObjects

CONSTANTS
  Hosts,     \* IPv4 /32 prefixes: the ones the cache holds
  OtherPfx,  \* IPv6 prefixes and IPv4 prefixes shorter than /32
  MaxLock    \* bound on the locks of one adjacency and on the entry counter

Prefixes == Hosts \cup OtherPfx

ASSUME PrefixAssumption ==
  /\ Hosts \cap OtherPfx = {}
  /\ IsFiniteSet(Hosts)
  /\ MaxLock \in Nat

VARIABLES
  fib,               \* paths under lm->fib_src: pairs <<prefix, sw_if_index>>
  encap_adj_by_ip4,  \* lm->encap_adj_by_ip4: host -> interface of the adjacency
  adj_lock,          \* locks the cache has taken and not released
  encap_adj_count    \* lm->encap_adj_count

routeVars == <<fib, encap_adj_by_ip4, adj_lock, encap_adj_count>>
rvars == <<vars, routeVars>>

RInit ==
  /\ Init
  /\ fib = {}
  /\ encap_adj_by_ip4 = [h \in {} |-> {}]
  /\ adj_lock = [a \in Hosts \X SwIf |-> 0]
  /\ encap_adj_count = 0

\* The interface is one of a live session.
IsSessionSwIf(w) ==
  w \in SwIf /\ session_index_by_sw_if_index[w] # NoIndex

\* Mutant: the lock is not taken.
AddUnlocked(p, w) ==
  /\ p \in Hosts
  /\ encap_adj_count < MaxLock
  /\ encap_adj_by_ip4' = Put(encap_adj_by_ip4, p, w)
  /\ encap_adj_count' = encap_adj_count + 1
  /\ UNCHANGED adj_lock

\* l2tvpp_encap_adj_add_del, is_add: the bihash add overwrites an entry the
\* host already has, whose adjacency keeps its lock, and is counted again.
EncapAdjAdd(p, w) ==
  \/ /\ p \notin Hosts
     /\ UNCHANGED <<encap_adj_by_ip4, adj_lock, encap_adj_count>>
  \/ /\ p \in Hosts
     /\ adj_lock[<<p, w>>] < MaxLock /\ encap_adj_count < MaxLock
     /\ adj_lock' = [adj_lock EXCEPT ![<<p, w>>] = @ + 1]
     /\ encap_adj_by_ip4' = Put(encap_adj_by_ip4, p, w)
     /\ encap_adj_count' = encap_adj_count + 1

\* Mutants: the entry outlives its lock; the lock outlives its entry; the counter
\* goes down on a miss too.
DelKeepsEntry(p) ==
  /\ p \in DOMAIN encap_adj_by_ip4
  /\ adj_lock' = [adj_lock EXCEPT ![<<p, encap_adj_by_ip4[p]>>] = @ - 1]
  /\ encap_adj_count' = encap_adj_count - 1
  /\ UNCHANGED encap_adj_by_ip4
DelLeaksLock(p) ==
  \/ /\ p \notin DOMAIN encap_adj_by_ip4
     /\ UNCHANGED <<encap_adj_by_ip4, adj_lock, encap_adj_count>>
  \/ /\ p \in DOMAIN encap_adj_by_ip4
     /\ encap_adj_by_ip4' = Drop(encap_adj_by_ip4, p)
     /\ encap_adj_count' = encap_adj_count - 1
     /\ UNCHANGED adj_lock
DelCountsMisses(p) ==
  /\ encap_adj_count' = IF encap_adj_count > 0 THEN encap_adj_count - 1 ELSE 0
  /\ UNCHANGED <<encap_adj_by_ip4, adj_lock>>

\* l2tvpp_encap_adj_add_del, !is_add: removes the host's entry, whichever
\* interface it is for, and releases the adjacency the entry held.
EncapAdjDel(p) ==
  \/ /\ p \notin DOMAIN encap_adj_by_ip4
     /\ UNCHANGED <<encap_adj_by_ip4, adj_lock, encap_adj_count>>
  \/ /\ p \in DOMAIN encap_adj_by_ip4
     /\ encap_adj_by_ip4' = Drop(encap_adj_by_ip4, p)
     /\ adj_lock' = [adj_lock EXCEPT ![<<p, encap_adj_by_ip4[p]>>] = @ - 1]
     /\ encap_adj_count' = IF encap_adj_count > 0 THEN encap_adj_count - 1 ELSE 0

\* l2tvpp_route_add_del, is_add
RouteAdd(p, w) ==
  \/ /\ ~IsSessionSwIf(w)
     /\ Refuse("INVALID_SW_IF_INDEX")
     /\ UNCHANGED routeVars
  \/ /\ IsSessionSwIf(w)
     /\ fib' = fib \cup {<<p, w>>}
     /\ EncapAdjAdd(p, w)
     /\ Answer("OK", NoIndex)
     /\ UNCHANGED objVars

\* l2tvpp_route_add_del, !is_add
RouteDel(p, w) ==
  \/ /\ ~IsSessionSwIf(w)
     /\ Refuse("INVALID_SW_IF_INDEX")
     /\ UNCHANGED routeVars
  \/ /\ IsSessionSwIf(w)
     /\ fib' = fib \ {<<p, w>>}
     /\ EncapAdjDel(p)
     /\ Answer("OK", NoIndex)
     /\ UNCHANGED objVars

\* l2tvpp-encap-fastpath: where a plain IPv4 packet for host h goes, straight
\* to ip4-midchain with the cached adjacency, or down the normal path.
EncapNext(h) ==
  IF h \in DOMAIN encap_adj_by_ip4
  THEN [next |-> "ip4-midchain", adj |-> <<h, encap_adj_by_ip4[h]>>]
  ELSE [next |-> "ethernet-input", adj |-> <<>>]

-----------------------------------------------------------------------------
(* Callers *)

AnySwIf == SwIf \cup {NoIndex}

TunnelAndSessionAdds ==
  (TunnelAddCalls(Tids) \/ TunnelDelCalls \/ SessionAddCalls)
    /\ UNCHANGED routeVars

RouteAddCalls == \E p \in Prefixes, w \in AnySwIf : RouteAdd(p, w)
RouteDelCalls == \E p \in Prefixes, w \in AnySwIf : RouteDel(p, w)

\* Any caller at all.
RNext ==
  \/ TunnelAndSessionAdds
  \/ \E t \in AnyIndex, sid \in Sids : SessionDel(t, sid) /\ UNCHANGED routeVars
  \/ RouteAddCalls
  \/ RouteDelCalls

\* No path leads to the session a delete would remove.
Unrouted(t, sid) ==
  t \in DOMAIN tunnels =>
    LET key == <<tunnels[t].local_tid, sid>>
    IN key \in DOMAIN session_by_key =>
         \A p \in Prefixes :
           <<p, sessions[session_by_key[key]].sw_if_index>> \notin fib

\* A caller that routes a prefix through one session at a time, removes what
\* it added, and removes a session's routes before the session.
CarefulNext ==
  \/ TunnelAndSessionAdds
  \/ \E t \in AnyIndex, sid \in Sids :
       /\ OwnTunnel(t, sid) /\ Unrouted(t, sid)
       /\ SessionDel(t, sid) /\ UNCHANGED routeVars
  \/ \E p \in Prefixes, w \in AnySwIf :
       /\ \A v \in SwIf : <<p, v>> \notin fib
       /\ RouteAdd(p, w)
  \/ \E p \in Prefixes, w \in AnySwIf :
       /\ w \in interfaces => <<p, w>> \in fib
       /\ RouteDel(p, w)

RSpec == RInit /\ [][RNext]_rvars
CarefulSpec == RInit /\ [][CarefulNext]_rvars

-----------------------------------------------------------------------------
(* Properties *)

\* The route state holds values of its C types.
RTypeOK ==
  /\ fib \subseteq Prefixes \X SwIf
  /\ DOMAIN encap_adj_by_ip4 \subseteq Hosts
  /\ encap_adj_by_ip4 \in [DOMAIN encap_adj_by_ip4 -> SwIf]
  /\ adj_lock \in [Hosts \X SwIf -> Nat]
  /\ encap_adj_count \in Nat

\* A cached adjacency is locked (l2tvpp.c:388, "locked while cached"), so the
\* fast path never hands ip4-midchain an adjacency that was freed: for any
\* caller, double adds, deletes through the wrong interface and deletes of
\* routes of vanished sessions included.
CachedAdjLocked ==
  \A h \in DOMAIN encap_adj_by_ip4 : adj_lock[<<h, encap_adj_by_ip4[h]>>] > 0

\* The fast path only shortcuts what ip4-lookup could have decided (l2tvpp.c:418,
\* "same neighbour adjacency ip4-lookup resolves this /32 to"): the adjacency it
\* uses is one of the FIB's paths for that host, whoever calls.
FastpathWithinFib ==
  \A h \in Hosts : EncapNext(h).next = "ip4-midchain" => EncapNext(h).adj \in fib

\* encap_adj_count never falls behind the number of cached entries, so the
\* underflow test in l2tvpp_encap_adj_add_del is never what saves it.
CountCoversCache ==
  Cardinality(DOMAIN encap_adj_by_ip4) <= encap_adj_count

\* For a careful caller every /32 route takes the fast path, on the interface
\* the FIB sends it to.
FastpathMirrorsFib ==
  \A h \in Hosts, w \in SwIf :
    <<h, w>> \in fib <=> EncapNext(h) = [next |-> "ip4-midchain", adj |-> <<h, w>>]

\* For a careful caller the locks are exactly those of the cached entries
\* (l2tvpp.c:418, "released on remove") and the counter `show l2tvpp
\* encap-fastpath' prints is the number of entries.
LocksMatchCache ==
  /\ \A h \in Hosts, w \in SwIf :
       adj_lock[<<h, w>>] =
         IF EncapNext(h) = [next |-> "ip4-midchain", adj |-> <<h, w>>] THEN 1 ELSE 0
  /\ encap_adj_count = Cardinality(DOMAIN encap_adj_by_ip4)

\* For a careful caller no path outlives the session it goes through, so a
\* reused sw_if_index never inherits another subscriber's routes.
NoDanglingRoute ==
  \A x \in fib : x[2] \in interfaces
=============================================================================
