------------------------- MODULE L2tvppRoutes_proofs -------------------------
(***************************************************************************)
(* Proofs about L2tvppRoutes, for every set of hosts, prefixes, sessions   *)
(* and interfaces and every bound MaxLock.                                 *)
(***************************************************************************)
EXTENDS L2tvppRoutes, L2tvppObjects_proofs

-----------------------------------------------------------------------------
(* Any caller *)

\* The inductive invariant of RSpec: an unlock never underflows because the
\* entry it follows held a lock.
RouteInv == RTypeOK /\ CachedAdjLocked /\ FastpathWithinFib /\ CountCoversCache

\* The fast path property, read off the cache.
LEMMA WithinFibCache ==
  FastpathWithinFib <=>
    \A h \in Hosts : h \in DOMAIN encap_adj_by_ip4 => <<h, encap_adj_by_ip4[h]>> \in fib
  BY DEF FastpathWithinFib, EncapNext

\* The cache is finite.
LEMMA CacheFinite ==
  ASSUME RTypeOK
  PROVE  /\ IsFiniteSet(DOMAIN encap_adj_by_ip4)
         /\ Cardinality(DOMAIN encap_adj_by_ip4) \in Nat
  BY PrefixAssumption, FS_Subset, FS_CardinalityType DEF RTypeOK

\* Nothing is cached, locked or counted at the start.
LEMMA InitRoute == RInit => RouteInv
  BY FS_EmptySet DEF RInit, RouteInv, RTypeOK, CachedAdjLocked,
     FastpathWithinFib, EncapNext, CountCoversCache

\* A call that leaves the route state alone keeps it.
LEMMA UnchangedRoute ==
  ASSUME RouteInv, UNCHANGED routeVars
  PROVE  RouteInv'
  BY DEF RouteInv, routeVars, RTypeOK, CachedAdjLocked, FastpathWithinFib,
         EncapNext, CountCoversCache

\* l2tvpp_route_add_del, is_add: an overwritten entry keeps its lock, the new
\* one gets its own, and each addition is counted.
LEMMA RouteAddKeeps ==
  ASSUME RouteInv, NEW p \in Prefixes, NEW w, RouteAdd(p, w)
  PROVE  RouteInv'
  <1>1. CASE UNCHANGED routeVars
    BY <1>1, UnchangedRoute
  <1>2. CASE w \in SwIf /\ fib' = fib \cup {<<p, w>>} /\ EncapAdjAdd(p, w)
    <2>1. RTypeOK /\ CachedAdjLocked /\ CountCoversCache
      BY DEF RouteInv
    <2>2. CASE p \notin Hosts /\ UNCHANGED <<encap_adj_by_ip4, adj_lock, encap_adj_count>>
      BY <1>2, <2>1, <2>2 DEF RouteInv, RTypeOK, CachedAdjLocked,
         FastpathWithinFib, EncapNext, CountCoversCache
    <2>3. CASE /\ p \in Hosts
               /\ adj_lock' = [adj_lock EXCEPT ![<<p, w>>] = @ + 1]
               /\ encap_adj_by_ip4' = Put(encap_adj_by_ip4, p, w)
               /\ encap_adj_count' = encap_adj_count + 1
      <3>1. /\ DOMAIN encap_adj_by_ip4' = DOMAIN encap_adj_by_ip4 \cup {p}
            /\ encap_adj_by_ip4'[p] = w
            /\ \A h \in DOMAIN encap_adj_by_ip4 \ {p} :
                 encap_adj_by_ip4'[h] = encap_adj_by_ip4[h]
        BY <2>3 DEF Put
      <3>2. <<p, w>> \in Hosts \X SwIf
        BY <1>2, <2>3
      <3>3. /\ adj_lock'[<<p, w>>] = adj_lock[<<p, w>>] + 1
            /\ \A a \in (Hosts \X SwIf) \ {<<p, w>>} : adj_lock'[a] = adj_lock[a]
            /\ adj_lock[<<p, w>>] \in Nat
        BY <2>1, <2>3, <3>2 DEF RTypeOK
      <3>4. RTypeOK'
        <4>1. adj_lock' \in [Hosts \X SwIf -> Nat]
          BY <2>1, <2>3, <3>2 DEF RTypeOK
        <4>2. /\ DOMAIN encap_adj_by_ip4' \subseteq Hosts
              /\ encap_adj_by_ip4' \in [DOMAIN encap_adj_by_ip4' -> SwIf]
          BY <1>2, <2>1, <2>3 DEF RTypeOK, Put
        <4>3. fib' \subseteq Prefixes \X SwIf
          BY <1>2, <2>1 DEF RTypeOK
        <4>4. QED
          BY <2>1, <2>3, <4>1, <4>2, <4>3 DEF RTypeOK
      <3>5. CachedAdjLocked'
        <4>1. ASSUME NEW h \in DOMAIN encap_adj_by_ip4'
              PROVE  adj_lock'[<<h, encap_adj_by_ip4'[h]>>] > 0
          <5>1. CASE h = p
            BY <3>1, <3>3, <5>1
          <5>2. CASE h # p
            <6>1. h \in DOMAIN encap_adj_by_ip4 /\ encap_adj_by_ip4'[h] = encap_adj_by_ip4[h]
              BY <3>1, <4>1, <5>2
            <6>2. <<h, encap_adj_by_ip4[h]>> \in (Hosts \X SwIf) \ {<<p, w>>}
              BY <2>1, <5>2, <6>1 DEF RTypeOK
            <6>3. QED
              BY <2>1, <3>3, <6>1, <6>2 DEF CachedAdjLocked
          <5>3. QED
            BY <5>1, <5>2
        <4>2. QED
          BY <4>1 DEF CachedAdjLocked
      <3>6. FastpathWithinFib'
        <4>1. \A h \in Hosts : h \in DOMAIN encap_adj_by_ip4'
                 => <<h, encap_adj_by_ip4'[h]>> \in fib'
          BY <1>2, <3>1, WithinFibCache DEF RouteInv
        <4>2. QED
          BY <4>1 DEF FastpathWithinFib, EncapNext
      <3>7. CountCoversCache'
        <4>1. Cardinality(DOMAIN encap_adj_by_ip4')
                <= Cardinality(DOMAIN encap_adj_by_ip4) + 1
          BY <2>1, <3>1, CacheFinite, FS_AddElement
        <4>2. Cardinality(DOMAIN encap_adj_by_ip4') \in Nat
          BY <3>4, PrefixAssumption, FS_Subset, FS_CardinalityType DEF RTypeOK
        <4>3. QED
          BY <2>1, <2>3, <4>1, <4>2, CacheFinite DEF CountCoversCache, RTypeOK
      <3>8. QED
        BY <3>4, <3>5, <3>6, <3>7 DEF RouteInv
    <2>4. QED
      BY <1>2, <2>2, <2>3 DEF EncapAdjAdd
  <1>3. QED
    BY <1>1, <1>2 DEF RouteAdd, IsSessionSwIf

\* l2tvpp_route_add_del, !is_add: the lock released is the removed entry's own.
LEMMA RouteDelKeeps ==
  ASSUME RouteInv, NEW p \in Prefixes, NEW w, RouteDel(p, w)
  PROVE  RouteInv'
  <1>1. CASE UNCHANGED routeVars
    BY <1>1, UnchangedRoute
  <1>2. CASE fib' = fib \ {<<p, w>>} /\ EncapAdjDel(p)
    <2>1. RTypeOK /\ CachedAdjLocked /\ CountCoversCache
      BY DEF RouteInv
    <2>2. CASE /\ p \notin DOMAIN encap_adj_by_ip4
               /\ UNCHANGED <<encap_adj_by_ip4, adj_lock, encap_adj_count>>
      <3>1. \A h \in Hosts : h \in DOMAIN encap_adj_by_ip4
               => <<h, encap_adj_by_ip4[h]>> \in fib'
        BY <1>2, <2>2, WithinFibCache DEF RouteInv
      <3>2. FastpathWithinFib'
        BY <2>2, <3>1 DEF FastpathWithinFib, EncapNext
      <3>3. QED
        BY <1>2, <2>1, <2>2, <3>2 DEF RouteInv, RTypeOK, CachedAdjLocked, CountCoversCache
    <2>3. CASE /\ p \in DOMAIN encap_adj_by_ip4
               /\ encap_adj_by_ip4' = Drop(encap_adj_by_ip4, p)
               /\ adj_lock' = [adj_lock EXCEPT ![<<p, encap_adj_by_ip4[p]>>] = @ - 1]
               /\ encap_adj_count' = IF encap_adj_count > 0
                                     THEN encap_adj_count - 1 ELSE 0
      <3> DEFINE a == <<p, encap_adj_by_ip4[p]>>
      <3>1. /\ DOMAIN encap_adj_by_ip4' = DOMAIN encap_adj_by_ip4 \ {p}
            /\ \A h \in DOMAIN encap_adj_by_ip4' :
                 encap_adj_by_ip4'[h] = encap_adj_by_ip4[h]
        BY <2>3 DEF Drop
      <3>2. a \in Hosts \X SwIf /\ adj_lock[a] \in Nat /\ adj_lock[a] > 0
        BY <2>1, <2>3 DEF RTypeOK, CachedAdjLocked
      <3>3. \A b \in (Hosts \X SwIf) \ {a} : adj_lock'[b] = adj_lock[b]
        BY <2>1, <2>3 DEF RTypeOK
      <3>4. RTypeOK'
        <4>1. adj_lock' \in [Hosts \X SwIf -> Nat]
          BY <2>1, <2>3, <3>2 DEF RTypeOK
        <4>2. /\ DOMAIN encap_adj_by_ip4' \subseteq Hosts
              /\ encap_adj_by_ip4' \in [DOMAIN encap_adj_by_ip4' -> SwIf]
          BY <2>1, <2>3 DEF RTypeOK, Drop
        <4>3. fib' \subseteq Prefixes \X SwIf
          BY <1>2, <2>1 DEF RTypeOK
        <4>4. encap_adj_count' \in Nat
          BY <2>1, <2>3 DEF RTypeOK
        <4>5. QED
          BY <4>1, <4>2, <4>3, <4>4 DEF RTypeOK
      <3>5. CachedAdjLocked'
        <4>1. ASSUME NEW h \in DOMAIN encap_adj_by_ip4'
              PROVE  adj_lock'[<<h, encap_adj_by_ip4'[h]>>] > 0
          <5>1. h \in DOMAIN encap_adj_by_ip4 /\ h # p
            BY <3>1, <4>1
          <5>2. <<h, encap_adj_by_ip4[h]>> \in (Hosts \X SwIf) \ {a}
            BY <2>1, <5>1 DEF RTypeOK
          <5>3. QED
            BY <2>1, <3>1, <3>3, <4>1, <5>1, <5>2 DEF CachedAdjLocked
        <4>2. QED
          BY <4>1 DEF CachedAdjLocked
      <3>6. FastpathWithinFib'
        <4>1. \A h \in Hosts : h \in DOMAIN encap_adj_by_ip4'
                 => <<h, encap_adj_by_ip4'[h]>> \in fib'
          BY <1>2, <3>1, WithinFibCache DEF RouteInv
        <4>2. QED
          BY <4>1 DEF FastpathWithinFib, EncapNext
      <3>7. CountCoversCache'
        <4>1. Cardinality(DOMAIN encap_adj_by_ip4')
                = Cardinality(DOMAIN encap_adj_by_ip4) - 1
          BY <2>1, <2>3, <3>1, CacheFinite, FS_RemoveElement
        <4>2. QED
          BY <2>1, <2>3, <4>1, CacheFinite DEF CountCoversCache, RTypeOK
      <3>8. QED
        BY <3>4, <3>5, <3>6, <3>7 DEF RouteInv
    <2>4. QED
      BY <1>2, <2>2, <2>3 DEF EncapAdjDel
  <1>3. QED
    BY <1>1, <1>2 DEF RouteDel

\* Every call of any caller keeps it.
LEMMA RNextKeeps == RouteInv /\ [RNext]_rvars => RouteInv'
  <1>1. SUFFICES ASSUME RouteInv, [RNext]_rvars PROVE RouteInv'
    OBVIOUS
  <1>2. CASE UNCHANGED routeVars
    BY <1>1, <1>2, UnchangedRoute
  <1>3. CASE \E p \in Prefixes, w \in AnySwIf : RouteAdd(p, w)
    BY <1>1, <1>3, RouteAddKeeps
  <1>4. CASE \E p \in Prefixes, w \in AnySwIf : RouteDel(p, w)
    BY <1>1, <1>4, RouteDelKeeps
  <1>5. QED
    BY <1>1, <1>2, <1>3, <1>4 DEF RNext, TunnelAndSessionAdds, RouteAddCalls, RouteDelCalls, rvars

\* For any caller the route state keeps its types; adj_unlock never underflows.
THEOREM RouteTypes == RSpec => []RTypeOK
  <1>1. RouteInv => RTypeOK
    BY DEF RouteInv
  <1>2. QED
    BY <1>1, InitRoute, RNextKeeps, PTL DEF RSpec

\* For any caller a cached adjacency is locked.
THEOREM CachedLocked == RSpec => []CachedAdjLocked
  <1>1. RouteInv => CachedAdjLocked
    BY DEF RouteInv
  <1>2. QED
    BY <1>1, InitRoute, RNextKeeps, PTL DEF RSpec

\* For any caller the fast path only uses adjacencies the FIB has.
THEOREM FastpathFollowsFib == RSpec => []FastpathWithinFib
  <1>1. RouteInv => FastpathWithinFib
    BY DEF RouteInv
  <1>2. QED
    BY <1>1, InitRoute, RNextKeeps, PTL DEF RSpec

\* For any caller encap_adj_count is at least the number of entries.
THEOREM CountCovers == RSpec => []CountCoversCache
  <1>1. RouteInv => CountCoversCache
    BY DEF RouteInv
  <1>2. QED
    BY <1>1, InitRoute, RNextKeeps, PTL DEF RSpec

-----------------------------------------------------------------------------
(* A careful caller *)

\* The cache is the /32 part of the FIB, and the locks are the cache's: the
\* careful caller's properties read off the cache.
CacheIsFib ==
  \A h \in Hosts, w \in SwIf :
    <<h, w>> \in fib <=> h \in DOMAIN encap_adj_by_ip4 /\ encap_adj_by_ip4[h] = w
LocksAreCache ==
  /\ \A h \in Hosts, w \in SwIf :
       adj_lock[<<h, w>>] =
         IF h \in DOMAIN encap_adj_by_ip4 /\ encap_adj_by_ip4[h] = w THEN 1 ELSE 0
  /\ encap_adj_count = Cardinality(DOMAIN encap_adj_by_ip4)

\* The inductive invariant of CarefulSpec.
CarefulInv == IndexInv /\ RouteInv /\ CacheIsFib /\ LocksAreCache /\ NoDanglingRoute

\* What EncapNext returns, as a statement about the cache.
LEMMA EncapNextCache ==
  ASSUME NEW h, NEW w
  PROVE  EncapNext(h) = [next |-> "ip4-midchain", adj |-> <<h, w>>]
           <=> h \in DOMAIN encap_adj_by_ip4 /\ encap_adj_by_ip4[h] = w
  <1>1. CASE h \in DOMAIN encap_adj_by_ip4
    <2>1. EncapNext(h) = [next |-> "ip4-midchain", adj |-> <<h, encap_adj_by_ip4[h]>>]
      BY <1>1 DEF EncapNext
    <2>2. QED
      BY <1>1, <2>1
  <1>2. CASE h \notin DOMAIN encap_adj_by_ip4
    <2>1. EncapNext(h).next = "ethernet-input"
      BY <1>2 DEF EncapNext
    <2>2. QED
      BY <1>2, <2>1
  <1>3. QED
    BY <1>1, <1>2

\* The invariant implies the properties as the runs state them.
LEMMA CarefulImplies == CarefulInv => FastpathMirrorsFib /\ LocksMatchCache /\ NoDanglingRoute
  <1>1. CacheIsFib => FastpathMirrorsFib
    BY EncapNextCache DEF CacheIsFib, FastpathMirrorsFib
  <1>2. LocksAreCache => LocksMatchCache
    BY EncapNextCache DEF LocksAreCache, LocksMatchCache
  <1>3. QED
    BY <1>1, <1>2 DEF CarefulInv

\* An interface is one of a live session exactly when it exists.
LEMMA SessionSwIfLive ==
  ASSUME IndexInv, NEW w
  PROVE  IsSessionSwIf(w) <=> w \in interfaces
  <1>1. ASSUME IsSessionSwIf(w) PROVE w \in interfaces
    BY <1>1 DEF IndexInv, SwIfIndexAgrees, IsSessionSwIf
  <1>2. ASSUME w \in interfaces PROVE IsSessionSwIf(w)
    <2>1. PICK i \in DOMAIN sessions : sessions[i].sw_if_index = w
      BY <1>2 DEF IndexInv, SwIfIndexAgrees
    <2>2. session_index_by_sw_if_index[w] = i /\ i \in SessionIdx /\ w \in SwIf
      BY <1>2, <2>1 DEF IndexInv, SwIfIndexAgrees, TypeOK
    <2>3. QED
      BY <2>2, IndexAssumption DEF IsSessionSwIf
  <1>3. QED
    BY <1>1, <1>2

\* A call that leaves the route state alone and removes no routed interface.
LEMMA UnchangedCareful ==
  ASSUME CacheIsFib, LocksAreCache, NoDanglingRoute, UNCHANGED routeVars,
         \A x \in fib : x[2] \in interfaces => x[2] \in interfaces'
  PROVE  CacheIsFib' /\ LocksAreCache' /\ NoDanglingRoute'
  BY DEF CacheIsFib, LocksAreCache, NoDanglingRoute, routeVars

\* A prefix that was not routed gets one path, one entry and one lock.
LEMMA RouteAddCareful ==
  ASSUME CarefulInv, NEW p \in Prefixes, NEW w, RouteAdd(p, w),
         \A v \in SwIf : <<p, v>> \notin fib
  PROVE  CacheIsFib' /\ LocksAreCache' /\ NoDanglingRoute'
  <1>1. CASE UNCHANGED routeVars /\ UNCHANGED objVars
    BY <1>1, UnchangedCareful DEF CarefulInv, objVars
  <1>2. CASE /\ IsSessionSwIf(w) /\ fib' = fib \cup {<<p, w>>}
             /\ EncapAdjAdd(p, w) /\ UNCHANGED objVars
    <2>1. /\ IndexInv /\ RTypeOK /\ CacheIsFib /\ LocksAreCache /\ NoDanglingRoute
          /\ w \in SwIf /\ w \in interfaces
      BY <1>2, SessionSwIfLive DEF CarefulInv, RouteInv, IsSessionSwIf
    <2>2. NoDanglingRoute'
      BY <1>2, <2>1 DEF NoDanglingRoute, objVars
    <2>3. CASE p \notin Hosts /\ UNCHANGED <<encap_adj_by_ip4, adj_lock, encap_adj_count>>
      <3>1. \A h \in Hosts, v \in SwIf : <<h, v>> \in fib' <=> <<h, v>> \in fib
        BY <1>2, <2>3
      <3>2. CacheIsFib' /\ LocksAreCache'
        BY <2>1, <2>3, <3>1 DEF CacheIsFib, LocksAreCache
      <3>3. QED
        BY <2>2, <3>2
    <2>4. CASE /\ p \in Hosts
               /\ adj_lock' = [adj_lock EXCEPT ![<<p, w>>] = @ + 1]
               /\ encap_adj_by_ip4' = Put(encap_adj_by_ip4, p, w)
               /\ encap_adj_count' = encap_adj_count + 1
      <3>1. p \notin DOMAIN encap_adj_by_ip4
        BY <2>1, <2>4 DEF CacheIsFib, RTypeOK
      <3>2. /\ DOMAIN encap_adj_by_ip4' = DOMAIN encap_adj_by_ip4 \cup {p}
            /\ encap_adj_by_ip4'[p] = w
            /\ \A h \in DOMAIN encap_adj_by_ip4 : encap_adj_by_ip4'[h] = encap_adj_by_ip4[h]
        BY <2>4, <3>1 DEF Put
      <3>3. CacheIsFib'
        BY <1>2, <2>1, <2>4, <3>1, <3>2 DEF CacheIsFib
      <3>4. \A h \in Hosts, v \in SwIf :
              adj_lock'[<<h, v>>] =
                IF <<h, v>> = <<p, w>> THEN adj_lock[<<h, v>>] + 1 ELSE adj_lock[<<h, v>>]
        BY <2>1, <2>4 DEF RTypeOK
      <3>5. \A h \in Hosts, v \in SwIf :
              adj_lock'[<<h, v>>] =
                IF h \in DOMAIN encap_adj_by_ip4' /\ encap_adj_by_ip4'[h] = v THEN 1 ELSE 0
        <4>1. SUFFICES ASSUME NEW h \in Hosts, NEW v \in SwIf
                       PROVE  adj_lock'[<<h, v>>] =
                                IF h \in DOMAIN encap_adj_by_ip4' /\ encap_adj_by_ip4'[h] = v
                                THEN 1 ELSE 0
          OBVIOUS
        <4>2. CASE h = p
          <5>1. adj_lock[<<h, v>>] = 0
            BY <2>1, <3>1, <4>2 DEF LocksAreCache
          <5>2. QED
            BY <3>2, <3>4, <4>2, <5>1
        <4>3. CASE h # p
          <5>1. adj_lock'[<<h, v>>] = adj_lock[<<h, v>>]
            BY <3>4, <4>3
          <5>2. QED
            BY <2>1, <3>2, <4>3, <5>1 DEF LocksAreCache
        <4>4. QED
          BY <4>2, <4>3
      <3>6. Cardinality(DOMAIN encap_adj_by_ip4') = Cardinality(DOMAIN encap_adj_by_ip4) + 1
        BY <2>1, <3>1, <3>2, CacheFinite, FS_AddElement
      <3>7. LocksAreCache'
        BY <2>1, <2>4, <3>5, <3>6 DEF LocksAreCache
      <3>8. QED
        BY <2>2, <3>3, <3>7
    <2>5. QED
      BY <1>2, <2>3, <2>4 DEF EncapAdjAdd
  <1>3. QED
    BY <1>1, <1>2 DEF RouteAdd, Refuse

\* A path that was there takes its entry and its lock with it.
LEMMA RouteDelCareful ==
  ASSUME CarefulInv, NEW p \in Prefixes, NEW w, RouteDel(p, w),
         w \in interfaces => <<p, w>> \in fib
  PROVE  CacheIsFib' /\ LocksAreCache' /\ NoDanglingRoute'
  <1>1. CASE UNCHANGED routeVars /\ UNCHANGED objVars
    BY <1>1, UnchangedCareful DEF CarefulInv, objVars
  <1>2. CASE /\ IsSessionSwIf(w) /\ fib' = fib \ {<<p, w>>}
             /\ EncapAdjDel(p) /\ UNCHANGED objVars
    <2>1. /\ IndexInv /\ RTypeOK /\ CacheIsFib /\ LocksAreCache /\ NoDanglingRoute
          /\ w \in SwIf /\ <<p, w>> \in fib
      BY <1>2, SessionSwIfLive DEF CarefulInv, RouteInv, IsSessionSwIf
    <2>2. NoDanglingRoute'
      BY <1>2, <2>1 DEF NoDanglingRoute, objVars
    <2>3. CASE /\ p \notin DOMAIN encap_adj_by_ip4
               /\ UNCHANGED <<encap_adj_by_ip4, adj_lock, encap_adj_count>>
      <3>1. p \notin Hosts
        BY <2>1, <2>3 DEF CacheIsFib
      <3>2. \A h \in Hosts, v \in SwIf : <<h, v>> \in fib' <=> <<h, v>> \in fib
        BY <1>2, <3>1
      <3>3. CacheIsFib' /\ LocksAreCache'
        BY <2>1, <2>3, <3>2 DEF CacheIsFib, LocksAreCache
      <3>4. QED
        BY <2>2, <3>3
    <2>4. CASE /\ p \in DOMAIN encap_adj_by_ip4
               /\ encap_adj_by_ip4' = Drop(encap_adj_by_ip4, p)
               /\ adj_lock' = [adj_lock EXCEPT ![<<p, encap_adj_by_ip4[p]>>] = @ - 1]
               /\ encap_adj_count' = IF encap_adj_count > 0
                                     THEN encap_adj_count - 1 ELSE 0
      <3>1. p \in Hosts /\ encap_adj_by_ip4[p] = w
        BY <2>1, <2>4 DEF CacheIsFib, RTypeOK
      <3>2. /\ DOMAIN encap_adj_by_ip4' = DOMAIN encap_adj_by_ip4 \ {p}
            /\ \A h \in DOMAIN encap_adj_by_ip4' : encap_adj_by_ip4'[h] = encap_adj_by_ip4[h]
        BY <2>4 DEF Drop
      <3>3. CacheIsFib'
        BY <1>2, <2>1, <3>1, <3>2 DEF CacheIsFib
      <3>4. \A h \in Hosts, v \in SwIf :
              adj_lock'[<<h, v>>] =
                IF <<h, v>> = <<p, w>> THEN adj_lock[<<h, v>>] - 1 ELSE adj_lock[<<h, v>>]
        BY <2>1, <2>4, <3>1 DEF RTypeOK
      <3>5. \A h \in Hosts, v \in SwIf :
              adj_lock'[<<h, v>>] =
                IF h \in DOMAIN encap_adj_by_ip4' /\ encap_adj_by_ip4'[h] = v THEN 1 ELSE 0
        <4>1. SUFFICES ASSUME NEW h \in Hosts, NEW v \in SwIf
                       PROVE  adj_lock'[<<h, v>>] =
                                IF h \in DOMAIN encap_adj_by_ip4' /\ encap_adj_by_ip4'[h] = v
                                THEN 1 ELSE 0
          OBVIOUS
        <4>2. CASE h = p
          <5>1. adj_lock[<<h, v>>] = IF v = w THEN 1 ELSE 0
            BY <2>1, <2>4, <3>1, <4>2 DEF LocksAreCache
          <5>2. QED
            BY <3>2, <3>4, <4>2, <5>1
        <4>3. CASE h # p
          <5>1. adj_lock'[<<h, v>>] = adj_lock[<<h, v>>]
            BY <3>4, <4>3
          <5>2. QED
            BY <2>1, <3>2, <4>3, <5>1 DEF LocksAreCache
        <4>4. QED
          BY <4>2, <4>3
      <3>6. /\ Cardinality(DOMAIN encap_adj_by_ip4') = Cardinality(DOMAIN encap_adj_by_ip4) - 1
            /\ Cardinality(DOMAIN encap_adj_by_ip4) # 0
        BY <2>1, <2>4, <3>2, CacheFinite, FS_RemoveElement, FS_EmptySet
      <3>7. LocksAreCache'
        BY <2>1, <2>4, <3>5, <3>6, CacheFinite DEF LocksAreCache
      <3>8. QED
        BY <2>2, <3>3, <3>7
    <2>5. QED
      BY <1>2, <2>3, <2>4 DEF EncapAdjDel
  <1>3. QED
    BY <1>1, <1>2 DEF RouteDel, Refuse

\* A session without routes can go.
LEMMA SessionDelCareful ==
  ASSUME CarefulInv, NEW t, NEW sid \in Sids, SessionDel(t, sid),
         Unrouted(t, sid), UNCHANGED routeVars
  PROVE  CacheIsFib' /\ LocksAreCache' /\ NoDanglingRoute'
  <1> DEFINE w == sessions[session_by_key[<<tunnels[t].local_tid, sid>>]].sw_if_index
  <1>1. CASE UNCHANGED objVars
    BY <1>1, UnchangedCareful DEF CarefulInv, objVars
  <1>2. CASE /\ t \in DOMAIN tunnels
             /\ <<tunnels[t].local_tid, sid>> \in DOMAIN session_by_key
             /\ interfaces' = interfaces \ {w}
    <2>1. \A p \in Prefixes : <<p, w>> \notin fib
      BY <1>2 DEF Unrouted
    <2>2. \A x \in fib : x[2] # w
      BY <2>1 DEF CarefulInv, RouteInv, RTypeOK
    <2>3. QED
      BY <1>2, <2>2, UnchangedCareful DEF CarefulInv
  <1>3. QED
    BY <1>1, <1>2 DEF SessionDel, Refuse

\* Adding tunnels and sessions, and deleting tunnels, removes no interface.
LEMMA AddsKeepInterfaces ==
  ASSUME TunnelAddCalls(Tids) \/ TunnelDelCalls \/ SessionAddCalls
  PROVE  interfaces \subseteq interfaces'
  <1>1. CASE TunnelAddCalls(Tids)
    BY <1>1 DEF TunnelAddCalls, TunnelAdd, Refuse, objVars
  <1>2. CASE TunnelDelCalls
    BY <1>2 DEF TunnelDelCalls, TunnelDel, Refuse, objVars
  <1>3. CASE SessionAddCalls
    BY <1>3 DEF SessionAddCalls, SessionAdd, Refuse, objVars
  <1>4. QED
    BY <1>1, <1>2, <1>3

\* A careful caller's call is a call, of the objects or of the routes.
LEMMA CarefulNextIndex == IndexInv /\ [CarefulNext]_rvars => IndexInv'
  <1>1. SUFFICES ASSUME IndexInv, [CarefulNext]_rvars PROVE IndexInv'
    OBVIOUS
  <1>2. CASE TunnelAndSessionAdds
    BY <1>1, <1>2, NextIndex DEF TunnelAndSessionAdds, Next
  <1>3. CASE \E t \in AnyIndex, sid \in Sids : SessionDel(t, sid)
    BY <1>1, <1>3, SessionDelIndex
  <1>4. CASE \E p \in Prefixes, w \in AnySwIf : RouteAdd(p, w) \/ RouteDel(p, w)
    <2>1. UNCHANGED objVars
      BY <1>4 DEF RouteAdd, RouteDel, Refuse
    <2>2. reply' \in [rv : Retval, index : TunnelIdx \cup SwIf \cup {NoIndex}]
      BY <1>4 DEF RouteAdd, RouteDel, Refuse, Answer, Retval
    <2>3. QED
      BY <1>1, <2>1, <2>2, UnchangedIndex
  <1>5. CASE UNCHANGED rvars
    BY <1>1, <1>5, NextIndex DEF rvars
  <1>6. QED
    BY <1>1, <1>2, <1>3, <1>4, <1>5 DEF CarefulNext

\* Every call of a careful caller keeps the invariant.
LEMMA CarefulNextKeeps == CarefulInv /\ [CarefulNext]_rvars => CarefulInv'
  <1>1. SUFFICES ASSUME CarefulInv, [CarefulNext]_rvars PROVE CarefulInv'
    OBVIOUS
  <1>2. IndexInv'
    BY <1>1, CarefulNextIndex DEF CarefulInv
  <1>3. RouteInv'
    <2>1. [RNext]_rvars
      BY <1>1 DEF CarefulNext, RNext, RouteAddCalls, RouteDelCalls
    <2>2. QED
      BY <1>1, <2>1, RNextKeeps DEF CarefulInv
  <1>4. CASE TunnelAndSessionAdds
    BY <1>1, <1>2, <1>3, <1>4, AddsKeepInterfaces, UnchangedCareful
       DEF TunnelAndSessionAdds, CarefulInv
  <1>5. CASE \E t \in AnyIndex, sid \in Sids :
               Unrouted(t, sid) /\ SessionDel(t, sid) /\ UNCHANGED routeVars
    BY <1>1, <1>2, <1>3, <1>5, SessionDelCareful DEF CarefulInv
  <1>6. CASE \E p \in Prefixes, w \in AnySwIf :
               (\A v \in SwIf : <<p, v>> \notin fib) /\ RouteAdd(p, w)
    BY <1>1, <1>2, <1>3, <1>6, RouteAddCareful DEF CarefulInv
  <1>7. CASE \E p \in Prefixes, w \in AnySwIf :
               (w \in interfaces => <<p, w>> \in fib) /\ RouteDel(p, w)
    BY <1>1, <1>2, <1>3, <1>7, RouteDelCareful DEF CarefulInv
  <1>8. CASE UNCHANGED rvars
    BY <1>1, <1>2, <1>3, <1>8, UnchangedCareful DEF rvars, vars, objVars, CarefulInv
  <1>9. QED
    BY <1>1, <1>4, <1>5, <1>6, <1>7, <1>8 DEF CarefulNext

\* The empty tables satisfy it.
LEMMA InitCareful == RInit => CarefulInv
  <1>1. SUFFICES ASSUME RInit PROVE CarefulInv
    OBVIOUS
  <1>2. IndexInv /\ RouteInv
    BY <1>1, InitIndex, InitRoute DEF RInit
  <1>3. CacheIsFib /\ LocksAreCache /\ NoDanglingRoute
    BY <1>1, FS_EmptySet DEF RInit, CacheIsFib, LocksAreCache, NoDanglingRoute
  <1>4. QED
    BY <1>2, <1>3 DEF CarefulInv

\* If a prefix is routed through one session at a time and routes are removed
\* as they were added, before their session: every /32 takes the fast path to
\* the interface its FIB path names.
THEOREM CarefulFastpath == CarefulSpec => []FastpathMirrorsFib
  <1>1. QED
    BY InitCareful, CarefulNextKeeps, CarefulImplies, PTL DEF CarefulSpec

\* For such a caller every lock the cache took is released with its entry, and
\* encap_adj_count is exact.
THEOREM CarefulLocks == CarefulSpec => []LocksMatchCache
  <1>1. QED
    BY InitCareful, CarefulNextKeeps, CarefulImplies, PTL DEF CarefulSpec

\* For such a caller no route outlives its session.
THEOREM CarefulRoutes == CarefulSpec => []NoDanglingRoute
  <1>1. QED
    BY InitCareful, CarefulNextKeeps, CarefulImplies, PTL DEF CarefulSpec
=============================================================================
