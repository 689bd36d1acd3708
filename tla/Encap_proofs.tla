----------------------------- MODULE Encap_proofs -----------------------------
(***************************************************************************)
(* Proofs about Encap: an adjacency always carries the addresses and ids   *)
(* of the session that has its interface, and, while the session pool does *)
(* not move, every header that leaves has a valid checksum.  For every     *)
(* number of sessions, tunnels, interfaces and prefixes, every width of    *)
(* the checksum's words and every packet length.                           *)
(***************************************************************************)
EXTENDS Encap, L2tvppRoutes_proofs

-----------------------------------------------------------------------------
(* The arithmetic of ip_csum_sub_even, ip_csum_add_even and ip_csum_fold *)

\* Quotient and remainder, from what they are.
LEMMA DivMod ==
  ASSUME NEW m \in Nat, m > 0, NEW q \in Nat, NEW r \in Nat, r < m, NEW x, x = q * m + r
  PROVE x % m = r /\ x \div m = q
  BY SMTT(30)

\* An accumulator holds four words.
LEMMA AccBig ==
  /\ Acc \in Nat /\ Acc > Word * Word
  /\ Word * Word \in Nat /\ Word * Word > Word
  BY EncapAssumption DEF Acc

\* Folding a value of one word changes nothing.
LEMMA Plain ==
  ASSUME NEW c \in Nat, c < Word
  PROVE  CsumFold(c) = c
  <1>1. c < Word * Word /\ Word * Word \in Nat
    BY AccBig, EncapAssumption
  <1>2. c % (Word * Word) = c /\ c \div (Word * Word) = 0
    BY <1>1
  <1>3. c % Word = c /\ c \div Word = 0
    BY EncapAssumption
  <1>4. QED
    BY <1>2, <1>3 DEF CsumFold

\* ip_csum_sub_even of a zero length changes nothing.
LEMMA SubZero ==
  ASSUME NEW c \in Nat, c < Word
  PROVE  CsumSub(c, 0) = c
  <1>1. c < Acc /\ Acc \in Nat
    BY AccBig, EncapAssumption
  <1>2. c % Acc = c
    BY <1>1
  <1>3. QED
    BY <1>2 DEF CsumSub

\* ip_csum_add_even without a borrow.
LEMMA AddLess ==
  ASSUME NEW c \in Nat, c < Word, NEW x \in Nat, x < Word, x <= c
  PROVE  CsumAdd(c, x) = c - x
  <1>1. c < Acc /\ Acc \in Nat
    BY AccBig, EncapAssumption
  <1>2. (c - x) % Acc = c - x
    BY <1>1
  <1>3. QED
    BY <1>2 DEF CsumAdd

\* ip_csum_add_even with a borrow wraps around and takes one more.
LEMMA AddMore ==
  ASSUME NEW c \in Nat, c < Word, NEW x \in Nat, x < Word, c < x
  PROVE  CsumAdd(c, x) = Acc - 1 - (x - c)
  <1>1. c < Acc /\ Acc \in Nat /\ x < Acc - 1
    BY AccBig, EncapAssumption
  <1>2. (c - x) % Acc = Acc + (c - x)
    BY <1>1
  <1>3. (Acc + (c - x) - 1) % Acc = Acc + (c - x) - 1
    BY <1>1
  <1> HIDE DEF Acc
  <1>4. QED
    BY <1>1, <1>2, <1>3 DEF CsumAdd

\* ip_csum_fold in its four steps.
LEMMA FoldBy ==
  ASSUME NEW c, NEW f, NEW g, NEW h,
         f = (c % (Word * Word)) + (c \div (Word * Word)),
         g = (f % Word) + (f \div Word), h = (g % Word) + (g \div Word)
  PROVE  CsumFold(c) = (h % Word) + (h \div Word)
  BY DEF CsumFold

\* Products the next proof needs.
LEMMA Squares ==
  ASSUME NEW w \in Nat
  PROVE  /\ (2 * w - 1) * w = 2 * (w * w) - w
         /\ (2 * w - 2) * w = 2 * (w * w) - 2 * w
         /\ (w - 1) * w = w * w - w
         /\ w >= 2 => w * w >= 2 * w
         /\ w * w \in Nat
  OBVIOUS

\* Folding what a borrow left gives the one's complement difference, with all
\* ones for zero when the two were a word apart.
LEMMA FoldMore ==
  ASSUME NEW k \in Nat, k >= 1, k <= Word - 1
  PROVE  CsumFold(Acc - 1 - k) = IF k = Word - 1 THEN Word - 1 ELSE Word - 1 - k
  <1> DEFINE W2 == Word * Word
             c == Acc - 1 - k
             f == 2 * W2 - 2 - k
             g == 3 * Word - 3 - k
  <1>1. Word \in Nat /\ Word >= 2 /\ W2 \in Nat /\ W2 >= 2 * Word
    BY EncapAssumption, Squares
  <1>2. (c % W2) + (c \div W2) = f
    <2>1. W2 - 1 \in Nat /\ W2 - 1 - k \in Nat /\ W2 - 1 - k < W2 /\ W2 > 0
      BY <1>1
    <2>2. c = (W2 - 1) * W2 + (W2 - 1 - k)
      <3>1. (W2 - 1) * W2 = W2 * W2 - W2 /\ Acc = W2 * W2 /\ W2 * W2 \in Nat
        BY <1>1, Squares DEF Acc
      <3> HIDE DEF W2
      <3>2. QED
        BY <1>1, <3>1
    <2> HIDE DEF W2, c
    <2>3. c % W2 = W2 - 1 - k /\ c \div W2 = W2 - 1
      BY <1>1, <2>1, <2>2, DivMod
    <2>4. QED
      BY <1>1, <2>3
  <1>3. CASE k <= Word - 2
    <2>1. f = (2 * Word - 1) * Word + (Word - 2 - k)
      <3>1. (2 * Word - 1) * Word = 2 * W2 - Word
        BY <1>1, Squares
      <3> HIDE DEF W2
      <3>2. QED
        BY <1>1, <3>1
    <2>2. f % Word = Word - 2 - k /\ f \div Word = 2 * Word - 1
      <3>1. /\ 2 * Word - 1 \in Nat /\ Word - 2 - k \in Nat /\ Word - 2 - k < Word
            /\ Word \in Nat /\ Word > 0
        BY <1>1, <1>3
      <3> HIDE DEF f
      <3>2. PICK q \in Nat, r \in Nat : q = 2 * Word - 1 /\ r = Word - 2 - k
        BY <3>1
      <3>3. f = q * Word + r
        BY <2>1, <3>2
      <3>4. r < Word /\ Word \in Nat /\ Word > 0
        BY <3>1, <3>2
      <3>5. f % Word = r /\ f \div Word = q
        BY <3>3, <3>4, DivMod
      <3>6. QED
        BY <3>2, <3>5
    <2>3. (f % Word) + (f \div Word) = g
      BY <1>1, <2>2
    <2>4. CASE k <= Word - 3
      <3>1. g = 2 * Word + (Word - 3 - k) /\ Word - 3 - k \in Nat /\ Word - 3 - k < Word
        BY <1>1, <2>4
      <3>2. g % Word = Word - 3 - k /\ g \div Word = 2
        BY <1>1, <3>1, DivMod
      <3>3. (g % Word) + (g \div Word) = Word - 1 - k
        BY <1>1, <3>2
      <3>4. (Word - 1 - k) % Word = Word - 1 - k /\ (Word - 1 - k) \div Word = 0
        BY <1>1
      <3>5. CsumFold(c) = ((Word - 1 - k) % Word) + ((Word - 1 - k) \div Word)
        BY <1>2, <2>3, <3>3, FoldBy
      <3>6. QED
        BY <1>1, <2>4, <3>4, <3>5
    <2>5. CASE k = Word - 2
      <3>1. g = 1 * Word + (Word - 1) /\ Word - 1 \in Nat /\ Word - 1 < Word
        BY <1>1, <2>5
      <3>2. g % Word = Word - 1 /\ g \div Word = 1
        BY <1>1, <3>1, DivMod
      <3>3. (g % Word) + (g \div Word) = Word
        BY <1>1, <3>2
      <3>4. Word % Word = 0 /\ Word \div Word = 1
        BY <1>1
      <3>5. CsumFold(c) = (Word % Word) + (Word \div Word)
        BY <1>2, <2>3, <3>3, FoldBy
      <3>6. QED
        BY <1>1, <2>5, <3>4, <3>5
    <2>6. QED
      BY <1>1, <1>3, <2>4, <2>5
  <1>4. CASE k = Word - 1
    <2>1. f = (2 * Word - 2) * Word + (Word - 1)
      <3>1. (2 * Word - 2) * Word = 2 * W2 - 2 * Word
        BY <1>1, Squares
      <3> HIDE DEF W2
      <3>2. QED
        BY <1>1, <1>4, <3>1
    <2>2. f % Word = Word - 1 /\ f \div Word = 2 * Word - 2
      <3>1. /\ 2 * Word - 2 \in Nat /\ Word - 1 \in Nat /\ Word - 1 < Word
            /\ Word \in Nat /\ Word > 0
        BY <1>1
      <3> HIDE DEF f
      <3>2. QED
        BY <2>1, <3>1, DivMod
    <2>3. (f % Word) + (f \div Word) = 3 * Word - 3
      BY <1>1, <2>2
    <2>4. \/ ((3 * Word - 3) % Word) + ((3 * Word - 3) \div Word) = Word - 1
          \/ Word = 2 /\ ((3 * Word - 3) % Word) + ((3 * Word - 3) \div Word) = 2
      <3>1. CASE Word >= 3
        <4>1. 3 * Word - 3 = 2 * Word + (Word - 3) /\ Word - 3 \in Nat /\ Word - 3 < Word
          BY <1>1, <3>1
        <4>2. (3 * Word - 3) % Word = Word - 3 /\ (3 * Word - 3) \div Word = 2
          BY <1>1, <4>1, DivMod
        <4>3. QED
          BY <1>1, <4>2
      <3>2. CASE Word = 2
        BY <3>2
      <3>3. QED
        BY <1>1, <3>1, <3>2
    <2>5. PICK h : /\ h = ((3 * Word - 3) % Word) + ((3 * Word - 3) \div Word)
                   /\ h = Word - 1 \/ (Word = 2 /\ h = 2)
      BY <2>4
    <2>6. CsumFold(c) = (h % Word) + (h \div Word)
      BY <1>2, <2>3, <2>5, FoldBy
    <2>7. CASE h = Word - 1
      BY <1>1, <1>4, <2>6, <2>7
    <2>8. CASE Word = 2 /\ h = 2
      BY <1>4, <2>6, <2>8
    <2>9. QED
      BY <2>5, <2>7, <2>8
  <1>5. QED
    BY <1>1, <1>3, <1>4

\* One's complement addition of the two steps HeaderValid takes.
LEMMA OnesAddCases ==
  ASSUME NEW s \in Nat, s >= 1, s <= Word - 1, NEW len \in Nat, len >= 1, len <= Word - 1
  PROVE  OnesAdd(s, len) = IF len <= Word - 1 - s THEN s + len
                                                  ELSE len - (Word - 1 - s)
  BY EncapAssumption DEF OnesAdd

\* l2tvpp_fixup makes the header valid: whatever the constant words add up to
\* and whatever the length, cached checksum plus fixup is a checksum of the
\* header with that length.
LEMMA FixupValid ==
  ASSUME NEW s \in 1 .. Word - 1, NEW len \in 1 .. Word - 1
  PROVE  OnesAdd(OnesAdd(s, len), Fixup(Word - 1 - s, len)) = Word - 1
  <1> DEFINE c == Word - 1 - s
  <1>1. /\ Word \in Nat /\ Word >= 2 /\ s \in Nat /\ s >= 1 /\ s <= Word - 1
        /\ len \in Nat /\ len >= 1 /\ len <= Word - 1 /\ c \in Nat /\ c < Word
    BY EncapAssumption
  <1>2. Fixup(c, len) = CsumFold(CsumAdd(c, len))
    BY <1>1, SubZero DEF Fixup
  <1>3. OnesAdd(s, len) = IF len <= c THEN s + len ELSE len - c
    BY <1>1, OnesAddCases
  <1>4. CASE len <= c
    <2>1. CsumAdd(c, len) = c - len /\ c - len \in Nat /\ c - len < Word
      BY <1>1, <1>4, AddLess
    <2>2. Fixup(c, len) = c - len
      BY <1>2, <2>1, Plain
    <2>3. QED
      BY <1>1, <1>3, <1>4, <2>2 DEF OnesAdd
  <1>5. CASE c < len
    <2> DEFINE k == len - c
    <2>1. k \in Nat /\ k >= 1 /\ k <= Word - 1
      BY <1>1, <1>5
    <2>2. CsumAdd(c, len) = Acc - 1 - k
      BY <1>1, <1>5, AddMore
    <2>3. CsumFold(Acc - 1 - k) = IF k = Word - 1 THEN Word - 1 ELSE Word - 1 - k
      BY <2>1, FoldMore
    <2>4. Fixup(c, len) = IF k = Word - 1 THEN Word - 1 ELSE Word - 1 - k
      BY <1>2, <2>2, <2>3
    <2>5. OnesAdd(s, len) = k
      BY <1>1, <1>3, <1>5
    <2> HIDE DEF k, c
    <2>6. QED
      BY <1>1, <2>1, <2>4, <2>5 DEF OnesAdd, c
  <1>6. QED
    BY <1>1, <1>4, <1>5

-----------------------------------------------------------------------------
(* What a careful caller's step does to a session that stays *)

\* Adding, deleting and counting sessions as in OwnSpec: the routes never

\* touch tunnels and sessions.
LEMMA CarefulCount ==
  ASSUME CountInv, [CarefulNext]_rvars
  PROVE  CountInv'
  <1>1. IndexInv'
    BY CarefulNextIndex DEF CountInv
  <1>2. CASE UNCHANGED <<tunnels, sessions>>
    BY <1>1, <1>2, UnchangedCount DEF CountInv
  <1>3. CASE TunnelAndSessionAdds
    BY <1>3, OwnNextCount DEF TunnelAndSessionAdds, OwnNext
  <1>4. CASE \E t \in AnyIndex, sid \in Sids : OwnTunnel(t, sid) /\ SessionDel(t, sid)
    BY <1>4, OwnNextCount DEF OwnNext
  <1>5. CASE \E p \in Prefixes, w \in AnySwIf : RouteAdd(p, w) \/ RouteDel(p, w)
    BY <1>2, <1>5 DEF RouteAdd, RouteDel, Refuse, objVars
  <1>6. CASE UNCHANGED rvars
    BY <1>2, <1>6 DEF rvars, vars, objVars
  <1>7. QED
    BY <1>3, <1>4, <1>5, <1>6 DEF CarefulNext

\* A call either leaves the objects alone or leaves the routes alone, and only

\* the first can add a path.
LEMMA PathsOrObjects ==
  ASSUME [CarefulNext]_rvars
  PROVE  UNCHANGED objVars \/ UNCHANGED routeVars
  BY DEF CarefulNext, TunnelAndSessionAdds, RouteAdd, RouteDel, Refuse, rvars, vars

\* The fields of a tunnel that go on the wire never change while it lives.
TunnelsStable ==
  \A t \in DOMAIN tunnels \cap DOMAIN tunnels' :
    /\ tunnels'[t].local = tunnels[t].local
    /\ tunnels'[t].peer = tunnels[t].peer
    /\ tunnels'[t].peer_tid = tunnels[t].peer_tid

\* An interface that stays keeps its session.
SessionsStable ==
  \A w \in interfaces \cap interfaces' :
    LET i == session_index_by_sw_if_index[w]
    IN /\ i \in DOMAIN sessions /\ i \in DOMAIN sessions'
       /\ session_index_by_sw_if_index'[w] = i
       /\ sessions'[i] = sessions[i]

\* Every interface has its session in the vector.
LEMMA InterfaceSession ==
  ASSUME IndexInv, NEW w \in interfaces
  PROVE  /\ w \in SwIf
         /\ session_index_by_sw_if_index[w] \in DOMAIN sessions
         /\ sessions[session_index_by_sw_if_index[w]].sw_if_index = w
  <1>1. PICK i \in DOMAIN sessions : sessions[i].sw_if_index = w
    BY DEF IndexInv, SwIfIndexAgrees
  <1>2. session_index_by_sw_if_index[w] = i
    BY <1>1 DEF IndexInv, SwIfIndexAgrees
  <1>3. QED
    BY <1>1, <1>2 DEF IndexInv, TypeOK

\* No call changes what a live session's header is made from.
LEMMA ObjectsStable ==
  ASSUME CountInv, [CarefulNext]_rvars
  PROVE  TunnelsStable /\ SessionsStable
  <1>1. IndexInv /\ TypeOK
    BY DEF CountInv, IndexInv
  <1>2. CASE UNCHANGED objVars
    BY <1>1, <1>2, InterfaceSession DEF objVars, TunnelsStable, SessionsStable
  <1>3. ASSUME UNCHANGED <<sessions, session_index_by_sw_if_index, interfaces>>
        PROVE  SessionsStable
    BY <1>1, <1>3, InterfaceSession DEF SessionsStable
  <1>4. CASE TunnelAddCalls(Tids)
    <2>1. CASE \E i \in TunnelIdx \ DOMAIN tunnels : \E r :
                 /\ tunnels' = Put(tunnels, i, r)
                 /\ UNCHANGED <<sessions, session_index_by_sw_if_index, interfaces>>
      BY <1>3, <2>1 DEF Put, TunnelsStable
    <2>2. QED
      BY <1>2, <1>4, <2>1 DEF TunnelAddCalls, TunnelAdd, Refuse
  <1>5. CASE TunnelDelCalls
    <2>1. CASE \E i : /\ tunnels' = Drop(tunnels, i)
                      /\ UNCHANGED <<sessions, session_index_by_sw_if_index, interfaces>>
      BY <1>3, <2>1 DEF Drop, TunnelsStable
    <2>2. QED
      BY <1>2, <1>5, <2>1 DEF TunnelDelCalls, TunnelDel, Refuse
  <1>6. ASSUME NEW t, NEW n, t \in DOMAIN tunnels,
               tunnels' = [tunnels EXCEPT ![t].n_sessions = n]
        PROVE  TunnelsStable
    BY <1>1, <1>6 DEF TunnelsStable, TypeOK, Tunnel
  <1>7. CASE SessionAddCalls
    <2>1. PICK t \in AnyIndex, sid \in Sids, ps \in PeerSids : SessionAdd(t, sid, ps)
      BY <1>7 DEF SessionAddCalls
    <2>2. CASE t \in DOMAIN tunnels /\ <<tunnels[t].local_tid, sid>> \notin DOMAIN session_by_key
      <3>1. PICK i \in SessionIdx \ DOMAIN sessions, w \in SwIf \ interfaces :
                 /\ \E r : sessions' = Put(sessions, i, r)
                 /\ interfaces' = interfaces \cup {w}
                 /\ session_index_by_sw_if_index' =
                      [session_index_by_sw_if_index EXCEPT ![w] = i]
        BY <2>1, <2>2 DEF SessionAdd
      <3>2. TunnelsStable
        <4>1. tunnels' = [tunnels EXCEPT ![t].n_sessions = Inc(tunnels[t].n_sessions)]
          BY <2>1, <2>2, <1>1 DEF SessionAdd
        <4>2. QED
          BY <1>6, <2>2, <4>1
      <3>3. SessionsStable
        <4>1. SUFFICES ASSUME NEW v \in interfaces \cap interfaces'
                       PROVE  /\ session_index_by_sw_if_index[v] \in DOMAIN sessions
                              /\ session_index_by_sw_if_index[v] \in DOMAIN sessions'
                              /\ session_index_by_sw_if_index'[v] = session_index_by_sw_if_index[v]
                              /\ sessions'[session_index_by_sw_if_index[v]]
                                   = sessions[session_index_by_sw_if_index[v]]
          BY DEF SessionsStable
        <4>2. v # w /\ v \in SwIf /\ session_index_by_sw_if_index[v] \in DOMAIN sessions
          BY <1>1, <3>1, <4>1, InterfaceSession
        <4>3. QED
          BY <1>1, <3>1, <4>2 DEF Put, TypeOK
      <3>4. QED
        BY <3>2, <3>3
    <2>3. QED
      BY <1>2, <2>1, <2>2 DEF SessionAdd, Refuse
  <1>8. CASE \E t \in AnyIndex, sid \in Sids : SessionDel(t, sid)
    <2>1. PICK t \in AnyIndex, sid \in Sids : SessionDel(t, sid)
      BY <1>8
    <2>2. CASE t \in DOMAIN tunnels /\ <<tunnels[t].local_tid, sid>> \in DOMAIN session_by_key
      <3> DEFINE i == session_by_key[<<tunnels[t].local_tid, sid>>]
                 w == sessions[i].sw_if_index
      <3>1. /\ sessions' = Drop(sessions, i)
            /\ interfaces' = interfaces \ {w}
            /\ session_index_by_sw_if_index' =
                 [session_index_by_sw_if_index EXCEPT ![w] = NoIndex]
            /\ tunnels' = [tunnels EXCEPT ![t].n_sessions = Dec(tunnels[t].n_sessions)]
        BY <1>1, <2>1, <2>2 DEF SessionDel, RemoveSwIf
      <3>2. TunnelsStable
        BY <1>6, <2>2, <3>1
      <3> HIDE DEF i
      <3>3. SessionsStable
        <4>1. SUFFICES ASSUME NEW v \in interfaces \cap interfaces'
                       PROVE  /\ session_index_by_sw_if_index[v] \in DOMAIN sessions
                              /\ session_index_by_sw_if_index[v] \in DOMAIN sessions'
                              /\ session_index_by_sw_if_index'[v] = session_index_by_sw_if_index[v]
                              /\ sessions'[session_index_by_sw_if_index[v]]
                                   = sessions[session_index_by_sw_if_index[v]]
          BY DEF SessionsStable
        <4>2. /\ v # w /\ v \in SwIf /\ session_index_by_sw_if_index[v] \in DOMAIN sessions
              /\ sessions[session_index_by_sw_if_index[v]].sw_if_index = v
          BY <1>1, <3>1, <4>1, InterfaceSession
        <4>3. session_index_by_sw_if_index[v] # i
          BY <4>2
        <4>4. QED
          BY <1>1, <3>1, <4>2, <4>3 DEF Drop, TypeOK
      <3>4. QED
        BY <3>2, <3>3
    <2>3. QED
      BY <1>2, <2>1, <2>2 DEF SessionDel, Refuse
  <1>9. QED
    BY <1>2, <1>4, <1>5, <1>7, <1>8
       DEF CarefulNext, TunnelAndSessionAdds, RouteAdd, RouteDel, Refuse, rvars, vars

-----------------------------------------------------------------------------
(* The adjacencies *)

\* What l2tvpp_update_adj left in an adjacency is still what it would write
\* today, and the slot it points to caches the checksum of the session's
\* header; the address was that of some block, now or earlier.
AdjCurrent(a) ==
  LET i == session_index_by_sw_if_index[a[2]]
  IN /\ i \in DOMAIN sessions
     /\ adjs[a].rewrite = BuildRewrite(sessions[i])
     /\ adjs[a].stacked = {tunnels[sessions[i].tunnel_index].peer}
     /\ adjs[a].fixup[2] = i
     /\ adjs[a].fixup[1] \in 0 .. block
     /\ csum0[i] = CacheChecksum(i)

\* The inductive invariant: the adjacencies are those of the FIB's paths,
\* which never dangle (CarefulInv), through sessions whose tunnels are there
\* (CountInv), and all are current.  Every live slot has been allocated.
EncapInv ==
  /\ CarefulInv /\ CountInv
  /\ DOMAIN adjs = fib /\ block \in Nat
  /\ DOMAIN sessions \subseteq DOMAIN csum0
  /\ \A a \in DOMAIN adjs : AdjCurrent(a)

\* A careful caller's locks are on adjacencies the FIB refers to as well.
LEMMA ReferencedIsFib == CarefulInv => Referenced = fib
  <1>1. ASSUME CarefulInv, NEW a \in Hosts \X SwIf, adj_lock[a] > 0
        PROVE  a \in fib
    <2>1. PICK h \in Hosts, w \in SwIf : a = <<h, w>>
      BY <1>1
    <2>2. h \in DOMAIN encap_adj_by_ip4 /\ encap_adj_by_ip4[h] = w
      BY <1>1, <2>1 DEF CarefulInv, LocksAreCache
    <2>3. QED
      BY <1>1, <2>1, <2>2 DEF CarefulInv, CacheIsFib
  <1>2. QED
    BY <1>1 DEF Referenced

\* There are no adjacencies at the start.
LEMMA InitEncap == EInit => EncapInv
  <1>1. SUFFICES ASSUME EInit PROVE EncapInv
    OBVIOUS
  <1>2. CarefulInv /\ CountInv
    BY <1>1, InitCareful, InitCount DEF EInit, RInit
  <1>3. fib = {} /\ DOMAIN adjs = {} /\ DOMAIN sessions = {} /\ block \in Nat
    BY <1>1 DEF EInit, RInit, Init
  <1>4. QED
    BY <1>2, <1>3 DEF EncapInv

\* An adjacency that stays is current after the step: its session is still
\* there, with the same ids and tunnel, and its slot still has the checksum.
LEMMA OldAdjKept ==
  ASSUME EncapInv, CarefulInv', CountInv', Referenced' = fib', ENext,
         NEW a \in fib, a \in fib'
  PROVE  AdjCurrent(a)'
  <1> DEFINE i == session_index_by_sw_if_index[a[2]]
             t == sessions[i].tunnel_index
  <1>1. /\ a[2] \in interfaces /\ a[2] \in interfaces' /\ a \in DOMAIN adjs
        /\ i \in DOMAIN sessions /\ AdjCurrent(a) /\ i \in DOMAIN csum0
    BY DEF EncapInv, CarefulInv, NoDanglingRoute, AdjCurrent
  <1>2. /\ session_index_by_sw_if_index'[a[2]] = i
        /\ i \in DOMAIN sessions' /\ sessions'[i] = sessions[i]
        /\ TunnelsStable
    BY <1>1, ObjectsStable DEF EncapInv, ENext, SessionsStable
  <1>3. /\ tunnels'[t].local = tunnels[t].local /\ tunnels'[t].peer = tunnels[t].peer
        /\ tunnels'[t].peer_tid = tunnels[t].peer_tid
    <2>1. t \in DOMAIN tunnels /\ t \in DOMAIN tunnels'
      BY <1>1, <1>2 DEF EncapInv, CountInv, NoDanglingTunnel
    <2>2. QED
      BY <1>2, <2>1 DEF TunnelsStable
  <1>4. adjs'[a] = adjs[a]
    <2>1. a \notin NewAdjs /\ RemoveDelegate(a) = adjs[a]
      BY <1>1 DEF NewAdjs, RemoveDelegate
    <2>2. QED
      BY <2>1 DEF ENext, AdjStep
  <1>5. csum0'[i] = csum0[i]
    <2>1. i \notin NewSlots
      BY <1>1 DEF NewSlots
    <2>2. csum0'[i] = csum0[i] \/ csum0'[i] = CacheChecksum(i)
      BY <1>1, <2>1 DEF ENext, AdjStep
    <2>3. csum0[i] = CacheChecksum(i)
      BY <1>1 DEF AdjCurrent
    <2>4. QED
      BY <2>2, <2>3
  <1>6. block \in Nat /\ block' \in {block, block + 1}
    BY DEF ENext, PoolStep, EncapInv
  <1>7. /\ adjs[a].rewrite = BuildRewrite(sessions[i])
        /\ adjs[a].stacked = {tunnels[t].peer}
        /\ adjs[a].fixup[2] = i
        /\ adjs[a].fixup[1] \in 0 .. block'
        /\ csum0[i] = HeaderChecksum(tunnels[t].local, tunnels[t].peer)
    <2>1. adjs[a].fixup[1] \in 0 .. block'
      BY <1>1, <1>6 DEF AdjCurrent
    <2>2. QED
      BY <1>1, <2>1 DEF AdjCurrent, CacheChecksum
  <1>8. BuildRewrite(sessions[i])
          = [local |-> tunnels'[t].local, peer |-> tunnels'[t].peer,
             tunnel_id |-> tunnels'[t].peer_tid, session_id |-> sessions'[i].peer_sid]
    BY <1>2, <1>3 DEF BuildRewrite
  <1> HIDE DEF i
  <1>9. QED
    BY <1>2, <1>3, <1>4, <1>5, <1>7, <1>8 DEF AdjCurrent, CacheChecksum, BuildRewrite

\* An adjacency is made for a path that was not there, by a call that leaves
\* the objects alone: l2tvpp_update_adj writes it from the session its
\* interface has, and caches that session's checksum.
LEMMA NewAdjCurrent ==
  ASSUME EncapInv, CarefulInv', CountInv', Referenced' = fib', ENext,
         NEW a \in fib', a \notin fib
  PROVE  AdjCurrent(a)'
  <1> DEFINE i == session_index_by_sw_if_index[a[2]]
  <1>1. UNCHANGED objVars
    BY PathsOrObjects DEF ENext, routeVars
  <1>2. i \in DOMAIN sessions
    <2>1. a[2] \in interfaces
      BY <1>1 DEF CarefulInv, NoDanglingRoute, objVars
    <2>2. QED
      BY <2>1, InterfaceSession DEF EncapInv, CarefulInv
  <1>3. a \in NewAdjs /\ NewSlots = {} /\ i \in DOMAIN csum0
    BY <1>1, <1>2 DEF EncapInv, NewAdjs, NewSlots, objVars
  <1>4. adjs'[a] = UpdateAdj(a) /\ csum0'[i] = CacheChecksum(i)
    BY <1>2, <1>3 DEF ENext, AdjStep
  <1>5. block' = block /\ block \in Nat
    BY <1>3 DEF ENext, PoolStep, EncapInv
  <1>6. UpdateAdj(a) = [rewrite |-> BuildRewrite(sessions[i]), fixup |-> <<block, i>>,
                        stacked |-> {tunnels[sessions[i].tunnel_index].peer}]
    BY <1>2 DEF UpdateAdj
  <1>7. QED
    BY <1>1, <1>2, <1>4, <1>5, <1>6 DEF AdjCurrent, CacheChecksum, BuildRewrite, objVars

\* Every call keeps the invariant.
LEMMA ENextKeeps == EncapInv /\ [ENext]_evars => EncapInv'
  <1>1. CASE UNCHANGED evars
    <2>1. ASSUME EncapInv PROVE EncapInv'
      <3>1. CarefulInv' /\ CountInv'
        BY <1>1, <2>1, CarefulNextKeeps, CarefulCount DEF evars, EncapInv
      <3>2. UNCHANGED <<objVars, fib, adjs, csum0, block>>
        BY <1>1 DEF evars, encapVars, rvars, vars, routeVars
      <3>3. QED
        BY <2>1, <3>1, <3>2
           DEF EncapInv, AdjCurrent, CacheChecksum, BuildRewrite, objVars
    <2>2. QED
      BY <2>1, SMTT(60)
  <1>2. EncapInv /\ ENext => CarefulInv' /\ CountInv'
    BY CarefulNextKeeps, CarefulCount DEF EncapInv, ENext
  <1>3. CarefulInv' => (Referenced = fib)'
    BY ReferencedIsFib, PTL
  <1>4. ASSUME EncapInv, ENext, CarefulInv', CountInv', Referenced' = fib'
        PROVE  EncapInv'
    <2>1. DOMAIN adjs' = fib'
      BY <1>4 DEF ENext, AdjStep
    <2>2. DOMAIN sessions' \subseteq DOMAIN csum0'
      BY <1>4 DEF ENext, AdjStep, EncapInv, NewSlots
    <2>3. ASSUME NEW a \in fib' PROVE AdjCurrent(a)'
      BY <1>4, OldAdjKept, NewAdjCurrent
    <2>4. block' \in Nat
      BY <1>4 DEF ENext, PoolStep, EncapInv
    <2>5. QED
      BY <1>4, <2>1, <2>2, <2>3, <2>4 DEF EncapInv
  <1>5. QED
    BY <1>1, <1>2, <1>3, <1>4

-----------------------------------------------------------------------------
(* Theorems *)

\* Adjacencies, cached checksums and the pool follow the objects and routes of
\* a careful caller.
THEOREM EncapInvariant == ESpec => []EncapInv
  BY InitEncap, ENextKeeps, PTL DEF ESpec

\* Tunnels outlive their sessions and count them exactly, under a careful caller whose
\* calls also make adjacencies and move the pool.
THEOREM EncapTunnels == ESpec => [](SessionCountExact /\ NoDanglingTunnel)
  <1>1. EncapInv => SessionCountExact /\ NoDanglingTunnel
    BY DEF EncapInv, CountInv
  <1>2. QED
    BY <1>1, EncapInvariant, PTL

\* What leaves through an adjacency carries the addresses and ids of the session
\* that has the interface now, although l2tvpp_update_adj runs once per
\* adjacency and interfaces and slots are used again; also when the pool moves.
THEOREM RewriteCurrent == ESpec => []RewriteFollowsSession
  <1>1. EncapInv => RewriteFollowsSession
    <2>1. SUFFICES ASSUME EncapInv, NEW a \in DOMAIN adjs
                   PROVE  RewriteFollowsSession!(a)
      BY DEF RewriteFollowsSession
    <2> DEFINE i == session_index_by_sw_if_index[a[2]]
    <2>2. AdjCurrent(a)
      BY <2>1 DEF EncapInv
    <2>3. adjs[a] # Incomplete
      <3>1. adjs[a].stacked # {}
        BY <2>2 DEF AdjCurrent
      <3>2. Incomplete.stacked = {}
        BY DEF Incomplete
      <3>3. QED
        BY <3>1, <3>2
    <2>4. QED
      BY <2>2, <2>3 DEF AdjCurrent, BuildRewrite
  <1>2. QED
    BY <1>1, EncapInvariant, PTL

\* Every header l2tvpp_fixup completes through an adjacency made since the pool last
\* moved has a valid checksum, and so has every header until the pool first moves: for
\* every header, every length and every width of the words, the cached value is that of
\* the session's header with length 0.  (What happens to an adjacency made before a
\* move is the subject of a run.)
THEOREM HeadersValid ==
  ESpec => [](/\ \A a \in DOMAIN adjs : adjs[a].fixup[1] = block => ValidThrough(a)
              /\ block = 0 => EmittedHeaderValid)
  <1>1. ASSUME EncapInv, NEW a \in DOMAIN adjs, adjs[a].fixup[1] = block
        PROVE  ValidThrough(a)
    <2>1. SUFFICES ASSUME NEW len \in Lens, NEW c \in FixupReads(a)
                   PROVE  HeaderValid(adjs[a].rewrite.local, adjs[a].rewrite.peer,
                                      len, Fixup(c, len))
      BY DEF ValidThrough
    <2> DEFINE i == session_index_by_sw_if_index[a[2]]
               t == tunnels[sessions[i].tunnel_index]
               s == HdrSum[<<t.local, t.peer>>]
    <2>2. AdjCurrent(a)
      BY <1>1 DEF EncapInv
    <2>3. c = Word - 1 - s
      BY <1>1, <2>1, <2>2 DEF AdjCurrent, FixupReads, CacheChecksum, HeaderChecksum
    <2>4. adjs[a].rewrite.local = t.local /\ adjs[a].rewrite.peer = t.peer
      BY <2>2 DEF AdjCurrent, BuildRewrite
    <2>5. s \in 1 .. Word - 1 /\ len \in 1 .. Word - 1
      <3>1. i \in DOMAIN sessions
        BY <2>2 DEF AdjCurrent
      <3>2. sessions[i].tunnel_index \in DOMAIN tunnels
        BY <1>1, <3>1 DEF EncapInv, CountInv, NoDanglingTunnel
      <3>3. t.local \in Locals /\ t.peer \in Peers
        BY <1>1, <3>2 DEF EncapInv, CarefulInv, IndexInv, TypeOK, Tunnel
      <3>4. QED
        BY <2>1, <3>3, EncapAssumption
    <2> HIDE DEF s
    <2>6. OnesAdd(OnesAdd(s, len), Fixup(c, len)) = Word - 1
      BY <2>3, <2>5, FixupValid
    <2>7. QED
      BY <2>4, <2>6 DEF HeaderValid, s
  <1>2. ASSUME EncapInv, block = 0 PROVE EmittedHeaderValid
    <2>1. SUFFICES ASSUME NEW a \in DOMAIN adjs PROVE ValidThrough(a)
      BY DEF EmittedHeaderValid
    <2>2. adjs[a].fixup[1] \in 0 .. block
      BY <1>2, <2>1 DEF EncapInv, AdjCurrent
    <2>3. adjs[a].fixup[1] = block
      BY <1>2, <2>2
    <2>4. QED
      BY <1>1, <1>2, <2>1, <2>3
  <1>3. EncapInv => /\ \A a \in DOMAIN adjs : adjs[a].fixup[1] = block => ValidThrough(a)
                    /\ block = 0 => EmittedHeaderValid
    BY <1>1, <1>2
  <1>4. QED
    BY <1>3, EncapInvariant, PTL
=============================================================================
