------------------------ MODULE L2tvppObjects_proofs ------------------------
(***************************************************************************)
(* Proofs about L2tvppObjects, for every number of tunnels, sessions,      *)
(* interfaces and ids.                                                     *)
(***************************************************************************)
EXTENDS L2tvppObjects, FiniteSetTheorems, TLAPS

\* Put keeps the type of a table.
LEMMA PutType ==
  ASSUME NEW S, NEW f, f \in [DOMAIN f -> S], NEW x, NEW v \in S
  PROVE  Put(f, x, v) \in [DOMAIN Put(f, x, v) -> S]
  BY DEF Put

\* What Drop does: the entry is gone, the others keep theirs.
LEMMA DropFacts ==
  ASSUME NEW f, NEW x
  PROVE  /\ DOMAIN Drop(f, x) = DOMAIN f \ {x}
         /\ \A y \in DOMAIN f \ {x} : Drop(f, x)[y] = f[y]
  BY DEF Drop

\* Drop keeps the type of a table.
LEMMA DropType ==
  ASSUME NEW S, NEW f, f \in [DOMAIN f -> S], NEW x
  PROVE  Drop(f, x) \in [DOMAIN Drop(f, x) -> S]
  BY DEF Drop

\* u32 arithmetic stays within u32.
LEMMA CounterType ==
  ASSUME NEW n \in 0 .. Wrap - 1
  PROVE  Inc(n) \in 0 .. Wrap - 1 /\ Dec(n) \in 0 .. Wrap - 1
  BY IndexAssumption DEF Inc, Dec

-----------------------------------------------------------------------------
(* The indexes, for any caller *)

\* The inductive invariant of Spec: the types, the agreement of both indexes
\* with the pool, and the identity of tunnels.
IndexInv == TypeOK /\ KeyIndexAgrees /\ SwIfIndexAgrees /\ TunnelsIdentified

\* The empty tables satisfy it.
LEMMA InitIndex == Init => IndexInv
  <1>1. SUFFICES ASSUME Init PROVE IndexInv
    OBVIOUS
  <1>2. TypeOK
    BY <1>1 DEF Init, TypeOK, Retval
  <1>3. QED
    BY <1>1, <1>2 DEF Init, IndexInv, KeyIndexAgrees, SwIfIndexAgrees, TunnelsIdentified

\* A step that leaves the objects alone (a refused call, a stutter) keeps it,
\* as long as the reply has its type.
LEMMA UnchangedIndex ==
  ASSUME IndexInv, UNCHANGED objVars,
         reply' \in [rv : Retval, index : TunnelIdx \cup SwIf \cup {NoIndex}]
  PROVE  IndexInv'
  BY DEF IndexInv, objVars, TypeOK, KeyIndexAgrees, SwIfIndexAgrees,
         TunnelsIdentified, KeyOf

\* A refused call keeps the invariant.
LEMMA RefuseIndex ==
  ASSUME IndexInv, NEW rv \in Retval, Refuse(rv)
  PROVE  IndexInv'
  <1>1. reply' \in [rv : Retval, index : TunnelIdx \cup SwIf \cup {NoIndex}]
    BY DEF Refuse, Answer
  <1>2. QED
    BY <1>1, UnchangedIndex DEF Refuse

\* l2tvpp_tunnel_add_del, is_add, keeps it.
LEMMA TunnelAddIndex ==
  ASSUME IndexInv, NEW l \in Locals, NEW p \in Peers, NEW tid \in Tids,
         NEW pt \in PeerTids, TunnelAdd(l, p, tid, pt)
  PROVE  IndexInv'
  <1>1. CASE Refuse("UNIMPLEMENTED")
    BY <1>1, RefuseIndex DEF Retval
  <1>2. CASE Refuse("TUNNEL_EXIST")
    BY <1>2, RefuseIndex DEF Retval
  <1>3. CASE /\ TunnelFind(p, tid) = {}
             /\ \E i \in TunnelIdx \ DOMAIN tunnels :
                  /\ tunnels' = Put(tunnels, i,
                       [local |-> l, peer |-> p, local_tid |-> tid,
                        peer_tid |-> pt, n_sessions |-> 0])
                  /\ Answer("OK", i)
             /\ local_ip4s' = local_ip4s \cup {l}
             /\ UNCHANGED <<sessions, session_by_key,
                            session_index_by_sw_if_index, interfaces>>
    <2> DEFINE new == [local |-> l, peer |-> p, local_tid |-> tid,
                       peer_tid |-> pt, n_sessions |-> 0]
    <2>1. PICK i \in TunnelIdx \ DOMAIN tunnels :
            tunnels' = Put(tunnels, i, new) /\ Answer("OK", i)
      BY <1>3
    <2>2. new \in Tunnel
      BY IndexAssumption, FS_CardinalityType DEF Tunnel
    <2> HIDE DEF new
    <2>3. TypeOK'
      <3>1. DOMAIN tunnels' \subseteq TunnelIdx
        BY <2>1, SMT DEF IndexInv, TypeOK, Put
      <3>2. tunnels' \in [DOMAIN tunnels' -> Tunnel]
        <4>1. tunnels \in [DOMAIN tunnels -> Tunnel]
          BY DEF IndexInv, TypeOK
        <4>2. Put(tunnels, i, new) \in [DOMAIN Put(tunnels, i, new) -> Tunnel]
          BY <2>2, <4>1, PutType
        <4>3. QED
          BY <2>1, <4>2
      <3>3. reply' \in [rv : Retval, index : TunnelIdx \cup SwIf \cup {NoIndex}]
        BY <2>1 DEF Answer, Retval
      <3>4. QED
        BY <1>3, <3>1, <3>2, <3>3 DEF IndexInv, TypeOK
    <2>4. KeyIndexAgrees' /\ SwIfIndexAgrees'
      BY <1>3 DEF IndexInv, KeyIndexAgrees, SwIfIndexAgrees, KeyOf
    <2>5. /\ DOMAIN tunnels' = DOMAIN tunnels \cup {i}
          /\ tunnels'[i] = new
          /\ \A j \in DOMAIN tunnels : tunnels'[j] = tunnels[j]
      BY <2>1, SMT DEF Put
    <2>6. \A j \in DOMAIN tunnels : ~(tunnels[j].peer = p /\ tunnels[j].local_tid = tid)
      BY <1>3 DEF TunnelFind
    <2>7. new.peer = p /\ new.local_tid = tid /\ new.local = l
      BY DEF new
    <2>8. TunnelsIdentified'
      <3>1. \A j, k \in DOMAIN tunnels' :
              (tunnels'[j].peer = tunnels'[k].peer
                /\ tunnels'[j].local_tid = tunnels'[k].local_tid) => j = k
        BY <2>5, <2>6, <2>7 DEF IndexInv, TunnelsIdentified
      <3>2. \A j \in DOMAIN tunnels' : tunnels'[j].local \in local_ip4s'
        BY <1>3, <2>5, <2>7 DEF IndexInv, TunnelsIdentified
      <3>3. QED
        BY <3>1, <3>2 DEF TunnelsIdentified
    <2>9. QED
      BY <2>3, <2>4, <2>8 DEF IndexInv
  <1>4. QED
    BY <1>1, <1>2, <1>3 DEF TunnelAdd

\* l2tvpp_tunnel_add_del, !is_add, keeps it.
LEMMA TunnelDelIndex ==
  ASSUME IndexInv, NEW l, NEW p \in Peers, NEW tid \in Tids,
         TunnelDel(l, p, tid)
  PROVE  IndexInv'
  <1>1. CASE \E rv \in Retval : Refuse(rv)
    BY <1>1, RefuseIndex
  <1>2. CASE \E i \in DOMAIN tunnels :
               /\ tunnels' = Drop(tunnels, i)
               /\ Answer("OK", NoIndex)
               /\ UNCHANGED <<sessions, session_by_key,
                              session_index_by_sw_if_index, interfaces,
                              local_ip4s>>
    <2>1. PICK i \in DOMAIN tunnels : tunnels' = Drop(tunnels, i)
      BY <1>2
    <2>2. TypeOK'
      <3>1. tunnels \in [DOMAIN tunnels -> Tunnel]
        BY DEF IndexInv, TypeOK
      <3>2. tunnels' \in [DOMAIN tunnels' -> Tunnel]
        BY <2>1, <3>1, DropType
      <3>3. DOMAIN tunnels' \subseteq TunnelIdx
        BY <2>1, DropFacts DEF IndexInv, TypeOK
      <3>4. reply' \in [rv : Retval, index : TunnelIdx \cup SwIf \cup {NoIndex}]
        BY <1>2 DEF Answer, Retval
      <3>5. QED
        BY <1>2, <3>2, <3>3, <3>4 DEF IndexInv, TypeOK
    <2>3. KeyIndexAgrees' /\ SwIfIndexAgrees'
      BY <1>2 DEF IndexInv, KeyIndexAgrees, SwIfIndexAgrees, KeyOf
    <2>4. TunnelsIdentified'
      <3>1. /\ DOMAIN tunnels' \subseteq DOMAIN tunnels
            /\ \A j \in DOMAIN tunnels' : tunnels'[j] = tunnels[j]
        BY <2>1, DropFacts
      <3>2. QED
        BY <1>2, <3>1 DEF IndexInv, TunnelsIdentified
    <2>5. QED
      BY <2>2, <2>3, <2>4 DEF IndexInv
  <1>3. QED
    BY <1>1, <1>2 DEF TunnelDel, TunnelFind, Retval

\* l2tvpp_session_add_del, is_add, keeps it.
LEMMA SessionAddIndex ==
  ASSUME IndexInv, NEW t, NEW sid \in Sids, NEW ps \in PeerSids,
         SessionAdd(t, sid, ps)
  PROVE  IndexInv'
  <1>1. CASE \E rv \in Retval : Refuse(rv)
    BY <1>1, RefuseIndex
  <1>2. CASE /\ t \in DOMAIN tunnels
             /\ <<tunnels[t].local_tid, sid>> \notin DOMAIN session_by_key
             /\ \E i \in SessionIdx \ DOMAIN sessions, w \in SwIf \ interfaces :
                  /\ sessions' = Put(sessions, i,
                       [tunnel_index |-> t, local_tid |-> tunnels[t].local_tid,
                        local_sid |-> sid, peer_sid |-> ps, sw_if_index |-> w])
                  /\ interfaces' = interfaces \cup {w}
                  /\ session_index_by_sw_if_index' =
                       [session_index_by_sw_if_index EXCEPT ![w] = i]
                  /\ session_by_key' =
                       Put(session_by_key, <<tunnels[t].local_tid, sid>>, i)
                  /\ Answer("OK", w)
             /\ tunnels' = [tunnels EXCEPT ![t].n_sessions = Inc(@)]
             /\ UNCHANGED local_ip4s
    <2> DEFINE key == <<tunnels[t].local_tid, sid>>
    <2>1. PICK i \in SessionIdx \ DOMAIN sessions, w \in SwIf \ interfaces :
            /\ sessions' = Put(sessions, i,
                 [tunnel_index |-> t, local_tid |-> tunnels[t].local_tid,
                  local_sid |-> sid, peer_sid |-> ps, sw_if_index |-> w])
            /\ interfaces' = interfaces \cup {w}
            /\ session_index_by_sw_if_index' =
                 [session_index_by_sw_if_index EXCEPT ![w] = i]
            /\ session_by_key' = Put(session_by_key, key, i)
            /\ Answer("OK", w)
      BY <1>2
    <2>2. TypeOK
      BY DEF IndexInv
    <2>3. tunnels[t] \in Tunnel /\ t \in TunnelIdx
      BY <1>2, <2>2 DEF TypeOK
    <2>4. /\ DOMAIN sessions' = DOMAIN sessions \cup {i}
          /\ sessions'[i] = [tunnel_index |-> t, local_tid |-> tunnels[t].local_tid,
                             local_sid |-> sid, peer_sid |-> ps, sw_if_index |-> w]
          /\ \A j \in DOMAIN sessions : sessions'[j] = sessions[j]
      BY <2>1 DEF Put
    <2>5. /\ DOMAIN session_by_key' = DOMAIN session_by_key \cup {key}
          /\ session_by_key'[key] = i
          /\ \A k \in DOMAIN session_by_key : session_by_key'[k] = session_by_key[k]
      BY <1>2, <2>1 DEF Put
    <2>6. /\ session_index_by_sw_if_index'[w] = i
          /\ \A v \in SwIf \ {w} : session_index_by_sw_if_index'[v]
                                     = session_index_by_sw_if_index[v]
      BY <2>1, <2>2 DEF TypeOK
    <2>7. TypeOK'
      <3>1. tunnels' \in [DOMAIN tunnels' -> Tunnel] /\ DOMAIN tunnels' = DOMAIN tunnels
        BY <1>2, <2>2, <2>3, CounterType DEF TypeOK, Tunnel
      <3>2. sessions'[i] \in Session
        BY <2>1, <2>3, <2>4 DEF Session, Tunnel
      <3>3. DOMAIN sessions' \subseteq SessionIdx /\ sessions' \in [DOMAIN sessions' -> Session]
        BY <2>1, <2>2, <2>4, <3>2 DEF TypeOK, Put
      <3>4. key \in SessionKey
        BY <2>3 DEF SessionKey, Tunnel
      <3>5. /\ DOMAIN session_by_key' \subseteq SessionKey
            /\ session_by_key' \in [DOMAIN session_by_key' -> SessionIdx]
        BY <2>1, <2>2, <2>5, <3>4 DEF TypeOK, Put
      <3>6. session_index_by_sw_if_index' \in [SwIf -> SessionIdx \cup {NoIndex}]
        BY <2>1, <2>2 DEF TypeOK
      <3>7. reply' \in [rv : Retval, index : TunnelIdx \cup SwIf \cup {NoIndex}]
        BY <2>1 DEF Answer, Retval
      <3>8. interfaces' \subseteq SwIf /\ local_ip4s' \subseteq Locals
        BY <1>2, <2>1, <2>2 DEF TypeOK
      <3>9. QED
        BY <2>2, <3>1, <3>3, <3>5, <3>6, <3>7, <3>8 DEF TypeOK
    <2>8. KeyOf(sessions'[i]) = key
      BY <2>4 DEF KeyOf
    <2>9. KeyIndexAgrees'
      <3>1. ASSUME NEW k \in DOMAIN session_by_key'
            PROVE  /\ session_by_key'[k] \in DOMAIN sessions'
                   /\ KeyOf(sessions'[session_by_key'[k]]) = k
        <4>1. CASE k = key
          BY <2>4, <2>5, <2>8, <4>1
        <4>2. CASE k \in DOMAIN session_by_key
          BY <2>4, <2>5, <4>2 DEF IndexInv, KeyIndexAgrees
        <4>3. QED
          BY <2>5, <3>1, <4>1, <4>2
      <3>2. ASSUME NEW j \in DOMAIN sessions'
            PROVE  /\ KeyOf(sessions'[j]) \in DOMAIN session_by_key'
                   /\ session_by_key'[KeyOf(sessions'[j])] = j
        <4>1. CASE j = i
          BY <2>5, <2>8, <4>1
        <4>2. CASE j \in DOMAIN sessions
          BY <2>4, <2>5, <4>2 DEF IndexInv, KeyIndexAgrees
        <4>3. QED
          BY <2>4, <3>2, <4>1, <4>2
      <3>3. QED
        BY <3>1, <3>2 DEF KeyIndexAgrees, KeyOf
    <2>10. sessions'[i].sw_if_index = w
      BY <2>4
    <2>11. SwIfIndexAgrees'
      <3>1. interfaces' = {sessions'[j].sw_if_index : j \in DOMAIN sessions'}
        BY <2>1, <2>4, <2>10 DEF IndexInv, SwIfIndexAgrees
      <3>2. ASSUME NEW v \in SwIf, session_index_by_sw_if_index'[v] # NoIndex
            PROVE  /\ session_index_by_sw_if_index'[v] \in DOMAIN sessions'
                   /\ sessions'[session_index_by_sw_if_index'[v]].sw_if_index = v
        <4>1. CASE v = w
          BY <2>4, <2>6, <2>10, <4>1
        <4>2. CASE v # w
          BY <2>4, <2>6, <3>2, <4>2 DEF IndexInv, SwIfIndexAgrees
        <4>3. QED
          BY <4>1, <4>2
      <3>3. ASSUME NEW j \in DOMAIN sessions'
            PROVE  session_index_by_sw_if_index'[sessions'[j].sw_if_index] = j
        <4>1. CASE j = i
          BY <2>6, <2>10, <4>1
        <4>2. CASE j \in DOMAIN sessions
          <5>1. sessions[j].sw_if_index \in interfaces
            BY <4>2 DEF IndexInv, SwIfIndexAgrees
          <5>2. sessions[j].sw_if_index \in SwIf \ {w}
            BY <2>1, <2>2, <5>1 DEF TypeOK
          <5>3. QED
            BY <2>4, <2>6, <4>2, <5>2 DEF IndexInv, SwIfIndexAgrees
        <4>3. QED
          BY <2>4, <3>3, <4>1, <4>2
      <3>4. QED
        BY <3>1, <3>2, <3>3 DEF SwIfIndexAgrees
    <2>12. TunnelsIdentified'
      <3>1. \A j \in DOMAIN tunnels' :
              /\ tunnels'[j].peer = tunnels[j].peer
              /\ tunnels'[j].local_tid = tunnels[j].local_tid
              /\ tunnels'[j].local = tunnels[j].local
        BY <1>2, <2>2 DEF TypeOK, Tunnel
      <3>2. DOMAIN tunnels' = DOMAIN tunnels /\ local_ip4s' = local_ip4s
        BY <1>2
      <3>3. QED
        BY <3>1, <3>2 DEF IndexInv, TunnelsIdentified
    <2>13. QED
      BY <2>7, <2>9, <2>11, <2>12 DEF IndexInv
  <1>3. QED
    BY <1>1, <1>2 DEF SessionAdd, Retval

\* l2tvpp_session_add_del, !is_add, keeps it: the entry leaves the hash, the
\* vector, vnet and the pool together.
LEMMA SessionDelIndex ==
  ASSUME IndexInv, NEW t, NEW sid \in Sids, SessionDel(t, sid)
  PROVE  IndexInv'
  <1> DEFINE key == <<tunnels[t].local_tid, sid>>
             i   == session_by_key[key]
             w   == sessions[i].sw_if_index
  <1>1. CASE \E rv \in Retval : Refuse(rv)
    BY <1>1, RefuseIndex
  <1>2. CASE /\ t \in DOMAIN tunnels
             /\ key \in DOMAIN session_by_key
             /\ RemoveKey(key) /\ RemoveSwIf(w)
             /\ interfaces' = interfaces \ {w}
             /\ sessions' = Drop(sessions, i)
             /\ tunnels' = [tunnels EXCEPT ![t].n_sessions = Dec(@)]
             /\ Answer("OK", NoIndex)
             /\ UNCHANGED local_ip4s
    <2>1. TypeOK /\ KeyIndexAgrees /\ SwIfIndexAgrees
      BY DEF IndexInv
    <2>2. i \in DOMAIN sessions /\ KeyOf(sessions[i]) = key /\ i \in SessionIdx
      BY <1>2, <2>1 DEF KeyIndexAgrees, TypeOK
    <2>3. w \in SwIf
      BY <2>1, <2>2 DEF TypeOK, Session
    <2> HIDE DEF key, i, w
    <2>4. /\ DOMAIN sessions' = DOMAIN sessions \ {i}
          /\ \A j \in DOMAIN sessions' : sessions'[j] = sessions[j]
      BY <1>2 DEF Drop
    <2>5. /\ DOMAIN session_by_key' = DOMAIN session_by_key \ {key}
          /\ \A k \in DOMAIN session_by_key' : session_by_key'[k] = session_by_key[k]
      BY <1>2 DEF RemoveKey, Drop
    <2>6. /\ session_index_by_sw_if_index'[w] = NoIndex
          /\ \A v \in SwIf \ {w} : session_index_by_sw_if_index'[v]
                                     = session_index_by_sw_if_index[v]
      BY <1>2, <2>1, <2>3 DEF TypeOK, RemoveSwIf
    <2>7. TypeOK'
      <3>1. tunnels[t] \in Tunnel
        BY <1>2, <2>1 DEF TypeOK
      <3>2. tunnels' \in [DOMAIN tunnels' -> Tunnel] /\ DOMAIN tunnels' = DOMAIN tunnels
        BY <1>2, <2>1, <3>1, CounterType DEF TypeOK, Tunnel
      <3>3. DOMAIN sessions' \subseteq SessionIdx /\ sessions' \in [DOMAIN sessions' -> Session]
        BY <1>2, <2>1, <2>4 DEF TypeOK, Drop
      <3>4. /\ DOMAIN session_by_key' \subseteq SessionKey
            /\ session_by_key' \in [DOMAIN session_by_key' -> SessionIdx]
        BY <1>2, <2>1, <2>5 DEF TypeOK, RemoveKey, Drop
      <3>5. session_index_by_sw_if_index' \in [SwIf -> SessionIdx \cup {NoIndex}]
        BY <1>2, <2>1 DEF TypeOK, RemoveSwIf
      <3>6. reply' \in [rv : Retval, index : TunnelIdx \cup SwIf \cup {NoIndex}]
        BY <1>2 DEF Answer, Retval
      <3>7. interfaces' \subseteq SwIf /\ local_ip4s' \subseteq Locals
        BY <1>2, <2>1 DEF TypeOK
      <3>8. QED
        BY <2>1, <3>2, <3>3, <3>4, <3>5, <3>6, <3>7 DEF TypeOK
    <2>8. KeyIndexAgrees'
      <3>1. ASSUME NEW k \in DOMAIN session_by_key'
            PROVE  /\ session_by_key'[k] \in DOMAIN sessions'
                   /\ KeyOf(sessions'[session_by_key'[k]]) = k
        <4>1. session_by_key[k] # i
          BY <2>1, <2>2, <2>5, <3>1 DEF KeyIndexAgrees
        <4>2. QED
          BY <2>1, <2>4, <2>5, <3>1, <4>1 DEF KeyIndexAgrees
      <3>2. ASSUME NEW j \in DOMAIN sessions'
            PROVE  /\ KeyOf(sessions'[j]) \in DOMAIN session_by_key'
                   /\ session_by_key'[KeyOf(sessions'[j])] = j
        <4>1. KeyOf(sessions[j]) # key
          BY <1>2, <2>1, <2>4, <3>2 DEF KeyIndexAgrees, i
        <4>2. QED
          BY <2>1, <2>4, <2>5, <3>2, <4>1 DEF KeyIndexAgrees
      <3>3. QED
        BY <3>1, <3>2 DEF KeyIndexAgrees, KeyOf
    <2>9. \A j \in DOMAIN sessions' : sessions[j].sw_if_index \in SwIf \ {w}
      <3>1. session_index_by_sw_if_index[w] = i
        BY <2>1, <2>2 DEF SwIfIndexAgrees, w
      <3>2. QED
        BY <2>1, <2>4, <3>1 DEF SwIfIndexAgrees, TypeOK, Session
    <2>10. SwIfIndexAgrees'
      <3>1. interfaces' = {sessions'[j].sw_if_index : j \in DOMAIN sessions'}
        <4>1. interfaces = {sessions[j].sw_if_index : j \in DOMAIN sessions}
          BY <2>1 DEF SwIfIndexAgrees
        <4>2. interfaces' = interfaces \ {w}
          BY <1>2
        <4>3. w = sessions[i].sw_if_index
          BY DEF w
        <4>4. QED
          BY <2>4, <2>9, <4>1, <4>2, <4>3
      <3>2. ASSUME NEW v \in SwIf, session_index_by_sw_if_index'[v] # NoIndex
            PROVE  /\ session_index_by_sw_if_index'[v] \in DOMAIN sessions'
                   /\ sessions'[session_index_by_sw_if_index'[v]].sw_if_index = v
        <4>1. v # w
          BY <2>6, <3>2
        <4>2. session_index_by_sw_if_index[v] # i
          BY <2>1, <2>6, <3>2, <4>1 DEF SwIfIndexAgrees, w
        <4>3. QED
          BY <2>1, <2>4, <2>6, <3>2, <4>1, <4>2 DEF SwIfIndexAgrees
      <3>3. \A j \in DOMAIN sessions' :
              session_index_by_sw_if_index'[sessions'[j].sw_if_index] = j
        BY <2>1, <2>4, <2>6, <2>9 DEF SwIfIndexAgrees
      <3>4. QED
        BY <3>1, <3>2, <3>3 DEF SwIfIndexAgrees
    <2>11. TunnelsIdentified'
      <3>1. \A j \in DOMAIN tunnels' :
              /\ tunnels'[j].peer = tunnels[j].peer
              /\ tunnels'[j].local_tid = tunnels[j].local_tid
              /\ tunnels'[j].local = tunnels[j].local
        BY <1>2, <2>1 DEF TypeOK, Tunnel
      <3>2. DOMAIN tunnels' = DOMAIN tunnels /\ local_ip4s' = local_ip4s
        BY <1>2
      <3>3. QED
        BY <3>1, <3>2 DEF IndexInv, TunnelsIdentified
    <2>12. QED
      BY <2>7, <2>8, <2>10, <2>11 DEF IndexInv
  <1>3. QED
    BY <1>1, <1>2 DEF SessionDel, Retval

\* Every call of any caller keeps the invariant.
LEMMA NextIndex == IndexInv /\ [Next]_vars => IndexInv'
  <1>1. SUFFICES ASSUME IndexInv, [Next]_vars PROVE IndexInv'
    OBVIOUS
  <1>2. CASE TunnelAddCalls(Tids)
    BY <1>1, <1>2, TunnelAddIndex DEF TunnelAddCalls
  <1>3. CASE TunnelDelCalls
    BY <1>1, <1>3, TunnelDelIndex DEF TunnelDelCalls
  <1>4. CASE SessionAddCalls
    BY <1>1, <1>4, SessionAddIndex DEF SessionAddCalls
  <1>5. CASE \E t \in AnyIndex, sid \in Sids : SessionDel(t, sid)
    BY <1>1, <1>5, SessionDelIndex
  <1>6. CASE UNCHANGED vars
    <2>1. reply' \in [rv : Retval, index : TunnelIdx \cup SwIf \cup {NoIndex}]
      BY <1>1, <1>6 DEF vars, IndexInv, TypeOK
    <2>2. QED
      BY <1>1, <1>6, <2>1, UnchangedIndex DEF vars
  <1>7. QED
    BY <1>1, <1>2, <1>3, <1>4, <1>5, <1>6 DEF Next

\* For any caller: the invariant holds in every reachable state.
THEOREM IndexInvariant == Spec => []IndexInv
  <1>1. QED
    BY InitIndex, NextIndex, PTL DEF Spec

\* For any caller, objects and indexes keep their types.
THEOREM TypeCorrect == Spec => []TypeOK
  <1>1. IndexInv => TypeOK
    BY DEF IndexInv
  <1>2. QED
    BY <1>1, IndexInvariant, PTL

\* For any caller, session_by_key is exactly the inverse of the live sessions'
\* keys: l2tvpp-input never dereferences a freed session.
THEOREM KeyIndexSafe == Spec => []KeyIndexAgrees
  <1>1. IndexInv => KeyIndexAgrees
    BY DEF IndexInv
  <1>2. QED
    BY <1>1, IndexInvariant, PTL

\* For any caller, session_index_by_sw_if_index is exactly the inverse of the
\* live sessions' interfaces: route calls never reach a freed session.
THEOREM SwIfIndexSafe == Spec => []SwIfIndexAgrees
  <1>1. IndexInv => SwIfIndexAgrees
    BY DEF IndexInv
  <1>2. QED
    BY <1>1, IndexInvariant, PTL

\* For any caller, l2tvpp_tunnel_find is a function of the tunnel's identity,
\* and every tunnel's local address is in local_ip4s.
THEOREM TunnelIdentity == Spec => []TunnelsIdentified
  <1>1. IndexInv => TunnelsIdentified
    BY DEF IndexInv
  <1>2. QED
    BY <1>1, IndexInvariant, PTL

-----------------------------------------------------------------------------
(* The session counter, for a caller that deletes through the own tunnel *)

CountInv == IndexInv /\ SessionCountExact /\ NoDanglingTunnel

\* A tunnel's sessions are finitely many, and fewer than 2^32.
LEMMA SessionsFinite ==
  ASSUME TypeOK, NEW t
  PROVE  /\ IsFiniteSet(SessionsOf(t))
         /\ Cardinality(SessionsOf(t)) \in Nat
         /\ Cardinality(SessionsOf(t)) < Wrap
  <1>1. SessionsOf(t) \in SUBSET SessionIdx
    BY DEF TypeOK, SessionsOf
  <1>2. /\ IsFiniteSet(SessionsOf(t))
        /\ Cardinality(SessionsOf(t)) <= Cardinality(SessionIdx)
    BY <1>1, FS_Subset, IndexAssumption
  <1>3. QED
    BY <1>2, FS_CardinalityType, IndexAssumption

\* A step that leaves tunnels and sessions alone keeps the counts.
LEMMA UnchangedCount ==
  ASSUME SessionCountExact, NoDanglingTunnel, UNCHANGED <<tunnels, sessions>>
  PROVE  SessionCountExact' /\ NoDanglingTunnel'
  BY DEF SessionCountExact, NoDanglingTunnel, SessionsOf

\* The pool index a new tunnel gets has no sessions left over.
LEMMA TunnelAddCount ==
  ASSUME CountInv, NEW l \in Locals, NEW p \in Peers, NEW tid \in Tids,
         NEW pt \in PeerTids, TunnelAdd(l, p, tid, pt)
  PROVE  SessionCountExact' /\ NoDanglingTunnel'
  <1>1. CASE UNCHANGED objVars
    BY <1>1, UnchangedCount DEF objVars, CountInv
  <1>2. CASE \E i \in TunnelIdx \ DOMAIN tunnels :
               /\ tunnels' = Put(tunnels, i,
                    [local |-> l, peer |-> p, local_tid |-> tid,
                     peer_tid |-> pt, n_sessions |-> 0])
               /\ UNCHANGED sessions
    <2>1. PICK i \in TunnelIdx \ DOMAIN tunnels :
               /\ tunnels' = Put(tunnels, i,
                    [local |-> l, peer |-> p, local_tid |-> tid,
                     peer_tid |-> pt, n_sessions |-> 0])
               /\ UNCHANGED sessions
      BY <1>2
    <2>2. /\ DOMAIN tunnels' = DOMAIN tunnels \cup {i}
          /\ tunnels'[i].n_sessions = 0
          /\ \A j \in DOMAIN tunnels : tunnels'[j] = tunnels[j]
      BY <2>1 DEF Put
    <2>3. NoDanglingTunnel'
      BY <2>1, <2>2 DEF CountInv, NoDanglingTunnel
    <2>4. SessionsOf(i) = {}
      BY <2>1 DEF CountInv, NoDanglingTunnel, SessionsOf
    <2>5. \A t : SessionsOf(t)' = SessionsOf(t)
      BY <2>1 DEF SessionsOf
    <2>6. Cardinality(SessionsOf(i)) = 0
      BY <2>4, FS_EmptySet
    <2>7. SessionCountExact'
      BY <2>2, <2>5, <2>6 DEF CountInv, SessionCountExact
    <2>8. QED
      BY <2>3, <2>7
  <1>3. QED
    BY <1>1, <1>2 DEF TunnelAdd, Refuse

\* The in-use test lets only a tunnel without sessions go.
LEMMA TunnelDelCount ==
  ASSUME CountInv, NEW l, NEW p \in Peers, NEW tid \in Tids,
         TunnelDel(l, p, tid)
  PROVE  SessionCountExact' /\ NoDanglingTunnel'
  <1>1. CASE UNCHANGED objVars
    BY <1>1, UnchangedCount DEF objVars, CountInv
  <1>2. CASE \E i \in DOMAIN tunnels : /\ tunnels[i].n_sessions = 0
                                       /\ tunnels' = Drop(tunnels, i)
                                       /\ UNCHANGED sessions
    <2>1. PICK i \in DOMAIN tunnels : /\ tunnels[i].n_sessions = 0
                                      /\ tunnels' = Drop(tunnels, i)
                                      /\ UNCHANGED sessions
      BY <1>2
    <2>2. SessionsOf(i) = {}
      <3>1. Cardinality(SessionsOf(i)) = 0
        BY <2>1 DEF CountInv, SessionCountExact
      <3>2. QED
        BY <3>1, SessionsFinite, FS_EmptySet DEF CountInv, IndexInv
    <2>3. /\ DOMAIN tunnels' = DOMAIN tunnels \ {i}
          /\ \A j \in DOMAIN tunnels' : tunnels'[j] = tunnels[j]
      BY <2>1 DEF Drop
    <2>4. NoDanglingTunnel'
      BY <2>1, <2>2, <2>3 DEF CountInv, NoDanglingTunnel, SessionsOf
    <2>5. \A t : SessionsOf(t)' = SessionsOf(t)
      BY <2>1 DEF SessionsOf
    <2>6. SessionCountExact'
      BY <2>3, <2>5 DEF CountInv, SessionCountExact
    <2>7. QED
      BY <2>4, <2>6
  <1>3. QED
    BY <1>1, <1>2 DEF TunnelDel, TunnelFind, Refuse, InUse

\* A new session counts for its tunnel, and the u32 does not wrap.
LEMMA SessionAddCount ==
  ASSUME CountInv, NEW t, NEW sid \in Sids, NEW ps \in PeerSids,
         SessionAdd(t, sid, ps), TypeOK'
  PROVE  SessionCountExact' /\ NoDanglingTunnel'
  <1>1. CASE UNCHANGED objVars
    BY <1>1, UnchangedCount DEF objVars, CountInv
  <1>2. CASE /\ t \in DOMAIN tunnels
             /\ \E i \in SessionIdx \ DOMAIN sessions, w \in SwIf :
                  sessions' = Put(sessions, i,
                       [tunnel_index |-> t, local_tid |-> tunnels[t].local_tid,
                        local_sid |-> sid, peer_sid |-> ps, sw_if_index |-> w])
             /\ tunnels' = [tunnels EXCEPT ![t].n_sessions = Inc(@)]
    <2>1. PICK i \in SessionIdx \ DOMAIN sessions, w \in SwIf :
                  sessions' = Put(sessions, i,
                       [tunnel_index |-> t, local_tid |-> tunnels[t].local_tid,
                        local_sid |-> sid, peer_sid |-> ps, sw_if_index |-> w])
      BY <1>2
    <2>2. /\ DOMAIN sessions' = DOMAIN sessions \cup {i}
          /\ sessions'[i].tunnel_index = t
          /\ sessions'[i].local_tid = tunnels[t].local_tid
          /\ \A j \in DOMAIN sessions : sessions'[j] = sessions[j]
      BY <2>1 DEF Put
    <2>3. TypeOK
      BY DEF CountInv, IndexInv
    <2>4. /\ DOMAIN tunnels' = DOMAIN tunnels
          /\ tunnels'[t].n_sessions = Inc(tunnels[t].n_sessions)
          /\ \A u \in DOMAIN tunnels : tunnels'[u].local_tid = tunnels[u].local_tid
          /\ \A u \in DOMAIN tunnels \ {t} : tunnels'[u] = tunnels[u]
      BY <1>2, <2>3 DEF TypeOK, Tunnel
    <2>5. NoDanglingTunnel'
      BY <1>2, <2>2, <2>4 DEF CountInv, NoDanglingTunnel
    <2>6. SessionsOf(t)' = SessionsOf(t) \cup {i}
      BY <2>2 DEF SessionsOf
    <2>7. \A u : u # t => SessionsOf(u)' = SessionsOf(u)
      BY <2>2 DEF SessionsOf
    <2>8. i \notin SessionsOf(t)
      BY <2>1 DEF SessionsOf
    <2>9. Cardinality(SessionsOf(t) \cup {i}) = Cardinality(SessionsOf(t)) + 1
      BY <2>3, <2>8, SessionsFinite, FS_AddElement
    <2>10. Cardinality(SessionsOf(t) \cup {i}) < Wrap
      <3>1. SessionsOf(t) \cup {i} \in SUBSET SessionIdx
        BY <2>1, <2>3 DEF SessionsOf, TypeOK
      <3>2. QED
        BY <3>1, <2>9, <2>3, SessionsFinite, FS_Subset, FS_CardinalityType, IndexAssumption
    <2>11. tunnels[t].n_sessions = Cardinality(SessionsOf(t))
      BY <1>2 DEF CountInv, SessionCountExact
    <2>12. tunnels'[t].n_sessions = Cardinality(SessionsOf(t)')
      <3>1. Cardinality(SessionsOf(t)) \in Nat
        BY <2>3, SessionsFinite
      <3>2. Inc(Cardinality(SessionsOf(t))) = Cardinality(SessionsOf(t)) + 1
        BY <2>9, <2>10, <3>1, IndexAssumption DEF Inc
      <3>3. QED
        BY <2>4, <2>6, <2>9, <2>11, <3>2
    <2>13. SessionCountExact'
      BY <2>4, <2>7, <2>12 DEF CountInv, SessionCountExact
    <2>14. QED
      BY <2>5, <2>13
  <1>3. QED
    BY <1>1, <1>2 DEF SessionAdd, Refuse

\* A deleted session no longer counts for its tunnel, which is the tunnel the
\* caller named.
LEMMA SessionDelCount ==
  ASSUME CountInv, NEW t, NEW sid \in Sids, SessionDel(t, sid), OwnTunnel(t, sid)
  PROVE  SessionCountExact' /\ NoDanglingTunnel'
  <1> DEFINE key == <<tunnels[t].local_tid, sid>>
             i   == session_by_key[key]
  <1>1. CASE UNCHANGED objVars
    BY <1>1, UnchangedCount DEF objVars, CountInv
  <1>2. CASE /\ t \in DOMAIN tunnels
             /\ key \in DOMAIN session_by_key
             /\ sessions' = Drop(sessions, i)
             /\ tunnels' = [tunnels EXCEPT ![t].n_sessions = Dec(@)]
    <2>1. TypeOK
      BY DEF CountInv, IndexInv
    <2>2. i \in DOMAIN sessions /\ sessions[i].tunnel_index = t
      BY <1>2 DEF CountInv, IndexInv, KeyIndexAgrees, OwnTunnel
    <2> HIDE DEF key, i
    <2>3. /\ DOMAIN sessions' = DOMAIN sessions \ {i}
          /\ \A j \in DOMAIN sessions' : sessions'[j] = sessions[j]
      BY <1>2 DEF Drop
    <2>4. /\ DOMAIN tunnels' = DOMAIN tunnels
          /\ tunnels'[t].n_sessions = Dec(tunnels[t].n_sessions)
          /\ \A u \in DOMAIN tunnels : tunnels'[u].local_tid = tunnels[u].local_tid
          /\ \A u \in DOMAIN tunnels \ {t} : tunnels'[u] = tunnels[u]
      BY <1>2, <2>1 DEF TypeOK, Tunnel
    <2>5. NoDanglingTunnel'
      BY <2>3, <2>4 DEF CountInv, NoDanglingTunnel
    <2>6. SessionsOf(t)' = SessionsOf(t) \ {i} /\ i \in SessionsOf(t)
      BY <2>2, <2>3 DEF SessionsOf
    <2>7. \A u : u # t => SessionsOf(u)' = SessionsOf(u)
      BY <2>2, <2>3 DEF SessionsOf
    <2>8. Cardinality(SessionsOf(t) \ {i}) = Cardinality(SessionsOf(t)) - 1
      BY <2>1, <2>6, SessionsFinite, FS_RemoveElement
    <2>9. Cardinality(SessionsOf(t)) # 0
      BY <2>1, <2>6, SessionsFinite, FS_EmptySet
    <2>10. tunnels[t].n_sessions = Cardinality(SessionsOf(t))
      BY <1>2 DEF CountInv, SessionCountExact
    <2>11. tunnels'[t].n_sessions = Cardinality(SessionsOf(t)')
      BY <2>4, <2>6, <2>8, <2>9, <2>10 DEF Dec
    <2>12. SessionCountExact'
      BY <2>4, <2>7, <2>11 DEF CountInv, SessionCountExact
    <2>13. QED
      BY <2>5, <2>12
  <1>3. QED
    BY <1>1, <1>2 DEF SessionDel, Refuse

\* Every call of a caller that deletes through the own tunnel keeps the counts.
LEMMA OwnNextCount == CountInv /\ [OwnNext]_vars => CountInv'
  <1>1. SUFFICES ASSUME CountInv, [OwnNext]_vars PROVE CountInv'
    OBVIOUS
  <1>2. IndexInv'
    BY <1>1, NextIndex DEF CountInv, Next, OwnNext
  <1>3. TypeOK'
    BY <1>2 DEF IndexInv
  <1>4. CASE TunnelAddCalls(Tids)
    BY <1>1, <1>2, <1>4, TunnelAddCount DEF TunnelAddCalls, CountInv
  <1>5. CASE TunnelDelCalls
    BY <1>1, <1>2, <1>5, TunnelDelCount DEF TunnelDelCalls, CountInv
  <1>6. CASE SessionAddCalls
    BY <1>1, <1>2, <1>3, <1>6, SessionAddCount DEF SessionAddCalls, CountInv
  <1>7. CASE \E t \in AnyIndex, sid \in Sids : OwnTunnel(t, sid) /\ SessionDel(t, sid)
    BY <1>1, <1>2, <1>7, SessionDelCount DEF CountInv
  <1>8. CASE UNCHANGED vars
    BY <1>1, <1>2, <1>8, UnchangedCount DEF vars, objVars, CountInv
  <1>9. QED
    BY <1>1, <1>4, <1>5, <1>6, <1>7, <1>8 DEF OwnNext

\* The empty tables satisfy it.
LEMMA InitCount == Init => CountInv
  <1>1. Init => SessionCountExact /\ NoDanglingTunnel
    BY DEF Init, SessionCountExact, NoDanglingTunnel
  <1>2. QED
    BY <1>1, InitIndex DEF CountInv

\* If every session is deleted through the tunnel it was added to, n_sessions
\* is the number of the tunnel's live sessions.
THEOREM CountExact == OwnSpec => []SessionCountExact
  <1>1. CountInv => SessionCountExact
    BY DEF CountInv
  <1>2. QED
    BY <1>1, InitCount, OwnNextCount, PTL DEF OwnSpec

\* If every session is deleted through the tunnel it was added to, no tunnel
\* with live sessions is ever freed.
THEOREM TunnelsOutliveSessions == OwnSpec => []NoDanglingTunnel
  <1>1. CountInv => NoDanglingTunnel
    BY DEF CountInv
  <1>2. QED
    BY <1>1, InitCount, OwnNextCount, PTL DEF OwnSpec

-----------------------------------------------------------------------------
(* Tids unique on this LNS: what the comment at l2tvpp_session_key relies on *)

\* With distinct tids, whatever session a delete finds is the named tunnel's.
LEMMA DistinctTidsOwn ==
  ASSUME CountInv, DistinctTids, NEW t, NEW sid
  PROVE  OwnTunnel(t, sid)
  <1>1. SUFFICES ASSUME t \in DOMAIN tunnels,
                        <<tunnels[t].local_tid, sid>> \in DOMAIN session_by_key
                 PROVE  sessions[session_by_key[<<tunnels[t].local_tid, sid>>]].tunnel_index = t
    BY DEF OwnTunnel
  <1> DEFINE s == sessions[session_by_key[<<tunnels[t].local_tid, sid>>]]
  <1>2. /\ session_by_key[<<tunnels[t].local_tid, sid>>] \in DOMAIN sessions
        /\ s.local_tid = tunnels[t].local_tid
    BY <1>1 DEF CountInv, IndexInv, KeyIndexAgrees, KeyOf
  <1>3. /\ s.tunnel_index \in DOMAIN tunnels
        /\ tunnels[s.tunnel_index].local_tid = s.local_tid
    BY <1>2 DEF CountInv, NoDanglingTunnel
  <1>4. QED
    BY <1>1, <1>2, <1>3 DEF DistinctTids

\* So a step that keeps tids distinct is one of a caller that deletes through
\* the own tunnel.
LEMMA RfcStepOwn == CountInv /\ DistinctTids /\ [RfcNext]_vars => [OwnNext]_vars
  <1>1. SUFFICES ASSUME CountInv, DistinctTids, RfcNext PROVE OwnNext
    OBVIOUS
  <1>2. CASE TunnelAddCalls({tid \in Tids : FreshTid(tid)})
    BY <1>2 DEF TunnelAddCalls, OwnNext
  <1>3. CASE TunnelDelCalls \/ SessionAddCalls
    BY <1>3 DEF OwnNext
  <1>4. CASE \E t \in AnyIndex, sid \in Sids : SessionDel(t, sid)
    BY <1>1, <1>4, DistinctTidsOwn DEF OwnNext
  <1>5. QED
    BY <1>1, <1>2, <1>3, <1>4 DEF RfcNext

\* No call but a tunnel add gives a tunnel its tid.
LEMMA RfcStepDistinct == CountInv /\ DistinctTids /\ [RfcNext]_vars => DistinctTids'
  <1>1. SUFFICES ASSUME CountInv, DistinctTids, [RfcNext]_vars PROVE DistinctTids'
    OBVIOUS
  <1>2. TypeOK
    BY <1>1 DEF CountInv, IndexInv
  <1>3. CASE /\ DOMAIN tunnels' \subseteq DOMAIN tunnels
             /\ \A i \in DOMAIN tunnels' : tunnels'[i].local_tid = tunnels[i].local_tid
    BY <1>1, <1>3 DEF DistinctTids
  <1>4. CASE TunnelAddCalls({tid \in Tids : FreshTid(tid)})
    <2>1. PICK l \in Locals, p \in Peers, pt \in PeerTids, tid \in Tids :
            FreshTid(tid) /\ TunnelAdd(l, p, tid, pt)
      BY <1>4 DEF TunnelAddCalls
    <2>2. CASE UNCHANGED tunnels
      BY <1>3, <2>2
    <2>3. CASE \E i \in TunnelIdx \ DOMAIN tunnels :
                 tunnels' = Put(tunnels, i,
                    [local |-> l, peer |-> p, local_tid |-> tid,
                     peer_tid |-> pt, n_sessions |-> 0])
      <3>1. PICK i \in TunnelIdx \ DOMAIN tunnels :
              /\ DOMAIN tunnels' = DOMAIN tunnels \cup {i}
              /\ tunnels'[i].local_tid = tid
              /\ \A j \in DOMAIN tunnels : tunnels'[j] = tunnels[j]
        BY <2>3 DEF Put
      <3>2. \A j \in DOMAIN tunnels : tunnels[j].local_tid # tid
        BY <2>1 DEF FreshTid
      <3>3. QED
        BY <1>1, <3>1, <3>2 DEF DistinctTids
    <2>4. QED
      BY <2>1, <2>2, <2>3 DEF TunnelAdd, Refuse, objVars
  <1>5. CASE TunnelDelCalls
    BY <1>3, <1>5 DEF TunnelDelCalls, TunnelDel, Refuse, objVars, Drop
  <1>6. CASE SessionAddCalls
    BY <1>2, <1>3, <1>6 DEF SessionAddCalls, SessionAdd, Refuse, objVars, TypeOK, Tunnel
  <1>7. CASE \E t \in AnyIndex, sid \in Sids : SessionDel(t, sid)
    BY <1>2, <1>3, <1>7 DEF SessionDel, Refuse, objVars, TypeOK, Tunnel
  <1>8. CASE UNCHANGED vars
    BY <1>3, <1>8 DEF vars, objVars
  <1>9. QED
    BY <1>1, <1>4, <1>5, <1>6, <1>7, <1>8 DEF RfcNext

\* If local tids are unique on this LNS, as the comment at l2tvpp_session_key
\* says RFC 2661 makes them, any caller keeps the counters exact and never
\* frees a tunnel in use.
THEOREM RfcCountExact == RfcSpec => [](SessionCountExact /\ NoDanglingTunnel)
  <1>1. Init => CountInv /\ DistinctTids
    BY InitCount DEF Init, DistinctTids
  <1>2. CountInv /\ DistinctTids /\ [RfcNext]_vars => (CountInv /\ DistinctTids)'
    BY RfcStepOwn, OwnNextCount, RfcStepDistinct
  <1>3. CountInv => SessionCountExact /\ NoDanglingTunnel
    BY DEF CountInv
  <1>4. QED
    BY <1>1, <1>2, <1>3, PTL DEF RfcSpec
=============================================================================
