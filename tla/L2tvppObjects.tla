---------------------------- MODULE L2tvppObjects ----------------------------
(***************************************************************************)
(* The plugin's tunnel and session objects (plugin/l2tvpp/l2tvpp.c) and    *)
(* the two indexes the data path finds a session through: the bihash       *)
(* session_by_key (decap) and the vector session_index_by_sw_if_index      *)
(* (encap, routes).                                                        *)
(*                                                                         *)
(* Binary-API and CLI handlers run on VPP's main thread with the workers   *)
(* held at the barrier, so each handler is one atomic action.  `reply' is  *)
(* what the handler sends back: a return value and the index it allocated, *)
(* NoIndex (~0) when it allocated none.                                    *)
(*                                                                         *)
(* A pool is a function whose domain is the set of allocated indices;      *)
(* pool_get may hand out any free index, a recently freed one included.    *)
(***************************************************************************)
EXTENDS Naturals, FiniteSets

CONSTANTS
  TunnelIdx,   \* indices of lm->tunnels
  SessionIdx,  \* indices of lm->sessions
  SwIf,        \* sw_if_index values vnet gives to session interfaces
  NoIndex,     \* ~0
  Locals,      \* local endpoints (ip, port)
  Peers,       \* peer endpoints (ip, port)
  Ip4,         \* the endpoints whose address is IPv4
  Tids, PeerTids,   \* L2TP tunnel ids, ours and the peer's
  Sids, PeerSids,   \* L2TP session ids, ours and the peer's
  Wrap         \* number of values of the u32 n_sessions: 2^32 in the code

\* ~0 is never a valid index, and a u32 pool has fewer than 2^32 elements.
ASSUME IndexAssumption ==
  /\ NoIndex \notin TunnelIdx \cup SessionIdx \cup SwIf
  /\ IsFiniteSet(SessionIdx)
  /\ Wrap \in Nat
  /\ Cardinality(SessionIdx) < Wrap

VARIABLES
  tunnels,                       \* lm->tunnels
  sessions,                      \* lm->sessions
  session_by_key,                \* lm->session_by_key
  session_index_by_sw_if_index,  \* lm->session_index_by_sw_if_index
  interfaces,                    \* session interfaces that exist in vnet
  local_ip4s,                    \* lm->local_ip4s
  reply                          \* the reply to the last call

objVars == <<tunnels, sessions, session_by_key, session_index_by_sw_if_index,
             interfaces, local_ip4s>>
vars == <<objVars, reply>>

Tunnel == [local : Locals, peer : Peers, local_tid : Tids,
           peer_tid : PeerTids, n_sessions : 0 .. Wrap - 1]
Session == [tunnel_index : TunnelIdx, local_tid : Tids, local_sid : Sids,
            peer_sid : PeerSids, sw_if_index : SwIf]
SessionKey == Tids \X Sids
Retval == {"OK", "UNIMPLEMENTED", "TUNNEL_EXIST", "NO_SUCH_ENTRY",
           "INSTANCE_IN_USE", "ENTRY_ALREADY_EXISTS", "INVALID_SW_IF_INDEX"}

\* One entry added to, or removed from, a pool or a hash.
Put(f, x, v) == [y \in DOMAIN f \cup {x} |-> IF y = x THEN v ELSE f[y]]
Drop(f, x) == [y \in DOMAIN f \ {x} |-> f[y]]

\* u32 increment and decrement.
Inc(n) == IF n = Wrap - 1 THEN 0 ELSE n + 1
\* Mutants: a signed counter; a decrement left out.
DecSigned(n) == n - 1
DecForgotten(n) == n
Dec(n) == IF n = 0 THEN Wrap - 1 ELSE n - 1

\* l2tvpp_session_key: the bihash key, (local_tid, local_sid).
KeyOf(s) == <<s.local_tid, s.local_sid>>

Init ==
  /\ tunnels = [i \in {} |-> {}]
  /\ sessions = [i \in {} |-> {}]
  /\ session_by_key = [k \in {} |-> {}]
  /\ session_index_by_sw_if_index = [w \in SwIf |-> NoIndex]
  /\ interfaces = {}
  /\ local_ip4s = {}
  /\ reply = [rv |-> "OK", index |-> NoIndex]

Answer(rv, i) == reply' = [rv |-> rv, index |-> i]
Refuse(rv) == Answer(rv, NoIndex) /\ UNCHANGED objVars

-----------------------------------------------------------------------------
(* Tunnels *)

\* Mutant: the scan never matches (an address compared in the wrong order).
FindNothing(peer, tid) == {}

\* The pool is scanned for peer ip, peer port and local tid; the local
\* endpoint and the peer's tid do not identify a tunnel.
TunnelFind(peer, tid) ==
  {i \in DOMAIN tunnels : tunnels[i].peer = peer /\ tunnels[i].local_tid = tid}

\* l2tvpp_tunnel_add_del, is_add
TunnelAdd(local, peer, tid, peer_tid) ==
  \/ /\ {local, peer} \ Ip4 # {}
     /\ Refuse("UNIMPLEMENTED")
  \/ /\ {local, peer} \subseteq Ip4
     /\ TunnelFind(peer, tid) # {}
     /\ Refuse("TUNNEL_EXIST")
  \/ /\ {local, peer} \subseteq Ip4
     /\ TunnelFind(peer, tid) = {}
     /\ \E i \in TunnelIdx \ DOMAIN tunnels :
          /\ tunnels' = Put(tunnels, i,
                            [local |-> local, peer |-> peer, local_tid |-> tid,
                             peer_tid |-> peer_tid, n_sessions |-> 0])
          /\ Answer("OK", i)
     /\ local_ip4s' = local_ip4s \cup {local}
     /\ UNCHANGED <<sessions, session_by_key, session_index_by_sw_if_index,
                    interfaces>>

\* Mutant: the in-use test left out.
NeverInUse(i) == FALSE
InUse(i) == tunnels[i].n_sessions # 0

\* l2tvpp_tunnel_add_del, !is_add
TunnelDel(local, peer, tid) ==
  \/ /\ {local, peer} \ Ip4 # {}
     /\ Refuse("UNIMPLEMENTED")
  \/ /\ {local, peer} \subseteq Ip4
     /\ TunnelFind(peer, tid) = {}
     /\ Refuse("NO_SUCH_ENTRY")
  \/ /\ {local, peer} \subseteq Ip4
     /\ \E i \in TunnelFind(peer, tid) :
          \/ /\ InUse(i)
             /\ Refuse("INSTANCE_IN_USE")
          \/ /\ ~InUse(i)
             /\ tunnels' = Drop(tunnels, i)
             /\ Answer("OK", NoIndex)
             /\ UNCHANGED <<sessions, session_by_key,
                            session_index_by_sw_if_index, interfaces,
                            local_ip4s>>

-----------------------------------------------------------------------------
(* Sessions *)

\* l2tvpp_session_add_del, is_add
SessionAdd(t, sid, peer_sid) ==
  \/ /\ t \notin DOMAIN tunnels
     /\ Refuse("NO_SUCH_ENTRY")
  \/ /\ t \in DOMAIN tunnels
     /\ <<tunnels[t].local_tid, sid>> \in DOMAIN session_by_key
     /\ Refuse("ENTRY_ALREADY_EXISTS")
  \/ /\ t \in DOMAIN tunnels
     /\ <<tunnels[t].local_tid, sid>> \notin DOMAIN session_by_key
     /\ \E i \in SessionIdx \ DOMAIN sessions, w \in SwIf \ interfaces :
          /\ sessions' = Put(sessions, i,
                             [tunnel_index |-> t,
                              local_tid |-> tunnels[t].local_tid,
                              local_sid |-> sid, peer_sid |-> peer_sid,
                              sw_if_index |-> w])
          /\ interfaces' = interfaces \cup {w}
          /\ session_index_by_sw_if_index' =
               [session_index_by_sw_if_index EXCEPT ![w] = i]
          /\ session_by_key' =
               Put(session_by_key, <<tunnels[t].local_tid, sid>>, i)
          /\ Answer("OK", w)
     /\ tunnels' = [tunnels EXCEPT ![t].n_sessions = Inc(@)]
     /\ UNCHANGED local_ip4s

\* Mutants: the hash entry, or the vector entry, of a deleted session stays; the
\* hash entries of the whole tunnel go.
KeepKey(key) == UNCHANGED session_by_key
RemoveKeysOfTid(key) ==
  session_by_key' = [k \in {j \in DOMAIN session_by_key : j[1] # key[1]} |->
                       session_by_key[k]]
KeepSwIf(w) == UNCHANGED session_index_by_sw_if_index

RemoveKey(key) == session_by_key' = Drop(session_by_key, key)
RemoveSwIf(w) == session_index_by_sw_if_index' =
                   [session_index_by_sw_if_index EXCEPT ![w] = NoIndex]

\* l2tvpp_session_add_del, !is_add.  The session is found by key; the counter
\* that goes down is the one of the tunnel the caller named.
SessionDel(t, sid) ==
  \/ /\ t \notin DOMAIN tunnels
     /\ Refuse("NO_SUCH_ENTRY")
  \/ /\ t \in DOMAIN tunnels
     /\ <<tunnels[t].local_tid, sid>> \notin DOMAIN session_by_key
     /\ Refuse("NO_SUCH_ENTRY")
  \/ /\ t \in DOMAIN tunnels
     /\ <<tunnels[t].local_tid, sid>> \in DOMAIN session_by_key
     /\ LET key == <<tunnels[t].local_tid, sid>>
            i   == session_by_key[key]
            w   == sessions[i].sw_if_index
        IN /\ RemoveKey(key)
           /\ RemoveSwIf(w)
           /\ interfaces' = interfaces \ {w}
           /\ sessions' = Drop(sessions, i)
     /\ tunnels' = [tunnels EXCEPT ![t].n_sessions = Dec(@)]
     /\ Answer("OK", NoIndex)
     /\ UNCHANGED local_ip4s

-----------------------------------------------------------------------------
(* Dumps *)

\* l2tvpp_tunnel_dump: one tunnel, or all of them for ~0.
TunnelDump(i) == IF i = NoIndex THEN DOMAIN tunnels ELSE DOMAIN tunnels \cap {i}

\* l2tvpp_session_dump: the session of one interface, or all of them for ~0.
SessionDump(w) ==
  {i \in DOMAIN sessions : w = NoIndex \/ sessions[i].sw_if_index = w}

-----------------------------------------------------------------------------
(* Callers.  Any caller may name any arguments, a stale index included.    *)

AnyIndex == TunnelIdx \cup {NoIndex}

\* The session a delete through tunnel t would find, if any, is one of t's.
OwnTunnel(t, sid) ==
  t \in DOMAIN tunnels =>
    LET key == <<tunnels[t].local_tid, sid>>
    IN key \in DOMAIN session_by_key =>
         sessions[session_by_key[key]].tunnel_index = t

\* No allocated tunnel has this local tid: the uniqueness on this LNS that
\* RFC 2661 asks of whoever assigns the ids (comment at l2tvpp_session_key).
FreshTid(tid) == \A i \in DOMAIN tunnels : tunnels[i].local_tid # tid

TunnelDelCalls == \E l \in Locals, p \in Peers, tid \in Tids :
                    TunnelDel(l, p, tid)
TunnelAddCalls(tids) == \E l \in Locals, p \in Peers, pt \in PeerTids :
                          \E tid \in tids : TunnelAdd(l, p, tid, pt)
SessionAddCalls == \E t \in AnyIndex, sid \in Sids, ps \in PeerSids :
                     SessionAdd(t, sid, ps)

\* Any caller at all.
Next ==
  \/ TunnelAddCalls(Tids)
  \/ TunnelDelCalls
  \/ SessionAddCalls
  \/ \E t \in AnyIndex, sid \in Sids : SessionDel(t, sid)

\* A caller that deletes a session through the tunnel it was added to.
OwnNext ==
  \/ TunnelAddCalls(Tids)
  \/ TunnelDelCalls
  \/ SessionAddCalls
  \/ \E t \in AnyIndex, sid \in Sids : OwnTunnel(t, sid) /\ SessionDel(t, sid)

\* A caller that never lets two tunnels share a local tid.
RfcNext ==
  \/ TunnelAddCalls({tid \in Tids : FreshTid(tid)})
  \/ TunnelDelCalls
  \/ SessionAddCalls
  \/ \E t \in AnyIndex, sid \in Sids : SessionDel(t, sid)

Spec == Init /\ [][Next]_vars
OwnSpec == Init /\ [][OwnNext]_vars
RfcSpec == Init /\ [][RfcNext]_vars

-----------------------------------------------------------------------------
(* Properties *)

\* The objects and indexes hold values of their C types.
TypeOK ==
  /\ DOMAIN tunnels \subseteq TunnelIdx
  /\ tunnels \in [DOMAIN tunnels -> Tunnel]
  /\ DOMAIN sessions \subseteq SessionIdx
  /\ sessions \in [DOMAIN sessions -> Session]
  /\ DOMAIN session_by_key \subseteq SessionKey
  /\ session_by_key \in [DOMAIN session_by_key -> SessionIdx]
  /\ session_index_by_sw_if_index \in [SwIf -> SessionIdx \cup {NoIndex}]
  /\ interfaces \subseteq SwIf
  /\ local_ip4s \subseteq Locals
  /\ reply \in [rv : Retval, index : TunnelIdx \cup SwIf \cup {NoIndex}]

\* Decap looks a session up in session_by_key and dereferences the pool
\* without a check (node.c): the hash and the pool agree in both directions,
\* whatever sequence of adds, deletes and index reuse led here.
KeyIndexAgrees ==
  /\ \A k \in DOMAIN session_by_key :
       /\ session_by_key[k] \in DOMAIN sessions
       /\ KeyOf(sessions[session_by_key[k]]) = k
  /\ \A i \in DOMAIN sessions :
       /\ KeyOf(sessions[i]) \in DOMAIN session_by_key
       /\ session_by_key[KeyOf(sessions[i])] = i

\* Encap and route calls look a session up by its interface: the vector names
\* exactly the live sessions, and a session's interface exists in vnet.
SwIfIndexAgrees ==
  /\ interfaces = {sessions[i].sw_if_index : i \in DOMAIN sessions}
  /\ \A w \in SwIf : session_index_by_sw_if_index[w] # NoIndex =>
       /\ session_index_by_sw_if_index[w] \in DOMAIN sessions
       /\ sessions[session_index_by_sw_if_index[w]].sw_if_index = w
  /\ \A i \in DOMAIN sessions :
       session_index_by_sw_if_index[sessions[i].sw_if_index] = i

\* l2tvpp_tunnel_find returns the one tunnel with that identity, whose local
\* address is in local_ip4s so that the flow classifier takes its packets.
TunnelsIdentified ==
  /\ \A i, j \in DOMAIN tunnels :
       /\ tunnels[i].peer = tunnels[j].peer
       /\ tunnels[i].local_tid = tunnels[j].local_tid
       => i = j
  /\ \A i \in DOMAIN tunnels : tunnels[i].local \in local_ip4s

SessionsOf(t) == {i \in DOMAIN sessions : sessions[i].tunnel_index = t}

\* n_sessions is the number of live sessions of the tunnel, which is what
\* makes the in-use test of tunnel delete right.
SessionCountExact ==
  \A t \in DOMAIN tunnels : tunnels[t].n_sessions = Cardinality(SessionsOf(t))

\* A tunnel with sessions is never freed (l2tvppd.py:323, "add_del refuses
\* in-use ones"): l2tvpp_build_rewrite dereferences sess->tunnel_index, and
\* the session carries the tid of that very tunnel.
NoDanglingTunnel ==
  \A i \in DOMAIN sessions :
    /\ sessions[i].tunnel_index \in DOMAIN tunnels
    /\ tunnels[sessions[i].tunnel_index].local_tid = sessions[i].local_tid

\* A caller that keeps tids distinct keeps them distinct across every step.
DistinctTids ==
  \A i, j \in DOMAIN tunnels :
    tunnels[i].local_tid = tunnels[j].local_tid => i = j

\* The entry a packet's key leads to, and the interface it is received on.
InterfaceOf == [k \in DOMAIN session_by_key |-> sessions[session_by_key[k]].sw_if_index]
Table == INSTANCE SessionTable WITH Keys <- SessionKey, Ifs <- SwIf, table <- InterfaceOf

\* Two pools, a hash, a vector and reused indices implement that table: whatever is
\* called, a step adds one session on an interface of its own, removes one session,
\* or changes nothing a packet sees.
ImplementsTable == Table!TSpec
=============================================================================
