-------------------------- MODULE SessionTable_proofs --------------------------
(***************************************************************************)
(* The plugin's pools and indexes implement SessionTable, for any caller   *)
(* and every number of tunnels, sessions, interfaces and ids.              *)
(***************************************************************************)
EXTENDS L2tvppObjects_proofs

\* The table starts empty.
LEMMA InitTable == Init => Table!TInit
  BY DEF Init, Table!TInit, InterfaceOf

\* A call that leaves the sessions and their hash alone changes no entry.
LEMMA SameTable ==
  ASSUME UNCHANGED <<sessions, session_by_key>>
  PROVE  UNCHANGED InterfaceOf
  BY DEF InterfaceOf

\* l2tvpp_session_add_del, is_add, adds one entry: the new slot and the new
\* interface are nobody's, and other keys lead to other slots.
LEMMA SessionAddTable ==
  ASSUME IndexInv, NEW t \in AnyIndex, NEW sid \in Sids, NEW ps \in PeerSids,
         SessionAdd(t, sid, ps)
  PROVE  Table!TNext \/ UNCHANGED InterfaceOf
  <1>1. CASE UNCHANGED objVars
    BY <1>1, SameTable DEF objVars
  <1>2. CASE /\ t \in DOMAIN tunnels
             /\ <<tunnels[t].local_tid, sid>> \notin DOMAIN session_by_key
    <2>1. PICK i \in SessionIdx \ DOMAIN sessions, w \in SwIf \ interfaces :
            /\ sessions' = Put(sessions, i,
                               [tunnel_index |-> t,
                                local_tid |-> tunnels[t].local_tid,
                                local_sid |-> sid, peer_sid |-> ps,
                                sw_if_index |-> w])
            /\ session_by_key' =
                 Put(session_by_key, <<tunnels[t].local_tid, sid>>, i)
      BY <1>2 DEF SessionAdd
    <2> DEFINE k == <<tunnels[t].local_tid, sid>>
               Old == DOMAIN session_by_key
    <2>2. k \in SessionKey
      BY <1>2 DEF IndexInv, TypeOK, Tunnel, SessionKey
    <2>3. \A j \in Old : /\ j # k
                         /\ session_by_key[j] \in DOMAIN sessions
                         /\ session_by_key[j] # i
      BY <1>2, <2>1 DEF IndexInv, KeyIndexAgrees
    <2>4. /\ DOMAIN session_by_key' = Old \cup {k}
          /\ session_by_key'[k] = i
          /\ \A j \in Old : session_by_key'[j] = session_by_key[j]
      BY <2>1, <2>3 DEF Put
    <2>5. /\ sessions'[i].sw_if_index = w
          /\ \A x \in DOMAIN sessions : x # i => sessions'[x] = sessions[x]
      BY <2>1 DEF Put
    <2>6. InterfaceOf' = [j \in Old \cup {k} |-> IF j = k THEN w ELSE InterfaceOf[j]]
      <3>1. \A j \in Old : sessions'[session_by_key'[j]].sw_if_index = InterfaceOf[j]
        BY <2>3, <2>4, <2>5 DEF InterfaceOf
      <3>2. sessions'[session_by_key'[k]].sw_if_index = w
        BY <2>4, <2>5
      <3>3. InterfaceOf' = [j \in Old \cup {k} |-> sessions'[session_by_key'[j]].sw_if_index]
        BY <2>4 DEF InterfaceOf
      <3>4. QED
        BY <2>3, <3>1, <3>2, <3>3
    <2>7. \A j \in Old : InterfaceOf[j] # w
      <3>1. \A j \in Old : InterfaceOf[j] \in interfaces
        BY <2>3 DEF InterfaceOf, IndexInv, SwIfIndexAgrees
      <3>2. QED
        BY <2>1, <3>1
    <2>8. DOMAIN InterfaceOf = Old
      BY DEF InterfaceOf
    <2>9. k \notin Old
      BY <1>2
    <2>10. Table!Add(k, w)
      <3> HIDE DEF k, Old
      <3>1. w \notin Table!Taken
        BY <2>7, <2>8 DEF Table!Taken
      <3>2. QED
        BY <2>6, <2>8, <2>9, <3>1 DEF Table!Add
    <2>11. QED
      BY <2>1, <2>2, <2>10 DEF Table!TNext
  <1>3. QED
    BY <1>1, <1>2 DEF SessionAdd, Refuse

\* l2tvpp_session_add_del, !is_add, removes one entry, through whichever tunnel
\* it is named: the slot it frees is no other key's.
LEMMA SessionDelTable ==
  ASSUME IndexInv, NEW t \in AnyIndex, NEW sid \in Sids, SessionDel(t, sid)
  PROVE  Table!TNext \/ UNCHANGED InterfaceOf
  <1>1. CASE UNCHANGED objVars
    BY <1>1, SameTable DEF objVars
  <1>2. CASE /\ t \in DOMAIN tunnels
             /\ <<tunnels[t].local_tid, sid>> \in DOMAIN session_by_key
    <2> DEFINE k == <<tunnels[t].local_tid, sid>>
               Old == DOMAIN session_by_key
    <2>1. /\ session_by_key' = Drop(session_by_key, k)
          /\ sessions' = Drop(sessions, session_by_key[k])
      BY <1>2 DEF SessionDel, RemoveKey
    <2>2. k \in SessionKey /\ k \in Old
      BY <1>2 DEF IndexInv, TypeOK
    <2>3. \A j \in Old \ {k} : /\ session_by_key[j] \in DOMAIN sessions
                               /\ session_by_key[j] # session_by_key[k]
      BY <2>2 DEF IndexInv, KeyIndexAgrees
    <2>4. /\ DOMAIN session_by_key' = Old \ {k}
          /\ \A j \in Old \ {k} : session_by_key'[j] = session_by_key[j]
      BY <2>1, DropFacts
    <2>5. \A x \in DOMAIN sessions \ {session_by_key[k]} : sessions'[x] = sessions[x]
      BY <2>1, DropFacts
    <2>6. InterfaceOf' = [j \in Old \ {k} |-> InterfaceOf[j]]
      <3>1. \A j \in Old \ {k} : sessions'[session_by_key'[j]].sw_if_index = InterfaceOf[j]
        BY <2>3, <2>4, <2>5 DEF InterfaceOf
      <3>2. InterfaceOf' = [j \in Old \ {k} |-> sessions'[session_by_key'[j]].sw_if_index]
        BY <2>4 DEF InterfaceOf
      <3>3. QED
        BY <3>1, <3>2
    <2>7. DOMAIN InterfaceOf = Old
      BY DEF InterfaceOf
    <2>8. Table!Remove(k)
      <3> HIDE DEF k, Old
      <3>1. QED
        BY <2>2, <2>6, <2>7 DEF Table!Remove
    <2>9. QED
      BY <2>2, <2>8 DEF Table!TNext
  <1>3. QED
    BY <1>1, <1>2 DEF SessionDel, Refuse

\* Every call of any caller is a step of the table, or none.
LEMMA NextTable == IndexInv /\ [Next]_vars => [Table!TNext]_InterfaceOf
  <1>1. SUFFICES ASSUME IndexInv, [Next]_vars
                 PROVE  Table!TNext \/ UNCHANGED InterfaceOf
    OBVIOUS
  <1>2. CASE TunnelAddCalls(Tids)
    BY <1>2, SameTable DEF TunnelAddCalls, TunnelAdd, Refuse, objVars
  <1>3. CASE TunnelDelCalls
    BY <1>3, SameTable DEF TunnelDelCalls, TunnelDel, Refuse, objVars
  <1>4. CASE SessionAddCalls
    BY <1>1, <1>4, SessionAddTable DEF SessionAddCalls
  <1>5. CASE \E t \in AnyIndex, sid \in Sids : SessionDel(t, sid)
    BY <1>1, <1>5, SessionDelTable
  <1>6. CASE UNCHANGED vars
    BY <1>6, SameTable DEF vars, objVars
  <1>7. QED
    BY <1>1, <1>2, <1>3, <1>4, <1>5, <1>6 DEF Next

\* For any caller, the tunnel and session objects of l2tvpp.c implement the session
\* table: a call about one session never adds, removes or redirects another's.
THEOREM TableRefinement == Spec => ImplementsTable
  <1>1. QED
    BY InitTable, NextTable, IndexInvariant, PTL
       DEF Spec, ImplementsTable, Table!TSpec
=============================================================================
