-------------------------------- MODULE Encap ---------------------------------
(***************************************************************************)
(* Encapsulation (plugin/l2tvpp/l2tvpp.c): what a subscriber's packet      *)
(* leaves with.  Over the routes of a careful caller (L2tvppRoutes) this   *)
(* module adds the midchain adjacencies, the rewrite each one got when it  *)
(* was created, and the checksum that l2tvpp_fixup completes per packet    *)
(* from a value cached in the session, through a pointer to the session    *)
(* that the adjacency keeps.                                               *)
(*                                                                         *)
(* An adjacency is vnet's (external): it exists while a path or the cache  *)
(* refers to it, and calls back l2tvpp_update_adj once, when it is made.   *)
(* The session pool is a vector: a freed slot is used first, else it grows *)
(* by one, and growing may move it to another block of memory.             *)
(***************************************************************************)
EXTENDS L2tvppRoutes, Integers

CONSTANTS
  Word,      \* number of values of the words a checksum adds up: 2^16
  HdrSum,    \* <<local, peer>> -> one's complement sum of the outer header's
             \* constant words, those but length and checksum
  Lens,      \* values of the outer header's length
  Moves,     \* whether a vector that grows may move
  MaxBlock   \* bound on the number of moves

\* The constant words are never all zero: version, TTL and protocol are set.
ASSUME EncapAssumption ==
  /\ Word \in Nat /\ Word >= 2
  /\ HdrSum \in [Locals \X Peers -> 1 .. Word - 1]
  /\ Lens \subseteq 1 .. Word - 1
  /\ Moves \in BOOLEAN
  /\ MaxBlock \in Nat

VARIABLES
  adjs,    \* the neighbour adjacencies of session interfaces, by <<prefix, interface>>
  csum0,   \* slot of lm->sessions -> encap_ip_csum0
  block    \* the block of memory lm->sessions is in

encapVars == <<adjs, csum0, block>>
evars == <<rvars, encapVars>>

EInit == RInit /\ adjs = [a \in {} |-> {}] /\ csum0 = [i \in {} |-> 0] /\ block = 0

-----------------------------------------------------------------------------
(* Checksums.  Acc is the width of an ip_csum_t; the three ip_csum_*       *)
(* functions are vnet's (external).                                        *)

Acc == (Word * Word) * (Word * Word)
CsumSub(c, x) == LET d == (c + x) % Acc IN (d + (IF d < c THEN 1 ELSE 0)) % Acc
CsumAdd(c, x) == LET d == (c - x) % Acc IN (d - (IF d > c THEN 1 ELSE 0)) % Acc
CsumFold(c) ==
  LET f == (c % (Word * Word)) + (c \div (Word * Word))
      g == (f % Word) + (f \div Word)
      h == (g % Word) + (g \div Word)
  IN (h % Word) + (h \div Word)

\* ip4_header_checksum of the rewrite, whose length is 0.
HeaderChecksum(local, peer) == Word - 1 - HdrSum[<<local, peer>>]

\* Mutant: the length is folded in as if it had been taken out.
FixupSubtracts(c, len) == CsumFold(CsumSub(CsumAdd(c, 0), len))
\* l2tvpp_fixup: the length goes from 0 to len.
Fixup(c, len) == CsumFold(CsumAdd(CsumSub(c, 0), len))

\* RFC 1071: the one's complement sum over the header, checksum included, is all
\* ones.
OnesAdd(x, y) == IF x + y >= Word THEN x + y - (Word - 1) ELSE x + y
HeaderValid(local, peer, len, checksum) ==
  OnesAdd(OnesAdd(HdrSum[<<local, peer>>], len), checksum) = Word - 1

-----------------------------------------------------------------------------
(* Adjacencies *)

\* Mutant: our own ids, not the peer's.
RewriteOwnIds(s) ==
  LET t == tunnels[s.tunnel_index]
  IN [local |-> t.local, peer |-> t.peer, tunnel_id |-> t.local_tid,
      session_id |-> s.local_sid]
\* l2tvpp_build_rewrite_i, but for the checksum it caches and the constants.  A route
\* is IPv4's or IPv6's, which only decides the PPP protocol, also left out; there is
\* no adjacency of another link type, for which the code would return 0.
BuildRewrite(s) ==
  LET t == tunnels[s.tunnel_index]
  IN [local |-> t.local, peer |-> t.peer, tunnel_id |-> t.peer_tid,
      session_id |-> s.peer_sid]

\* A neighbour adjacency that never got a rewrite: vnet has packets on it dropped.
Incomplete == [rewrite |-> <<>>, fixup |-> <<>>, stacked |-> {}]

\* l2tvpp_update_adj: rewrite, fixup with the session's address, and the peer's FIB
\* entry it is stacked on; nothing for an interface without a session.
UpdateAdj(a) ==
  LET i == session_index_by_sw_if_index[a[2]]
  IN IF i \notin DOMAIN sessions THEN Incomplete
     ELSE [rewrite |-> BuildRewrite(sessions[i]), fixup |-> <<block, i>>,
           stacked |-> {tunnels[sessions[i].tunnel_index].peer}]

\* What paths and cache refer to.
Referenced == fib \cup {a \in Hosts \X SwIf : adj_lock[a] > 0}

\* l2tvpp_adj_remove_delegate, for the adjacencies of a session that is deleted.
RemoveDelegate(a) ==
  IF a[2] \in interfaces \ interfaces' THEN [adjs[a] EXCEPT !.stacked = {}]
  ELSE adjs[a]

NewAdjs == Referenced' \ DOMAIN adjs
NewSlots == DOMAIN sessions' \ DOMAIN sessions

\* l2tvpp_build_rewrite_i: sess->encap_ip_csum0.
CacheChecksum(i) ==
  HeaderChecksum(tunnels[sessions[i].tunnel_index].local,
                 tunnels[sessions[i].tunnel_index].peer)

\* The adjacencies made, kept and freed by a step, and what is cached meanwhile.
AdjStep ==
  /\ adjs' = [a \in Referenced' |->
                IF a \in NewAdjs THEN UpdateAdj(a) ELSE RemoveDelegate(a)]
  /\ csum0' = [i \in DOMAIN csum0 \cup NewSlots |->
                 IF i \in NewSlots THEN 0
                 ELSE IF /\ i \in DOMAIN sessions
                         /\ \E a \in NewAdjs : session_index_by_sw_if_index[a[2]] = i
                      THEN CacheChecksum(i) ELSE csum0[i]]

\* pool_get_zero: freed slots first; the slots ever used are those of csum0.
PoolStep ==
  \/ /\ NewSlots \subseteq DOMAIN csum0
     /\ UNCHANGED block
  \/ /\ NewSlots # {} /\ NewSlots \cap DOMAIN csum0 = {}
     /\ DOMAIN csum0 \subseteq DOMAIN sessions
     /\ \/ UNCHANGED block
        \/ Moves /\ block < MaxBlock /\ block' = block + 1

\* Every call, with what it does to adjacencies and pool memory.
ENext == CarefulNext /\ AdjStep /\ PoolStep

ESpec == EInit /\ [][ENext]_evars

\* l2tvpp_fixup dereferences the pointer: a block the pool has left may hold anything.
FixupReads(a) ==
  LET where == adjs[a].fixup
  IN IF where[1] = block THEN {csum0[where[2]]} ELSE 0 .. Word - 1

-----------------------------------------------------------------------------
(* Properties *)

\* Every adjacency packets can take carries the addresses and ids of the session
\* that has its interface now, and is stacked on that session's peer: an adjacency
\* is rewritten only when it is made, so none may outlive its session and be found
\* again by the next one on a reused interface.
RewriteFollowsSession ==
  \A a \in DOMAIN adjs :
    LET i == session_index_by_sw_if_index[a[2]]
    IN /\ i \in DOMAIN sessions /\ adjs[a] # Incomplete
       /\ LET t == tunnels[sessions[i].tunnel_index]
              r == adjs[a].rewrite
          IN /\ <<r.local, r.peer>> = <<t.local, t.peer>>
             /\ <<r.tunnel_id, r.session_id>> = <<t.peer_tid, sessions[i].peer_sid>>
             /\ adjs[a].stacked = {t.peer}

\* What leaves through an adjacency, of any length, has a valid checksum.
ValidThrough(a) ==
  \A len \in Lens : \A c \in FixupReads(a) :
    HeaderValid(adjs[a].rewrite.local, adjs[a].rewrite.peer, len, Fixup(c, len))

\* Every header that leaves, of any length, has a valid checksum: what the fixup
\* reads is the checksum of this header with length 0 (l2tvpp.c:158, "on a header
\* whose length=0 checksum is cached"), also after slots of the pool were reused.
EmittedHeaderValid ==
  \A a \in {b \in DOMAIN adjs : adjs[b] # Incomplete} : ValidThrough(a)
=============================================================================
