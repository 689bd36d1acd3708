----------------------------- MODULE PacketKinds ------------------------------
(***************************************************************************)
(* What the three nodes that parse L2TP make of a packet, by kind.  A kind *)
(* stands for every packet whose bytes lead the parsers the same way;      *)
(* Decap derives the kind of a packet from its bytes and shows that the    *)
(* nodes' byte-level walks give what these operators say.                  *)
(***************************************************************************)

\* "plain":     not for udp/1701, or a fragment
\* "too_short": ends inside the L2TP header
\* "truncated": L2TPv2 data that ends before the four bytes of PPP header
\* "non_ip":    a PPP protocol that is not IPv4 or IPv6
\* "ip4", "ip6": data with an inner header that can be hashed
\* "bad_ip", "bad_ip6": the PPP protocol is IPv4 or IPv6, the inner header is cut
\*              or garbled
AllKinds == {"plain", "control", "not_v2", "too_short", "truncated", "non_ip",
             "ip4", "ip6", "bad_ip", "bad_ip6"}

\* l2tvpp_parse_hdr
HdrClass(kind) ==
  CASE kind = "control"   -> "CONTROL"
    [] kind = "not_v2"    -> "NOT_V2"
    [] kind = "too_short" -> "TOO_SHORT"
    [] OTHER              -> "DATA"

\* l2tvpp-input: the next node, given whether the packet's key has a session.
InputNext(kind, known) ==
  IF HdrClass(kind) = "TOO_SHORT" \/ kind = "truncated" THEN "error-drop"
  ELSE IF HdrClass(kind) \in {"CONTROL", "NOT_V2"} \/ ~known \/ kind = "non_ip"
  THEN "ip4-punt"
  ELSE IF kind \in {"ip6", "bad_ip6"} THEN "ip6-input" ELSE "ip4-input"

\* l2tvpp_flow_classify: fast says that the outer header passes every check of
\* the fast path, want_hash that there is more than one worker to choose from.
FlowKind(kind, fast, want_hash) ==
  CASE kind \in {"control", "not_v2"} -> "LOCAL"
    [] kind \in {"plain", "too_short"} -> "OUTER"
    [] want_hash /\ kind \in {"truncated", "non_ip"} -> "OUTER"
    [] want_hash /\ kind \in {"bad_ip", "bad_ip6"} /\ ~fast -> "OUTER"
    [] OTHER -> IF fast THEN "FAST" ELSE "INNER"
=============================================================================
