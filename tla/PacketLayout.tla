---------------------------- MODULE PacketLayout ------------------------------
(***************************************************************************)
(* Frames as the wire has them, from RFC 2661 and the PPP framing, and what *)
(* each one is.  The parsers (Decap) see the bytes; the properties compare  *)
(* what they make of them with this description, which is written from the  *)
(* other end: a frame is put together from its fields, never taken apart.   *)
(*                                                                         *)
(* Ethernet, IP and UDP headers have their sizes and the fields that some  *)
(* parser looks at; the L2TP header, the PPP header and the start of the   *)
(* inner packet are bytes.                                                 *)
(***************************************************************************)
EXTENDS Naturals, Sequences

CONSTANTS
  Samples,    \* the frames: outer header, L2TP header, PPP header and what it carries
  OffsetCap   \* the most octets of offset pad that are really in a frame

\* tags: VLAN tags; type: of the innermost Ethernet header, which the version in the
\* IP header agrees with; ihl: the IPv4 header length in words; frag: "no", "first"
\* or "later"; udp, port: what is found where the header length puts the UDP header;
\* length: the IP length field says what is there ("exact"), more ("beyond"), or
\* less than the headers ("short"); udp_valid: the UDP length and checksum.
Outer == [tags : 0 .. 2, type : {"ip4", "ip6", "arp"}, ihl : 0 .. 15,
          frag : {"no", "first", "later"}, udp : BOOLEAN, port : BOOLEAN,
          checksum : BOOLEAN, local : BOOLEAN, length : {"exact", "beyond", "short"},
          udp_valid : BOOLEAN]
PlainOuter == [tags |-> 0, type |-> "ip4", ihl |-> 5, frag |-> "no",
               udp |-> TRUE, port |-> TRUE, checksum |-> TRUE, local |-> TRUE,
               length |-> "exact", udp_valid |-> TRUE]

\* The flag bits T, L, S, O, the version, and the offset size field.
Header == [ver : 0 .. 15, T : BOOLEAN, L : BOOLEAN, S : BOOLEAN, O : BOOLEAN,
           offset : Nat]

\* acfc: address and control fields left out; pfc: protocol in one octet.
Payload == [acfc : BOOLEAN, pfc : BOOLEAN, proto : Nat,
            inner : {"v4", "v4options", "v6", "garbled"}]

\* More octets than any sample has after the offset size field.
FarOffset == 64

\* The first octet of a PPP protocol is even (RFC 1661), one in a single octet is
\* odd, an offset either has its pad or points past the end of the frame, and a
\* fragment over IPv6 is not UDP to who does not look behind its extension header.
ASSUME LayoutAssumption ==
  /\ \A s \in Samples :
       /\ s.outer \in Outer /\ s.header \in Header /\ s.payload \in Payload
       /\ s.payload.pfc => (s.payload.proto < 256 /\ s.payload.proto % 2 = 1)
       /\ (s.payload.proto \div 256) % 2 = 0 /\ s.payload.proto < 65536
       /\ s.header.offset <= OffsetCap \/ s.header.offset >= FarOffset
       /\ s.outer.type = "ip6" => s.outer.frag = "no"
  /\ OffsetCap \in Nat

IpPos(o) == 14 + 4 * o.tags
UdpPos(o) == IpPos(o) + (IF o.type = "ip6" THEN 40 ELSE 4 * o.ihl)
L2tpPos(o) == UdpPos(o) + 8

\* The first octet of the outer IP header: version and header length.
IpOctet(o) == IF o.type = "ip6" THEN 96 ELSE 64 + o.ihl

Zeros(n) == [i \in 1 .. n |-> 0]
Octets(n) == <<n \div 256, n % 256>>
Bit(b, value) == IF b THEN value ELSE 0
When(b, s) == IF b THEN s ELSE <<>>

HeaderOctets(h) ==
  Octets(Bit(h.T, 32768) + Bit(h.L, 16384) + Bit(h.S, 2048) + Bit(h.O, 512) + h.ver)
    \o When(h.L, Octets(0)) \o Octets(1) \o Octets(1)
    \o When(h.S, Zeros(4))
    \o When(h.O, Octets(h.offset)
                   \o Zeros(IF h.offset > OffsetCap THEN 0 ELSE h.offset))
PppOctets(p) ==
  When(~p.acfc, <<255, 3>>) \o (IF p.pfc THEN <<p.proto>> ELSE Octets(p.proto))
InnerOctets(p) ==
  IF p.inner = "v4" THEN <<69>> \o Zeros(23)
  ELSE IF p.inner = "v4options" THEN <<79>> \o Zeros(23)
  ELSE IF p.inner = "v6" THEN <<96>> \o Zeros(43)
  ELSE <<16>> \o Zeros(3)

L2tpOctets(f) == HeaderOctets(f.header) \o PppOctets(f.payload) \o InnerOctets(f.payload)

\* A frame is a sample, whole or cut off after any number of octets.
Cut(s, n) ==
  [outer |-> s.outer, header |-> s.header, payload |-> s.payload, len |-> n]
CutLens(s) == 0 .. L2tpPos(s.outer) + Len(L2tpOctets(s))

\* The octets of L2TP that are in the frame.
L2tp(f) == SubSeq(L2tpOctets(f), 1,
                  IF f.len < L2tpPos(f.outer) THEN 0 ELSE f.len - L2tpPos(f.outer))

-----------------------------------------------------------------------------
(* What a frame is *)

\* A whole, unfragmented datagram to udp/1701 over IPv4.
ToPort(o) == o.type = "ip4" /\ o.frag = "no" /\ o.udp /\ o.port

\* Octets up to the session id, and from there to the PPP header.
FixedLen(h) == 6 + (IF h.L THEN 2 ELSE 0)
PppStart(h) == FixedLen(h) + (IF h.S THEN 4 ELSE 0) + (IF h.O THEN 2 + h.offset ELSE 0)

\* Where the inner packet begins, from the Ethernet header on.
InnerPos(f) == L2tpPos(f.outer) + PppStart(f.header) + Len(PppOctets(f.payload))

KindOf(f) ==
  LET have == Len(L2tp(f))
      left == f.len - InnerPos(f)
      p    == f.payload
      \* The inner header is all there, also if the PPP protocol names the other IP.
      hashable == \/ p.inner \in {"v4", "v4options"} /\ left >= 20
                  \/ p.inner = "v6" /\ left >= 40
  IN IF have < 6 THEN "too_short"
     ELSE IF f.header.ver # 2 THEN "not_v2"
     ELSE IF f.header.T THEN "control"
     ELSE IF have < FixedLen(f.header) THEN "too_short"
     ELSE IF have < PppStart(f.header) + 4 THEN "truncated"
     ELSE IF p.proto \notin {33, 87} THEN "non_ip"
     ELSE IF p.proto = 33 THEN (IF hashable THEN "ip4" ELSE "bad_ip")
     ELSE IF hashable THEN "ip6" ELSE "bad_ip6"
=============================================================================
