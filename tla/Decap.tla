-------------------------------- MODULE Decap ---------------------------------
(***************************************************************************)
(* One frame's way through the parsers, byte by byte: the flow classifier  *)
(* (flow_handoff.c), the session handoff's peek (handoff.c), l2tvpp-input  *)
(* (node.c), the encap fast path of an uplink (encap_fastpath.c), and the  *)
(* XDP program that steers the kernel's L2TP (xdp/l2tp_steer.bpf.c).       *)
(* Which nodes a frame meets depends on what is enabled, so every          *)
(* combination is a behaviour.                                             *)
(*                                                                         *)
(* A walk returns what it found and `read', the end of the furthest octet  *)
(* it looked at, counted from the start of the Ethernet header.            *)
(***************************************************************************)
EXTENDS PacketLayout, PacketKinds

VARIABLES
  frame,          \* the frame in the buffer
  node,           \* the node that has the buffer
  current_data,   \* where the buffer's current position is
  l3_hdr_offset,  \* where the outer IP header is on record to be
  kind,           \* the flow classifier's verdict, "" without one
  hashed,         \* where the IP header is whose hash picks the worker, 0 for none
  read,           \* the end of the furthest octet read
  next,           \* where the last node sent the frame, "" on the way
  given           \* history: what the nodes were configured with and knew

dvars == <<frame, node, current_data, l3_hdr_offset, kind, hashed, read, next, given>>

DInit ==
  /\ \E s \in Samples : \E n \in CutLens(s) : frame = Cut(s, n)
  /\ node = "device-input"
  /\ current_data = 0 /\ l3_hdr_offset = 0
  /\ kind = "" /\ hashed = 0 /\ read = 0 /\ next = ""
  /\ given = [fastpath |-> FALSE, want_hash |-> FALSE, known |-> FALSE]

HighestOf(x, y) == IF x >= y THEN x ELSE y

-----------------------------------------------------------------------------
(* The L2TP and PPP walks.  b is the buffer from the L2TP header on.  An   *)
(* octet past the end reads as anything; here as 0.                        *)

At(b, i) == IF i < Len(b) THEN b[i + 1] ELSE 0
U16(b, i) == 256 * At(b, i) + At(b, i + 1)

\* L2TVPP_HDR_T, _L, _S and _O
HDR_T == 32768
HDR_L == 16384
HDR_S == 2048
HDR_O == 512
HasBit(f, mask) == (f \div mask) % 2 = 1

\* l2tvpp_parse_hdr
ParseHdr(b) ==
  LET f == U16(b, 0)
      o == IF HasBit(f, HDR_L) THEN 4 ELSE 2
      Fail(rc, n) == [rc |-> rc, flags |-> f, off |-> 0, read |-> n]
  IN IF Len(b) < 6 THEN Fail("TOO_SHORT", 0)
     ELSE IF f % 16 # 2 THEN Fail("NOT_V2", 2)
     ELSE IF HasBit(f, HDR_T) THEN Fail("CONTROL", 2)
     ELSE IF HasBit(f, HDR_L) /\ Len(b) < 8 THEN Fail("TOO_SHORT", 2)
     ELSE [rc |-> "DATA", flags |-> f, off |-> o + 4, read |-> o + 4]

\* The cursor after Ns and Nr, if they are there.
AfterSeq(h) == h.off + (IF HasBit(h.flags, HDR_S) THEN 4 ELSE 0)

\* Mutant: the offset size is skipped, the pad is not.
CursorKeepsPad(b, h) ==
  AfterSeq(h) + (IF HasBit(h.flags, HDR_O) THEN 2 ELSE 0)
\* The cursor after the offset size and the pad.
Cursor(b, h) ==
  AfterSeq(h) + (IF HasBit(h.flags, HDR_O) THEN 2 + U16(b, AfterSeq(h)) ELSE 0)

\* Mutant: only the first octet of the PPP header has to be there.
OneOctetLeft(b, h) ==
  /\ HasBit(h.flags, HDR_O) => AfterSeq(h) + 2 <= Len(b)
  /\ Cursor(b, h) + 1 <= Len(b)
\* The offset size field and four octets of PPP header are inside the buffer.
PppInside(b, h) ==
  /\ HasBit(h.flags, HDR_O) => AfterSeq(h) + 2 <= Len(b)
  /\ Cursor(b, h) + 4 <= Len(b)

\* Optional FF 03, then a protocol of one octet, if that is odd, or of two.
PppHeader(b, cur) ==
  LET c == IF At(b, cur) = 255 /\ At(b, cur + 1) = 3 THEN cur + 2 ELSE cur
  IN IF At(b, c) % 2 = 1 THEN [proto |-> At(b, c), end |-> c + 1]
     ELSE [proto |-> U16(b, c), end |-> c + 2]

\* The end of the offset size field, if that was there to be read.
SizeRead(b, h) ==
  IF HasBit(h.flags, HDR_O) /\ AfterSeq(h) + 2 <= Len(b) THEN AfterSeq(h) + 2 ELSE h.read

\* l2tvpp_hash_ip on a header at c in a buffer that ends at `end', given its first
\* octet: whether it is hashed, and the end of what is read.  Its protocol is taken
\* to be one with ports, which are read unless it is a later fragment.
HashIp(c, first, ports, end) ==
  LET ver == first \div 16
      hdr == IF ver = 4 THEN 20 ELSE 40
      l4  == c + (IF ver = 4 THEN 4 * (first % 16) ELSE 40)
  IN IF c + 1 > end THEN [ok |-> FALSE, read |-> c]
     ELSE IF ver \notin {4, 6} \/ c + hdr > end THEN [ok |-> FALSE, read |-> c + 1]
     ELSE [ok |-> TRUE,
           read |-> HighestOf(c + hdr, IF ports /\ l4 + 4 <= end THEN l4 + 4 ELSE 0)]

-----------------------------------------------------------------------------
(* l2tvpp-flow-handoff *)

\* Mutant: the outer checksum is not verified.
FastUnverified(f) == /\ f.outer.tags = 0 /\ f.outer.ihl = 5
                     /\ f.outer.length = "exact" /\ f.outer.local
\* The checks of the fast path on the outer header.
FastOuter(f) == /\ f.outer.tags = 0 /\ f.outer.ihl = 5 /\ f.outer.length = "exact"
                /\ f.outer.checksum /\ f.outer.local

Verdict(k, n, c) == [kind |-> k, read |-> n, hashed |-> c]

\* The label `outer', and IPv6: the outer header is hashed.  n is the end of what was
\* read before.
GoOuter(f, want_hash, n) ==
  LET o == f.outer
      h == HashIp(IpPos(o), IpOctet(o), o.frag # "later", f.len)
  IN IF ~want_hash THEN Verdict("OUTER", n, 0)
     ELSE IF h.ok THEN Verdict("OUTER", HighestOf(n, h.read), IpPos(o))
     ELSE Verdict("LOCAL", HighestOf(n, h.read), 0)

\* l2tvpp_flow_classify, up to the L2TP header: a verdict, or "l2tp" to go on.
ClassifyOuter(f, want_hash) ==
  LET o   == f.outer
      ip  == IpPos(o)
      udp == HighestOf(ip + 20, UdpPos(o) + 8)
  IN IF f.len < 14 THEN Verdict("LOCAL", 0, 0)
     ELSE IF o.tags > 0 /\ f.len < 18 THEN Verdict("LOCAL", 14, 0)
     ELSE IF o.tags = 2 \/ o.type = "arp"
     THEN Verdict("LOCAL", IF o.tags = 0 THEN 14 ELSE 18, 0)
     ELSE IF o.type = "ip6" THEN GoOuter(f, want_hash, ip)
     ELSE IF f.len < ip + 20 THEN Verdict("LOCAL", ip, 0)
     ELSE IF ~o.udp \/ o.frag # "no" \/ f.len < UdpPos(o) + 8
     THEN GoOuter(f, want_hash, ip + 20)
     ELSE IF ~o.port \/ f.len < L2tpPos(o) + 6 THEN GoOuter(f, want_hash, udp)
     ELSE Verdict("l2tp", udp, 0)

\* Mutant: the classifier's walk takes FF 03 for granted.
FlowPppUncompressed(b, cur) == PppHeader(b, cur + 2)
\* The classifier's own copy of the walk over the PPP header.
FlowPpp(b, cur) == PppHeader(b, cur)

\* l2tvpp_flow_classify from the L2TP header on.
ClassifyL2tp(f, fastpath, want_hash) ==
  LET b     == L2tp(f)
      l2tp  == L2tpPos(f.outer)
      h     == ParseHdr(b)
      cur   == Cursor(b, h)
      ppp   == FlowPpp(b, cur)
      inner == HashIp(ppp.end, At(b, ppp.end), TRUE, Len(b))
      deep  == l2tp + HighestOf(cur + 4, inner.read)
      ours  == IF fastpath /\ FastOuter(f) THEN "FAST" ELSE "INNER"
  IN IF h.rc = "TOO_SHORT" THEN GoOuter(f, want_hash, l2tp + h.read)
     ELSE IF h.rc # "DATA" THEN Verdict("LOCAL", l2tp + h.read, 0)
     ELSE IF ~want_hash THEN Verdict(ours, l2tp + h.read, 0)
     ELSE IF ~PppInside(b, h) THEN GoOuter(f, want_hash, l2tp + SizeRead(b, h))
     ELSE IF ppp.proto \notin {33, 87} THEN GoOuter(f, want_hash, l2tp + cur + 4)
     ELSE IF inner.ok THEN Verdict(ours, deep, l2tp + ppp.end)
     ELSE IF ours = "FAST" THEN Verdict("FAST", deep, 0)
     ELSE GoOuter(f, want_hash, deep)

\* Mutant: the fast path does not record where the outer IP header is.
FastRecordsNothing == l3_hdr_offset
FastL3 == current_data + IpPos(frame.outer)

\* l2tvpp_flow_handoff_node, for an interface with or without fastpath and with one
\* worker or several to choose from.
FlowHandoff(fastpath, want_hash) ==
  LET outer == ClassifyOuter(frame, want_hash)
      c == IF outer.kind = "l2tp" THEN ClassifyL2tp(frame, fastpath, want_hash)
           ELSE outer
  IN /\ node = "device-input"
     /\ kind' = c.kind /\ hashed' = c.hashed
     /\ read' = HighestOf(outer.read, c.read)
     /\ given' = [given EXCEPT !.fastpath = fastpath, !.want_hash = want_hash]
     /\ \/ /\ c.kind = "FAST"
           /\ current_data' = L2tpPos(frame.outer)
           /\ l3_hdr_offset' = FastL3
           /\ node' = "l2tvpp-input"
        \/ /\ c.kind # "FAST"
           /\ UNCHANGED <<current_data, l3_hdr_offset>>
           /\ node' = "ethernet-input"
     /\ UNCHANGED <<frame, next>>

\* The feature is off.
DeviceInput ==
  /\ node = "device-input"
  /\ node' = "ethernet-input"
  /\ UNCHANGED <<frame, current_data, l3_hdr_offset, kind, hashed, read, next, given>>

\* A datagram to udp/1701 whose headers are there.
Datagram(f) == ToPort(f.outer) /\ f.outer.ihl >= 5 /\ f.len >= L2tpPos(f.outer)

\* ethernet-input to udp-local, external: what reaches the node registered for
\* udp/1701 is a whole, valid datagram to us, at its L2TP header; the rest is
\* forwarded, dropped or given to Linux.  ip4-local verifies the UDP length and
\* checksum.
Delivered(f) ==
  /\ Datagram(f) /\ f.outer.checksum /\ f.outer.local
  /\ f.outer.length = "exact" /\ f.outer.udp_valid
EthernetInput ==
  /\ node = "ethernet-input"
  /\ \/ /\ Delivered(frame)
        /\ current_data' = L2tpPos(frame.outer)
        /\ l3_hdr_offset' = IpPos(frame.outer)
        /\ node' \in {"l2tvpp-handoff", "l2tvpp-input"}
        /\ UNCHANGED next
     \/ /\ ~Delivered(frame)
        /\ node' = "done" /\ next' = "elsewhere"
        /\ UNCHANGED <<current_data, l3_hdr_offset>>
  /\ UNCHANGED <<frame, kind, hashed, read, given>>

\* l2tvpp_handoff_node: tid and sid are read to pick a worker.
HandoffPeek ==
  /\ node = "l2tvpp-handoff"
  /\ read' = HighestOf(read, current_data + ParseHdr(L2tp(frame)).read)
  /\ node' = "l2tvpp-input"
  /\ UNCHANGED <<frame, current_data, l3_hdr_offset, kind, hashed, next, given>>

-----------------------------------------------------------------------------
(* l2tvpp-input.  Its buffer is what is left from current_data on.         *)

\* l2tvpp_input_node, given whether the session is known and whether inner IPv4
\* checksums are verified.
InputVerdict(b, known, no_checksum) ==
  LET h   == ParseHdr(b)
      cur == Cursor(b, h)
      ppp == PppHeader(b, cur)
      R(n, m, adv) == [next |-> n, read |-> m, advance |-> adv]
  IN IF h.rc = "TOO_SHORT" THEN R("error-drop", h.read, 0)
     ELSE IF h.rc # "DATA" THEN R("ip4-punt", h.read, 0)
     ELSE IF ~PppInside(b, h) THEN R("error-drop", SizeRead(b, h), 0)
     ELSE IF ~known THEN R("ip4-punt", SizeRead(b, h), 0)
     ELSE IF ppp.proto = 33
     THEN R(IF no_checksum THEN "ip4-input-no-checksum" ELSE "ip4-input", cur + 4, ppp.end)
     ELSE IF ppp.proto = 87 THEN R("ip6-input", cur + 4, ppp.end)
     ELSE R("ip4-punt", cur + 4, 0)

\* l2tvpp_rewind_to_ip, on a punt.
Rewind == l3_hdr_offset

Input(known, no_checksum) ==
  LET v == InputVerdict(L2tp(frame), known, no_checksum)
  IN /\ node = "l2tvpp-input"
     /\ node' = "done"
     /\ next' = v.next
     /\ read' = HighestOf(read, current_data + v.read)
     /\ current_data' = IF v.next = "ip4-punt" THEN Rewind
                        ELSE current_data + v.advance
     /\ given' = [given EXCEPT !.known = known]
     /\ UNCHANGED <<frame, l3_hdr_offset, kind, hashed>>

-----------------------------------------------------------------------------
(* l2tvpp-encap-fastpath, on an uplink *)

\* l2tvpp_encap_peek_dst: whether the destination is looked up, and the end of what
\* is read.
EncapPeek(f) ==
  LET o == f.outer
      R(plain, n) == [plain |-> plain, read |-> n]
  IN IF f.len < 14 THEN R(FALSE, 0)
     ELSE IF o.tags > 0 \/ o.type # "ip4" \/ f.len < 34 THEN R(FALSE, 14)
     ELSE R(o.ihl = 5 /\ o.frag = "no", 34)

\* l2tvpp_encap_fastpath_node, given whether the destination has a cached adjacency.
EncapFastpath(cached) ==
  LET peek == EncapPeek(frame)
  IN /\ node = "device-input"
     /\ read' = peek.read
     /\ \/ /\ peek.plain /\ cached
           /\ current_data' = 14
           /\ node' = "done" /\ next' = "ip4-midchain"
        \/ /\ ~(peek.plain /\ cached)
           /\ node' = "ethernet-input"
           /\ UNCHANGED <<current_data, next>>
     /\ UNCHANGED <<frame, l3_hdr_offset, kind, hashed, given>>

-----------------------------------------------------------------------------
(* The XDP program, on a kernel without VPP *)

\* Mutant: the ids are read without looking at the end of the frame again.
XdpIdsUnchecked(n, ids) == FALSE
XdpIdsCut(n, ids) == n < ids + 4

\* l2tp_steer, up to the hash: what is counted, "data" for what is steered.
XdpVerdict(f) ==
  LET o    == f.outer
      ip   == IpPos(o)
      end  == ip + (IF o.type = "ip6" THEN 40 ELSE 20)
      l2tp == L2tpPos(o)
      fl   == U16(L2tp(f), 0)
      ids  == l2tp + (IF HasBit(fl, HDR_L) THEN 4 ELSE 2)
      R(k, n) == [next |-> k, read |-> n]
  IN IF f.len < 14 THEN R("pass_other", 0)
     ELSE IF f.len < ip THEN R("pass_other", IF f.len < 18 THEN 14 ELSE 18)
     ELSE IF o.type = "arp" \/ f.len < end THEN R("pass_other", ip)
     ELSE IF \/ o.type = "ip4" /\ o.ihl < 5
             \/ o.frag = "later" \/ ~o.udp \/ f.len < UdpPos(o) + 8
     THEN R("pass_other", end)
     ELSE IF ~o.port \/ f.len < l2tp + 2 THEN R("pass_other", UdpPos(o) + 8)
     ELSE IF fl % 16 # 2 THEN R("pass_other", l2tp + 2)
     ELSE IF HasBit(fl, HDR_T) THEN R("pass_ctrl", l2tp + 2)
     ELSE IF XdpIdsCut(f.len, ids) THEN R("pass_other", l2tp + 2)
     ELSE R("data", ids + 4)

XdpProgram ==
  LET v == XdpVerdict(frame)
  IN /\ node = "device-input"
     /\ node' = "done" /\ next' = v.next /\ read' = v.read
     /\ UNCHANGED <<frame, current_data, l3_hdr_offset, kind, hashed, given>>

-----------------------------------------------------------------------------

Finished == node = "done" /\ UNCHANGED dvars

DNext ==
  \/ \E fastpath, want_hash \in BOOLEAN : FlowHandoff(fastpath, want_hash)
  \/ DeviceInput
  \/ EthernetInput
  \/ HandoffPeek
  \/ \E known, no_checksum \in BOOLEAN : Input(known, no_checksum)
  \/ \E cached \in BOOLEAN : EncapFastpath(cached)
  \/ XdpProgram
  \/ Finished

DSpec == DInit /\ [][DNext]_dvars

-----------------------------------------------------------------------------
(* Properties *)

\* No parser reads past the end of the buffer (l2tvpp.h:157, "a short buffer returns
\* L2TVPP_HDR_TOO_SHORT without reading it"; node.c:171), wherever the frame is cut
\* off and whatever the offset size says.
NoReadPastEnd == read <= frame.len

ViaInput ==
  node = "done" /\ next \notin {"elsewhere", "ip4-midchain", "pass_other", "pass_ctrl", "data"}
Inner == {"ip4-input", "ip4-input-no-checksum", "ip6-input"}

\* Whichever nodes the frame went through, what l2tvpp-input does with it is what
\* its layout and the session table call for, and the inner packet starts at its own
\* first octet.
VerdictMatchesLayout ==
  ViaInput =>
    /\ \/ next = InputNext(KindOf(frame), given.known)
       \/ /\ InputNext(KindOf(frame), given.known) = "ip4-input"
          /\ next = "ip4-input-no-checksum"
    /\ next \in Inner => current_data = InnerPos(frame)

\* A punted packet leaves as if the plugin had never had it (node.c:76): at its outer
\* IP header, on every path, the fast path that never met ip4-input included.
PuntRestoresIp == ViaInput /\ next = "ip4-punt" => current_data = IpPos(frame.outer)

\* The classifier sees in a datagram to udp/1701 what l2tvpp-input will see in it, so
\* that the table Handoff works with holds of the bytes; and what it sends past the
\* nodes up to udp-local is L2TPv2 data that they would have delivered, but for the
\* UDP length and checksum, which nobody then verifies (flow_handoff.c:280 speaks of
\* "everything ip4-input + ip4-lookup + ip4-receive would have checked").
ClassifierAgrees ==
  kind # "" =>
    /\ kind = "FAST" =>
         /\ HdrClass(KindOf(frame)) = "DATA"
         /\ frame.outer.udp_valid => Delivered(frame)
    /\ Datagram(frame) /\ frame.outer.tags < 2 =>
         kind = FlowKind(KindOf(frame), given.fastpath /\ FastOuter(frame),
                         given.want_hash)

\* "Every 5-tuple flow stays in order" (flow_handoff.c:35) because its packets are
\* spread by their own header: the classifier's walk ends where l2tvpp-input will
\* start the inner packet, on the fast path and off it, and the outer header decides
\* only for what has no inner one to hash.  A packet to be spread goes without a hash
\* only when it stays where it is, or on the fast path with a broken inner header.
HashFollowsFlow ==
  kind # "" =>
    /\ hashed # 0 =>
         hashed = IF ToPort(frame.outer) /\ KindOf(frame) \in {"ip4", "ip6"}
                  THEN InnerPos(frame) ELSE IpPos(frame.outer)
    /\ given.want_hash /\ hashed = 0 =>
         \/ kind = "LOCAL"
         \/ kind = "FAST" /\ KindOf(frame) \in {"bad_ip", "bad_ip6"}

\* The XDP program steers exactly the L2TPv2 data whose ids are in the frame, and
\* leaves control messages where they are, also behind two VLAN tags, over IPv6 and
\* in a first fragment.
XdpMatchesLayout ==
  LET o    == frame.outer
      l2tp == /\ o.type \in {"ip4", "ip6"} /\ (o.type = "ip4" => o.ihl >= 5)
              /\ o.frag # "later" /\ o.udp /\ o.port
              /\ frame.header.ver = 2
      have == Len(L2tp(frame))
  IN node = "done" =>
       /\ next = "data" => l2tp /\ ~frame.header.T /\ have >= FixedLen(frame.header)
       /\ next = "pass_ctrl" => l2tp /\ frame.header.T /\ have >= 2
       /\ next = "pass_other" =>
            ~l2tp \/ have < (IF frame.header.T THEN 2 ELSE FixedLen(frame.header))
=============================================================================
