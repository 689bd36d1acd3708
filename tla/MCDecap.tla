------------------------------- MODULE MCDecap ---------------------------------
(* A small instance of Decap. *)
EXTENDS Decap

Sample(o, h, p) == [outer |-> o, header |-> h, payload |-> p]

Data == [ver |-> 2, T |-> FALSE, L |-> FALSE, S |-> FALSE, O |-> FALSE, offset |-> 0]
Control == [Data EXCEPT !.T = TRUE, !.L = TRUE, !.S = TRUE]
V3 == [Data EXCEPT !.ver = 3]
\* No offset field, pads of 0, 1 and 3 octets, and one far past the end.
DataHeaders ==
  {h \in [ver : {2}, T : {FALSE}, L : BOOLEAN, S : BOOLEAN, O : BOOLEAN,
          offset : {0, 1, 3, 65535}] : ~h.O => h.offset = 0}

Ip4 == [acfc |-> FALSE, pfc |-> FALSE, proto |-> 33, inner |-> "v4"]
\* IPv4, IPv6 and LCP with every compression, broken inner headers, one IP named
\* as the other, and protocols that look like FF 03 or like a compressed one.
SamplePayloads ==
  {[acfc |-> a, pfc |-> f, proto |-> x[1], inner |-> x[2]] :
     a, f \in BOOLEAN, x \in {<<33, "v4">>, <<87, "v6">>}}
    \cup {[acfc |-> a, pfc |-> FALSE, proto |-> 49185, inner |-> "garbled"] : a \in BOOLEAN}
    \cup {[Ip4 EXCEPT !.inner = "garbled"], [Ip4 EXCEPT !.inner = "v4options"],
          [Ip4 EXCEPT !.inner = "v6"], [Ip4 EXCEPT !.proto = 87],
          [acfc |-> TRUE, pfc |-> TRUE, proto |-> 3, inner |-> "garbled"],
          [acfc |-> FALSE, pfc |-> TRUE, proto |-> 87, inner |-> "garbled"]}

SampleOuters ==
  {PlainOuter,
   [PlainOuter EXCEPT !.tags = 1], [PlainOuter EXCEPT !.tags = 2],
   [PlainOuter EXCEPT !.type = "arp"], [PlainOuter EXCEPT !.type = "ip6"],
   [PlainOuter EXCEPT !.ihl = 4], [PlainOuter EXCEPT !.ihl = 6],
   [PlainOuter EXCEPT !.udp_valid = FALSE], [PlainOuter EXCEPT !.frag = "first"],
   [PlainOuter EXCEPT !.frag = "later"], [PlainOuter EXCEPT !.udp = FALSE],
   [PlainOuter EXCEPT !.port = FALSE], [PlainOuter EXCEPT !.checksum = FALSE],
   [PlainOuter EXCEPT !.local = FALSE], [PlainOuter EXCEPT !.length = "beyond"],
   [PlainOuter EXCEPT !.length = "short"]}

MCSamples ==
  {Sample(PlainOuter, h, p) : h \in DataHeaders, p \in SamplePayloads}
    \cup {Sample(o, h, Ip4) : o \in SampleOuters,
                              h \in {Data, Control, V3, [Data EXCEPT !.L = TRUE]}}
=============================================================================
