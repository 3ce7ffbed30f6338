------------------------------- MODULE IpInput -------------------------------
(***************************************************************************)
(* What the engine makes of a packet it read: the checks of on_read and    *)
(* handle_packet, the loopback guard, the dispatch by protocol and the     *)
(* echo replies: src/tunio.cpp.  Operators on the record of Tunio, of      *)
(* which they use local (the families of which the tunnel has an address)  *)
(* and replies (the echo replies written).                                 *)
(*                                                                         *)
(* A packet is a record: ver, the bytes read (avail), the length its       *)
(* header declares (total), ihl; frag and sum for IPv4 (a fragment, a good *)
(* header checksum), ext for IPv6 (an extension header follows); proto,    *)
(* src and dst; type, plen and csum of an ICMP message (its type, length,  *)
(* a good checksum); key and seg of a TCP segment.  An address is "self"   *)
(* (the tunnel's of that family), "reserved" (loopback, unspecified or     *)
(* IPv6 link-local), "self4" (an IPv6 address whose first four bytes are   *)
(* the tunnel's IPv4 address) or another.                                  *)
(***************************************************************************)
EXTENDS TcpAccept, Integers

\* on_read: one whole packet, by the length it declares.  (That of IPv6 is
\* never below 40.)
Whole(p) ==
  /\ p.avail >= 20
  /\ p.ver \in {4, 6}
  /\ p.ver = 4 => p.total >= 20
  /\ p.total <= p.avail

\* handle_packet: no fragments, no reassembly, a good header.
Ipv4Accepted(p) ==
  /\ p.ihl >= 20 /\ p.ihl <= p.total
  /\ ~p.frag
  /\ p.sum

\* Headers after the fixed one are not parsed.
Ipv6Accepted(p) == ~p.ext

\* The guard looks at destinations only.
MutantGuardDestination(v, p) == p.dst = "reserved"

\* Packets of this host that come round, or that never leave a host.
LoopbackGuard(v, p) ==
  \/ p.ver \in v.local /\ p.src = "self"
  \/ p.src = "reserved"
  \/ p.dst = "reserved"

\* What is dispatched by its protocol.
Dispatched(v, p) ==
  /\ Whole(p)
  /\ IF p.ver = 4 THEN Ipv4Accepted(p) ELSE Ipv6Accepted(p)
  /\ ~LoopbackGuard(v, p)

\* The addresses as an IPv4 header and as an ICMPv6 message see them:
\* neither handler asks for the family of the packet.
FirstFour(p, a) == IF p.ver = 4 THEN a ELSE IF a = "self4" THEN "self" ELSE "cut"
Sixteen(p, a) == IF p.ver = 6 THEN a ELSE "padded"

Reply(ver, src, dst, proto, type, plen) ==
  LET hdr == IF ver = 4 THEN 20 ELSE 40
  IN [ver |-> ver, avail |-> hdr + plen, total |-> hdr + plen, ihl |-> 20, frag |-> FALSE,
      sum |-> TRUE, ext |-> FALSE, proto |-> proto, src |-> src, dst |-> dst, type |-> type,
      plen |-> plen, csum |-> TRUE, key |-> "none", seg |-> "none"]

Answer(v, r) == [v EXCEPT !.replies = @ \union {r}]

\* An echo request to the tunnel's own address is answered in its name.
handle_icmp(v, p) ==
  IF /\ 4 \in v.local /\ p.plen >= 8
     /\ FirstFour(p, p.dst) = "self" /\ p.type = 8
     /\ p.csum
  THEN Answer(v, Reply(4, "self", FirstFour(p, p.src), "icmp", 0, p.plen))
  ELSE v

handle_icmpv6(v, p) ==
  IF /\ 6 \in v.local /\ p.plen >= 8
     /\ Sixteen(p, p.dst) = "self" /\ p.type = 128
     /\ p.csum
  THEN Answer(v, Reply(6, "self", Sixteen(p, p.src), "icmpv6", 129, p.plen))
  ELSE v

\* What is not dispatched is only counted.  The UDP engine is UdpEngine.
handle_packet(v, p) ==
  IF ~Dispatched(v, p) THEN v
  ELSE CASE p.proto = "icmp" -> handle_icmp(v, p)
         [] p.proto = "icmpv6" -> handle_icmpv6(v, p)
         [] p.proto = "tcp" -> on_packet(v, v.tcp, p.key, p.seg)
         [] OTHER -> v
=============================================================================
