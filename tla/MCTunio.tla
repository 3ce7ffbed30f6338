------------------------------- MODULE MCTunio -------------------------------
(***************************************************************************)
(* Scripts for Tunio: opening and closing each kind of device with few     *)
(* packets, and a longer life of one or two generations with many.         *)
(***************************************************************************)
EXTENDS Tunio

CONSTANTS k1, k2, k3, loop

\* A TCP segment of a client.
Seg(k, seg) ==
  [ver |-> 4, avail |-> 40, total |-> 40, ihl |-> 20, frag |-> FALSE, sum |-> TRUE,
   ext |-> FALSE, proto |-> "tcp", src |-> IF k \in LoopKeys THEN "self" ELSE "client",
   dst |-> "remote", type |-> 0, plen |-> 20, csum |-> TRUE, key |-> k, seg |-> seg]
Segs(ks, segs) == {Seg(k, s) : k \in ks, s \in segs}

\* SYNs with one thing wrong, each of them dropped.
Odd == LET p == Seg(k1, "SYN")
       IN {[p EXCEPT !.avail = 19], [p EXCEPT !.ver = 5], [p EXCEPT !.total = 19],
           [p EXCEPT !.total = 41], [p EXCEPT !.ihl = 16], [p EXCEPT !.ihl = 44],
           [p EXCEPT !.frag = TRUE], [p EXCEPT !.sum = FALSE], [p EXCEPT !.src = "reserved"],
           [p EXCEPT !.dst = "reserved"], [p EXCEPT !.ver = 6, !.ext = TRUE],
           [p EXCEPT !.proto = "other"]}

\* Echo requests: to the tunnel and past it, of both families, damaged, from
\* its own address, and each kind of ICMP in the other family.
Echo4 == [Seg(k1, "none") EXCEPT !.proto = "icmp", !.dst = "self", !.type = 8]
Echo6 == [Echo4 EXCEPT !.ver = 6, !.total = 60, !.avail = 60, !.proto = "icmpv6", !.type = 128]
Echoes ==
  UNION {{e, [e EXCEPT !.dst = "remote"], [e EXCEPT !.csum = FALSE], [e EXCEPT !.src = "self"],
          [e EXCEPT !.type = 0], [e EXCEPT !.plen = 7]} : e \in {Echo4, Echo6}}
    \union {[Echo6 EXCEPT !.proto = "icmp", !.dst = "self4", !.type = 8],
            [Echo4 EXCEPT !.proto = "icmpv6", !.type = 128]}

MCPackets ==
  [syn |-> Segs({k1}, {"SYN"}), odd |-> Segs({k1}, {"SYN"}) \union Odd, echo |-> Echoes,
   clients |-> Segs({k1, k2, k3, loop}, {"SYN"}),
   flow |-> Segs({k1}, {"SYN", "ACK", "FIN", "RST"})]

Tun(mode, queues, ips) == [mode |-> mode, queues |-> queues, ips |-> ips]

Quiet == [opens |-> 0, faults |-> 0, throws |-> 0, packets |-> 0, accepts |-> 0, cancels |-> 0,
          sweeps |-> 0, ops |-> 0, pkts |-> "syn",
          dev |-> Tun("linux", 1, {4})]

\* Opens, failures and late reads.
Reopening == [Quiet EXCEPT !.opens = 3, !.faults = 1, !.packets = 2, !.sweeps = 1,
                           !.pkts = "odd"]
\* The same with each kind of device and more queues than slots.
Devices == {[Quiet EXCEPT !.opens = 2, !.faults = 2, !.dev = d] :
              d \in {Tun("linux", 3, {4, 6}), Tun("utun", 1, {6}),
                     Tun("inject", 2, {})}}
WintunDevices == {[Quiet EXCEPT !.opens = 2, !.faults = 1, !.packets = 1,
                                !.dev = Tun("wintun", 1, {4})],
                  [Quiet EXCEPT !.opens = 1, !.faults = 1, !.dev = Tun("wintun_inject", 1, {4})]}
\* Accepts, cancelled or given flows, across a close and an open.
Accepting == [Quiet EXCEPT !.opens = 2, !.packets = 2, !.accepts = 2, !.cancels = 1]
\* More clients than max_tcp_flows, and the host itself.
Filling == [Quiet EXCEPT !.opens = 1, !.packets = 3, !.accepts = 1,
                         !.pkts = "clients"]
\* Flows from SYN to TIME_WAIT and their sweeps.
Connecting == [Quiet EXCEPT !.opens = 1, !.packets = 4, !.accepts = 1, !.sweeps = 1, !.ops = 2,
                            !.pkts = "flow"]
\* Echo requests to a tunnel with an address of one family or of both.
Pinging == {[Quiet EXCEPT !.opens = 1, !.packets = 2, !.pkts = "echo", !.dev.ips = i] :
              i \in {{4}, {6}, {4, 6}}}

\* A read that cannot be started, with late reads of the slots before it.
Throwing == {[Quiet EXCEPT !.opens = 2, !.throws = 1],
             [Quiet EXCEPT !.opens = 1, !.throws = 1, !.packets = 1]}

MCScripts == {Reopening, Accepting, Filling, Connecting} \union Devices \union WintunDevices
               \union Pinging \union Throwing

\* A sweep of an engine that is closed; two slots of a Wintun device that is
\* opened twice, without packets.
SweepScripts == {[Quiet EXCEPT !.opens = 1, !.sweeps = 1]}
SlotScripts == {[Quiet EXCEPT !.opens = 2, !.dev = Tun("wintun", 1, {4})]}
=============================================================================
