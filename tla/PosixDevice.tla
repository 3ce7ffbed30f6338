----------------------------- MODULE PosixDevice -----------------------------
(***************************************************************************)
(* The POSIX TUN device and its descriptors: src/tun_device_posix.cpp and  *)
(* include/tunio/detail/impl/tun_device_posix.hpp.                         *)
(*                                                                         *)
(* Operators on the record of Tunio, of which they use                     *)
(*   fds    every descriptor open() made or was given, and its owner       *)
(*   descs  descs_: the queues of the device, empty when it is closed      *)
(*   reads  the reads that wait at the device, queue  the strand's tasks   *)
(* and one at a time a fault, the call that fails: [at, q] with the queue  *)
(* where there are several.  What ioctls tell the kernel is left out; the  *)
(* sockets they need are not.  A read gives its handler the packet, on     *)
(* utun without its prefix.                                                *)
(***************************************************************************)
EXTENDS Naturals, Sequences, FiniteSets, SequencesExt

NoFault == [at |-> "none", q |-> 0]

\* Linux gives the device an IPv6 address only beside an IPv4 address.
SetsIpv6(dev) == IF dev.mode = "linux" THEN dev.ips = {4, 6} ELSE 6 \in dev.ips

\* The calls of open() that may fail, by the kind of device.
posix_faults(dev) ==
  LET once(S) == {[at |-> a, q |-> 0] : a \in S}
      each(S) == {[at |-> a, q |-> i] : a \in S, i \in 1..dev.queues}
      setup == {"config", "socket", "ioctl"} \union IF SetsIpv6(dev) THEN {"ip6"} ELSE {}
  IN CASE dev.mode = "linux" -> once(setup) \union each({"open", "setiff", "adopt"})
       [] dev.mode = "utun" -> once(setup \union {"open", "connect"}) \union each({"adopt"})
       [] dev.mode = "inject" -> once({"config"}) \union each({"assign"})

\* Descriptors: the owner, whether a stream_descriptor of descs_ took them, and
\* how often they were closed.
Opened(own, n) == [i \in 1..n |-> [own |-> own, adopted |-> FALSE, closes |-> 0]]
close_fd(d) == [d EXCEPT !.closes = @ + 1]
Closed(s) == [i \in DOMAIN s |-> close_fd(s[i])]
Adopted(s) == [i \in DOMAIN s |-> [s[i] EXCEPT !.adopted = TRUE]]

Post(v, t) == [v EXCEPT !.queue = Append(@, t)]
ReadDone(r, res) ==
  [type |-> "read", slot |-> r.slot, epoch |-> r.epoch, res |-> res, from |-> 0]

\* The reads that wait end, slot by slot.
end_reads(v) ==
  LET after[n \in 0..v.slots] ==
        IF n = 0 THEN v.queue
        ELSE IF \E r \in v.reads : r.slot = n
             THEN Append(after[n - 1], ReadDone(CHOOSE r \in v.reads : r.slot = n, "aborted"))
             ELSE after[n - 1]
  IN after[v.slots]

\* The descriptors of the device are closed, and the reads that wait end.
Release(v) ==
  [v EXCEPT !.fds = [i \in DOMAIN @ |-> IF i \in v.descs THEN close_fd(@[i]) ELSE @[i]],
            !.descs = {}, !.reads = {}, !.queue = end_reads(v)]

\* A queue the device does not have, all of them once it is closed.
posix_async_read(v, r, q) ==
  IF q > Cardinality(v.descs) THEN Post(v, ReadDone(r, "error"))
  ELSE [v EXCEPT !.reads = @ \union {r}]

-----------------------------------------------------------------------------
(***************************************************************************)
(* What becomes of the descriptors of one open().                          *)
(***************************************************************************)

\* The descriptor that asio refused is left to nobody.
MutantAdoptLeaks(s, fault) ==
  IF fault.at = "adopt" THEN [Closed(s) EXCEPT ![fault.q] = s[fault.q]] ELSE Adopted(s)

\* The descriptors are this object's own: all are closed when one fails.
adopt_fds(s, fault) == IF fault.at = "adopt" THEN Closed(s) ELSE Adopted(s)

\* The descriptors are the caller's: all are given back when one fails.
assign_queues(s, fault) == IF fault.at \in {"config", "assign"} THEN s ELSE Adopted(s)

\* The queues of a Linux device: those opened are closed when one fails.
open_queues(dev, fault) ==
  CASE fault.at = "open" -> Closed(Opened("lib", fault.q - 1))
    [] fault.at = "setiff" -> Closed(Opened("lib", fault.q))
    [] OTHER -> Opened("lib", dev.queues)

\* The control socket of a utun.
open_utun(fault) ==
  CASE fault.at = "open" -> <<>>
    [] fault.at = "connect" -> Closed(Opened("lib", 1))
    [] OTHER -> Opened("lib", 1)

\* A socket of its own for the IPv6 address: netlink, or inet6.
add_ipv6_linux(dev) == IF SetsIpv6(dev) THEN Closed(Opened("lib", 1)) ELSE <<>>
add_ipv6_utun(dev) == IF SetsIpv6(dev) THEN Closed(Opened("lib", 1)) ELSE <<>>

\* Addresses, MTU and flags are set over a socket; when a step fails, the queues
\* s are closed with it.
configure_linux(s, dev, fault) ==
  LET sock == Closed(Opened("lib", 1))
  IN CASE fault.at = "socket" -> Closed(s)
       [] fault.at = "ioctl" -> Closed(s) \o sock
       [] fault.at = "ip6" -> Closed(s) \o sock \o add_ipv6_linux(dev)
       [] OTHER -> adopt_fds(s, fault) \o sock \o add_ipv6_linux(dev)

configure_utun(s, dev, fault) ==
  LET sock == Closed(Opened("lib", 1))
  IN CASE fault.at = "socket" -> Closed(s)
       [] fault.at = "ioctl" -> Closed(s) \o sock
       [] fault.at = "ip6" -> Closed(s) \o sock \o add_ipv6_utun(dev)
       [] OTHER -> adopt_fds(s, fault) \o sock \o add_ipv6_utun(dev)

\* A wrong number of queues or a wrong name is refused before anything is
\* opened.
open_linux(dev, fault) ==
  CASE fault.at = "config" -> <<>>
    [] fault.at \in {"open", "setiff"} -> open_queues(dev, fault)
    [] OTHER -> configure_linux(open_queues(dev, fault), dev, fault)

open_apple(dev, fault) ==
  CASE fault.at = "config" -> <<>>
    [] fault.at \in {"open", "connect"} -> open_utun(fault)
    [] OTHER -> configure_utun(open_utun(fault), dev, fault)

posix_open(dev, fault) ==
  CASE dev.mode = "linux" -> open_linux(dev, fault)
    [] dev.mode = "utun" -> open_apple(dev, fault)
    [] dev.mode = "inject" -> assign_queues(Opened("user", dev.queues), fault)
=============================================================================
