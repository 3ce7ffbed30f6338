---------------------------- MODULE WintunDevice ----------------------------
(***************************************************************************)
(* The Wintun device: src/tun_device_wintun.cpp and                        *)
(* include/tunio/detail/impl/tun_device_wintun.hpp.                        *)
(*                                                                         *)
(* Its descriptors are the adapter, the device, two ring mappings and two  *)
(* events.  A read is a poll of the receive ring on the device's own       *)
(* strand, repeated by a timer: polls holds the reads whose poll is        *)
(* queued there, reads the one that waits for the timer.  All reads share  *)
(* that timer, and to set it ends the wait of another.  What the rings     *)
(* hold is the choice of the driver.                                       *)
(***************************************************************************)
EXTENDS PosixDevice

wintun_faults(dev) ==
  {[at |-> a, q |-> 0] : a \in {"config", "view", "register"} \union
                               IF dev.mode = "wintun" THEN {"adapter", "device"} ELSE {}}
    \union {[at |-> a, q |-> i] : a \in {"map", "event"}, i \in 1..2}

\* The rings: what was made of the mappings and events when a step failed, one
\* of two mappings or events included, is undone.
register_rings(fault) ==
  CASE fault.at = "map" -> Closed(Opened("lib", fault.q - 1))
    [] fault.at = "view" -> Closed(Opened("lib", 2))
    [] fault.at = "event" -> Closed(Opened("lib", 1 + fault.q))
    [] fault.at = "register" -> Closed(Opened("lib", 4))
    [] OTHER -> Opened("lib", 4)

\* open(): the adapter and the device, then the rings.
wintun_open_own(fault) ==
  CASE fault.at \in {"config", "adapter"} -> <<>>
    [] fault.at = "device" -> Closed(Opened("lib", 1))
    [] fault.at = "none" -> Adopted(Opened("lib", 2) \o register_rings(fault))
    [] OTHER -> Closed(Opened("lib", 2)) \o register_rings(fault)

\* assign(): a failure does not close the handle of the caller.
wintun_assign(fault) ==
  CASE fault.at = "config" -> Opened("user", 1)
    [] fault.at = "none" -> Adopted(Opened("user", 1) \o register_rings(fault))
    [] OTHER -> Opened("user", 1) \o register_rings(fault)

wintun_open(dev, fault) ==
  IF dev.mode = "wintun" THEN wintun_open_own(fault) ELSE wintun_assign(fault)

wintun_async_read(v, r) == [v EXCEPT !.polls = @ \union {r}]

\* recv_poll_loop: the poll of a closed device ends; an empty ring sets the
\* timer, and the read that waited for it ends.
recv_poll_loop(v, r, res) ==
  LET p == [v EXCEPT !.polls = @ \ {r}]
      cancelled == IF v.reads = {} THEN p
                   ELSE Post(p, ReadDone(CHOOSE o \in v.reads : TRUE, "aborted"))
  IN CASE v.descs = {} -> Post(p, ReadDone(r, "aborted"))
       [] v.descs # {} /\ res = "empty" -> [cancelled EXCEPT !.reads = {r}]
       [] v.descs # {} /\ res # "empty" -> Post(p, ReadDone(r, res))

\* The timer expires: the read polls again.
recv_timer(v) == [v EXCEPT !.polls = @ \union v.reads, !.reads = {}]
=============================================================================
