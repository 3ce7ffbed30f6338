------------------------------ MODULE TunDevice ------------------------------
(***************************************************************************)
(* The device of an engine: src/tun_device.cpp and tun_device.hpp, over    *)
(* the implementation the platform has.                                    *)
(***************************************************************************)
EXTENDS WintunDevice

Wintun(dev) == dev.mode \in {"wintun", "wintun_inject"}

Faults(dev) == IF Wintun(dev) THEN wintun_faults(dev) ELSE posix_faults(dev)

is_open(v) == v.descs # {}

device_close(v) == IF is_open(v) THEN Release(v) ELSE v

queue_count(v) == IF v.wintun THEN 1 ELSE Cardinality(v.descs)

async_read(v, r, q) == IF v.wintun THEN wintun_async_read(v, r) ELSE posix_async_read(v, r, q)

\* What the device had is closed first, but by assign_queues of POSIX only when
\* all handles were taken.  The handles of a caller are new each time.
device_open(v, dev, fault) ==
  LET made == IF Wintun(dev) THEN wintun_open(dev, fault) ELSE posix_open(dev, fault)
      taken == {i \in DOMAIN made : made[i].adopted}
      old == IF dev.mode # "inject" \/ taken # {} THEN device_close(v) ELSE v
  IN [old EXCEPT !.fds = @ \o made,
                 !.descs = IF taken = {} THEN @ ELSE {Len(v.fds) + i : i \in taken}]
=============================================================================
