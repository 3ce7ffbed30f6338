----------------------------- MODULE MCUdpEngine -----------------------------
(***************************************************************************)
(* Scripts for UdpEngine: one for each part of the engine, so that each is *)
(* explored in depth without multiplying by the others.                    *)
(***************************************************************************)
EXTENDS UdpEngine

CONSTANTS k1, k2

Quiet == [packets |-> 0, accepts |-> 0, cancels |-> 0, reads |-> 0, sends |-> 0, closes |-> 0,
          sets |-> 0, shuts |-> 0, lens |-> {1}, valid |-> {TRUE}, totals |-> {},
          mtu |-> 1500, until |-> 0]

\* Many packets, a change of the timeout: the expiry heap.
Expiry == [Quiet EXCEPT !.packets = 4, !.accepts = 1, !.sets = 1, !.until = 12]
\* Queues at their limits, reads before and after the data.
Data == [Quiet EXCEPT !.packets = 4, !.accepts = 2, !.reads = 3, !.closes = 1,
                      !.lens = {1, 2}]
\* Reads and queued data of sessions that expire.
Abandoned == [Quiet EXCEPT !.packets = 3, !.accepts = 1, !.reads = 2, !.until = 5]
\* Accepts before and after the sessions, cancelled, closed, shut down.
Accepting == [Quiet EXCEPT !.packets = 3, !.accepts = 2, !.cancels = 1, !.closes = 1,
                           !.shuts = 1, !.valid = BOOLEAN, !.until = 5]
\* Sends of every kind on an MTU.
Sending(mtu) == [Quiet EXCEPT !.packets = 2, !.accepts = 1, !.sends = 1, !.closes = 1, !.shuts = 1,
                              !.mtu = mtu, !.totals = {0, 8, 21, 45, 65528}]

MCScripts == {Expiry, Data, Abandoned, Accepting} \union {Sending(m) : m \in {24, 28, 36, 45}}
\* Sessions that are only used.
UsedScripts == {[Expiry EXCEPT !.sets = 0]}
=============================================================================
