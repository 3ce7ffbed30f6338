------------------------------- MODULE TcpFlow -------------------------------
(***************************************************************************)
(* One TCP connection of the engine, seen from its sending side:           *)
(* src/tcp_engine.cpp and include/tunio/detail/tcp_engine.hpp.             *)
(*                                                                         *)
(* The engine plays the server of a client (the peer) behind the TUN       *)
(* device.  Everything runs on one strand: a handler is one step.  What    *)
(* interleaves are segments of the peer, calls of the application, timers, *)
(* and the write_loop coroutine, which suspends at each co_await: between  *)
(* the event that wakes it and the step that resumes it any other handler  *)
(* may run.                                                                *)
(*                                                                         *)
(* A handler is an operator from flow records to flow records, composed as *)
(* the code composes its calls; out collects the segments it hands to the  *)
(* device.  Sequence numbers are relative to iss: 0 is the SYN, the stream *)
(* starts at 1.  (The code compares them modulo 2^32 by differences that   *)
(* stay far below 2^31.)  A byte is the pair of its write and its offset.  *)
(* Left out, because no decision here reads them: received data and        *)
(* reassembly, pure acknowledgements the engine sends, and options.        *)
(***************************************************************************)
EXTENDS Naturals, Sequences, FiniteSets

CONSTANTS
  Windows,         \* the windows the peer advertises
  Mss,             \* bytes per segment
  MaxRetransmits,  \* tcp_rto_max_retransmits
  MaxProbes,       \* tcp_persist_max_probes
  MaxWrites,       \* bound: writes the application starts
  MaxTotal,        \* bound: bytes of one write
  PeerBudget       \* bound: segments of the peer that reach the engine

ASSUME FlowAssumption ==
  /\ Windows \subseteq Nat /\ Windows # {}
  /\ Mss \in Nat \ {0}
  /\ MaxRetransmits \in Nat
  /\ MaxProbes \in Nat
  /\ MaxWrites \in Nat
  /\ MaxTotal \in Nat \ {0}
  /\ PeerBudget \in Nat

VARIABLES
  flow,  \* the tcp_flow, its active_write and its write_loop coroutine
  peer   \* the client's TCP: what it received and may still send

vars == <<flow, peer>>

States == {"CLOSED", "SYN_RCVD", "SYN_ACK_SENT", "ESTABLISHED", "FIN_WAIT_1",
           "FIN_WAIT_2", "CLOSE_WAIT", "LAST_ACK", "TIME_WAIT"}

\* States in which the connection counts in engine_stats::tcp_connections.
Opened == States \ {"CLOSED", "SYN_RCVD", "SYN_ACK_SENT"}

Codes == {"success", "connection_reset", "bad_descriptor", "operation_aborted",
          "no_buffer_space"}

MinOf(a, b) == IF a < b THEN a ELSE b

MaxSeq == MaxWrites * MaxTotal + 3

\* What the peer may hold at a position of the stream.
NoByte == <<0, 0>>
FinMark == <<0, 1>>
Garbage == <<0, 2>>  \* read through an active_write that is gone
Byte(id, off) == <<id, off>>

----------------------------------------------------------------------------
(* The segments the engine sends. *)

SynAck == [kind |-> "SYN_ACK", seq |-> 0, bytes |-> <<>>]
Fin(seq) == [kind |-> "FIN", seq |-> seq, bytes |-> <<>>]
Rst == [kind |-> "RST", seq |-> 0, bytes |-> <<>>]

\* n bytes of the active write from offset off.
DataSegment(f, off, n) ==
  [kind |-> "DATA", seq |-> f.start_seq + off,
   bytes |-> [i \in 1..n |-> Byte(f.write_id, off + i - 1)]]

(* send_segment: a closed flow sends nothing. *)
send_segment(f, s) ==
  IF f.state = "CLOSED" THEN f ELSE [f EXCEPT !.out = @ \cup {s}]

----------------------------------------------------------------------------
(* Completion and wake-up. *)

\* The coroutine is suspended on write_ch and a timer, and nothing woke it yet.
Parked(f) == f.pc \in {"handshake", "window", "ack"} /\ f.wake = "none"

(* signal_write, and closing write_ch: an unbuffered channel, so the signal *)
(* is lost unless the coroutine waits.                                       *)
signal_write(f) == IF Parked(f) THEN [f EXCEPT !.wake = "signal"] ELSE f

\* Mutant of complete: the write stays behind when its handler is posted.
complete_kept(f, code) ==
  IF f.active_write THEN [f EXCEPT !.done[f.write_id] = Append(@, code)] ELSE f

\* The handler of the active write is taken out and posted with a code.
complete(f, code) ==
  IF f.active_write
  THEN [f EXCEPT !.active_write = FALSE, !.done[f.write_id] = Append(@, code),
                 !.write_id = 0, !.total = 0, !.offset = 0, !.start_seq = 0,
                 !.implicit_accept = FALSE]
  ELSE f

(* close_flow. *)
close_flow(f, code) ==
  IF f.state = "CLOSED"
  THEN f
  ELSE signal_write(
         [complete(f, code) EXCEPT
            !.state = "CLOSED",
            !.tcp_connections = IF f.state \in Opened THEN @ - 1 ELSE @])

(* abort_flow, and reject_flow. *)
abort_flow(f) ==
  IF f.state = "CLOSED"
  THEN f
  ELSE close_flow([send_segment(f, Rst) EXCEPT !.rst = TRUE], "connection_reset")

(* accept_flow. *)
accept_flow(f) ==
  IF f.state = "SYN_RCVD"
  THEN [send_segment(f, SynAck) EXCEPT !.snd_nxt = 1, !.state = "SYN_ACK_SENT"]
  ELSE f

\* The active write has bytes it did not send yet.
Unsent(f) == f.active_write /\ f.offset < f.total

\* Mutant of MustDefer: unsent data does not hold the FIN back.
MustDeferInFlight(f) == f.snd_una # f.snd_nxt

\* Why a FIN has to wait.
MustDefer(f) == Unsent(f) \/ f.snd_una # f.snd_nxt

(* send_fin. *)
send_fin(f) ==
  IF f.fin_sent \/ f.state = "CLOSED"
  THEN f
  ELSE IF MustDefer(f)
  THEN [f EXCEPT !.fin_pending = TRUE]
  ELSE IF f.state \in {"SYN_RCVD", "SYN_ACK_SENT"}
  THEN abort_flow([f EXCEPT !.fin_sent = TRUE])
  ELSE IF f.state \in {"ESTABLISHED", "CLOSE_WAIT"}
  THEN [send_segment(f, Fin(f.snd_nxt)) EXCEPT
          !.fin_sent = TRUE,
          !.snd_nxt = @ + 1,
          !.state = IF f.state = "ESTABLISHED" THEN "FIN_WAIT_1" ELSE "LAST_ACK"]
  ELSE [f EXCEPT !.fin_sent = TRUE]

----------------------------------------------------------------------------
(* Segments from the peer. *)

\* Mutant of advance_una: an acknowledged probe leaves the offset behind.
advance_una_probe_only(f, ack) ==
  IF ack > f.snd_una /\ ack <= f.snd_nxt
  THEN [f EXCEPT !.snd_una = ack]
  ELSE IF f.probe_in_flight /\ ack = f.snd_nxt + 1
  THEN [f EXCEPT !.snd_una = ack, !.snd_nxt = ack]
  ELSE f

(* handle_ack, first part: what the acknowledgement covers.  A probe is not *)
(* counted in snd_nxt until the peer acknowledges it.                       *)
advance_una(f, ack) ==
  IF ack > f.snd_una /\ ack <= f.snd_nxt
  THEN [f EXCEPT !.snd_una = ack]
  ELSE IF f.probe_in_flight /\ ack = f.snd_nxt + 1
  THEN [f EXCEPT !.snd_una = ack,
                 !.snd_nxt = ack,
                 !.offset = IF Unsent(f) THEN @ + 1 ELSE @]
  ELSE f

(* handle_ack.  Its result only tells the caller whether LAST_ACK ended. *)
handle_ack(f, ack) ==
  LET a == [advance_una(f, ack) EXCEPT !.probe_in_flight = FALSE]
      b == IF a.fin_pending /\ a.snd_una = a.snd_nxt /\ ~Unsent(a)
           THEN send_fin([a EXCEPT !.fin_pending = FALSE])
           ELSE a
  IN  IF b.state \in {"FIN_WAIT_1", "LAST_ACK"} /\ b.fin_sent /\ ack >= b.snd_nxt
      THEN IF b.state = "LAST_ACK"
           THEN close_flow(b, "success")
           ELSE [b EXCEPT !.state = IF b.fin_received THEN "TIME_WAIT"
                                                      ELSE "FIN_WAIT_2"]
      ELSE b

(* handle_fin, for a FIN that is next in sequence or a repetition of it. *)
handle_fin(f) ==
  IF f.fin_received
  THEN f
  ELSE [f EXCEPT !.fin_received = TRUE,
                 !.state = CASE f.state = "ESTABLISHED" -> "CLOSE_WAIT"
                             [] f.state = "FIN_WAIT_2" -> "TIME_WAIT"
                             [] OTHER -> f.state]

\* The handshake is complete: the peer acknowledged exactly the SYN.
establish(f) ==
  IF f.state = "SYN_ACK_SENT"
  THEN [f EXCEPT !.state = "ESTABLISHED", !.tcp_connections = @ + 1]
  ELSE f

(* handle_segment.  A segment without the ACK flag has ack = 0. *)
handle_segment(f, s) ==
  LET a == IF s.ack = 0 THEN f
           ELSE [handle_ack(f, s.ack) EXCEPT !.peer_wnd = s.wnd]
  IN  IF a.state = "CLOSED"
      THEN a
      ELSE IF s.rst
      THEN close_flow([a EXCEPT !.rst = TRUE], "connection_reset")
      ELSE IF a.state = "SYN_RCVD"
      THEN a
      ELSE IF a.state = "SYN_ACK_SENT" /\ s.syn
      THEN send_segment(a, SynAck)
      ELSE IF a.state = "SYN_ACK_SENT" /\ s.ack # 1
      THEN a
      ELSE signal_write(IF s.fin THEN handle_fin(establish(a)) ELSE establish(a))

----------------------------------------------------------------------------
(* The write_loop coroutine. *)

write_end(f) == f.start_seq + f.total
InFlight(f) == f.snd_nxt - f.snd_una

Suspend(f, where) == [f EXCEPT !.pc = where, !.wake = "none"]

\* The coroutine ends; its locals are gone.
Finish(f) ==
  [f EXCEPT !.pc = "none", !.wake = "none", !.last_una = 0, !.retransmits = 0,
            !.probes = 0]

\* After the loop: a write nobody completed yet ends with an error.
Exit(f) ==
  Finish(complete(f, IF f.rst THEN "connection_reset" ELSE "bad_descriptor"))

(* build_next_segment: sequence number and offset advance before the device *)
(* writes the segment.                                                      *)
build_next_segment(f) ==
  LET chunk == MinOf(f.total - f.offset, MinOf(Mss, f.peer_wnd - InFlight(f)))
  IN  [f EXCEPT !.segment = <<DataSegment(f, f.offset, chunk)>>,
                !.snd_nxt = @ + chunk,
                !.offset = @ + chunk]

(* send_window_probe: the next byte, without advancing snd_nxt. *)
send_window_probe(f) ==
  [send_segment(f, [DataSegment(f, f.offset, 1) EXCEPT !.seq = f.snd_nxt]) EXCEPT
     !.probe_in_flight = TRUE]

\* Mutant of retransmit_unacked: it resends from the start of the write.
retransmit_unacked_from_start(f, max) ==
  IF ~f.active_write \/ f.snd_una = f.snd_nxt
  THEN f
  ELSE send_segment(f, [DataSegment(f, 0, 1) EXCEPT !.seq = f.snd_una])

(* retransmit_unacked: [snd_una, snd_nxt) without the FIN, at most max bytes. *)
(* After a failed device write snd_una may lie before the active write; the   *)
(* offset then wraps around and the loop has nothing to send.                 *)
retransmit_unacked(f, max) ==
  IF ~f.active_write \/ f.snd_una = f.snd_nxt \/ f.snd_una < f.start_seq
  THEN f
  ELSE LET begin == f.snd_una - f.start_seq
           end == MinOf(MinOf(f.snd_nxt - f.start_seq, f.total), begin + max)
           offs == {off \in 0..f.total : off >= begin /\ off < end /\ (off - begin) % Mss = 0}
       IN  IF f.state = "CLOSED" THEN f
           ELSE [f EXCEPT !.out = @ \cup {DataSegment(f, off, MinOf(Mss, end - off)) : off \in offs}]

\* Mutant of AllAcked: a write is over when it is sent.
AllSent(f) == f.offset = f.total

\* The write is over: all of it is sent and acknowledged.
AllAcked(f) == f.offset = f.total /\ f.snd_una = write_end(f)

(* One pass of the loop, from its head to the next co_await or to its end. *)
Loop(f) ==
  IF ~f.active_write \/ f.state = "CLOSED" \/ f.rst
  THEN Exit(f)
  ELSE IF AllAcked(f)
  THEN Finish(complete(f, "success"))
  ELSE IF f.state # "ESTABLISHED" /\ ~f.implicit_accept
  THEN Suspend(f, "handshake")
  ELSE IF f.peer_wnd = 0
  THEN Suspend(f, "window")
  ELSE IF f.offset < f.total /\ InFlight(f) < f.peer_wnd
  THEN Suspend(build_next_segment(f), "device")
  ELSE Suspend([f EXCEPT !.last_una = f.snd_una], "ack")

\* The persist timer fired.
persist_timeout(f) ==
  IF f.probes + 1 > MaxProbes
  THEN Exit(abort_flow(f))
  ELSE LET g == [f EXCEPT !.probes = @ + 1]
       IN  IF g.offset < g.total THEN Loop(send_window_probe(g))
           ELSE IF g.snd_una # write_end(g) THEN Loop(retransmit_unacked(g, Mss))
           ELSE Loop(g)

\* The persist timer fired, then the write was completed, and the coroutine
\* reads the write it no longer has: a probe of whatever it finds, or nothing.
stale_persist_timeout(f) ==
  {Loop(f),
   Loop([send_segment(f, [kind |-> "DATA", seq |-> f.snd_nxt, bytes |-> <<Garbage>>])
           EXCEPT !.probe_in_flight = TRUE])}

\* Mutant of rto_timeout: it never gives up.
rto_timeout_forever(f) == Loop(retransmit_unacked(f, f.peer_wnd))

\* The retransmission timer fired.
rto_timeout(f) ==
  IF f.snd_una # f.last_una
  THEN Loop([f EXCEPT !.retransmits = 0])
  ELSE IF f.retransmits + 1 > MaxRetransmits
  THEN Exit(abort_flow(f))
  ELSE LET g == [f EXCEPT !.retransmits = @ + 1]
       IN  Loop(IF g.snd_una # write_end(g) THEN retransmit_unacked(g, g.peer_wnd) ELSE g)

\* The coroutine resumes at its co_await while active_write is gone and will
\* read it all the same.
StaleWake(f) ==
  /\ f.pc = "window"
  /\ f.wake = "timeout"
  /\ ~f.active_write
  /\ f.probes + 1 <= MaxProbes

\* What the coroutine does when it resumes.
resume(f) ==
  CASE f.pc = "start" /\ ~f.active_write -> Finish(f)
    [] f.pc = "start" /\ f.active_write ->
         Loop([f EXCEPT !.start_seq = f.snd_nxt, !.last_una = f.snd_una,
                        !.retransmits = 0, !.probes = 0])
    [] f.pc = "handshake" -> Loop(f)
    [] f.pc = "window" /\ f.wake = "signal" -> Loop([f EXCEPT !.probes = 0])
    [] f.pc = "window" /\ f.wake = "timeout" -> persist_timeout(f)
    [] f.pc = "ack" /\ f.wake = "signal" ->
         Loop(IF f.snd_una # f.last_una THEN [f EXCEPT !.retransmits = 0] ELSE f)
    [] f.pc = "ack" /\ f.wake = "timeout" -> rto_timeout(f)
    [] f.pc = "device" /\ f.wake = "signal" -> Loop(f)
    [] f.pc = "device" /\ f.wake = "error" -> Exit(f)

----------------------------------------------------------------------------
(* Calls of the application, and the engine's sweep. *)

\* The code tcp_flow_start_write refuses any write with, or "none".
refuse_write(f) ==
  IF f.state = "CLOSED" \/ f.app_closed \/ f.fin_sent THEN "bad_descriptor"
  ELSE IF f.rst THEN "connection_reset"
  ELSE "none"

(* tcp_flow_start_write: the first write approves the handshake, an empty one *)
(* is over at once, a second one at a time is refused, any other one spawns   *)
(* the coroutine.                                                             *)
start_write(f, n) ==
  LET id == f.writes + 1
      g == [f EXCEPT !.writes = id, !.totals[id] = n]
  IN  IF refuse_write(f) # "none"
      THEN [g EXCEPT !.done[id] = <<refuse_write(f)>>]
      ELSE IF n = 0
      THEN [accept_flow(g) EXCEPT !.done[id] = <<"success">>]
      ELSE IF f.active_write
      THEN [g EXCEPT !.done[id] = <<"no_buffer_space">>]
      ELSE [accept_flow(g) EXCEPT
              !.active_write = TRUE, !.write_id = id, !.total = n, !.offset = 0,
              !.implicit_accept = (f.state = "SYN_RCVD"),
              !.pc = "start", !.wake = "signal"]

(* tcp_flow_shutdown_send. *)
shutdown_send(f) == IF f.app_closed THEN f ELSE send_fin(f)

(* tcp_flow_close: unacknowledged data turns the close into a reset. *)
close(f) ==
  IF f.state = "CLOSED" \/ f.app_closed
  THEN f
  ELSE LET g == signal_write([complete(f, "operation_aborted") EXCEPT !.app_closed = TRUE])
       IN  IF g.snd_una # g.snd_nxt THEN abort_flow(g) ELSE send_fin(g)

(* tcp_flow_reset. *)
reset(f) == IF f.app_closed THEN f ELSE abort_flow(f)

(* on_sweep, for a flow whose timeout has passed. *)
sweep(f) ==
  IF f.state \in {"SYN_RCVD", "SYN_ACK_SENT"}
  THEN abort_flow(f)
  ELSE close_flow(f, "operation_aborted")

\* The states on_sweep has a timeout for.  (An ESTABLISHED flow that was never
\* handed to the application has one too, but every such flow was.)
SweptStates == {"SYN_RCVD", "SYN_ACK_SENT", "TIME_WAIT", "FIN_WAIT_1",
                "FIN_WAIT_2", "LAST_ACK"}

----------------------------------------------------------------------------
(* The peer: a TCP that keeps what it receives, in or out of order, and      *)
(* acknowledges the longest prefix.                                          *)

\* The peer holds every position up to i and no FIN before it.
Holds(got, i) == \A j \in 1..i : got[j] # NoByte /\ (j < i => got[j] # FinMark)

Prefix(got) == {i \in 1..MaxSeq : Holds(got, i)}

Expected(got) == 1 + Cardinality(Prefix(got))

\* What a segment puts at position i.
Puts(s, i) ==
  CASE s.kind = "DATA" /\ i - s.seq \in 0..(Len(s.bytes) - 1) -> s.bytes[i - s.seq + 1]
    [] s.kind = "FIN" /\ i = s.seq -> FinMark
    [] OTHER -> NoByte

\* The peer after the segments in S reached it; what it has it keeps.
PeerGets(p, S) ==
  [p EXCEPT !.syn = @ \/ SynAck \in S,
            !.alive = @ /\ Rst \notin S,
            !.got = [i \in 1..MaxSeq |->
                       IF @[i] = NoByte /\ \E s \in S : Puts(s, i) # NoByte
                       THEN Puts(CHOOSE s \in S : Puts(s, i) # NoByte, i)
                       ELSE @[i]]]

----------------------------------------------------------------------------

Init ==
  /\ \E wnd \in Windows :
       flow = [state |-> "SYN_RCVD", snd_una |-> 0, snd_nxt |-> 0,
               peer_wnd |-> wnd, fin_sent |-> FALSE, fin_received |-> FALSE,
               fin_pending |-> FALSE, rst |-> FALSE, app_closed |-> FALSE,
               probe_in_flight |-> FALSE, tcp_connections |-> 0,
               active_write |-> FALSE, write_id |-> 0, total |-> 0, offset |-> 0,
               start_seq |-> 0, implicit_accept |-> FALSE,
               pc |-> "none", wake |-> "none", last_una |-> 0,
               retransmits |-> 0, probes |-> 0, segment |-> <<>>, out |-> {},
               writes |-> 0, totals |-> [id \in 1..MaxWrites |-> 0], done |-> [id \in 1..MaxWrites |-> <<>>]]
  /\ peer = [syn |-> FALSE, alive |-> TRUE, got |-> [i \in 1..MaxSeq |-> NoByte],
             budget |-> PeerBudget]

\* A handler turned the flow into f; each segment it sent arrives or is lost.
Commit(f, p) ==
  \E S \in SUBSET f.out :
    /\ flow' = [f EXCEPT !.out = {}]
    /\ peer' = PeerGets(p, S)

Call(f) == Commit(f, peer)

AppAccept == Call(accept_flow(flow))
AppReject == Call(abort_flow(flow))
AppWrite == \E n \in 0..MaxTotal : flow.writes < MaxWrites /\ Call(start_write(flow, n))
AppShutdownSend == flow.state # "CLOSED" /\ Call(shutdown_send(flow))
AppClose == Call(close(flow))
AppReset == Call(reset(flow))

Sweep == flow.state \in SweptStates /\ Call(sweep(flow))
CloseAll == Call(close_flow(flow, "operation_aborted"))

Timer == Parked(flow) /\ Call([flow EXCEPT !.wake = "timeout"])

Resume == flow.wake # "none" /\ ~StaleWake(flow) /\ Call(resume(flow))
ResumeStale == StaleWake(flow) /\ \E f \in stale_persist_timeout(flow) : Call(f)

(* The device finished the data segment of the coroutine: written, and then  *)
(* received or lost, or failed.                                              *)
DeviceDone ==
  /\ flow.pc = "device"
  /\ flow.wake = "none"
  /\ \/ Call([flow EXCEPT !.wake = "signal", !.segment = <<>>, !.out = {flow.segment[1]}])
     \/ Call([flow EXCEPT !.wake = "error", !.segment = <<>>])

(* on_packet, for a flow that is in the table: a new SYN ends a TIME_WAIT. *)
on_packet(f, s) ==
  IF f.state = "TIME_WAIT" /\ s.syn THEN close_flow(f, "success")
                                   ELSE handle_segment(f, s)

\* A segment of the peer, however long it was under way.
Receive(s) ==
  /\ peer.alive
  /\ peer.budget > 0
  /\ flow.state # "CLOSED"
  /\ Commit(on_packet(flow, s),
            [peer EXCEPT !.budget = @ - 1, !.alive = ~s.rst])

PeerSyn == Receive([ack |-> 0, wnd |-> 0, syn |-> TRUE, fin |-> FALSE, rst |-> FALSE])
PeerRst == Receive([ack |-> 0, wnd |-> 0, syn |-> FALSE, fin |-> FALSE, rst |-> TRUE])
PeerAck ==
  /\ peer.syn
  /\ \E ack \in 1..Expected(peer.got), wnd \in Windows, fin \in BOOLEAN :
       Receive([ack |-> ack, wnd |-> wnd, syn |-> FALSE, fin |-> fin, rst |-> FALSE])

Next ==
  \/ AppAccept \/ AppReject \/ AppWrite \/ AppShutdownSend \/ AppClose \/ AppReset
  \/ Sweep \/ CloseAll
  \/ Timer \/ Resume \/ ResumeStale \/ DeviceDone
  \/ PeerSyn \/ PeerRst \/ PeerAck

Spec == Init /\ [][Next]_vars

(* What write_loop waits for: one of these at a time, by its position.        *)
CoroutineSteps == Resume \/ ResumeStale \/ DeviceDone \/ Timer

(* The io_context runs what is ready, the device finishes its writes and      *)
(* timers expire.  Nothing is assumed of the peer or the application.  This   *)
(* is weak fairness of both, for CoroutineSteps written with the states in    *)
(* which they are enabled: while the coroutine exists.                        *)
FairSpec ==
  /\ Spec
  /\ <>[](flow.pc # "none") => []<><<CoroutineSteps>>_vars
  /\ WF_vars(Sweep)

----------------------------------------------------------------------------
(* Properties. *)

Bytes == {Byte(id, off) : id \in 1..MaxWrites, off \in 0..(MaxTotal - 1)} \cup {Garbage}

TypeOK ==
  /\ flow.state \in States
  /\ flow.snd_una \in 0..MaxSeq /\ flow.snd_nxt \in 0..MaxSeq
  /\ flow.peer_wnd \in Windows
  /\ \A b \in {flow.fin_sent, flow.fin_received, flow.fin_pending, flow.rst,
               flow.app_closed, flow.probe_in_flight, flow.active_write,
               flow.implicit_accept} : b \in BOOLEAN
  /\ flow.total \in 0..MaxTotal /\ flow.offset \in 0..flow.total
  /\ flow.pc \in {"none", "start", "handshake", "window", "ack", "device"}
  /\ flow.wake \in {"none", "signal", "timeout", "error"}
  /\ flow.retransmits \in 0..MaxRetransmits /\ flow.probes \in 0..MaxProbes
  /\ flow.out = {}
  /\ flow.done \in [1..MaxWrites -> Seq(Codes)]
  /\ peer.got \in [1..MaxSeq -> Bytes \cup {NoByte, FinMark}]

(* The write offset and the sequence space stay in step through segments,     *)
(* probes and the FIN, which is what lets retransmit_unacked map sequence     *)
(* numbers to offsets of the user's buffer; nothing unsent is acknowledged.   *)
OffsetInStep ==
  /\ flow.snd_una <= flow.snd_nxt
  /\ flow.active_write /\ flow.pc # "start" =>
       flow.start_seq + flow.offset + (IF flow.fin_sent THEN 1 ELSE 0) = flow.snd_nxt

(* The stream the peer reads is the application's writes in order, each whole *)
(* unless it failed: no byte is skipped, repeated or out of place, whatever   *)
(* was lost, probed, retransmitted or refused by the device.  (What a stale   *)
(* wake-up may send is the subject of NoStaleWake.)                           *)
StreamInOrder ==
  \A i \in Prefix(peer.got) :
    LET b == peer.got[i]
        a == peer.got[i - 1]
    IN  b \notin {FinMark, Garbage} =>
          /\ b[2] > 0 => i > 1 /\ a = Byte(b[1], b[2] - 1)
          /\ b[2] = 0 /\ i > 1 =>
               /\ a[1] < b[1]
               /\ a[2] + 1 = flow.totals[a[1]] \/ flow.done[a[1]] = <<"bad_descriptor">>

(* A write is reported successful only when the peer holds all of its bytes.  *)
SuccessDelivered ==
  \A id \in 1..MaxWrites :
    "success" \in {flow.done[id][i] : i \in DOMAIN flow.done[id]} =>
      \A off \in 0..(flow.totals[id] - 1) :
        \E i \in Prefix(peer.got) : peer.got[i] = Byte(id, off)

(* Every write's handler is completed exactly once, by the coroutine, the     *)
(* closing of the flow or the application's close, whichever comes first.     *)
WritesCompleteOnce ==
  \A id \in 1..flow.writes :
    Len(flow.done[id]) = IF flow.active_write /\ flow.write_id = id THEN 0 ELSE 1

(* tcp_connections counts the flow exactly while it is an opened connection.  *)
ConnectionCounted == flow.tcp_connections = IF flow.state \in Opened THEN 1 ELSE 0

(* What every handler finds and leaves: the types, the offset in step with    *)
(* the sequence space, and the connection counted.                            *)
FlowInv == TypeOK /\ OffsetInStep /\ ConnectionCounted

(* The FIN ends the stream: no sequence number is used after it, neither by   *)
(* segments nor by a probe acknowledged late.  (After close() a stale wake-up *)
(* can, see NoStaleWake.)                                                     *)
NothingAfterFin ==
  [][flow.fin_sent /\ ~flow.app_closed => flow'.snd_nxt = flow.snd_nxt]_vars

(* A pending write ends, acknowledged or with an error, even when the peer    *)
(* falls silent - except in CLOSE_WAIT (see WritesEnd).                       *)
WritesEndUnlessCloseWait ==
  flow.active_write ~> (~flow.active_write \/ flow.state = "CLOSE_WAIT")

(* A pending write ends: RTO and persist limits keep it from hanging forever. *)
WritesEnd == flow.active_write ~> ~flow.active_write

(* The coroutine never wakes up to read a write that was completed while it   *)
(* was suspended: the user's buffers are only valid until then.               *)
NoStaleWake == ~StaleWake(flow)

(* The engine takes its FIN for acknowledged only when the peer received it.  *)
FinAckedIsReceived ==
  flow.state \in {"FIN_WAIT_2", "TIME_WAIT"} => \E i \in Prefix(peer.got) : peer.got[i] = FinMark

=============================================================================
