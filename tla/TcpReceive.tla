----------------------------- MODULE TcpReceive -----------------------------
(***************************************************************************)
(* One TCP connection of the engine, seen from its receiving side:         *)
(* src/tcp_engine.cpp and include/tunio/detail/tcp_engine.hpp.             *)
(*                                                                         *)
(* The peer's stream is the bytes 1..StreamLen, each named by its place,   *)
(* and a FIN at StreamLen + 1.  Sequence numbers are relative to irs, so   *)
(* that rcv_nxt is the place of the next byte.  Segments arrive late,      *)
(* again, overlapping and out of order.  Everything runs on one strand: a  *)
(* handler is one step, an operator from flow records to flow records      *)
(* composed as the code composes its calls; out collects the segments it   *)
(* sends, reduced to what the peer learns, acknowledgement and window.     *)
(* Other flows and sessions share the buffer accountant and may take and   *)
(* return budget between the steps of this flow.  The application does not *)
(* write here (TcpFlow models that side); it may shut down, close, reset.  *)
(***************************************************************************)
EXTENDS Naturals, Sequences, FiniteSets

CONSTANTS
  StreamLen,  \* bytes the peer sends
  Mss,        \* mss() of the engine
  FixedWnd,   \* fixed_rcv_wnd
  WndUnit,    \* 2^rcv_wnd_scale: granularity of an advertised window
  MaxRx,      \* max_rx_queue_per_flow
  Limit,      \* max_total_buffer, the accountant's limit
  OooMax,     \* tcp_ooo_max_segments
  ReadSizes,  \* sizes of the application's read buffers
  SegMax,     \* bound: bytes of one segment of the peer
  TakeSizes,  \* bound: what other flows take at a time
  MaxFaults   \* bound: how often the peer misses what the engine sends, or
              \* other flows take budget

ASSUME ReceiveAssumption ==
  /\ StreamLen \in Nat \ {0} /\ Mss \in Nat \ {0} /\ SegMax \in Nat \ {0}
  /\ FixedWnd \in Nat /\ MaxRx \in Nat /\ Limit \in Nat \ {0} /\ OooMax \in Nat
  /\ WndUnit \in 1..Mss
  /\ ReadSizes \subseteq Nat /\ TakeSizes \subseteq Nat
  /\ MaxFaults \in Nat

VARIABLES
  flow,  \* the tcp_flow, its active_read, and account.used
  other, \* budget other flows hold: [held, takes]
  peer   \* what the peer knows: [una, edge, fin_seen, lost]

vars == <<flow, other, peer>>

FinPlace == StreamLen + 1

States == {"CLOSED", "SYN_RCVD", "SYN_ACK_SENT", "ESTABLISHED", "FIN_WAIT_1",
           "FIN_WAIT_2", "CLOSE_WAIT", "LAST_ACK", "TIME_WAIT"}

Least(a, b) == IF a < b THEN a ELSE b
Most(a, b) == IF a < b THEN b ELSE a

\* The bytes from place a up to, not including, place b.
Bytes(a, b) == [i \in 1..(b - a) |-> a + i - 1]
Drop(s, n) == SubSeq(s, n + 1, Len(s))

End(s) == s.seq + Len(s.data)

\* The bytes that segments hold, a byte for each segment that holds it.
Held(segs) == UNION {{s} \X (s.seq .. End(s) - 1) : s \in segs}
Total(segs) == Cardinality(Held(segs))

----------------------------------------------------------------------------
(* buffer_accountant. *)

CanReserve(f, n) == n <= Limit /\ f.used <= Limit - n
reserve(f, n) == [f EXCEPT !.used = @ + n]
release(f, n) == [f EXCEPT !.used = @ - n]

----------------------------------------------------------------------------
(* Acknowledgements and the window. *)

\* Mutant of current_wnd: queued bytes do not shrink the window.
current_wnd_total(f) == IF Least(FixedWnd, MaxRx) < Mss THEN 0 ELSE Least(FixedWnd, MaxRx)

(* current_wnd. *)
current_wnd(f) ==
  LET queued == Len(f.rx_data) + f.ooo_bytes
      room == IF MaxRx > queued THEN MaxRx - queued ELSE 0
      global_avail == IF Limit > f.used THEN Limit - f.used ELSE 0
      wnd == Least(FixedWnd, Least(room, global_avail))
  IN  IF wnd < Mss THEN 0 ELSE wnd

\* The window as the peer reads it.  It shifts the field back unless the
\* segment is a SYN; the field is shifted unless the state is SYN_ACK_SENT,
\* which accept_flow sets only after its SYN+ACK.
Told(f, kind) ==
  LET wnd == current_wnd(f)
  IN  IF kind # "SYN" THEN (wnd \div WndUnit) * WndUnit
      ELSE IF f.state = "SYN_ACK_SENT" THEN wnd ELSE wnd \div WndUnit

(* build_segment and send_segment: every segment acknowledges. *)
send_segment(f, kind) ==
  IF f.state = "CLOSED"
  THEN f
  ELSE [f EXCEPT !.ack_pending = FALSE,
                 !.last_wnd = current_wnd(f),
                 !.out = Append(@, [kind |-> kind, ack |-> f.rcv_nxt,
                                      wnd |-> Told(f, kind)])]

send_ack(f) == send_segment(f, "ACK")

(* note_data_ack.  ack_timer is an armed delayed-ACK timer; arming it again *)
(* cancels the wait before.                                                 *)
note_data_ack(f) ==
  IF f.ack_pending
  THEN send_ack(f)
  ELSE [f EXCEPT !.ack_pending = TRUE, !.ack_timer = TRUE]

flush_pending_ack(f) == IF f.ack_pending THEN send_ack(f) ELSE f

\* Mutant of notify_window_updated: only growth from a window that was open.
notify_window_updated_open(f) ==
  LET wnd == current_wnd(f)
  IN  IF f.state = "CLOSED"
      THEN f
      ELSE [(IF f.last_wnd # 0 /\ wnd > f.last_wnd + Mss THEN send_ack(f) ELSE f)
              EXCEPT !.last_wnd = wnd]

(* notify_window_updated. *)
notify_window_updated(f) ==
  LET wnd == current_wnd(f)
      was_zero == f.last_wnd = 0
  IN  IF f.state = "CLOSED"
      THEN f
      ELSE [(IF \/ was_zero /\ wnd >= Mss
                \/ ~was_zero /\ wnd > f.last_wnd + Mss
             THEN send_ack(f)
             ELSE f)
              EXCEPT !.last_wnd = wnd]

----------------------------------------------------------------------------
(* Delivery to the application.  delivered and eof record what its reads   *)
(* were completed with, owed the reads started and not completed.          *)

\* The active read is taken out and its handler posted with bytes.
complete_read(f, bytes) ==
  [f EXCEPT !.active_read = 0, !.owed = @ - 1, !.delivered = @ \o bytes]

\* ... or with an error.
fail_read(f) ==
  IF f.active_read # 0 THEN complete_read(f, <<>>) ELSE f

\* A read that still waits when the stream is over gets the end of it.
read_eof(f) ==
  IF f.rx_data = <<>> /\ f.fin_received /\ f.active_read # 0
  THEN [complete_read(f, <<>>) EXCEPT !.eof = TRUE]
  ELSE f

(* flush_reads. *)
flush_reads(f) ==
  LET n == Least(f.active_read, Len(f.rx_data))
  IN  read_eof(IF f.active_read # 0 /\ f.rx_data # <<>>
               THEN flush_pending_ack(notify_window_updated(
                      release([complete_read(f, SubSeq(f.rx_data, 1, n)) EXCEPT
                                 !.rx_data = Drop(@, n)], n)))
               ELSE f)

\* A read waits and nothing is queued before the data.
Direct(f) == f.rx_data = <<>> /\ f.active_read # 0

(* deliver_data: discarded after shutdown_receive, dropped without an      *)
(* acknowledgement when a limit is reached, else handed to a waiting read  *)
(* or queued.                                                              *)
deliver_data(f, data) ==
  LET len == Len(data)
      n == Least(f.active_read, len)
      taken == [reserve(f, len) EXCEPT !.rcv_nxt = @ + len]
  IN  IF f.rx_shutdown
      THEN send_ack([f EXCEPT !.rcv_nxt = @ + len])
      ELSE IF Len(f.rx_data) + len > MaxRx \/ ~CanReserve(f, len)
      THEN f
      ELSE IF Direct(f)
      THEN send_ack(
             LET g == [complete_read(release(taken, n), SubSeq(data, 1, n))
                         EXCEPT !.rx_data = Drop(data, n)]
             IN  IF n < len THEN flush_reads(g) ELSE g)
      ELSE flush_reads(note_data_ack([taken EXCEPT !.rx_data = @ \o data]))

\* Mutant of handle_fin: a read that waits is not told.
handle_fin_silent(f, fin_seq) ==
  IF fin_seq = f.rcv_nxt
  THEN send_ack([f EXCEPT !.rcv_nxt = @ + 1, !.fin_received = TRUE,
                          !.state = IF @ = "ESTABLISHED" THEN "CLOSE_WAIT" ELSE @])
  ELSE f

(* handle_fin. *)
handle_fin(f, fin_seq) ==
  IF fin_seq = f.rcv_nxt
  THEN LET g == IF f.fin_received THEN f
                ELSE [f EXCEPT !.rcv_nxt = @ + 1, !.fin_received = TRUE]
       IN  flush_reads(
             [send_ack(g) EXCEPT !.state = CASE @ = "ESTABLISHED" -> "CLOSE_WAIT"
                                             [] @ = "FIN_WAIT_2" -> "TIME_WAIT"
                                             [] OTHER -> @])
  ELSE IF f.fin_received /\ fin_seq + 1 = f.rcv_nxt
  THEN send_ack(f)
  ELSE f

----------------------------------------------------------------------------
(* Reassembly. *)

\* Cached segments leave the cache and return their budget.
forget(f, segs) ==
  LET n == Total(segs)
  IN  release([f EXCEPT !.ooo_cache = @ \ segs, !.ooo_bytes = @ - n], n)

(* flush_ooo, first loop: segments rcv_nxt has passed.  The one that ends   *)
(* with a FIN just here is the last of them in the order of the map.        *)
prune(f) ==
  LET passed == {s \in f.ooo_cache : End(s) <= f.rcv_nxt}
      last == {s \in passed : s.fin /\ End(s) = f.rcv_nxt}
      g == forget(f, passed \ last)
  IN  IF last = {} THEN g ELSE forget(handle_fin(g, f.rcv_nxt), last)

\* The segment that holds the next byte: exactly at it, or reaching over it.
Candidates(f) ==
  LET exact == {s \in f.ooo_cache : s.seq = f.rcv_nxt}
  IN  IF exact # {} THEN exact
      ELSE {s \in f.ooo_cache : s.seq < f.rcv_nxt /\ f.rcv_nxt < End(s)}

\* The data of a cached segment, if any, and its FIN, once it is reached.
deliver_cached(f, data) == IF data # <<>> THEN deliver_data(f, data) ELSE f
fin_cached(f, s) == IF s.fin /\ End(s) = f.rcv_nxt THEN handle_fin(f, End(s)) ELSE f

\* Mutant of take_next: an overlapping segment is delivered from its start.
take_next_whole(f) ==
  IF f.state = "CLOSED" \/ Candidates(f) = {}
  THEN f
  ELSE LET s == CHOOSE c \in Candidates(f) : TRUE
       IN  fin_cached(deliver_cached(notify_window_updated(forget(f, {s})), s.data), s)

(* flush_ooo, one turn of the second loop. *)
take_next(f) ==
  IF f.state = "CLOSED" \/ Candidates(f) = {}
  THEN f
  ELSE LET s == CHOOSE c \in Candidates(f) : TRUE
       IN  fin_cached(deliver_cached(notify_window_updated(forget(f, {s})),
                                     Drop(s.data, f.rcv_nxt - s.seq)), s)

\* Mutant of flush_ooo: without the first loop.
flush_ooo_unpruned(f) ==
  LET loop[n \in 0..Cardinality(f.ooo_cache)] ==
        IF n = 0 THEN f ELSE take_next(loop[n - 1])
  IN  IF Candidates(f) # {} THEN send_ack(loop[Cardinality(f.ooo_cache)]) ELSE f

\* The second loop, and what is said at the end; cache is that of the start.
flush_loop(p, cache) ==
  LET loop[n \in 0..Cardinality(p.ooo_cache)] ==
        IF n = 0 THEN p ELSE take_next(loop[n - 1])
  IN  IF Candidates(p) # {}
      THEN send_ack(loop[Cardinality(p.ooo_cache)])
      ELSE IF p.ooo_cache # cache THEN notify_window_updated(p) ELSE p

(* flush_ooo. *)
flush_ooo(f) == flush_loop(prune(f), f.ooo_cache)

\* Places two segments share.
Shared(s, t) ==
  LET lo == Most(s.seq, t.seq)
      hi == Least(End(s), End(t))
  IN  IF lo < hi THEN hi - lo ELSE 0

\* What is left of a cached segment beside a new one, and whether the new
\* one swallowed a FIN cached alone.
Beside(old, new) ==
  IF Shared(old, new) = 0
  THEN IF old.data = <<>> /\ old.fin /\ old.seq \in new.seq..(End(new) - 1)
       THEN {} ELSE {old}
  ELSE (IF old.seq < new.seq
        THEN {[seq |-> old.seq, data |-> SubSeq(old.data, 1, new.seq - old.seq),
               fin |-> FALSE]}
        ELSE {})
       \cup
       (IF End(old) > End(new)
        THEN {[seq |-> End(new), data |-> Drop(old.data, End(new) - old.seq),
               fin |-> old.fin]}
        ELSE {})

(* ooo_append, last loop, one turn: the segment that ends where cur begins, *)
(* else the one that begins where cur ends.                                 *)
merge_once(m) ==
  LET left == {s \in m.cache \ {m.cur} : ~s.fin /\ End(s) = m.cur.seq}
      right == {s \in m.cache \ {m.cur} : s.seq = End(m.cur)}
      join(a, b) == [seq |-> a.seq, data |-> a.data \o b.data, fin |-> b.fin]
      into(c, gone) == [cache |-> (m.cache \ {m.cur, gone}) \cup {c}, cur |-> c]
  IN  IF left # {}
      THEN LET s == CHOOSE x \in left : TRUE IN into(join(s, m.cur), s)
      ELSE IF right = {} THEN m
      ELSE LET s == CHOOSE x \in right : TRUE
           IN  IF ~m.cur.fin THEN into(join(m.cur, s), s)
               ELSE IF s.data = <<>> /\ s.fin THEN into(m.cur, s)
               ELSE m

\* The cache with a new segment: old ones trimmed, neighbours joined.
Inserted(cache, new) ==
  LET kept == UNION {Beside(s, new) : s \in cache}
      start == [cache |-> kept \cup {new}, cur |-> new]
      loop[n \in 0..Cardinality(kept)] == IF n = 0 THEN start ELSE merge_once(loop[n - 1])
  IN  loop[Cardinality(kept)].cache

\* A FIN without data that came early.
append_fin(f, seq) ==
  LET before == {s \in f.ooo_cache : End(s) = seq}
      over == {s \in f.ooo_cache : s.seq <= seq /\ End(s) > seq}
  IN  IF before # {}
      THEN IF \E s \in before : s.fin
           THEN send_ack(f)
           ELSE [f EXCEPT !.ooo_cache = (@ \ before) \cup {[s EXCEPT !.fin = TRUE] : s \in before}]
      ELSE IF over # {} \/ Cardinality(f.ooo_cache) >= OooMax
      THEN send_ack(f)
      ELSE [f EXCEPT !.ooo_cache = @ \cup {[seq |-> seq, data |-> <<>>, fin |-> TRUE]}]

\* Bytes of a new segment that are not cached yet.
NetAdd(f, new) ==
  Len(new.data)
    - Cardinality({x \in Held(f.ooo_cache) : x[2] \in new.seq .. End(new) - 1})

(* ooo_append, for data; a segment it refuses is answered by an ACK. *)
ooo_append(f, new) ==
  LET net_add == NetAdd(f, new)
      ending == {s \in f.ooo_cache : End(s) = End(new)}
      covered == \E s \in ending : s.fin
      touches == \E s \in f.ooo_cache : s.seq <= End(new) /\ End(s) >= new.seq
  IN  IF net_add = 0
      THEN IF ~new.fin \/ covered \/ ending = {}
           THEN send_ack(f)
           ELSE [f EXCEPT !.ooo_cache = (@ \ ending) \cup {[s EXCEPT !.fin = TRUE] : s \in ending}]
      ELSE IF \/ Cardinality(f.ooo_cache) >= OooMax /\ ~touches
              \/ Len(f.rx_data) + f.ooo_bytes + net_add > MaxRx
              \/ ~CanReserve(f, net_add)
      THEN send_ack(f)
      ELSE [reserve(f, net_add) EXCEPT
              !.ooo_bytes = @ + net_add,
              !.ooo_cache = Inserted(@, [new EXCEPT !.fin = new.fin \/ covered])]

(* handle_data: data at rcv_nxt and data that overlaps it differ in how     *)
(* much of it is dropped.                                                   *)
handle_data(f, s) ==
  IF s.seq > f.rcv_nxt THEN ooo_append(f, s)
  ELSE IF End(s) > f.rcv_nxt
  THEN flush_ooo(deliver_data(f, Drop(s.data, f.rcv_nxt - s.seq)))
  ELSE send_ack(f)

----------------------------------------------------------------------------
(* Closing. *)

\* Queued and cached data go, and return their budget.
discard(f) ==
  [release(f, Len(f.rx_data) + f.ooo_bytes) EXCEPT
     !.rx_data = <<>>, !.ooo_cache = {}, !.ooo_bytes = 0]

\* Mutant of close_flow: cached bytes stay charged.
close_flow_leaking(f) ==
  IF f.state = "CLOSED"
  THEN f
  ELSE [release(fail_read(f), Len(f.rx_data)) EXCEPT
          !.rx_data = <<>>, !.ooo_cache = {}, !.ooo_bytes = 0,
          !.state = "CLOSED", !.ack_timer = FALSE]

(* close_flow: the read is completed with the error, the delayed-ACK timer *)
(* cancelled.                                                              *)
close_flow(f) ==
  IF f.state = "CLOSED"
  THEN f
  ELSE [discard(fail_read(f)) EXCEPT !.state = "CLOSED", !.ack_timer = FALSE]

(* abort_flow, and reject_flow. *)
abort_flow(f) == close_flow(send_segment(f, "RST"))

(* accept_flow. *)
accept_flow(f) ==
  IF f.state = "SYN_RCVD"
  THEN [send_segment(f, "SYN") EXCEPT !.state = "SYN_ACK_SENT"]
  ELSE f

\* snd_una # snd_nxt, for a flow that sends a SYN and a FIN and no data.
Unacked(f) == f.state = "SYN_ACK_SENT" \/ (f.fin_sent /\ ~f.fin_acked)

(* send_fin. *)
send_fin(f) ==
  IF f.fin_sent \/ f.state = "CLOSED" THEN f
  ELSE IF Unacked(f) THEN [f EXCEPT !.fin_pending = TRUE]
  ELSE IF f.state \in {"SYN_RCVD", "SYN_ACK_SENT"}
  THEN abort_flow([f EXCEPT !.fin_sent = TRUE])
  ELSE [send_segment(f, "FIN") EXCEPT
          !.fin_sent = TRUE,
          !.state = CASE f.state = "ESTABLISHED" -> "FIN_WAIT_1"
                      [] f.state = "CLOSE_WAIT" -> "LAST_ACK"
                      [] OTHER -> f.state]

(* handle_ack.  An acknowledgement covers the SYN, or the FIN as well.  A  *)
(* FIN that was held back for the SYN is sent while the state is still     *)
(* SYN_ACK_SENT, and so aborts the connection.                             *)
handle_ack(f, of_fin) ==
  IF f.state = "SYN_ACK_SENT" /\ f.fin_pending
  THEN abort_flow([f EXCEPT !.fin_pending = FALSE, !.fin_sent = TRUE])
  ELSE IF ~of_fin \/ f.state = "CLOSED" THEN f
  ELSE LET g == [f EXCEPT !.fin_acked = TRUE]
       IN  CASE f.state = "FIN_WAIT_1" ->
                  [g EXCEPT !.state = IF f.fin_received THEN "TIME_WAIT" ELSE "FIN_WAIT_2"]
             [] f.state = "LAST_ACK" -> close_flow(g)
             [] OTHER -> g

\* handle_segment: the handshake is over; the data; the FIN.
established(f) ==
  IF f.state = "SYN_ACK_SENT" THEN flush_reads([f EXCEPT !.state = "ESTABLISHED"]) ELSE f
payload(f, s) == IF s.data # <<>> THEN handle_data(f, s) ELSE f
final(f, s) ==
  IF ~s.fin THEN f
  ELSE IF s.data = <<>> /\ s.seq > f.rcv_nxt THEN append_fin(f, s.seq)
  ELSE handle_fin(f, End(s))

\* ... unless the acknowledgement ended the flow.
acknowledged(f, s) ==
  IF f.state \in {"CLOSED", "SYN_RCVD"} THEN f ELSE final(payload(established(f), s), s)

(* handle_segment, for a segment of an open flow.  (A peer that has the     *)
(* SYN+ACK acknowledges it in every segment.)                              *)
handle_segment(f, s, of_fin) == acknowledged(handle_ack(f, of_fin), s)

----------------------------------------------------------------------------
(* The specification. *)

Init ==
  /\ \E tfo \in 0..Least(StreamLen, SegMax) :
       \* on_packet: a SYN, with data when the client uses TCP Fast Open.
       LET kept == IF tfo <= MaxRx /\ tfo <= Limit THEN tfo ELSE 0
       IN  flow = [state |-> "SYN_RCVD", rcv_nxt |-> 1 + kept, rx_data |-> Bytes(1, 1 + kept),
                   ooo_cache |-> {}, ooo_bytes |-> 0, used |-> kept,
                   active_read |-> 0, owed |-> 0, delivered |-> <<>>, eof |-> FALSE,
                   last_wnd |-> 0, ack_pending |-> FALSE, ack_timer |-> FALSE,
                   fin_received |-> FALSE, fin_sent |-> FALSE, fin_acked |-> FALSE,
                   fin_pending |-> FALSE, rx_shutdown |-> FALSE, app_closed |-> FALSE,
                   out |-> <<>>]
  /\ other = [held |-> 0, takes |-> 0]
  /\ peer = [una |-> 0, edge |-> 1, fin_seen |-> FALSE, lost |-> 0]

\* The handler ends with g; the last of what it sent that reaches the peer
\* is the k-th.
Becomes(g) ==
  \E h \in {g} : \E k \in 0..Len(h.out) :
    /\ flow' = [h EXCEPT !.out = <<>>]
    /\ k < Len(h.out) => peer.lost + other.takes < MaxFaults
    /\ peer' = [una |-> IF k = 0 THEN peer.una ELSE Most(peer.una, h.out[k].ack),
                edge |-> IF k = 0 THEN peer.edge
                         ELSE Most(peer.edge, h.out[k].ack + h.out[k].wnd),
                fin_seen |-> peer.fin_seen \/ (k > 0 /\ h.out[k].kind = "FIN"),
                lost |-> IF k < Len(h.out) THEN peer.lost + 1 ELSE peer.lost]

\* Segments the peer may send, first or again: any stretch of the stream up
\* to the edge of its window, and a FIN after the last byte; or only an
\* acknowledgement, of the FIN of the engine as well if it has it.
Segment(a, b, fin) == [seq |-> a, data |-> Bytes(a, b), fin |-> fin]

\* The peer has the SYN+ACK, so it knows a window.
Connected == peer.una > 0

(* on_packet: a segment of the peer arrives. *)
PeerSegment(a, b, fin, of_fin) ==
  /\ Connected
  /\ flow.state # "CLOSED"
  /\ a <= b /\ b <= Most(peer.edge, peer.una) /\ b - a <= SegMax
  /\ fin => b = FinPlace
  /\ ~fin => a < b \/ a = peer.una
  /\ of_fin => peer.fin_seen
  /\ Becomes(handle_segment(flow, Segment(a, b, fin), of_fin))
  /\ UNCHANGED other

\* The window is closed: the persist timer of the peer sends one byte more.
PeerProbe ==
  /\ Connected
  /\ flow.state # "CLOSED"
  /\ peer.edge <= peer.una /\ peer.una <= StreamLen
  /\ Becomes(handle_segment(flow, Segment(peer.una, peer.una + 1, FALSE), FALSE))
  /\ UNCHANGED other

(* handle_segment: the SYN again.  A segment without ACK before the        *)
(* handshake ends, or any in SYN_RCVD, is dropped.                         *)
PeerSynAgain ==
  /\ flow.state = "SYN_ACK_SENT"
  /\ Becomes(send_segment(flow, "SYN"))
  /\ UNCHANGED other

PeerRst ==
  /\ flow.state # "CLOSED"
  /\ Becomes(close_flow(flow))
  /\ UNCHANGED other

(* The callback of ack_timer. *)
AckTimer ==
  /\ flow.ack_timer
  /\ Becomes(LET g == [flow EXCEPT !.ack_timer = FALSE]
             IN  IF flow.ack_pending THEN send_ack(g) ELSE g)
  /\ UNCHANGED other

\* An operation of the application, or the sweep, on an open flow.
Does(g) ==
  /\ flow.state # "CLOSED"
  /\ Becomes(g)
  /\ UNCHANGED other

(* tcp_flow_start_read. *)
start_read(f, total) ==
  IF f.app_closed \/ f.rx_shutdown THEN f
  ELSE LET g == accept_flow(f)
       IN  IF total = 0 \/ g.active_read # 0 THEN g
           ELSE flush_reads([g EXCEPT !.active_read = total, !.owed = @ + 1])

AppRead(total) == Does(start_read(flow, total))
AppAccept == Does(accept_flow(flow))

(* tcp_flow_reset, and tcp_flow_reject, which does not look at app_closed. *)
AppReset == Does(abort_flow(flow))

(* tcp_flow_shutdown_receive. *)
AppShutdownReceive ==
  ~flow.rx_shutdown /\ Does(discard([fail_read(flow) EXCEPT !.rx_shutdown = TRUE]))

(* tcp_flow_shutdown_send. *)
AppShutdownSend == ~flow.app_closed /\ ~flow.fin_pending /\ Does(send_fin(flow))

(* tcp_flow_close. *)
AppClose ==
  /\ ~flow.app_closed
  /\ LET g == discard([fail_read(flow) EXCEPT !.app_closed = TRUE])
     IN  Does(IF Unacked(g) THEN abort_flow(g) ELSE send_fin(g))

(* on_sweep, close_all, and TIME_WAIT reuse: the flow is closed, with an    *)
(* RST if the handshake is not over.                                        *)
Sweep ==
  \/ flow.state \in {"SYN_RCVD", "SYN_ACK_SENT"} /\ Does(abort_flow(flow))
  \/ flow.state \in {"FIN_WAIT_1", "FIN_WAIT_2", "LAST_ACK", "TIME_WAIT"} /\ Does(close_flow(flow))
CloseAll == Does(close_flow(flow))

\* Other flows and sessions use the accountant.
OtherReserve(n) ==
  /\ peer.lost + other.takes < MaxFaults
  /\ CanReserve(flow, n)
  /\ other' = [held |-> other.held + n, takes |-> other.takes + 1]
  /\ flow' = reserve(flow, n)
  /\ UNCHANGED peer

OtherRelease ==
  /\ other.held > 0
  /\ other' = [other EXCEPT !.held = 0]
  /\ flow' = release(flow, other.held)
  /\ UNCHANGED peer

Next ==
  \/ \E a, b \in 1..FinPlace, fin, of_fin \in BOOLEAN : PeerSegment(a, b, fin, of_fin)
  \/ PeerProbe
  \/ PeerSynAgain
  \/ PeerRst
  \/ AckTimer
  \/ \E total \in ReadSizes : AppRead(total)
  \/ AppAccept \/ AppReset
  \/ AppShutdownReceive \/ AppShutdownSend \/ AppClose
  \/ Sweep \/ CloseAll
  \/ \E n \in TakeSizes : OtherReserve(n)
  \/ OtherRelease

Spec == Init /\ [][Next]_vars

(* What the peer does when it hears nothing: it sends from its first       *)
(* unacknowledged byte, up to the edge.                                    *)
RetransmitEnd == Least(FinPlace, Least(peer.una + SegMax, Most(peer.edge, peer.una)))
PeerRetransmits == PeerSegment(peer.una, RetransmitEnd, RetransmitEnd = FinPlace, FALSE)

\* The engine would answer data up to b, or take it.
Heard(b) ==
  LET len == b - Most(peer.una, flow.rcv_nxt)
  IN  \/ b <= flow.rcv_nxt
      \/ flow.rx_shutdown
      \/ Len(flow.rx_data) + len <= MaxRx /\ CanReserve(flow, len)

(* Weak fairness, written with the states in which the action is enabled   *)
(* and changes something.  Timers fire; the peer retransmits; the application keeps      *)
(* reading; other flows return what they took.  A peer's window probe is   *)
(* only counted on when a window update was lost or other flows closed the *)
(* window.                                                                 *)
FairSpec ==
  /\ Spec
  /\ <>[]flow.ack_timer => []<><<AckTimer>>_vars
  /\ <>[](other.held > 0) => []<><<OtherRelease>>_vars
  /\ <>[](flow.state = "SYN_ACK_SENT" /\ ~Connected) => []<><<PeerSynAgain>>_vars
  /\ <>[](/\ Connected /\ flow.state # "CLOSED" /\ peer.una <= FinPlace
          /\ peer.una < RetransmitEnd \/ peer.una = FinPlace
          /\ Heard(RetransmitEnd)) => []<><<PeerRetransmits>>_vars
  /\ <>[](/\ Connected /\ flow.state # "CLOSED" /\ peer.una <= StreamLen
          /\ peer.edge <= peer.una
          /\ peer.lost > 0 \/ other.takes > 0
          /\ Heard(peer.una + 1)) => []<><<PeerProbe>>_vars
  /\ <>[](/\ flow.state # "CLOSED" /\ ~flow.app_closed /\ ~flow.rx_shutdown
          /\ flow.active_read = 0 /\ ~flow.eof)
       => []<><<\E total \in ReadSizes \ {0} : AppRead(total)>>_vars

----------------------------------------------------------------------------
(* Properties. *)

Segments == [seq : 1..FinPlace, data : Seq(1..StreamLen), fin : BOOLEAN]

\* The state of the flow, of the accountant and of the peer is of the types
\* the code declares, and the sizes are in their limits.
TypeOK ==
  /\ flow.state \in States
  /\ flow.rcv_nxt \in 1..(FinPlace + 1)
  /\ flow.rx_data \in Seq(1..StreamLen) /\ Len(flow.rx_data) <= MaxRx
  /\ flow.ooo_cache \subseteq Segments
  /\ flow.ooo_bytes \in 0..MaxRx
  /\ flow.used \in 0..Limit
  /\ flow.active_read \in ReadSizes \cup {0}
  /\ flow.last_wnd \in 0..FixedWnd
  /\ flow.out = <<>>
  /\ other \in [held : 0..Limit, takes : 0..MaxFaults]
  /\ peer \in [una : 0..(FinPlace + 1), edge : 1..(FinPlace + 1 + MaxRx),
               fin_seen : BOOLEAN, lost : 0..MaxFaults]

\* The reads of the application return the stream of the peer from its first
\* byte, in order, nothing missing and nothing twice, and the queue goes on
\* where they ended (deliver_data, flush_reads, flush_ooo), however segments
\* overlap and whichever of them were cached, refused or sent again.  The end
\* of the stream is seen only after its last byte, even if the FIN was cached
\* or came with data that was refused (handle_fin).
StreamPrefix ==
  /\ flow.delivered = Bytes(1, Len(flow.delivered) + 1)
  /\ flow.eof => Len(flow.delivered) = StreamLen
  /\ (flow.state # "CLOSED" /\ ~flow.rx_shutdown /\ ~flow.app_closed) =>
        flow.delivered \o flow.rx_data
          = Bytes(1, IF flow.fin_received THEN flow.rcv_nxt - 1 ELSE flow.rcv_nxt)

\* account.used is the sum of what the flows hold, to the byte, on every path
\* that queues, caches, trims, merges, delivers, discards or closes
\* (buffer_accountant), and ooo_bytes is what the cache holds.
Accounted ==
  /\ flow.ooo_bytes = Total(flow.ooo_cache)
  /\ flow.used = Len(flow.rx_data) + flow.ooo_bytes + other.held

\* Between two handlers the reassembly cache is disjoint, merged, within
\* tcp_ooo_max_segments, true to the stream, and wholly beyond rcv_nxt: no
\* segment is left behind that a later one cannot release (flush_ooo,
\* ooo_append).
CacheTidy ==
  /\ Cardinality(flow.ooo_cache) <= OooMax
  /\ \A s \in flow.ooo_cache :
       /\ s.seq > flow.rcv_nxt
       /\ s.data = Bytes(s.seq, End(s))
       /\ s.fin => End(s) = FinPlace
       /\ \A t \in flow.ooo_cache \ {s} : End(s) < t.seq \/ End(t) < s.seq

\* What every handler finds and leaves: the types, and a tidy cache.
ReceiveInv == TypeOK /\ CacheTidy

\* A read is completed exactly once, and none waits while there is data or an
\* end of stream to give it, or on a closed flow (flush_reads, close_flow).
ReadsOwed ==
  /\ flow.owed = IF flow.active_read = 0 THEN 0 ELSE 1
  /\ flow.active_read # 0 =>
        flow.rx_data = <<>> /\ ~flow.fin_received /\ flow.state # "CLOSED"

\* The engine never promises more than it has: as long as no other flow took
\* budget since, everything up to the widest edge the peer was ever told fits
\* in the queue, so that no in-order segment inside its window is refused
\* (current_wnd, build_segment against deliver_data).
EdgeFits ==
  (flow.state # "CLOSED" /\ other.takes = 0 /\ peer.edge > flow.rcv_nxt) =>
    Len(flow.rx_data) + (peer.edge - flow.rcv_nxt) <= Least(MaxRx, Limit)

\* A read that makes room again where the engine last had none to offer
\* moves the peer's edge on, unless that message is lost or the edge already
\* leaves a full segment (notify_window_updated, whose last_wnd is also set
\* when nothing is sent).
ReadReopensWindow ==
  [][(flow'.delivered # flow.delivered /\ flow.last_wnd = 0 /\ current_wnd(flow') >= Mss)
       => peer'.edge > peer.edge \/ peer'.lost > peer.lost \/ peer.edge >= flow.rcv_nxt + Mss]_vars

\* With a peer that retransmits, an application that reads and other flows
\* that give their budget back, the end of the stream is reached unless the
\* application or the peer ends the connection first.
EofReached ==
  <>(\/ flow.eof \/ flow.state = "CLOSED"
     \/ flow.rx_shutdown \/ flow.app_closed \/ flow.fin_pending)
=============================================================================
