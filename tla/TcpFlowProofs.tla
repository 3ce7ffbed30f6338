---------------------------- MODULE TcpFlowProofs ----------------------------
(***************************************************************************)
(* Proofs about the sending side of a TCP connection, for any windows,     *)
(* segment size, limits, writes and segments of the peer.                  *)
(*                                                                         *)
(* A handler is an operator from flow records to flow records, so the      *)
(* proofs go handler by handler: each one turns a flow that satisfies      *)
(* FlowOK into one that does, and keeps what was true of the positions of  *)
(* the stream the peer may hold (Keeps).  The position of the coroutine is *)
(* a parameter of the invariant, because Loop runs it from a co_await to   *)
(* the next one and only then sets pc.                                     *)
(***************************************************************************)
EXTENDS TcpFlow, FiniteSetTheorems, SequenceTheorems, TLAPS

----------------------------------------------------------------------------
(* The inductive invariant. *)

Segments ==
  [kind : {"SYN_ACK", "DATA", "FIN", "RST"}, seq : Nat, bytes : Seq(Bytes)]

Pcs == {"none", "start", "handshake", "window", "ack", "device"}
Wakes == {"none", "signal", "timeout", "error"}

\* The members of a flow record and their types.
Fields ==
  {"state", "snd_una", "snd_nxt", "peer_wnd", "fin_sent", "fin_received",
   "fin_pending", "rst", "app_closed", "probe_in_flight", "tcp_connections",
   "active_write", "write_id", "total", "offset", "start_seq",
   "implicit_accept", "pc", "wake", "last_una", "retransmits", "probes",
   "segment", "out", "writes", "totals", "done"}

FlowTypes(f) ==
  /\ DOMAIN f = Fields
  /\ f.state \in States
  /\ f.snd_una \in Nat /\ f.snd_nxt \in Nat /\ f.start_seq \in Nat /\ f.last_una \in Nat
  /\ f.peer_wnd \in Windows
  /\ f.fin_sent \in BOOLEAN /\ f.fin_received \in BOOLEAN /\ f.fin_pending \in BOOLEAN
  /\ f.rst \in BOOLEAN /\ f.app_closed \in BOOLEAN /\ f.probe_in_flight \in BOOLEAN
  /\ f.active_write \in BOOLEAN /\ f.implicit_accept \in BOOLEAN
  /\ f.tcp_connections \in Int
  /\ f.write_id \in 0..MaxWrites /\ f.writes \in 0..MaxWrites
  /\ f.total \in 0..MaxTotal /\ f.offset \in Nat
  /\ f.pc \in Pcs /\ f.wake \in Wakes
  /\ f.retransmits \in 0..MaxRetransmits /\ f.probes \in 0..MaxProbes
  /\ f.segment \in Seq(Segments) /\ f.out \subseteq Segments
  /\ f.totals \in [1..MaxWrites -> 0..MaxTotal]
  /\ f.done \in [1..MaxWrites -> Seq(Codes)]

\* The FIN takes one sequence number.
FinOne(f) == IF f.fin_sent THEN 1 ELSE 0

\* Most bytes the first k writes can have.
Room(k) == k * MaxTotal

\* The coroutine, the write it works for and the states they may be in.
Lifecycle(f, pc) ==
  /\ f.active_write =>
       /\ f.write_id \in 1..f.writes
       /\ pc # "none"
       /\ f.state \notin {"CLOSED", "SYN_RCVD"}
       /\ ~f.app_closed
       /\ f.total > 0 /\ f.totals[f.write_id] = f.total
  /\ ~f.active_write => f.total = 0
  /\ ~f.active_write /\ f.state # "CLOSED" /\ ~f.app_closed => pc = "none"
  /\ f.offset <= f.total
  /\ f.rst => f.state = "CLOSED"

\* The FIN goes with the states that follow it, and after all the data; m, when
\* it is a number, is the one after the FIN.
FinLast(f, m) ==
  /\ f.fin_sent => f.state \notin {"SYN_RCVD", "SYN_ACK_SENT"}
  /\ f.state \in {"FIN_WAIT_1", "FIN_WAIT_2", "LAST_ACK", "TIME_WAIT"} => f.fin_sent
  /\ f.app_closed /\ f.state # "CLOSED" => f.fin_sent
  /\ f.active_write /\ f.fin_sent => f.offset = f.total
  /\ m \in Nat => f.fin_sent /\ ~f.app_closed /\ f.snd_nxt = m

\* Sequence numbers and the offset.
InStep(f, pc) ==
  /\ f.snd_una <= f.snd_nxt
  /\ f.state = "SYN_RCVD" => f.snd_nxt = 0 /\ ~f.probe_in_flight
  /\ f.state \notin {"SYN_RCVD", "CLOSED"} => f.snd_nxt > 0
  /\ f.active_write /\ pc = "start" => f.offset = 0 /\ ~f.fin_sent
  /\ f.active_write /\ pc # "start" =>
       f.start_seq > 0 /\ f.start_seq + f.offset + FinOne(f) = f.snd_nxt

\* The sequence numbers never outgrow the writes, the SYN, the FIN and the one
\* byte a stale wake-up may send.
Bounded(f, pc) ==
  /\ f.active_write /\ pc = "start" => f.snd_nxt <= 1 + Room(f.write_id - 1)
  /\ f.active_write /\ pc # "start" => f.start_seq <= 1 + Room(f.write_id - 1)
  /\ ~f.active_write /\ f.state # "CLOSED" /\ ~f.app_closed =>
       f.snd_nxt <= 1 + Room(f.writes) + FinOne(f)
  /\ f.app_closed /\ f.state # "CLOSED" =>
       f.snd_nxt + (IF pc # "none" \/ f.probe_in_flight THEN 1 ELSE 0) <= 3 + Room(f.writes)
  /\ f.snd_nxt <= 3 + Room(f.writes)

\* What a suspended coroutine can be woken by.
WakeOK(f) ==
  /\ f.pc = "none" => f.wake = "none"
  /\ f.pc = "start" => f.wake = "signal"
  /\ f.pc \in {"handshake", "window", "ack"} => f.wake # "error"
  /\ f.pc = "device" => f.wake # "timeout"
  /\ f.pc = "device" /\ f.wake = "none" => Len(f.segment) = 1

\* tcp_connections counts the flow while it is open.
Counted(f) == f.tcp_connections = IF f.state \in Opened THEN 1 ELSE 0

\* A write that was started is completed once, unless it is the active one.
Once(f) ==
  \A id \in 1..MaxWrites :
    Len(f.done[id]) =
      IF id <= f.writes /\ ~(f.active_write /\ f.write_id = id) THEN 1 ELSE 0

\* A handler was completed with success.
Succeeded(codes) == \E i \in DOMAIN codes : codes[i] = "success"

\* The peer acknowledged less than e: it holds the stream before it.  D is the
\* set of the writes it holds.
Acked(f, pc, e, D) ==
  /\ f.snd_una <= e
  /\ f.active_write /\ f.state \in {"FIN_WAIT_2", "TIME_WAIT"} => f.snd_nxt <= e
  /\ f.active_write /\ pc # "start" /\ f.start_seq + f.total <= e => f.write_id \in D
  /\ \A id \in 1..MaxWrites :
       Succeeded(f.done[id]) => id \in D \/ f.totals[id] = 0

FlowOK(f, pc, e, D, m) ==
  /\ FlowTypes(f)
  /\ Lifecycle(f, pc)
  /\ FinLast(f, m)
  /\ InStep(f, pc)
  /\ Bounded(f, pc)
  /\ WakeOK(f)
  /\ Counted(f)
  /\ Once(f)
  /\ Acked(f, pc, e, D)

----------------------------------------------------------------------------
(* What the peer may hold. *)

\* The byte at snd_nxt, which only a probe carries: while the write has unsent
\* bytes and the coroutine waits, or when the flow will send no more.
ProbeOut(f, pc) ==
  \/ f.active_write /\ pc \in {"handshake", "window", "ack"} /\ f.offset < f.total
  \/ f.app_closed /\ pc = "none"
  \/ f.state = "CLOSED"

\* b may stand at position i of the stream.
PosOK(f, pc, i, b) ==
  /\ i < f.snd_nxt \/ (i = f.snd_nxt /\ ProbeOut(f, pc))
  /\ f.active_write /\ pc # "start" /\ i >= f.start_seq /\ i < f.start_seq + f.total =>
       b = Byte(f.write_id, i - f.start_seq)

\* What may stand somewhere still may, and the writes that were started stay.
Keeps(f, pc, g, qc) ==
  /\ \A i \in Nat : \A b : PosOK(f, pc, i, b) => PosOK(g, qc, i, b)
  /\ \A id \in 1..f.writes : id \in 1..g.writes /\ g.totals[id] = f.totals[id]

\* A segment carries only what may stand where it puts it.
Sound(f, pc, s) ==
  \A i \in Nat : Puts(s, i) # NoByte => PosOK(f, pc, i, Puts(s, i))

SegmentsOK(f, pc) ==
  /\ \A s \in f.out : Sound(f, pc, s)
  /\ \A j \in 1..Len(f.segment) : Sound(f, pc, f.segment[j])

GotOK(f, pc, got) ==
  \A i \in 1..MaxSeq : got[i] # NoByte => PosOK(f, pc, i, got[i])

\* The writes the peer holds.
Delivered(f, got) ==
  {id \in 1..f.writes :
     \A off \in 0..(f.totals[id] - 1) : \E i \in Prefix(got) : got[i] = Byte(id, off)}

\* The sequence number after the FIN, once it was sent.
Mark(f) == IF f.fin_sent /\ ~f.app_closed THEN f.snd_nxt ELSE -1

\* The flow, and what its peer holds.
Consistent(f, p) ==
  /\ FlowOK(f, f.pc, Expected(p.got), Delivered(f, p.got), Mark(f))
  /\ f.out = {}
  /\ SegmentsOK(f, f.pc)
  /\ GotOK(f, f.pc, p.got)
  /\ DOMAIN p = {"syn", "alive", "got", "budget"}
  /\ p.got \in [1..MaxSeq -> Bytes \cup {NoByte, FinMark}]

FlowInvariant == Consistent(flow, peer)

----------------------------------------------------------------------------

\* What a handler finds, and what it makes of it.
Good(f, pc, e, D, m) == FlowOK(f, pc, e, D, m) /\ SegmentsOK(f, pc)

Leads(f, pc, g, qc, e, D, m) == Good(g, qc, e, D, m) /\ Keeps(f, pc, g, qc)

\* g differs from f only in the members S.
Same(f, g, S) == DOMAIN g = DOMAIN f /\ \A x \in DOMAIN f \ S : g[x] = f[x]

----------------------------------------------------------------------------
(* Arithmetic, and how the parts of the contract compose. *)

(* Zero is in every range. *)
LEMMA Zeros ==
  /\ 0 \in Nat /\ 0 \in 0..MaxWrites /\ 0 \in 0..MaxTotal
  /\ 0 \in 0..MaxRetransmits /\ 0 \in 0..MaxProbes
BY FlowAssumption

(* The room of one more write, and of more writes. *)
LEMMA RoomFacts ==
  /\ \A k \in Nat : Room(k) \in Nat /\ Room(k + 1) = Room(k) + MaxTotal
  /\ \A k, n \in Nat : k <= n => Room(k) <= Room(n)
<1>1. ASSUME NEW k \in Nat PROVE Room(k) \in Nat /\ Room(k + 1) = Room(k) + MaxTotal
  BY FlowAssumption DEF Room
<1>2. ASSUME NEW k \in Nat, NEW n \in Nat, k <= n PROVE Room(k) <= Room(n)
  BY <1>2, FlowAssumption DEF Room
<1> QED BY <1>1, <1>2

(* The numbers of a flow, and the room its writes have. *)
LEMMA FlowNumbers ==
  ASSUME NEW f, FlowTypes(f)
  PROVE  /\ f.snd_una \in Nat /\ f.snd_nxt \in Nat /\ f.start_seq \in Nat
         /\ f.offset \in Nat /\ f.total \in Nat /\ f.total <= MaxTotal /\ MaxTotal \in Nat
         /\ f.write_id \in Nat /\ f.writes \in Nat /\ Room(f.writes) \in Nat
         /\ f.write_id \in 1..f.writes =>
              /\ Room(f.write_id - 1) \in Nat
              /\ Room(f.write_id - 1) + MaxTotal <= Room(f.writes)
<1>1. /\ f.snd_una \in Nat /\ f.snd_nxt \in Nat /\ f.start_seq \in Nat
      /\ f.offset \in Nat /\ f.total \in Nat /\ f.total <= MaxTotal /\ MaxTotal \in Nat
      /\ f.write_id \in Nat /\ f.writes \in Nat
  BY FlowAssumption DEF FlowTypes
<1>2. Room(f.writes) \in Nat
  BY <1>1, RoomFacts
<1>3. ASSUME f.write_id \in 1..f.writes
      PROVE  /\ Room(f.write_id - 1) \in Nat
             /\ Room(f.write_id - 1) + MaxTotal <= Room(f.writes)
  <2>1. f.write_id - 1 \in Nat /\ (f.write_id - 1) + 1 = f.write_id /\ f.write_id <= f.writes
    BY <1>1, <1>3
  <2>2. Room(f.write_id) = Room(f.write_id - 1) + MaxTotal /\ Room(f.write_id - 1) \in Nat
    BY <2>1, RoomFacts
  <2>3. Room(f.write_id) <= Room(f.writes)
    BY <1>1, <2>1, RoomFacts
  <2> QED BY <2>2, <2>3
<1> QED BY <1>1, <1>2, <1>3

(* What may stand somewhere still may after two handlers. *)
LEMMA KeepsTransitive ==
  ASSUME NEW f, NEW g, NEW h, NEW pc, NEW qc, NEW rc,
         Keeps(f, pc, g, qc), Keeps(g, qc, h, rc)
  PROVE  Keeps(f, pc, h, rc)
BY DEF Keeps

(* A contract after a contract. *)
LEMMA LeadsTransitive ==
  ASSUME NEW f, NEW g, NEW h, NEW pc, NEW qc, NEW rc, NEW e, NEW D, NEW m,
         Leads(f, pc, g, qc, e, D, m), Leads(g, qc, h, rc, e, D, m)
  PROVE  Leads(f, pc, h, rc, e, D, m)
BY KeepsTransitive DEF Leads

(* Segments stay sound when what they carry is kept. *)
LEMMA SegmentsKept ==
  ASSUME NEW f, NEW g, NEW pc, NEW qc, NEW N,
         SegmentsOK(f, pc), Keeps(f, pc, g, qc),
         g.out \subseteq f.out \cup N, \A s \in N : Sound(g, qc, s),
         g.segment = f.segment \/ \E s \in N : g.segment = <<s>>
  PROVE  SegmentsOK(g, qc)
<1>1. ASSUME NEW s, Sound(f, pc, s) PROVE Sound(g, qc, s)
  BY <1>1 DEF Sound, Keeps
<1>2. ASSUME NEW s \in g.out PROVE Sound(g, qc, s)
  BY <1>1 DEF SegmentsOK
<1>3. ASSUME NEW j \in 1..Len(g.segment) PROVE Sound(g, qc, g.segment[j])
  <2>1. CASE g.segment = f.segment
    BY <1>1, <2>1 DEF SegmentsOK
  <2>2. CASE \E s \in N : g.segment = <<s>>
    BY <2>2
  <2> QED BY <2>1, <2>2
<1> QED BY <1>2, <1>3 DEF SegmentsOK

(* The same when no segment is added. *)
LEMMA SegmentsSame ==
  ASSUME NEW f, NEW g, NEW pc, NEW qc,
         SegmentsOK(f, pc), Keeps(f, pc, g, qc),
         g.out \subseteq f.out, g.segment = f.segment
  PROVE  SegmentsOK(g, qc)
BY DEF SegmentsOK, Sound, Keeps

----------------------------------------------------------------------------
(* The helpers every handler uses. *)

\* Members that the invariant reads only for their types and for WakeOK.
QuietFields ==
  {"fin_received", "fin_pending", "peer_wnd", "last_una", "retransmits",
   "probes", "implicit_accept", "wake", "pc", "out", "segment"}

(* Changing such members changes nothing else that the invariant says. *)
LEMMA QuietStep ==
  ASSUME NEW f, NEW g, NEW pc, NEW e, NEW D, NEW m,
         FlowOK(f, pc, e, D, m), Same(f, g, QuietFields), FlowTypes(g), WakeOK(g)
  PROVE  FlowOK(g, pc, e, D, m) /\ Keeps(f, pc, g, pc)
<1>0. DOMAIN f = Fields
  BY DEF FlowOK, FlowTypes
<1>1. FlowOK(g, pc, e, D, m)
  <2>1. Lifecycle(g, pc) /\ FinLast(g, m) /\ InStep(g, pc) /\ Bounded(g, pc)
    BY <1>0 DEF FlowOK, Same, QuietFields, Fields, Lifecycle, FinLast, InStep, Bounded, FinOne
  <2>2. Counted(g) /\ Once(g) /\ Acked(g, pc, e, D)
    BY <1>0 DEF FlowOK, Same, QuietFields, Fields, Counted, Once, Acked
  <2> QED BY <2>1, <2>2 DEF FlowOK
<1>2. Keeps(f, pc, g, pc)
  BY <1>0 DEF Same, QuietFields, Fields, Keeps, PosOK, ProbeOut
<1> QED BY <1>1, <1>2

\* Members that concern neither the segments nor the coroutine.
FreeFields == QuietFields \ {"wake", "pc", "out", "segment"}

(* The same for members that concern neither segments nor the coroutine. *)
LEMMA FreeStep ==
  ASSUME NEW f, NEW g, NEW pc, NEW e, NEW D, NEW m,
         Good(f, pc, e, D, m), Same(f, g, FreeFields), FlowTypes(g)
  PROVE  Leads(f, pc, g, pc, e, D, m)
<1>0. DOMAIN f = Fields
  BY DEF Good, FlowOK, FlowTypes
<1>1. /\ Same(f, g, QuietFields)
      /\ g.wake = f.wake /\ g.pc = f.pc /\ g.out = f.out /\ g.segment = f.segment
  BY <1>0 DEF Same, FreeFields, QuietFields, Fields
<1>2. WakeOK(g)
  BY <1>1 DEF WakeOK, Good, FlowOK
<1> QED BY <1>1, <1>2, QuietStep, SegmentsSame DEF Leads, Good

(* signal_write wakes the coroutine where it waits, and nothing else. *)
LEMMA SignalStep ==
  ASSUME NEW f, NEW pc, NEW e, NEW D, NEW m, NEW g, g = signal_write(f),
         Good(f, pc, e, D, m)
  PROVE  Leads(f, pc, g, pc, e, D, m) /\ Same(f, g, {"wake"})
<1>0. DOMAIN f = Fields
  BY DEF Good, FlowOK, FlowTypes
<1>1. /\ Same(f, g, {"wake"})
      /\ g.wake = f.wake \/ (g.wake = "signal" /\ f.pc \in {"handshake", "window", "ack"})
  BY <1>0 DEF signal_write, Parked, Same, Fields
<1>2. Same(f, g, QuietFields) /\ g.out = f.out /\ g.segment = f.segment /\ g.pc = f.pc
  BY <1>0, <1>1 DEF Same, QuietFields, Fields
<1>3. FlowTypes(g)
  BY <1>0, <1>1 DEF Good, FlowOK, FlowTypes, Same, Fields, Wakes
<1>4. WakeOK(g)
  BY <1>1, <1>2 DEF WakeOK, Good, FlowOK
<1> QED BY <1>1, <1>2, <1>3, <1>4, QuietStep, SegmentsSame DEF Leads, Good

(* send_segment adds a sound segment to what the flow sends. *)
LEMMA SendStep ==
  ASSUME NEW f, NEW pc, NEW e, NEW D, NEW m, NEW s \in Segments, NEW g, g = send_segment(f, s),
         Good(f, pc, e, D, m), Sound(f, pc, s)
  PROVE  Leads(f, pc, g, pc, e, D, m) /\ Same(f, g, {"out"})
<1>0. DOMAIN f = Fields
  BY DEF Good, FlowOK, FlowTypes
<1>1. Same(f, g, {"out"}) /\ (g.out = f.out \/ g.out = f.out \cup {s})
  BY <1>0 DEF send_segment, Same, Fields
<1>2. Same(f, g, QuietFields) /\ g.segment = f.segment /\ g.pc = f.pc /\ g.wake = f.wake
  BY <1>0, <1>1 DEF Same, QuietFields, Fields
<1>3. FlowTypes(g)
  BY <1>0, <1>1 DEF Good, FlowOK, FlowTypes, Same, Fields
<1>4. WakeOK(g)
  BY <1>2 DEF WakeOK, Good, FlowOK
<1>5. FlowOK(g, pc, e, D, m) /\ Keeps(f, pc, g, pc)
  BY <1>2, <1>3, <1>4, QuietStep DEF Good
<1>6. SegmentsOK(g, pc)
  <2> DEFINE N == {s}
  <2>1. \A t \in N : Sound(g, pc, t)
    BY <1>5 DEF Sound, Keeps
  <2>2. /\ g.out \subseteq f.out \cup N
        /\ g.segment = f.segment \/ \E t \in N : g.segment = <<t>>
    BY <1>1, <1>2
  <2> HIDE DEF N
  <2> QED BY <1>5, <2>1, <2>2, SegmentsKept DEF Good
<1> QED BY <1>1, <1>5, <1>6 DEF Leads, Good

WriteFields ==
  {"active_write", "done", "write_id", "total", "offset", "start_seq", "implicit_accept"}

(* complete takes the active write out and records its code, or does nothing. *)
LEMMA CompleteEffect ==
  ASSUME NEW f, FlowTypes(f), NEW code \in Codes, f.active_write => f.write_id # 0,
         NEW g, g = complete(f, code)
  PROVE  /\ FlowTypes(g)
         /\ Same(f, g, WriteFields)
         /\ ~g.active_write
         /\ f.active_write => g.total = 0 /\ g.offset = 0
         /\ ~f.active_write => g = f
         /\ \A id \in 1..MaxWrites :
              /\ Len(g.done[id]) = IF f.active_write /\ f.write_id = id
                                   THEN Len(f.done[id]) + 1 ELSE Len(f.done[id])
              /\ Succeeded(g.done[id]) =>
                   \/ Succeeded(f.done[id])
                   \/ code = "success" /\ f.active_write /\ f.write_id = id
<1>1. CASE f.active_write
  <2>1. DOMAIN f = Fields
    BY DEF FlowTypes
  <2>2. /\ Same(f, g, WriteFields)
        /\ g.active_write = FALSE
        /\ g.done = [f.done EXCEPT ![f.write_id] = Append(@, code)]
        /\ g.write_id = 0 /\ g.total = 0 /\ g.offset = 0 /\ g.start_seq = 0
        /\ g.implicit_accept = FALSE
    <3>1. g = [f EXCEPT !.active_write = FALSE, !.done[f.write_id] = Append(@, code),
                        !.write_id = 0, !.total = 0, !.offset = 0, !.start_seq = 0,
                        !.implicit_accept = FALSE]
      BY <1>1 DEF complete
    <3>2. Same(f, g, WriteFields)
      BY <2>1, <3>1 DEF Same, WriteFields, Fields
    <3>3. /\ g.active_write = FALSE
          /\ g.done = [f.done EXCEPT ![f.write_id] = Append(@, code)]
      BY <2>1, <3>1 DEF Fields
    <3>4. /\ g.write_id = 0 /\ g.total = 0 /\ g.offset = 0 /\ g.start_seq = 0
          /\ g.implicit_accept = FALSE
      BY <2>1, <3>1 DEF Fields
    <3> QED BY <3>2, <3>3, <3>4
  <2>3. f.done \in [1..MaxWrites -> Seq(Codes)] /\ f.write_id \in 1..MaxWrites
    <3>1. f.done \in [1..MaxWrites -> Seq(Codes)] /\ f.write_id \in 0..MaxWrites
      BY DEF FlowTypes
    <3> QED BY <1>1, <3>1, FlowAssumption
  <2>4. g.done \in [1..MaxWrites -> Seq(Codes)]
    <3>1. Append(f.done[f.write_id], code) \in Seq(Codes)
      BY <2>3, AppendProperties
    <3> QED BY <2>2, <2>3, <3>1
  <2>5. FlowTypes(g)
    <3>2. 0 \in 0..MaxWrites /\ 0 \in 0..MaxTotal /\ 0 \in Nat
      BY Zeros
    <3>3. /\ DOMAIN g = Fields /\ g.state = f.state /\ g.snd_una = f.snd_una
          /\ g.snd_nxt = f.snd_nxt /\ g.last_una = f.last_una
          /\ g.peer_wnd = f.peer_wnd /\ g.fin_sent = f.fin_sent
          /\ g.fin_received = f.fin_received /\ g.fin_pending = f.fin_pending
          /\ g.rst = f.rst /\ g.app_closed = f.app_closed
          /\ g.probe_in_flight = f.probe_in_flight
          /\ g.tcp_connections = f.tcp_connections
          /\ g.writes = f.writes /\ g.pc = f.pc /\ g.wake = f.wake
          /\ g.retransmits = f.retransmits /\ g.probes = f.probes
          /\ g.segment = f.segment /\ g.out = f.out /\ g.totals = f.totals
      BY <2>1, <2>2 DEF Same, WriteFields, Fields
    <3>4. g.active_write \in BOOLEAN /\ g.implicit_accept \in BOOLEAN
      BY <2>2
    <3> QED BY <2>2, <2>4, <3>2, <3>3, <3>4 DEF FlowTypes
  <2>6. ASSUME NEW id \in 1..MaxWrites, id # f.write_id PROVE g.done[id] = f.done[id]
    BY <2>2, <2>3, <2>6
  <2>7. g.done[f.write_id] = Append(f.done[f.write_id], code)
    BY <2>2, <2>3
  <2>8. f.done[f.write_id] \in Seq(Codes)
    BY <2>3
  <2>9. /\ Len(g.done[f.write_id]) = Len(f.done[f.write_id]) + 1
        /\ Succeeded(g.done[f.write_id]) => Succeeded(f.done[f.write_id]) \/ code = "success"
    BY <2>7, <2>8 DEF Succeeded
  <2> QED BY <1>1, <2>2, <2>5, <2>6, <2>9
<1>2. CASE ~f.active_write
  BY <1>2 DEF complete, Same
<1> QED BY <1>1, <1>2

\* What closing a flow needs of it: less than FlowOK, because a FIN or the
\* application's close marks the flow before it closes it.
Closable(f, e, D, m) ==
  /\ FlowTypes(f) /\ WakeOK(f) /\ Counted(f) /\ Once(f)
  /\ f.active_write => f.write_id \in 1..f.writes
  /\ ~f.active_write => f.total = 0
  /\ f.offset <= f.total
  /\ f.snd_una <= f.snd_nxt /\ f.snd_nxt <= 3 + Room(f.writes) /\ f.snd_una <= e
  /\ \A id \in 1..MaxWrites : Succeeded(f.done[id]) => id \in D \/ f.totals[id] = 0
  /\ m \in Nat => f.fin_sent /\ ~f.app_closed /\ f.snd_nxt = m
  /\ \A s \in f.out : \A i \in Nat : Puts(s, i) # NoByte => i <= f.snd_nxt
  /\ \A j \in 1..Len(f.segment) : \A i \in Nat :
       Puts(f.segment[j], i) # NoByte => i <= f.snd_nxt

(* Every flow that satisfies the invariant can be closed. *)
LEMMA GoodClosable ==
  ASSUME NEW f, NEW pc, NEW e, NEW D, NEW m, Good(f, pc, e, D, m)
  PROVE  Closable(f, e, D, m)
<1>1. FlowTypes(f) /\ WakeOK(f) /\ Counted(f) /\ Once(f)
  BY DEF Good, FlowOK
<1>2. /\ f.active_write => f.write_id \in 1..f.writes
      /\ ~f.active_write => f.total = 0
      /\ f.offset <= f.total
      /\ f.snd_una <= f.snd_nxt /\ f.snd_nxt <= 3 + Room(f.writes) /\ f.snd_una <= e
      /\ \A id \in 1..MaxWrites : Succeeded(f.done[id]) => id \in D \/ f.totals[id] = 0
  BY DEF Good, FlowOK, Lifecycle, InStep, Bounded, Acked
<1>3. /\ f.snd_nxt \in Nat
      /\ m \in Nat => f.fin_sent /\ ~f.app_closed /\ f.snd_nxt = m
  BY <1>1 DEF FlowTypes, Good, FlowOK, FinLast
<1>4. ASSUME NEW s, Sound(f, pc, s), NEW i \in Nat, Puts(s, i) # NoByte
      PROVE  i <= f.snd_nxt
  BY <1>3, <1>4 DEF Sound, PosOK
<1> QED BY <1>1, <1>2, <1>3, <1>4 DEF Closable, Good, SegmentsOK

(* close_flow: a closed flow satisfies the invariant, whatever code its write *)
(* ends with; success only for a write the peer holds.                        *)
LEMMA CloseFlowStep ==
  ASSUME NEW f, NEW pc, NEW e, NEW D, NEW m, NEW code \in Codes, NEW g, g = close_flow(f, code),
         Closable(f, e, D, m), f.state # "CLOSED",
         code = "success" /\ f.active_write => f.write_id \in D
  PROVE  /\ Good(g, pc, e, D, m) /\ g.state = "CLOSED" /\ ~g.active_write
         /\ g.snd_nxt = f.snd_nxt /\ g.writes = f.writes /\ g.totals = f.totals
<1> DEFINE c == complete(f, code)
           n == IF f.state \in Opened THEN c.tcp_connections - 1 ELSE c.tcp_connections
           h == [c EXCEPT !.state = "CLOSED", !.tcp_connections = n]
<1>1. FlowTypes(f) /\ (f.active_write => f.write_id # 0)
  BY DEF Closable
<1>2. /\ FlowTypes(c)
      /\ Same(f, c, WriteFields)
      /\ ~c.active_write
      /\ f.active_write => c.total = 0 /\ c.offset = 0
      /\ ~f.active_write => c = f
      /\ \A id \in 1..MaxWrites :
           /\ Len(c.done[id]) = IF f.active_write /\ f.write_id = id
                                THEN Len(f.done[id]) + 1 ELSE Len(f.done[id])
           /\ Succeeded(c.done[id]) =>
                \/ Succeeded(f.done[id])
                \/ code = "success" /\ f.active_write /\ f.write_id = id
  BY <1>1, CompleteEffect
<1>3. g = signal_write(h)
  BY DEF close_flow
<1> HIDE DEF c
<1>4. DOMAIN c = Fields /\ DOMAIN f = Fields
  BY <1>1, <1>2 DEF FlowTypes
<1>5. Same(c, h, {"state", "tcp_connections"}) /\ h.state = "CLOSED" /\ h.tcp_connections = n
  BY <1>4 DEF Same, Fields
<1> HIDE DEF h
<1>6. /\ h.done = c.done /\ ~h.active_write /\ h.writes = f.writes
      /\ h.totals = f.totals /\ h.snd_una = f.snd_una /\ h.snd_nxt = f.snd_nxt
      /\ h.out = f.out /\ h.segment = f.segment /\ h.pc = f.pc /\ h.wake = f.wake
      /\ h.total = 0 /\ h.offset <= 0
      /\ h.fin_sent = f.fin_sent /\ h.app_closed = f.app_closed
  <2>1. /\ h.done = c.done /\ h.active_write = c.active_write /\ h.writes = c.writes
        /\ h.totals = c.totals /\ h.snd_una = c.snd_una /\ h.snd_nxt = c.snd_nxt
        /\ h.out = c.out /\ h.segment = c.segment /\ h.pc = c.pc /\ h.wake = c.wake
        /\ h.total = c.total /\ h.offset = c.offset
        /\ h.fin_sent = c.fin_sent /\ h.app_closed = c.app_closed
    BY <1>4, <1>5 DEF Same, Fields
  <2>2. Same(f, c, WriteFields) /\ ~c.active_write
    BY <1>2
  <2>3. /\ c.writes = f.writes /\ c.totals = f.totals /\ c.snd_una = f.snd_una
        /\ c.snd_nxt = f.snd_nxt /\ c.out = f.out /\ c.segment = f.segment
        /\ c.pc = f.pc /\ c.wake = f.wake
        /\ c.fin_sent = f.fin_sent /\ c.app_closed = f.app_closed
    BY <1>4, <2>2 DEF Same, Fields, WriteFields
  <2>4. c.total = 0 /\ c.offset <= 0
    <3>1. CASE f.active_write
      BY <1>2, <3>1
    <3>2. CASE ~f.active_write
      BY <1>2, <3>2 DEF Closable
    <3> QED BY <3>1, <3>2
  <2> QED BY <2>1, <2>2, <2>3, <2>4
<1>7. FlowOK(h, pc, e, D, m)
  <2>1. FlowTypes(h)
    <3>1. n \in Int /\ "CLOSED" \in States
      BY <1>2 DEF FlowTypes, States
    <3> QED BY <1>2, <1>4, <1>5, <3>1 DEF FlowTypes, Same, Fields
  <2>2. Lifecycle(h, pc) /\ FinLast(h, m) /\ InStep(h, pc) /\ Bounded(h, pc)
    BY <1>5, <1>6 DEF Closable, Lifecycle, FinLast, InStep, Bounded
  <2>3. WakeOK(h)
    BY <1>6 DEF Closable, WakeOK
  <2>4. Counted(h)
    <3>1. c.tcp_connections = f.tcp_connections
      BY <1>2, <1>4 DEF Same, Fields, WriteFields
    <3> QED BY <1>5, <3>1 DEF Closable, Counted, Opened
  <2>5. Once(h)
    <3> SUFFICES ASSUME NEW id \in 1..MaxWrites
                 PROVE  Len(h.done[id]) = IF id <= f.writes THEN 1 ELSE 0
      BY <1>6 DEF Once
    <3>1. Len(f.done[id]) = IF id <= f.writes /\ ~(f.active_write /\ f.write_id = id)
                           THEN 1 ELSE 0
      BY DEF Closable, Once
    <3>2. f.active_write => f.write_id <= f.writes /\ f.writes \in Nat /\ f.write_id \in Nat
      BY DEF Closable, FlowTypes
    <3> QED BY <1>2, <1>6, <3>1, <3>2
  <2>6. Acked(h, pc, e, D)
    <3>1. ASSUME NEW id \in 1..MaxWrites, Succeeded(h.done[id])
          PROVE  id \in D \/ h.totals[id] = 0
      BY <1>2, <1>6, <3>1 DEF Closable
    <3> QED BY <1>6, <3>1 DEF Acked, Closable
  <2> QED BY <2>1, <2>2, <2>3, <2>4, <2>5, <2>6 DEF FlowOK
<1>8. SegmentsOK(h, pc)
  <2>1. f.snd_nxt \in Nat
    BY <1>1 DEF FlowTypes
  <2>2. ASSUME NEW i \in Nat, NEW b, i <= f.snd_nxt PROVE PosOK(h, pc, i, b)
    BY <1>5, <1>6, <2>1, <2>2 DEF PosOK, ProbeOut
  <2> QED BY <1>6, <2>2 DEF SegmentsOK, Sound, Closable
<1>9. Good(h, pc, e, D, m)
  BY <1>7, <1>8 DEF Good
<1>10. Good(g, pc, e, D, m) /\ Same(h, g, {"wake"})
  BY <1>3, <1>9, SignalStep DEF Leads
<1>11. DOMAIN h = Fields
  BY <1>4, <1>5 DEF Same
<1> QED BY <1>5, <1>6, <1>10, <1>11 DEF Same, Fields

(* The same from a flow that satisfies the invariant. *)
LEMMA CloseGood ==
  ASSUME NEW f, NEW pc, NEW e, NEW D, NEW m, NEW code \in Codes, NEW g, g = close_flow(f, code),
         Good(f, pc, e, D, m), code = "success" /\ f.active_write => f.write_id \in D
  PROVE  Leads(f, pc, g, pc, e, D, m) /\ g.state = "CLOSED"
<1>1. CASE f.state = "CLOSED"
  BY <1>1 DEF close_flow, Leads, Keeps
<1>2. CASE f.state # "CLOSED"
  <2>1. /\ Good(g, pc, e, D, m) /\ g.state = "CLOSED" /\ ~g.active_write
        /\ g.snd_nxt = f.snd_nxt /\ g.writes = f.writes /\ g.totals = f.totals
    BY <1>2, GoodClosable, CloseFlowStep
  <2>2. f.snd_nxt \in Nat
    BY DEF Good, FlowOK, FlowTypes
  <2>3. Keeps(f, pc, g, pc)
    BY <2>1, <2>2 DEF Keeps, PosOK, ProbeOut
  <2> QED BY <2>1, <2>3 DEF Leads
<1> QED BY <1>1, <1>2

(* The segments without data, and where they put something. *)
LEMMA ControlSegments ==
  /\ Rst \in Segments /\ SynAck \in Segments
  /\ \A n \in Nat : Fin(n) \in Segments
  /\ \A i : Puts(Rst, i) = NoByte /\ Puts(SynAck, i) = NoByte
  /\ \A n, i \in Nat : Puts(Fin(n), i) # NoByte => i = n
<1>1. <<>> \in Seq(Bytes)
  OBVIOUS
<1>2. Rst \in Segments /\ SynAck \in Segments /\ \A n \in Nat : Fin(n) \in Segments
  BY <1>1 DEF Rst, SynAck, Fin, Segments
<1>3. \A i : Puts(Rst, i) = NoByte /\ Puts(SynAck, i) = NoByte
  BY DEF Puts, Rst, SynAck
<1>4. \A n, i \in Nat : Puts(Fin(n), i) # NoByte => i = n
  BY DEF Puts, Fin
<1> QED BY <1>2, <1>3, <1>4

(* A flow marked as reset can be closed. *)
LEMMA RstClosable ==
  ASSUME NEW f, NEW e, NEW D, NEW m, NEW r, Closable(f, e, D, m),
         Same(f, r, {"out", "rst"}), r.rst = TRUE, r.out \subseteq f.out \cup {Rst}
  PROVE  Closable(r, e, D, m) /\ r.state = f.state /\ r.snd_nxt = f.snd_nxt
         /\ r.active_write = f.active_write /\ r.writes = f.writes /\ r.totals = f.totals
<1>1. DOMAIN f = Fields
  BY DEF Closable, FlowTypes
<1>2. FlowTypes(r)
  BY <1>1, ControlSegments DEF Closable, FlowTypes, Same, Fields
<1>3. /\ r.state = f.state /\ r.snd_nxt = f.snd_nxt /\ r.snd_una = f.snd_una
      /\ r.pc = f.pc /\ r.wake = f.wake /\ r.tcp_connections = f.tcp_connections
      /\ r.done = f.done /\ r.writes = f.writes /\ r.active_write = f.active_write
      /\ r.write_id = f.write_id /\ r.total = f.total /\ r.offset = f.offset
      /\ r.totals = f.totals /\ r.segment = f.segment
      /\ r.fin_sent = f.fin_sent /\ r.app_closed = f.app_closed
  BY <1>1 DEF Same, Fields
<1>4. WakeOK(r) /\ Counted(r) /\ Once(r)
  BY <1>3 DEF Closable, WakeOK, Counted, Once
<1>5. \A s \in r.out : \A i \in Nat : Puts(s, i) # NoByte => i <= r.snd_nxt
  BY <1>3, ControlSegments DEF Closable
<1> QED BY <1>2, <1>3, <1>4, <1>5 DEF Closable

(* abort_flow, from any flow that can be closed. *)
LEMMA AbortStep ==
  ASSUME NEW f, NEW pc, NEW e, NEW D, NEW m, NEW g, g = abort_flow(f),
         Closable(f, e, D, m), f.state # "CLOSED"
  PROVE  /\ Good(g, pc, e, D, m) /\ g.state = "CLOSED" /\ ~g.active_write
         /\ g.snd_nxt = f.snd_nxt /\ g.writes = f.writes /\ g.totals = f.totals
<1> DEFINE r == [send_segment(f, Rst) EXCEPT !.rst = TRUE]
<1>1. g = close_flow(r, "connection_reset") /\ "connection_reset" \in Codes
  BY DEF abort_flow, Codes
<1>2. DOMAIN f = Fields
  BY DEF Closable, FlowTypes
<1>3. Same(f, r, {"out", "rst"}) /\ r.rst = TRUE /\ r.out = f.out \cup {Rst}
  BY <1>2 DEF send_segment, Same, Fields
<1> HIDE DEF r
<1>4. Closable(r, e, D, m) /\ r.state = f.state /\ r.snd_nxt = f.snd_nxt
      /\ r.writes = f.writes /\ r.totals = f.totals
  BY <1>3, RstClosable
<1> QED BY <1>1, <1>4, CloseFlowStep

(* The same from a flow that satisfies the invariant. *)
LEMMA AbortGood ==
  ASSUME NEW f, NEW pc, NEW e, NEW D, NEW m, NEW g, g = abort_flow(f), Good(f, pc, e, D, m)
  PROVE  Leads(f, pc, g, pc, e, D, m) /\ g.state = "CLOSED"
<1>1. CASE f.state = "CLOSED"
  BY <1>1 DEF abort_flow, Leads, Keeps
<1>2. CASE f.state # "CLOSED"
  <2>1. /\ Good(g, pc, e, D, m) /\ g.state = "CLOSED" /\ ~g.active_write
        /\ g.snd_nxt = f.snd_nxt /\ g.writes = f.writes /\ g.totals = f.totals
    BY <1>2, GoodClosable, AbortStep
  <2>2. f.snd_nxt \in Nat
    BY DEF Good, FlowOK, FlowTypes
  <2>3. Keeps(f, pc, g, pc)
    BY <2>1, <2>2 DEF Keeps, PosOK, ProbeOut
  <2> QED BY <2>1, <2>3 DEF Leads
<1> QED BY <1>1, <1>2

(* accept_flow: the SYN takes the sequence number 0. *)
LEMMA AcceptStep ==
  ASSUME NEW f, NEW pc, NEW e, NEW D, NEW m, NEW g, g = accept_flow(f), Good(f, pc, e, D, m)
  PROVE  Leads(f, pc, g, pc, e, D, m)
<1>1. CASE f.state # "SYN_RCVD"
  BY <1>1 DEF accept_flow, Leads, Keeps
<1>2. CASE f.state = "SYN_RCVD"
  <2> DEFINE s == send_segment(f, SynAck)
  <2>1. Sound(f, pc, SynAck)
    BY ControlSegments DEF Sound
  <2>2. Leads(f, pc, s, pc, e, D, m) /\ Same(f, s, {"out"})
    BY <2>1, ControlSegments, SendStep
  <2>3. g = [s EXCEPT !.snd_nxt = 1, !.state = "SYN_ACK_SENT"]
    BY <1>2 DEF accept_flow
  <2> HIDE DEF s
  <2>4. DOMAIN f = Fields /\ DOMAIN s = Fields
    BY <2>2 DEF Leads, Good, FlowOK, FlowTypes
  <2>5. s.state = "SYN_RCVD"
    BY <1>2, <2>2, <2>4 DEF Same, Fields
  <2>6. Same(s, g, {"snd_nxt", "state"}) /\ g.snd_nxt = 1 /\ g.state = "SYN_ACK_SENT"
    BY <2>3, <2>4 DEF Same, Fields
  <2>7. FlowOK(g, pc, e, D, m)
    <3>0. FlowTypes(s) /\ 1 \in Nat /\ "SYN_ACK_SENT" \in States
      BY <2>2 DEF Leads, Good, FlowOK, States
    <3>1. FlowTypes(g)
      BY <2>4, <2>6, <3>0 DEF FlowTypes, Same, Fields
    <3>2. Lifecycle(g, pc) /\ FinLast(g, m) /\ InStep(g, pc)
      <4>1. s.snd_una \in Nat /\ s.snd_nxt \in Nat
        BY <3>0, FlowNumbers
      <4> QED BY <2>2, <2>4, <2>5, <2>6, <4>1 DEF Leads, Good, FlowOK, Same, Fields, Lifecycle, FinLast, InStep, FinOne
    <3>3. Bounded(g, pc)
      <4>1. s.writes \in Nat /\ Room(s.writes) \in Nat
        BY <3>0, FlowNumbers
      <4> QED BY <2>2, <2>4, <2>5, <2>6, <4>1 DEF Leads, Good, FlowOK, Same, Fields, Bounded, FinOne, Lifecycle, FinLast
    <3>4. WakeOK(g) /\ Counted(g) /\ Once(g)
      BY <2>2, <2>4, <2>5, <2>6 DEF Leads, Good, FlowOK, Same, Fields, WakeOK, Counted, Once, Opened
    <3>5. Acked(g, pc, e, D)
      BY <2>2, <2>4, <2>5, <2>6 DEF Leads, Good, FlowOK, Same, Fields, Acked, Lifecycle
    <3> QED BY <3>1, <3>2, <3>3, <3>4, <3>5 DEF FlowOK
  <2>8. Keeps(s, pc, g, pc)
    BY <2>2, <2>4, <2>5, <2>6 DEF Leads, Good, FlowOK, Same, Fields, Keeps, PosOK, ProbeOut, InStep, Lifecycle
  <2>9. g.out = s.out /\ g.segment = s.segment
    BY <2>4, <2>6 DEF Same, Fields
  <2>10. Leads(s, pc, g, pc, e, D, m)
    BY <2>2, <2>7, <2>8, <2>9, SegmentsSame DEF Leads, Good
  <2> QED BY <2>2, <2>10, LeadsTransitive
<1> QED BY <1>1, <1>2

----------------------------------------------------------------------------
(* The FIN. *)

(* send_fin when the FIN is sent: it takes the next sequence number. *)
LEMMA FinEffect ==
  ASSUME NEW f, FlowTypes(f), NEW g, g = send_fin(f),
         ~f.fin_sent, ~MustDefer(f), f.state \in {"ESTABLISHED", "CLOSE_WAIT"}
  PROVE  /\ FlowTypes(g)
         /\ Same(f, g, {"out", "fin_sent", "snd_nxt", "state"})
         /\ g.fin_sent /\ g.snd_nxt = f.snd_nxt + 1
         /\ g.state \in {"FIN_WAIT_1", "LAST_ACK"}
         /\ g.out = f.out \cup {Fin(f.snd_nxt)}
<1>1. DOMAIN f = Fields /\ f.snd_nxt \in Nat
  BY DEF FlowTypes
<1>2. g = [send_segment(f, Fin(f.snd_nxt)) EXCEPT
             !.fin_sent = TRUE,
             !.snd_nxt = @ + 1,
             !.state = IF f.state = "ESTABLISHED" THEN "FIN_WAIT_1" ELSE "LAST_ACK"]
  BY DEF send_fin
<1>3. /\ Same(f, g, {"out", "fin_sent", "snd_nxt", "state"})
      /\ g.fin_sent = TRUE /\ g.snd_nxt = f.snd_nxt + 1
      /\ g.state \in {"FIN_WAIT_1", "LAST_ACK"}
      /\ g.out = f.out \cup {Fin(f.snd_nxt)}
  BY <1>1, <1>2 DEF send_segment, Same, Fields
<1>4. FlowTypes(g)
  <2>1. Fin(f.snd_nxt) \in Segments /\ g.snd_nxt \in Nat /\ g.state \in States
    BY <1>1, <1>3, ControlSegments DEF States
  <2> QED BY <1>1, <1>3, <2>1 DEF FlowTypes, Same, Fields
<1> QED BY <1>3, <1>4

(* send_fin: the FIN is sent, deferred behind data, or turned into a reset. *)
LEMMA FinStep ==
  ASSUME NEW f, NEW pc, NEW e, NEW D, NEW m, NEW g, g = send_fin(f), Good(f, pc, e, D, m)
  PROVE  Leads(f, pc, g, pc, e, D, m)
<1>0. FlowTypes(f) /\ DOMAIN f = Fields
  BY DEF Good, FlowOK, FlowTypes
<1>1. CASE f.fin_sent \/ f.state = "CLOSED"
  BY <1>1 DEF send_fin, Leads, Keeps
<1>2. CASE ~f.fin_sent /\ f.state # "CLOSED" /\ MustDefer(f)
  <2>1. g = [f EXCEPT !.fin_pending = TRUE]
    BY <1>2 DEF send_fin
  <2>2. Same(f, g, {"fin_pending"}) /\ g.fin_pending = TRUE
    BY <1>0, <2>1 DEF Same, Fields
  <2>3. FlowTypes(g)
    BY <1>0, <2>2 DEF FlowTypes, Same, Fields
  <2>4. Same(f, g, FreeFields)
    BY <1>0, <2>2 DEF Same, FreeFields, QuietFields, Fields
  <2> QED BY <2>3, <2>4, FreeStep
<1>3. CASE ~f.fin_sent /\ ~MustDefer(f) /\ f.state \in {"SYN_RCVD", "SYN_ACK_SENT"}
  <2> DEFINE h == [f EXCEPT !.fin_sent = TRUE]
  <2>1. g = abort_flow(h)
    BY <1>3 DEF send_fin
  <2>2. Same(f, h, {"fin_sent"}) /\ h.fin_sent = TRUE
    BY <1>0 DEF Same, Fields
  <2> HIDE DEF h
  <2>3. FlowTypes(h)
    BY <1>0, <2>2 DEF FlowTypes, Same, Fields
  <2>4. /\ h.state = f.state /\ h.snd_nxt = f.snd_nxt /\ h.snd_una = f.snd_una
        /\ h.pc = f.pc /\ h.wake = f.wake /\ h.tcp_connections = f.tcp_connections
        /\ h.done = f.done /\ h.writes = f.writes /\ h.active_write = f.active_write
        /\ h.write_id = f.write_id /\ h.total = f.total /\ h.offset = f.offset
        /\ h.totals = f.totals /\ h.segment = f.segment /\ h.out = f.out
        /\ h.app_closed = f.app_closed
    BY <1>0, <2>2 DEF Same, Fields
  <2>5. Closable(h, e, D, m)
    <3>1. Closable(f, e, D, m)
      BY GoodClosable
    <3>2. WakeOK(h) /\ Counted(h) /\ Once(h)
      BY <2>4, <3>1 DEF Closable, WakeOK, Counted, Once
    <3>3. m \notin Nat
      BY <1>3, <3>1 DEF Closable
    <3> QED BY <2>3, <2>4, <3>1, <3>2, <3>3 DEF Closable
  <2>6. /\ Good(g, pc, e, D, m) /\ g.state = "CLOSED" /\ ~g.active_write
        /\ g.snd_nxt = f.snd_nxt /\ g.writes = f.writes /\ g.totals = f.totals
    BY <1>3, <2>1, <2>4, <2>5, AbortStep
  <2>7. f.snd_nxt \in Nat
    BY <1>0 DEF FlowTypes
  <2>8. Keeps(f, pc, g, pc)
    BY <2>6, <2>7 DEF Keeps, PosOK, ProbeOut
  <2> QED BY <2>6, <2>8 DEF Leads
<1>4. CASE ~f.fin_sent /\ ~MustDefer(f) /\ f.state \in {"ESTABLISHED", "CLOSE_WAIT"}
  <2>1. /\ FlowTypes(g)
        /\ Same(f, g, {"out", "fin_sent", "snd_nxt", "state"})
        /\ g.fin_sent /\ g.snd_nxt = f.snd_nxt + 1
        /\ g.state \in {"FIN_WAIT_1", "LAST_ACK"}
        /\ g.out = f.out \cup {Fin(f.snd_nxt)}
    BY <1>0, <1>4, FinEffect
  <2>2. /\ g.pc = f.pc /\ g.wake = f.wake /\ g.tcp_connections = f.tcp_connections
        /\ g.done = f.done /\ g.writes = f.writes /\ g.active_write = f.active_write
        /\ g.write_id = f.write_id /\ g.total = f.total /\ g.offset = f.offset
        /\ g.totals = f.totals /\ g.segment = f.segment /\ g.snd_una = f.snd_una
        /\ g.start_seq = f.start_seq /\ g.app_closed = f.app_closed
        /\ g.probe_in_flight = f.probe_in_flight
    BY <1>0, <2>1 DEF Same, Fields
  <2>3. /\ f.snd_una \in Nat /\ f.snd_nxt \in Nat /\ f.start_seq \in Nat
        /\ f.offset \in Nat /\ f.total \in Nat /\ f.total <= MaxTotal /\ MaxTotal \in Nat
        /\ f.write_id \in Nat /\ f.writes \in Nat /\ Room(f.writes) \in Nat
        /\ f.write_id \in 1..f.writes =>
              /\ Room(f.write_id - 1) \in Nat
              /\ Room(f.write_id - 1) + MaxTotal <= Room(f.writes)
    BY <1>0, FlowNumbers
  <2>4. /\ f.snd_una = f.snd_nxt /\ (f.active_write => f.offset = f.total /\ pc # "start")
        /\ ~f.app_closed
    <3>1. f.snd_una = f.snd_nxt /\ (f.active_write => ~(f.offset < f.total))
      BY <1>4 DEF MustDefer, Unsent
    <3>2. f.offset <= f.total /\ (f.active_write => f.total > 0)
      BY DEF Good, FlowOK, Lifecycle
    <3>3. f.active_write => f.offset = f.total /\ f.offset # 0
      BY <2>3, <3>1, <3>2
    <3>4. f.active_write => pc # "start"
      BY <3>3 DEF Good, FlowOK, InStep
    <3>5. ~f.app_closed
      BY <1>4 DEF Good, FlowOK, FinLast
    <3> QED BY <3>1, <3>3, <3>4, <3>5
  <2>5. FlowOK(g, pc, e, D, m)
    <3>1. Lifecycle(g, pc) /\ FinLast(g, m)
      <4>1. g.rst = f.rst /\ ~f.rst
        BY <1>0, <1>4, <2>1 DEF Same, Fields, Good, FlowOK, Lifecycle
      <4> QED BY <1>4, <2>1, <2>2, <2>4, <4>1 DEF Good, FlowOK, Lifecycle, FinLast
    <3>2. InStep(g, pc)
      BY <1>4, <2>1, <2>2, <2>3, <2>4 DEF Good, FlowOK, InStep, FinOne
    <3>3. Bounded(g, pc)
      BY <1>4, <2>1, <2>2, <2>3, <2>4 DEF Good, FlowOK, Bounded, FinOne, InStep, Lifecycle
    <3>4. WakeOK(g) /\ Counted(g) /\ Once(g)
      BY <1>4, <2>1, <2>2 DEF Good, FlowOK, WakeOK, Counted, Once, Opened, States
    <3>5. Acked(g, pc, e, D)
      BY <2>1, <2>2, <2>4 DEF Good, FlowOK, Acked
    <3> QED BY <2>1, <3>1, <3>2, <3>3, <3>4, <3>5 DEF FlowOK
  <2>6. Keeps(f, pc, g, pc)
    BY <2>1, <2>2, <2>3 DEF Keeps, PosOK, ProbeOut
  <2>7. SegmentsOK(g, pc)
    <3> DEFINE N == {Fin(f.snd_nxt)}
    <3>1. Sound(g, pc, Fin(f.snd_nxt))
      <4> SUFFICES ASSUME NEW i \in Nat, Puts(Fin(f.snd_nxt), i) # NoByte
                   PROVE  PosOK(g, pc, i, Puts(Fin(f.snd_nxt), i))
        BY DEF Sound
      <4>1. i = f.snd_nxt
        BY <2>3, ControlSegments
      <4>2. g.active_write => i = g.start_seq + g.total
        BY <2>2, <2>3, <2>4, <4>1, <1>4 DEF Good, FlowOK, InStep, FinOne
      <4> QED BY <2>1, <2>2, <2>3, <4>1, <4>2 DEF PosOK
    <3>2. /\ \A s \in N : Sound(g, pc, s)
          /\ g.out \subseteq f.out \cup N
          /\ g.segment = f.segment \/ \E s \in N : g.segment = <<s>>
      BY <2>1, <2>2, <3>1
    <3> HIDE DEF N
    <3> QED BY <2>6, <3>2, SegmentsKept DEF Good
  <2> QED BY <2>5, <2>6, <2>7 DEF Leads, Good
<1>5. f.state \in {"FIN_WAIT_1", "FIN_WAIT_2", "LAST_ACK", "TIME_WAIT"} => f.fin_sent
  BY DEF Good, FlowOK, FinLast
<1>6. f.state \in States
  BY <1>0 DEF FlowTypes
<1> QED BY <1>1, <1>2, <1>3, <1>4, <1>5, <1>6 DEF States

----------------------------------------------------------------------------
(* Segments of the peer. *)

(* A change of the connection's state after the handshake. *)
LEMMA MoveStep ==
  ASSUME NEW f, NEW g, NEW pc, NEW e, NEW D, NEW m, Good(f, pc, e, D, m),
         Same(f, g, {"state", "fin_received", "tcp_connections"}), FlowTypes(g), Counted(g),
         f.state \notin {"CLOSED", "SYN_RCVD"},
         g.state \notin {"CLOSED", "SYN_RCVD", "SYN_ACK_SENT"},
         g.state \in {"FIN_WAIT_1", "FIN_WAIT_2", "LAST_ACK", "TIME_WAIT"} => f.fin_sent,
         f.active_write /\ g.state \in {"FIN_WAIT_2", "TIME_WAIT"} => f.snd_nxt <= e
  PROVE  Leads(f, pc, g, pc, e, D, m)
<1>1. DOMAIN f = Fields
  BY DEF Good, FlowOK, FlowTypes
<1>2. /\ g.snd_una = f.snd_una /\ g.snd_nxt = f.snd_nxt /\ g.fin_sent = f.fin_sent
      /\ g.app_closed = f.app_closed /\ g.probe_in_flight = f.probe_in_flight /\ g.rst = f.rst
      /\ g.active_write = f.active_write /\ g.write_id = f.write_id
      /\ g.total = f.total /\ g.offset = f.offset /\ g.start_seq = f.start_seq
      /\ g.pc = f.pc /\ g.wake = f.wake /\ g.segment = f.segment /\ g.out = f.out
      /\ g.writes = f.writes /\ g.totals = f.totals /\ g.done = f.done
  BY <1>1 DEF Same, Fields
<1>3. FlowOK(g, pc, e, D, m)
  <2>1. Lifecycle(g, pc) /\ FinLast(g, m) /\ InStep(g, pc) /\ Bounded(g, pc)
    BY <1>2 DEF Good, FlowOK, Lifecycle, FinLast, InStep, Bounded, FinOne
  <2>2. WakeOK(g) /\ Once(g) /\ Acked(g, pc, e, D)
    BY <1>2 DEF Good, FlowOK, WakeOK, Once, Acked
  <2> QED BY <2>1, <2>2 DEF FlowOK
<1>4. Keeps(f, pc, g, pc)
  BY <1>2 DEF Keeps, PosOK, ProbeOut
<1> QED BY <1>2, <1>3, <1>4, SegmentsSame DEF Leads, Good

(* advance_una, and the end of a probe: the peer acknowledges at most what it *)
(* holds, and the byte at snd_nxt only when a probe carried it.               *)
LEMMA AdvanceStep ==
  ASSUME NEW f, NEW pc, NEW e \in Nat, NEW D, NEW m, NEW ack \in Nat, NEW g,
         g = [advance_una(f, ack) EXCEPT !.probe_in_flight = FALSE],
         Good(f, pc, e, D, m), f.state # "CLOSED",
         ack <= e, f.probe_in_flight /\ ack = f.snd_nxt + 1 => ProbeOut(f, pc)
  PROVE  Leads(f, pc, g, pc, e, D, m) /\ g.state = f.state /\ g.wake = f.wake /\ g.pc = f.pc
<1> DEFINE inside == ack > f.snd_una /\ ack <= f.snd_nxt
           probed == ~inside /\ f.probe_in_flight /\ ack = f.snd_nxt + 1
<1>1. FlowTypes(f) /\ DOMAIN f = Fields
  BY DEF Good, FlowOK, FlowTypes
<1>2. /\ f.snd_una \in Nat /\ f.snd_nxt \in Nat /\ f.start_seq \in Nat
      /\ f.offset \in Nat /\ f.total \in Nat /\ f.total <= MaxTotal /\ MaxTotal \in Nat
      /\ f.write_id \in Nat /\ f.writes \in Nat /\ Room(f.writes) \in Nat
      /\ f.write_id \in 1..f.writes =>
           /\ Room(f.write_id - 1) \in Nat
           /\ Room(f.write_id - 1) + MaxTotal <= Room(f.writes)
  BY <1>1, FlowNumbers
<1>3. /\ Same(f, g, {"snd_una", "snd_nxt", "offset", "probe_in_flight"})
      /\ g.probe_in_flight = FALSE
      /\ g.snd_una = IF inside \/ probed THEN ack ELSE f.snd_una
      /\ g.snd_nxt = IF probed THEN ack ELSE f.snd_nxt
      /\ g.offset = IF probed /\ Unsent(f) THEN f.offset + 1 ELSE f.offset
  <2>1. CASE inside
    BY <1>1, <1>2, <2>1 DEF advance_una, Same, Fields
  <2>2. CASE probed
    BY <1>1, <1>2, <2>2 DEF advance_una, Same, Fields
  <2>3. CASE ~inside /\ ~probed
    BY <1>1, <1>2, <2>3 DEF advance_una, Same, Fields
  <2> QED BY <2>1, <2>2, <2>3
<1>4. /\ g.state = f.state /\ g.fin_sent = f.fin_sent /\ g.rst = f.rst
      /\ g.app_closed = f.app_closed /\ g.tcp_connections = f.tcp_connections
      /\ g.active_write = f.active_write /\ g.write_id = f.write_id
      /\ g.total = f.total /\ g.start_seq = f.start_seq
      /\ g.pc = f.pc /\ g.wake = f.wake /\ g.segment = f.segment /\ g.out = f.out
      /\ g.writes = f.writes /\ g.totals = f.totals /\ g.done = f.done
  BY <1>1, <1>3 DEF Same, Fields
<1>5. probed =>
        \/ f.active_write /\ f.offset < f.total /\ ~f.fin_sent /\ pc # "start"
        \/ f.app_closed /\ pc = "none" /\ ~f.active_write
  BY <1>2 DEF ProbeOut, Good, FlowOK, Lifecycle, FinLast
<1>6. /\ g.snd_una \in Nat /\ g.snd_nxt \in Nat /\ g.offset \in Nat
      /\ g.snd_una <= g.snd_nxt /\ f.snd_nxt <= g.snd_nxt /\ g.snd_una <= e
      /\ f.fin_sent /\ ~f.app_closed => g.snd_nxt = f.snd_nxt
  BY <1>2, <1>3, <1>5 DEF Good, FlowOK, InStep, Acked
<1>7. FlowTypes(g)
  BY <1>1, <1>3, <1>6 DEF FlowTypes, Same, Fields
<1>8. /\ f.active_write => g.offset - f.offset = g.snd_nxt - f.snd_nxt /\ g.offset <= g.total
      /\ ~f.active_write => g.offset = f.offset
      /\ f.active_write /\ f.fin_sent => g.offset = f.offset
      /\ f.active_write /\ pc = "start" => g.offset = f.offset /\ g.snd_nxt = f.snd_nxt
      /\ ~f.active_write /\ ~f.app_closed => g.snd_nxt = f.snd_nxt
      /\ f.app_closed =>
           \/ g.snd_nxt = f.snd_nxt
           \/ g.snd_nxt = f.snd_nxt + 1 /\ pc = "none" /\ f.probe_in_flight
  <2>1. CASE probed
    BY <1>2, <1>3, <1>4, <1>5, <2>1 DEF Unsent, Good, FlowOK, Lifecycle
  <2>2. CASE ~probed
    BY <1>2, <1>3, <1>4, <2>2 DEF Good, FlowOK, Lifecycle
  <2> QED BY <2>1, <2>2
<1> HIDE DEF inside, probed
<1>9. FlowOK(g, pc, e, D, m)
  <2>1. Lifecycle(g, pc) /\ FinLast(g, m)
    BY <1>2, <1>4, <1>6, <1>8 DEF Good, FlowOK, Lifecycle, FinLast
  <2>2. InStep(g, pc)
    <3>1. f.state = "SYN_RCVD" => ~f.active_write /\ ~f.app_closed
      BY DEF Good, FlowOK, Lifecycle, FinLast
    <3>2. f.active_write /\ pc # "start" =>
            g.start_seq + g.offset + FinOne(g) = g.snd_nxt
      <4> SUFFICES ASSUME f.active_write, pc # "start"
                   PROVE  g.start_seq + g.offset + FinOne(g) = g.snd_nxt
        OBVIOUS
      <4>1. f.start_seq + f.offset + FinOne(f) = f.snd_nxt
        BY DEF Good, FlowOK, InStep
      <4>2. FinOne(g) = FinOne(f) /\ FinOne(f) \in Nat /\ g.start_seq = f.start_seq
        BY <1>4 DEF FinOne
      <4>3. g.offset - f.offset = g.snd_nxt - f.snd_nxt
        BY <1>8
      <4> QED BY <1>2, <1>6, <4>1, <4>2, <4>3
    <3>3. f.state = "SYN_RCVD" => g.snd_nxt = 0
      BY <1>8, <3>1 DEF Good, FlowOK, InStep
    <3>4. f.state \notin {"SYN_RCVD", "CLOSED"} => g.snd_nxt > 0
      BY <1>2, <1>6 DEF Good, FlowOK, InStep
    <3>5. f.active_write /\ pc = "start" => g.offset = 0 /\ ~f.fin_sent
      BY <1>8 DEF Good, FlowOK, InStep
    <3>6. f.active_write /\ pc # "start" => g.start_seq > 0
      BY <1>4 DEF Good, FlowOK, InStep
    <3> QED BY <1>4, <1>6, <3>2, <3>3, <3>4, <3>5, <3>6 DEF InStep
  <2>3. Bounded(g, pc)
    <3>1. f.active_write => g.snd_nxt <= 3 + Room(f.writes)
      <4>1. CASE pc = "start"
        BY <1>2, <1>8, <4>1 DEF Good, FlowOK, Bounded
      <4>2. CASE pc # "start" /\ f.active_write
        <5>1. /\ g.start_seq + g.offset + FinOne(g) = g.snd_nxt
              /\ g.start_seq <= 1 + Room(f.write_id - 1)
          BY <1>4, <2>2, <4>2 DEF Good, FlowOK, Bounded, InStep
        <5>2. g.offset <= MaxTotal /\ f.write_id \in 1..f.writes
          BY <1>2, <1>4, <1>6, <1>8, <4>2 DEF Good, FlowOK, Lifecycle
        <5> QED BY <1>2, <1>4, <1>6, <5>1, <5>2 DEF FinOne
      <4> QED BY <4>1, <4>2
    <3>2. ~f.active_write => g.snd_nxt <= 3 + Room(f.writes)
      BY <1>2, <1>6, <1>8 DEF Good, FlowOK, Bounded
    <3>3. f.app_closed /\ f.state # "CLOSED" =>
            g.snd_nxt + (IF pc # "none" THEN 1 ELSE 0) <= 3 + Room(f.writes)
      BY <1>2, <1>6, <1>8 DEF Good, FlowOK, Bounded
    <3> QED BY <1>2, <1>3, <1>4, <1>6, <1>8, <3>1, <3>2, <3>3 DEF Good, FlowOK, Bounded, FinOne
  <2>4. WakeOK(g) /\ Counted(g) /\ Once(g)
    BY <1>4 DEF Good, FlowOK, WakeOK, Counted, Once
  <2>5. Acked(g, pc, e, D)
    <3>1. f.active_write /\ f.state \in {"FIN_WAIT_2", "TIME_WAIT"} => g.snd_nxt = f.snd_nxt
      BY <1>6 DEF Good, FlowOK, FinLast, Lifecycle
    <3> QED BY <1>4, <1>6, <3>1 DEF Good, FlowOK, Acked
  <2> QED BY <1>7, <2>1, <2>2, <2>3, <2>4, <2>5 DEF FlowOK
<1>10. Keeps(f, pc, g, pc)
  <2>1. g.snd_nxt # f.snd_nxt => g.snd_nxt > f.snd_nxt
    BY <1>2, <1>6
  <2>2. g.snd_nxt = f.snd_nxt => (ProbeOut(f, pc) => ProbeOut(g, pc))
    <3>1. f.active_write /\ g.snd_nxt = f.snd_nxt => g.offset = f.offset
      BY <1>2, <1>6, <1>8
    <3> QED BY <1>4, <3>1 DEF ProbeOut
  <2> SUFFICES ASSUME NEW i \in Nat, NEW b, PosOK(f, pc, i, b) PROVE PosOK(g, pc, i, b)
    BY <1>4 DEF Keeps
  <2>3. i < g.snd_nxt \/ (i = g.snd_nxt /\ ProbeOut(g, pc))
    BY <1>2, <1>6, <2>1, <2>2 DEF PosOK
  <2> QED BY <1>4, <2>3 DEF PosOK
<1> QED BY <1>4, <1>9, <1>10, SegmentsSame DEF Leads, Good

(* handle_ack: what it covers, the FIN that waited for it, and the end of the *)
(* states that wait for the FIN to be acknowledged.                           *)
LEMMA AckStep ==
  ASSUME NEW f, NEW pc, NEW e \in Nat, NEW D, NEW m, NEW ack \in Nat, NEW g,
         g = handle_ack(f, ack),
         Good(f, pc, e, D, m), f.state # "CLOSED",
         ack <= e, f.probe_in_flight /\ ack = f.snd_nxt + 1 => ProbeOut(f, pc)
  PROVE  Leads(f, pc, g, pc, e, D, m)
<1> DEFINE a == [advance_una(f, ack) EXCEPT !.probe_in_flight = FALSE]
           n == [a EXCEPT !.fin_pending = FALSE]
           b == IF a.fin_pending /\ a.snd_una = a.snd_nxt /\ ~Unsent(a) THEN send_fin(n) ELSE a
           ended == b.state \in {"FIN_WAIT_1", "LAST_ACK"} /\ b.fin_sent /\ ack >= b.snd_nxt
<1>1. g = IF ended
          THEN IF b.state = "LAST_ACK"
               THEN close_flow(b, "success")
               ELSE [b EXCEPT !.state = IF b.fin_received THEN "TIME_WAIT" ELSE "FIN_WAIT_2"]
          ELSE b
  BY DEF handle_ack
<1>2. Leads(f, pc, a, pc, e, D, m)
  BY AdvanceStep
<1> HIDE DEF a
<1>3. FlowTypes(a) /\ DOMAIN a = Fields
  BY <1>2 DEF Leads, Good, FlowOK, FlowTypes
<1>4. Leads(a, pc, n, pc, e, D, m)
  <2>1. Same(a, n, {"fin_pending"}) /\ n.fin_pending = FALSE
    BY <1>3 DEF Same, Fields
  <2> HIDE DEF n
  <2>2. FlowTypes(n)
    BY <1>3, <2>1 DEF FlowTypes, Same, Fields
  <2>3. Same(a, n, FreeFields)
    BY <1>3, <2>1 DEF Same, FreeFields, QuietFields, Fields
  <2> QED BY <1>2, <2>2, <2>3, FreeStep DEF Leads
<1> HIDE DEF n
<1>5. Leads(f, pc, b, pc, e, D, m)
  <2>1. CASE b = send_fin(n)
    <3>1. Leads(n, pc, b, pc, e, D, m)
      BY <1>4, <2>1, FinStep DEF Leads
    <3>2. Leads(f, pc, n, pc, e, D, m)
      BY <1>2, <1>4, LeadsTransitive
    <3> QED BY <3>1, <3>2, LeadsTransitive
  <2>2. CASE b = a
    BY <1>2, <2>2
  <2> QED BY <2>1, <2>2
<1> HIDE DEF b
<1>6. FlowTypes(b) /\ DOMAIN b = Fields /\ Good(b, pc, e, D, m)
  BY <1>5 DEF Leads, Good, FlowOK, FlowTypes
<1>7. b.start_seq \in Nat /\ b.total \in Nat /\ b.snd_nxt \in Nat
  BY <1>6, FlowNumbers
<1>8. CASE ended /\ b.state = "LAST_ACK"
  <2>1. g = close_flow(b, "success") /\ "success" \in Codes
    BY <1>1, <1>8 DEF Codes
  <2>2. b.active_write => b.write_id \in D
    <3>1. b.active_write => b.start_seq + b.total + 1 = b.snd_nxt /\ pc # "start"
      BY <1>6, <1>7, <1>8 DEF Good, FlowOK, InStep, FinLast, FinOne
    <3>2. b.snd_nxt <= e
      BY <1>7, <1>8
    <3> QED BY <1>6, <1>7, <3>1, <3>2 DEF Good, FlowOK, Acked
  <2>3. Leads(b, pc, g, pc, e, D, m)
    BY <1>6, <2>1, <2>2, CloseGood
  <2> QED BY <1>5, <2>3, LeadsTransitive
<1>9. CASE ended /\ b.state = "FIN_WAIT_1"
  <2>1. g = [b EXCEPT !.state = IF b.fin_received THEN "TIME_WAIT" ELSE "FIN_WAIT_2"]
    BY <1>1, <1>9
  <2>2. Same(b, g, {"state"}) /\ g.state \in {"TIME_WAIT", "FIN_WAIT_2"}
    BY <1>6, <2>1 DEF Same, Fields
  <2>3. FlowTypes(g)
    <3>1. g.state \in States
      BY <2>2 DEF States
    <3> QED BY <1>6, <2>2, <3>1 DEF FlowTypes, Same, Fields
  <2>4. Counted(g)
    <3>1. g.tcp_connections = b.tcp_connections
      BY <1>6, <2>2 DEF Same, Fields
    <3> QED BY <1>6, <1>9, <2>2, <3>1 DEF Good, FlowOK, Counted, Opened, States
  <2>5. Same(b, g, {"state", "fin_received", "tcp_connections"})
    BY <2>2 DEF Same
  <2>6. b.snd_nxt <= e
    BY <1>7, <1>9
  <2>7. Leads(b, pc, g, pc, e, D, m)
    BY <1>6, <1>9, <2>2, <2>3, <2>4, <2>5, <2>6, MoveStep
  <2> QED BY <1>5, <2>7, LeadsTransitive
<1>10. CASE ~ended
  BY <1>1, <1>5, <1>10
<1> QED BY <1>8, <1>9, <1>10

(* establish, and handle_fin after it. *)
LEMMA EstablishStep ==
  ASSUME NEW f, NEW pc, NEW e, NEW D, NEW m, NEW g, g = establish(f), Good(f, pc, e, D, m)
  PROVE  Leads(f, pc, g, pc, e, D, m) /\ g.state # "SYN_ACK_SENT"
         /\ (f.state \notin {"CLOSED", "SYN_RCVD"} => g.state \notin {"CLOSED", "SYN_RCVD"})
<1>1. CASE f.state # "SYN_ACK_SENT"
  BY <1>1 DEF establish, Leads, Keeps
<1>2. CASE f.state = "SYN_ACK_SENT"
  <2>1. FlowTypes(f) /\ DOMAIN f = Fields
    BY DEF Good, FlowOK, FlowTypes
  <2>2. Same(f, g, {"state", "tcp_connections"}) /\ g.state = "ESTABLISHED"
        /\ g.tcp_connections = f.tcp_connections + 1
    BY <1>2, <2>1 DEF establish, Same, Fields
  <2>3. f.tcp_connections = 0
    BY <1>2 DEF Good, FlowOK, Counted, Opened
  <2>4. FlowTypes(g)
    <3>1. g.state \in States /\ g.tcp_connections \in Int
      BY <2>2, <2>3 DEF States
    <3> QED BY <2>1, <2>2, <3>1 DEF FlowTypes, Same, Fields
  <2>5. Counted(g)
    BY <2>2, <2>3 DEF Counted, Opened, States
  <2>6. Same(f, g, {"state", "fin_received", "tcp_connections"})
    BY <2>2 DEF Same
  <2>7. Leads(f, pc, g, pc, e, D, m)
    BY <1>2, <2>2, <2>4, <2>5, <2>6, MoveStep
  <2> QED BY <2>2, <2>7
<1> QED BY <1>1, <1>2

(* handle_fin, of a connection that was established. *)
LEMMA FinReceivedStep ==
  ASSUME NEW f, NEW pc, NEW e, NEW D, NEW m, NEW g, g = handle_fin(f), Good(f, pc, e, D, m),
         f.state \notin {"CLOSED", "SYN_RCVD", "SYN_ACK_SENT"}
  PROVE  Leads(f, pc, g, pc, e, D, m)
<1>1. CASE f.fin_received
  BY <1>1 DEF handle_fin, Leads, Keeps
<1>2. CASE ~f.fin_received
  <2>1. FlowTypes(f) /\ DOMAIN f = Fields /\ f.state \in States
    BY DEF Good, FlowOK, FlowTypes
  <2>2. /\ Same(f, g, {"state", "fin_received"}) /\ g.fin_received = TRUE
        /\ g.state = IF f.state = "ESTABLISHED" THEN "CLOSE_WAIT"
                     ELSE IF f.state = "FIN_WAIT_2" THEN "TIME_WAIT" ELSE f.state
    BY <1>2, <2>1 DEF handle_fin, Same, Fields
  <2>3. FlowTypes(g)
    <3>1. g.state \in States
      BY <2>1, <2>2 DEF States
    <3> QED BY <2>1, <2>2, <3>1 DEF FlowTypes, Same, Fields
  <2>4. Counted(g)
    <3>1. g.tcp_connections = f.tcp_connections
      BY <2>1, <2>2 DEF Same, Fields
    <3> QED BY <2>1, <2>2, <3>1 DEF Good, FlowOK, Counted, Opened, States
  <2>5. Same(f, g, {"state", "fin_received", "tcp_connections"})
    BY <2>2 DEF Same
  <2>6. g.state \in {"FIN_WAIT_1", "FIN_WAIT_2", "LAST_ACK", "TIME_WAIT"} => f.fin_sent
    BY <2>2 DEF Good, FlowOK, FinLast
  <2>7. f.active_write /\ g.state \in {"FIN_WAIT_2", "TIME_WAIT"} => f.snd_nxt <= e
    BY <2>2 DEF Good, FlowOK, Acked
  <2> QED BY <2>2, <2>3, <2>4, <2>5, <2>6, <2>7, MoveStep
<1> QED BY <1>1, <1>2

\* The segments Receive is given.
PeerSegment(s, e) ==
  /\ s.ack \in Nat /\ s.ack <= e /\ (s.ack # 0 => s.wnd \in Windows)
  /\ s.syn \in BOOLEAN /\ s.fin \in BOOLEAN /\ s.rst \in BOOLEAN

(* handle_segment. *)
LEMMA SegmentStep ==
  ASSUME NEW f, NEW pc, NEW e \in Nat, NEW D, NEW m, NEW s, NEW g,
         g = handle_segment(f, s),
         Good(f, pc, e, D, m), f.state # "CLOSED", PeerSegment(s, e),
         f.probe_in_flight /\ s.ack = f.snd_nxt + 1 => ProbeOut(f, pc)
  PROVE  Leads(f, pc, g, pc, e, D, m)
<1> DEFINE k == handle_ack(f, s.ack)
           a == IF s.ack = 0 THEN f ELSE [k EXCEPT !.peer_wnd = s.wnd]
           x == establish(a)
           y == IF s.fin THEN handle_fin(x) ELSE x
           r == [a EXCEPT !.rst = TRUE]
<1>1. Leads(f, pc, a, pc, e, D, m)
  <2>1. CASE s.ack = 0
    BY <2>1 DEF Leads, Keeps
  <2>2. CASE s.ack # 0
    <3>1. Leads(f, pc, k, pc, e, D, m)
      BY AckStep DEF PeerSegment
    <3> HIDE DEF k
    <3>2. FlowTypes(k) /\ DOMAIN k = Fields /\ Good(k, pc, e, D, m)
      BY <3>1 DEF Leads, Good, FlowOK, FlowTypes
    <3>3. Same(k, a, {"peer_wnd"}) /\ a.peer_wnd = s.wnd
      BY <2>2, <3>2 DEF Same, Fields
    <3> HIDE DEF a
    <3>4. FlowTypes(a)
      BY <2>2, <3>2, <3>3 DEF FlowTypes, Same, Fields, PeerSegment
    <3>5. Same(k, a, FreeFields)
      BY <3>2, <3>3 DEF Same, FreeFields, QuietFields, Fields
    <3>6. Leads(k, pc, a, pc, e, D, m)
      BY <3>2, <3>4, <3>5, FreeStep
    <3> QED BY <3>1, <3>6, LeadsTransitive
  <2> QED BY <2>1, <2>2
<1>2. g = IF a.state = "CLOSED" THEN a
          ELSE IF s.rst THEN close_flow(r, "connection_reset")
          ELSE IF a.state = "SYN_RCVD" THEN a
          ELSE IF a.state = "SYN_ACK_SENT" /\ s.syn THEN send_segment(a, SynAck)
          ELSE IF a.state = "SYN_ACK_SENT" /\ s.ack # 1 THEN a
          ELSE signal_write(y)
  BY DEF handle_segment
<1> HIDE DEF a
<1>3. FlowTypes(a) /\ DOMAIN a = Fields /\ Good(a, pc, e, D, m)
  BY <1>1 DEF Leads, Good, FlowOK, FlowTypes
<1>4. CASE g = a
  BY <1>1, <1>4
<1>5. CASE g = close_flow(r, "connection_reset") /\ a.state # "CLOSED"
  <2>1. Same(a, r, {"out", "rst"}) /\ r.rst = TRUE /\ r.out = a.out
    BY <1>3 DEF Same, Fields
  <2> HIDE DEF r
  <2>2. /\ Closable(r, e, D, m) /\ r.state = a.state /\ r.snd_nxt = a.snd_nxt
        /\ r.active_write = a.active_write /\ r.writes = a.writes /\ r.totals = a.totals
    <3>1. Closable(a, e, D, m) /\ r.out \subseteq a.out \cup {Rst}
      BY <1>3, <2>1, GoodClosable
    <3> QED BY <2>1, <3>1, RstClosable
  <2>3. /\ Good(g, pc, e, D, m) /\ g.state = "CLOSED" /\ ~g.active_write
        /\ g.snd_nxt = r.snd_nxt /\ g.writes = r.writes /\ g.totals = r.totals
    BY <1>5, <2>2, CloseFlowStep DEF Codes
  <2>4. a.snd_nxt \in Nat
    BY <1>3 DEF FlowTypes
  <2>5. Keeps(a, pc, g, pc)
    BY <2>2, <2>3, <2>4 DEF Keeps, PosOK, ProbeOut
  <2>6. Leads(a, pc, g, pc, e, D, m)
    BY <2>3, <2>5 DEF Leads
  <2> QED BY <1>1, <2>6, LeadsTransitive
<1>6. CASE g = send_segment(a, SynAck)
  <2>1. Sound(a, pc, SynAck)
    BY ControlSegments DEF Sound
  <2>2. Leads(a, pc, g, pc, e, D, m)
    BY <1>3, <1>6, <2>1, ControlSegments, SendStep
  <2> QED BY <1>1, <2>2, LeadsTransitive
<1>7. CASE g = signal_write(y) /\ a.state \notin {"CLOSED", "SYN_RCVD"}
  <2>1. Leads(a, pc, x, pc, e, D, m) /\ x.state \notin {"CLOSED", "SYN_RCVD", "SYN_ACK_SENT"}
    BY <1>3, <1>7, EstablishStep
  <2> HIDE DEF x
  <2>2. Leads(x, pc, y, pc, e, D, m)
    <3>1. CASE s.fin
      BY <2>1, <3>1, FinReceivedStep DEF Leads
    <3>2. CASE ~s.fin
      BY <2>1, <3>2 DEF Leads, Keeps
    <3> QED BY <3>1, <3>2
  <2> HIDE DEF y
  <2>3. Leads(y, pc, g, pc, e, D, m)
    BY <1>7, <2>2, SignalStep DEF Leads
  <2>4. Leads(f, pc, x, pc, e, D, m)
    BY <1>1, <2>1, LeadsTransitive
  <2>5. Leads(f, pc, y, pc, e, D, m)
    BY <2>2, <2>4, LeadsTransitive
  <2> QED BY <2>3, <2>5, LeadsTransitive
<1> HIDE DEF y, r
<1> QED BY <1>2, <1>4, <1>5, <1>6, <1>7

(* on_packet: a SYN in TIME_WAIT closes the flow, whose data the peer holds. *)
LEMMA PacketStep ==
  ASSUME NEW f, NEW pc, NEW e \in Nat, NEW D, NEW m, NEW s, NEW g, g = on_packet(f, s),
         Good(f, pc, e, D, m), f.state # "CLOSED", PeerSegment(s, e),
         f.probe_in_flight /\ s.ack = f.snd_nxt + 1 => ProbeOut(f, pc)
  PROVE  Leads(f, pc, g, pc, e, D, m)
<1>1. CASE f.state = "TIME_WAIT" /\ s.syn
  <2>1. g = close_flow(f, "success") /\ "success" \in Codes
    BY <1>1 DEF on_packet, Codes
  <2>2. f.active_write => f.write_id \in D
    <3>1. f.start_seq \in Nat /\ f.total \in Nat /\ f.snd_nxt \in Nat
      BY FlowNumbers DEF Good, FlowOK
    <3>2. f.active_write => f.start_seq + f.total + 1 = f.snd_nxt /\ pc # "start" /\ f.snd_nxt <= e
      BY <1>1, <3>1 DEF Good, FlowOK, InStep, FinLast, FinOne, Acked
    <3> QED BY <3>1, <3>2 DEF Good, FlowOK, Acked
  <2> QED BY <2>1, <2>2, CloseGood
<1>2. CASE ~(f.state = "TIME_WAIT" /\ s.syn)
  <2>1. g = handle_segment(f, s)
    BY <1>2 DEF on_packet
  <2> QED BY <2>1, SegmentStep
<1> QED BY <1>1, <1>2

----------------------------------------------------------------------------
(* The segments of write_loop. *)

(* The active write is one of those that were started, and the flow is open. *)
LEMMA ActiveWrite ==
  ASSUME NEW f, NEW pc, NEW e, NEW D, NEW m, Good(f, pc, e, D, m), f.active_write
  PROVE  /\ FlowTypes(f) /\ DOMAIN f = Fields
         /\ f.write_id \in 1..f.writes /\ f.write_id \in 1..MaxWrites
         /\ ~f.app_closed /\ f.state \notin {"CLOSED", "SYN_RCVD"} /\ ~f.rst
<1>1. FlowTypes(f) /\ DOMAIN f = Fields /\ f.writes \in 0..MaxWrites
  BY DEF Good, FlowOK, FlowTypes
<1>2. /\ f.write_id \in 1..f.writes
      /\ ~f.app_closed /\ f.state \notin {"CLOSED", "SYN_RCVD"} /\ ~f.rst
  BY DEF Good, FlowOK, Lifecycle
<1>3. f.write_id \in 1..MaxWrites
  BY <1>1, <1>2, FlowAssumption
<1> QED BY <1>1, <1>2, <1>3

(* A data segment within the active write carries its bytes in their places. *)
LEMMA DataPlaces ==
  ASSUME NEW f, FlowTypes(f), NEW off \in Nat, NEW n \in Nat,
         f.write_id \in 1..MaxWrites, off + n <= f.total
  PROVE  /\ DataSegment(f, off, n) \in Segments
         /\ \A i \in Nat : Puts(DataSegment(f, off, n), i) # NoByte =>
              /\ i >= f.start_seq + off /\ i < f.start_seq + off + n
              /\ Puts(DataSegment(f, off, n), i) = Byte(f.write_id, i - f.start_seq)
<1> DEFINE s == DataSegment(f, off, n)
           bytes == [k \in 1..n |-> Byte(f.write_id, off + k - 1)]
<1>1. f.start_seq \in Nat /\ f.total \in Nat /\ f.total <= MaxTotal /\ MaxTotal \in Nat
  BY FlowNumbers
<1>2. s = [kind |-> "DATA", seq |-> f.start_seq + off, bytes |-> bytes]
  BY DEF DataSegment
<1> HIDE DEF s
<1>3. ASSUME NEW k \in 1..n PROVE Byte(f.write_id, off + k - 1) \in Bytes
  <2>1. off + k - 1 \in 0..(MaxTotal - 1)
    BY <1>1
  <2> QED BY <2>1 DEF Bytes
<1>4. bytes \in Seq(Bytes) /\ Len(bytes) = n
  BY <1>3
<1>5. s \in Segments
  BY <1>1, <1>2, <1>4 DEF Segments
<1>6. \A k \in 1..n : bytes[k] = Byte(f.write_id, off + k - 1)
  OBVIOUS
<1> HIDE DEF bytes
<1>7. ASSUME NEW i \in Nat, Puts(s, i) # NoByte
      PROVE  /\ i >= f.start_seq + off /\ i < f.start_seq + off + n
             /\ Puts(s, i) = Byte(f.write_id, i - f.start_seq)
  <2>1. /\ i - (f.start_seq + off) \in 0..(n - 1)
        /\ Puts(s, i) = bytes[i - (f.start_seq + off) + 1]
    BY <1>2, <1>4, <1>7 DEF Puts
  <2>2. i - (f.start_seq + off) + 1 \in 1..n
        /\ off + (i - (f.start_seq + off) + 1) - 1 = i - f.start_seq
    BY <1>1, <2>1
  <2>3. bytes[i - (f.start_seq + off) + 1] = Byte(f.write_id, i - f.start_seq)
    BY <1>6, <2>2
  <2> QED BY <1>1, <2>1, <2>3
<1> QED BY <1>5, <1>7 DEF s

(* It is sound when it was sent before. *)
LEMMA DataSound ==
  ASSUME NEW f, NEW pc, NEW e, NEW D, NEW m, Good(f, pc, e, D, m), f.active_write,
         NEW off \in Nat, NEW n \in Nat,
         off + n <= f.total, f.start_seq + off + n <= f.snd_nxt
  PROVE  DataSegment(f, off, n) \in Segments /\ Sound(f, pc, DataSegment(f, off, n))
<1>1. FlowTypes(f) /\ f.write_id \in 1..MaxWrites
  BY ActiveWrite
<1>2. f.start_seq \in Nat /\ f.snd_nxt \in Nat
  BY <1>1, FlowNumbers
<1> DEFINE s == DataSegment(f, off, n)
<1>3. /\ s \in Segments
      /\ \A i \in Nat : Puts(s, i) # NoByte =>
           /\ i >= f.start_seq + off /\ i < f.start_seq + off + n
           /\ Puts(s, i) = Byte(f.write_id, i - f.start_seq)
  BY <1>1, DataPlaces
<1> HIDE DEF s
<1>4. ASSUME NEW i \in Nat, Puts(s, i) # NoByte PROVE PosOK(f, pc, i, Puts(s, i))
  <2>1. i < f.snd_nxt /\ Puts(s, i) = Byte(f.write_id, i - f.start_seq)
    BY <1>2, <1>3, <1>4
  <2> QED BY <2>1 DEF PosOK
<1>5. Sound(f, pc, s)
  BY <1>4 DEF Sound
<1> QED BY <1>3, <1>5 DEF s

(* send_window_probe, of a write with unsent bytes. *)
LEMMA ProbeStep ==
  ASSUME NEW f, NEW pc, NEW e, NEW D, NEW m, NEW g, g = send_window_probe(f),
         Good(f, pc, e, D, m), f.active_write, f.offset < f.total,
         pc \in {"handshake", "window", "ack"}
  PROVE  Leads(f, pc, g, pc, e, D, m)
<1> DEFINE s == [DataSegment(f, f.offset, 1) EXCEPT !.seq = f.snd_nxt]
           h == send_segment(f, s)
<1>1. FlowTypes(f) /\ f.write_id \in 1..MaxWrites /\ DOMAIN f = Fields
  BY ActiveWrite
<1>2. f.start_seq \in Nat /\ f.snd_nxt \in Nat /\ f.offset \in Nat /\ f.total \in Nat
  BY <1>1, FlowNumbers
<1>3. f.start_seq + f.offset = f.snd_nxt /\ f.offset + 1 <= f.total
  BY <1>2 DEF Good, FlowOK, InStep, FinLast, FinOne
<1>4. s = DataSegment(f, f.offset, 1)
  BY <1>3 DEF DataSegment
<1>5. g = [h EXCEPT !.probe_in_flight = TRUE]
  BY DEF send_window_probe
<1> HIDE DEF s
<1>6. /\ s \in Segments
      /\ \A i \in Nat : Puts(s, i) # NoByte =>
           /\ i >= f.start_seq + f.offset /\ i < f.start_seq + f.offset + 1
           /\ Puts(s, i) = Byte(f.write_id, i - f.start_seq)
  BY <1>1, <1>2, <1>3, <1>4, DataPlaces
<1>7. Sound(f, pc, s)
  <2> SUFFICES ASSUME NEW i \in Nat, Puts(s, i) # NoByte PROVE PosOK(f, pc, i, Puts(s, i))
    BY DEF Sound
  <2>1. i = f.snd_nxt /\ Puts(s, i) = Byte(f.write_id, i - f.start_seq)
    BY <1>2, <1>3, <1>6
  <2> QED BY <2>1 DEF PosOK, ProbeOut
<1>8. Leads(f, pc, h, pc, e, D, m) /\ Same(f, h, {"out"})
  BY <1>6, <1>7, SendStep
<1> HIDE DEF h
<1>9. FlowTypes(h) /\ DOMAIN h = Fields /\ Good(h, pc, e, D, m) /\ h.active_write
  BY <1>1, <1>8 DEF Leads, Good, FlowOK, FlowTypes, Same, Fields
<1>10. Leads(h, pc, g, pc, e, D, m)
  <2>1. Same(h, g, {"probe_in_flight"}) /\ g.probe_in_flight = TRUE
    BY <1>5, <1>9 DEF Same, Fields
  <2>2. FlowTypes(g)
    BY <1>9, <2>1 DEF FlowTypes, Same, Fields
  <2>3. /\ g.snd_una = h.snd_una /\ g.snd_nxt = h.snd_nxt /\ g.fin_sent = h.fin_sent
        /\ g.app_closed = h.app_closed /\ g.tcp_connections = h.tcp_connections
        /\ g.active_write = h.active_write /\ g.write_id = h.write_id
        /\ g.total = h.total /\ g.offset = h.offset /\ g.start_seq = h.start_seq
        /\ g.pc = h.pc /\ g.wake = h.wake /\ g.segment = h.segment /\ g.out = h.out
        /\ g.writes = h.writes /\ g.totals = h.totals /\ g.done = h.done
        /\ g.state = h.state /\ g.rst = h.rst
    BY <1>9, <2>1 DEF Same, Fields
  <2>4. ~h.app_closed
    BY <1>9 DEF Good, FlowOK, Lifecycle
  <2>5. Lifecycle(g, pc) /\ FinLast(g, m) /\ InStep(g, pc) /\ Bounded(g, pc)
    BY <1>9, <2>3, <2>4 DEF Good, FlowOK, Lifecycle, FinLast, InStep, Bounded, FinOne
  <2>6. WakeOK(g) /\ Counted(g) /\ Once(g) /\ Acked(g, pc, e, D)
    BY <1>9, <2>3 DEF Good, FlowOK, WakeOK, Counted, Once, Acked
  <2>7. Keeps(h, pc, g, pc)
    BY <2>3 DEF Keeps, PosOK, ProbeOut
  <2>8. SegmentsOK(g, pc)
    BY <1>9, <2>3, <2>7, SegmentsSame DEF Good
  <2> QED BY <2>2, <2>5, <2>6, <2>7, <2>8 DEF Leads, Good, FlowOK
<1> QED BY <1>8, <1>10, LeadsTransitive

(* retransmit_unacked sends again what was sent and not acknowledged. *)
LEMMA RetransmitStep ==
  ASSUME NEW f, NEW pc, NEW e, NEW D, NEW m, NEW max \in Nat, NEW g,
         g = retransmit_unacked(f, max), Good(f, pc, e, D, m), pc # "start"
  PROVE  Leads(f, pc, g, pc, e, D, m) /\ Same(f, g, {"out"})
<1> DEFINE begin == f.snd_una - f.start_seq
           end == MinOf(MinOf(f.snd_nxt - f.start_seq, f.total), begin + max)
           offs == {off \in 0..f.total : off >= begin /\ off < end /\ (off - begin) % Mss = 0}
           N == {DataSegment(f, off, MinOf(Mss, end - off)) : off \in offs}
<1>0. FlowTypes(f) /\ DOMAIN f = Fields
  BY DEF Good, FlowOK, FlowTypes
<1>1. CASE g = f
  BY <1>1 DEF Leads, Keeps, Same
<1>2. CASE f.active_write /\ f.snd_una >= f.start_seq /\ g = [f EXCEPT !.out = f.out \cup N]
  <2>1. /\ f.snd_una \in Nat /\ f.snd_nxt \in Nat /\ f.start_seq \in Nat /\ f.total \in Nat
        /\ Mss \in Nat
    BY <1>0, FlowNumbers, FlowAssumption
  <2>2. begin \in Nat /\ end \in Int /\ end <= f.total /\ f.start_seq + end <= f.snd_nxt
    BY <1>2, <2>1 DEF MinOf
  <2>3. ASSUME NEW s \in N PROVE s \in Segments /\ Sound(f, pc, s)
    <3>1. PICK off \in offs : s = DataSegment(f, off, MinOf(Mss, end - off))
      OBVIOUS
    <3>2. off \in Nat /\ off < end
      BY <2>1, <3>1
    <3> HIDE DEF begin, end, offs, N
    <3>3. MinOf(Mss, end - off) \in Nat /\ off + MinOf(Mss, end - off) <= end
      BY <2>1, <2>2, <3>2 DEF MinOf
    <3>4. /\ off + MinOf(Mss, end - off) <= f.total
          /\ f.start_seq + off + MinOf(Mss, end - off) <= f.snd_nxt
      BY <2>1, <2>2, <3>2, <3>3
    <3> QED BY <1>2, <3>1, <3>2, <3>3, <3>4, DataSound
  <2> HIDE DEF begin, end, offs, N
  <2>4. Same(f, g, {"out"}) /\ g.out = f.out \cup N
    BY <1>0, <1>2 DEF Same, Fields
  <2>5. FlowTypes(g)
    BY <1>0, <2>3, <2>4 DEF FlowTypes, Same, Fields
  <2>6. Same(f, g, QuietFields) /\ g.segment = f.segment /\ g.pc = f.pc /\ g.wake = f.wake
    BY <1>0, <2>4 DEF Same, Fields, QuietFields
  <2>7. WakeOK(g)
    BY <2>6 DEF WakeOK, Good, FlowOK
  <2>8. FlowOK(g, pc, e, D, m) /\ Keeps(f, pc, g, pc)
    BY <2>5, <2>6, <2>7, QuietStep DEF Good
  <2>9. \A s \in N : Sound(g, pc, s)
    BY <2>3, <2>8 DEF Sound, Keeps
  <2>10. SegmentsOK(g, pc)
    BY <2>4, <2>6, <2>8, <2>9, SegmentsKept DEF Good
  <2> QED BY <2>4, <2>8, <2>10 DEF Leads, Good
<1>3. g = f \/ (f.active_write /\ ~(f.snd_una < f.start_seq) /\ g = [f EXCEPT !.out = f.out \cup N])
  BY DEF retransmit_unacked
<1>4. f.snd_una \in Nat /\ f.start_seq \in Nat
  BY <1>0, FlowNumbers
<1> HIDE DEF N
<1> QED BY <1>1, <1>2, <1>3, <1>4

----------------------------------------------------------------------------
(* The coroutine goes from one co_await to the next. *)

Waits == {"handshake", "window", "ack"}

(* The position of a coroutine that works for a write may become a wait. *)
LEMMA WaitPosition ==
  ASSUME NEW f, NEW pc, NEW where \in Waits, NEW e, NEW D, NEW m, Good(f, pc, e, D, m),
         f.active_write, pc # "start"
  PROVE  Leads(f, pc, f, where, e, D, m)
<1>1. ~f.app_closed /\ f.state # "CLOSED" /\ where \notin {"none", "start"}
  BY ActiveWrite DEF Waits
<1>2. FlowOK(f, where, e, D, m)
  <2>1. Lifecycle(f, where) /\ InStep(f, where) /\ Bounded(f, where) /\ Acked(f, where, e, D)
    BY <1>1 DEF Good, FlowOK, Lifecycle, InStep, Bounded, Acked
  <2> QED BY <2>1 DEF Good, FlowOK
<1>3. Keeps(f, pc, f, where)
  <2> SUFFICES ASSUME NEW i \in Nat, NEW b, PosOK(f, pc, i, b) PROVE PosOK(f, where, i, b)
    BY DEF Keeps
  <2> QED BY <1>1 DEF PosOK, ProbeOut, Waits
<1> QED BY <1>2, <1>3, SegmentsSame DEF Leads, Good

(* Suspend at a wait. *)
LEMMA SuspendStep ==
  ASSUME NEW f, NEW pc, NEW where \in Waits, NEW e, NEW D, NEW m, NEW g,
         g = Suspend(f, where), Good(f, pc, e, D, m), f.active_write, pc # "start"
  PROVE  Leads(f, pc, g, where, e, D, m) /\ g.pc = where
<1>1. FlowTypes(f) /\ DOMAIN f = Fields
  BY ActiveWrite
<1>2. Same(f, g, {"pc", "wake"}) /\ g.pc = where /\ g.wake = "none"
  BY <1>1 DEF Suspend, Same, Fields
<1>3. FlowTypes(g)
  <2>1. g.pc \in Pcs /\ g.wake \in Wakes
    BY <1>2 DEF Pcs, Wakes, Waits
  <2> QED BY <1>1, <1>2, <2>1 DEF FlowTypes, Same, Fields
<1>4. Same(f, g, QuietFields) /\ g.out = f.out /\ g.segment = f.segment /\ g.active_write
  BY <1>1, <1>2 DEF Same, QuietFields, Fields
<1>5. WakeOK(g)
  BY <1>2 DEF WakeOK, Waits
<1>6. Leads(f, pc, g, pc, e, D, m)
  BY <1>3, <1>4, <1>5, QuietStep, SegmentsSame DEF Leads, Good
<1>7. Leads(g, pc, g, where, e, D, m)
  BY <1>4, <1>6, WaitPosition DEF Leads
<1> QED BY <1>2, <1>6, <1>7, LeadsTransitive

(* The next segment is built and handed to the device: the offset and the *)
(* sequence number advance together, by at least one byte.                *)
LEMMA BuildStep ==
  ASSUME NEW f, NEW pc, NEW e, NEW D, NEW m, NEW g,
         g = Suspend(build_next_segment(f), "device"),
         Good(f, pc, e, D, m), f.active_write, pc \notin {"start", "none"},
         f.offset < f.total, InFlight(f) < f.peer_wnd
  PROVE  Leads(f, pc, g, "device", e, D, m) /\ g.pc = "device"
<1> DEFINE chunk == MinOf(f.total - f.offset, MinOf(Mss, f.peer_wnd - InFlight(f)))
           s == DataSegment(f, f.offset, chunk)
<1>1. /\ FlowTypes(f) /\ DOMAIN f = Fields
      /\ f.write_id \in 1..f.writes /\ f.write_id \in 1..MaxWrites
      /\ ~f.app_closed /\ f.state \notin {"CLOSED", "SYN_RCVD"} /\ ~f.rst
  BY ActiveWrite
<1>2. /\ f.snd_una \in Nat /\ f.snd_nxt \in Nat /\ f.start_seq \in Nat
      /\ f.offset \in Nat /\ f.total \in Nat /\ f.total <= MaxTotal /\ MaxTotal \in Nat
      /\ f.write_id \in Nat /\ f.writes \in Nat /\ Room(f.writes) \in Nat
      /\ Room(f.write_id - 1) \in Nat
      /\ Room(f.write_id - 1) + MaxTotal <= Room(f.writes)
  BY <1>1, FlowNumbers
<1>3. /\ ~f.fin_sent /\ f.start_seq > 0 /\ f.start_seq + f.offset = f.snd_nxt
      /\ f.snd_una <= f.snd_nxt /\ m \notin Nat
  BY <1>2 DEF Good, FlowOK, FinLast, InStep, FinOne
<1>4. chunk \in Nat /\ chunk > 0 /\ f.offset + chunk <= f.total
  <2>1. f.peer_wnd - InFlight(f) \in Nat /\ f.peer_wnd - InFlight(f) > 0
    <3>1. f.peer_wnd \in Nat
      BY <1>1, FlowAssumption DEF FlowTypes
    <3> QED BY <1>2, <1>3, <3>1 DEF InFlight
  <2> QED BY <1>2, <2>1, FlowAssumption DEF MinOf
<1> HIDE DEF chunk
<1>5. /\ Same(f, g, {"segment", "snd_nxt", "offset", "pc", "wake"})
      /\ g.segment = <<s>> /\ g.snd_nxt = f.snd_nxt + chunk /\ g.offset = f.offset + chunk
      /\ g.pc = "device" /\ g.wake = "none"
  BY <1>1 DEF Suspend, build_next_segment, chunk, Same, Fields
<1>6. /\ s \in Segments
      /\ \A i \in Nat : Puts(s, i) # NoByte =>
           /\ i >= f.start_seq + f.offset /\ i < f.start_seq + f.offset + chunk
           /\ Puts(s, i) = Byte(f.write_id, i - f.start_seq)
  BY <1>1, <1>2, <1>4, DataPlaces
<1> HIDE DEF s
<1>7. /\ g.snd_una = f.snd_una /\ g.fin_sent = f.fin_sent
      /\ g.app_closed = f.app_closed /\ g.tcp_connections = f.tcp_connections
      /\ g.active_write = f.active_write /\ g.write_id = f.write_id
      /\ g.total = f.total /\ g.start_seq = f.start_seq /\ g.out = f.out
      /\ g.writes = f.writes /\ g.totals = f.totals /\ g.done = f.done
      /\ g.state = f.state /\ g.rst = f.rst
  BY <1>1, <1>5 DEF Same, Fields
<1>8. FlowTypes(g)
  <2>1. g.segment \in Seq(Segments)
    <3>1. <<s>> \in Seq(Segments)
      BY <1>6
    <3> QED BY <1>5, <3>1
  <2>2. g.snd_nxt \in Nat /\ g.offset \in Nat
    BY <1>2, <1>4, <1>5
  <2>3. g.pc \in Pcs /\ g.wake \in Wakes
    BY <1>5 DEF Pcs, Wakes
  <2>4. Same(f, g, {"segment", "snd_nxt", "offset", "pc", "wake"})
    BY <1>5
  <2> QED BY <1>1, <2>1, <2>2, <2>3, <2>4 DEF FlowTypes, Same, Fields
<1>9. FlowOK(g, "device", e, D, m)
  <2>1. Lifecycle(g, "device") /\ FinLast(g, m)
    BY <1>1, <1>3, <1>4, <1>5, <1>7 DEF Good, FlowOK, Lifecycle, FinLast
  <2>2. InStep(g, "device")
    BY <1>1, <1>2, <1>3, <1>4, <1>5, <1>7 DEF InStep, FinOne
  <2>3. Bounded(g, "device")
    <3>1. f.start_seq <= 1 + Room(f.write_id - 1)
      BY DEF Good, FlowOK, Bounded
    <3>2. g.snd_nxt <= 3 + Room(f.writes)
      BY <1>2, <1>3, <1>4, <1>5, <3>1
    <3> QED BY <1>1, <1>7, <3>1, <3>2 DEF Bounded
  <2>4. WakeOK(g)
    BY <1>5 DEF WakeOK
  <2>5. Counted(g) /\ Once(g)
    BY <1>7 DEF Good, FlowOK, Counted, Once
  <2>6. Acked(g, "device", e, D)
    <3>1. f.state \notin {"FIN_WAIT_2", "TIME_WAIT"}
      BY <1>3 DEF Good, FlowOK, FinLast
    <3> QED BY <1>7, <3>1 DEF Good, FlowOK, Acked
  <2> QED BY <1>8, <2>1, <2>2, <2>3, <2>4, <2>5, <2>6 DEF FlowOK
<1>10. Keeps(f, pc, g, "device")
  <2> SUFFICES ASSUME NEW i \in Nat, NEW b, PosOK(f, pc, i, b) PROVE PosOK(g, "device", i, b)
    BY <1>7 DEF Keeps
  <2>1. i < g.snd_nxt
    BY <1>2, <1>4, <1>5 DEF PosOK
  <2> QED BY <1>7, <2>1 DEF PosOK
<1>11. SegmentsOK(g, "device")
  <2> DEFINE N == {s}
  <2>1. Sound(g, "device", s)
    <3> SUFFICES ASSUME NEW i \in Nat, Puts(s, i) # NoByte
                 PROVE  PosOK(g, "device", i, Puts(s, i))
      BY DEF Sound
    <3>1. i < g.snd_nxt /\ Puts(s, i) = Byte(f.write_id, i - f.start_seq)
      BY <1>2, <1>3, <1>4, <1>5, <1>6
    <3> QED BY <1>7, <3>1 DEF PosOK
  <2>2. /\ \A t \in N : Sound(g, "device", t)
        /\ g.out \subseteq f.out \cup N
        /\ g.segment = f.segment \/ \E t \in N : g.segment = <<t>>
    BY <1>5, <1>7, <2>1
  <2> HIDE DEF N
  <2> QED BY <1>10, <2>2, SegmentsKept DEF Good
<1> QED BY <1>5, <1>9, <1>10, <1>11 DEF Leads, Good

(* A coroutine without a write has no part in the invariant but its bounds. *)
LEMMA NoPosition ==
  ASSUME NEW f, NEW pc, NEW e, NEW D, NEW m, Good(f, pc, e, D, m), ~f.active_write
  PROVE  Leads(f, pc, f, "none", e, D, m)
<1>1. FlowOK(f, "none", e, D, m)
  <2>0. f.snd_nxt \in Nat /\ Room(f.writes) \in Nat
    BY FlowNumbers DEF Good, FlowOK
  <2>1. Lifecycle(f, "none") /\ InStep(f, "none") /\ Acked(f, "none", e, D)
    BY DEF Good, FlowOK, Lifecycle, InStep, Acked
  <2>2. Bounded(f, "none")
    BY <2>0 DEF Good, FlowOK, Bounded
  <2> QED BY <2>1, <2>2 DEF Good, FlowOK
<1>2. Keeps(f, pc, f, "none")
  BY DEF Keeps, PosOK, ProbeOut
<1> QED BY <1>1, <1>2, SegmentsSame DEF Leads, Good

(* The coroutine ends. *)
LEMMA FinishStep ==
  ASSUME NEW f, NEW pc, NEW e, NEW D, NEW m, NEW g, g = Finish(f),
         Good(f, pc, e, D, m), ~f.active_write
  PROVE  Leads(f, pc, g, "none", e, D, m) /\ g.pc = "none"
<1>1. FlowTypes(f) /\ DOMAIN f = Fields
  BY DEF Good, FlowOK, FlowTypes
<1>2. /\ Same(f, g, {"pc", "wake", "last_una", "retransmits", "probes"})
      /\ g.pc = "none" /\ g.wake = "none" /\ g.last_una = 0
      /\ g.retransmits = 0 /\ g.probes = 0
  BY <1>1 DEF Finish, Same, Fields
<1>3. FlowTypes(g)
  BY <1>1, <1>2, Zeros DEF FlowTypes, Same, Fields, Pcs, Wakes
<1>4. Same(f, g, QuietFields) /\ g.out = f.out /\ g.segment = f.segment
  BY <1>1, <1>2 DEF Same, QuietFields, Fields
<1>5. WakeOK(g)
  BY <1>2 DEF WakeOK
<1>6. Leads(f, pc, f, "none", e, D, m)
  BY NoPosition
<1>7. Leads(f, "none", g, "none", e, D, m)
  BY <1>3, <1>4, <1>5, <1>6, QuietStep, SegmentsSame DEF Leads, Good
<1> QED BY <1>2, <1>6, <1>7, LeadsTransitive

(* The coroutine completes its write and ends: no probe may be out then, and *)
(* with success only when the peer holds the write.                          *)
LEMMA CompleteFinishStep ==
  ASSUME NEW f, NEW pc, NEW e, NEW D, NEW m, NEW code \in Codes, NEW g,
         g = Finish(complete(f, code)), Good(f, pc, e, D, m),
         f.active_write => pc # "start" /\ ~ProbeOut(f, pc),
         f.active_write /\ code = "success" => f.write_id \in D
  PROVE  Leads(f, pc, g, "none", e, D, m) /\ g.pc = "none"
<1> DEFINE c == complete(f, code)
<1>1. CASE ~f.active_write
  <2>1. g = Finish(f)
    BY <1>1 DEF complete
  <2> QED BY <1>1, <2>1, FinishStep
<1>2. CASE f.active_write
  <2>1. /\ FlowTypes(f) /\ DOMAIN f = Fields
        /\ f.write_id \in 1..f.writes /\ f.write_id \in 1..MaxWrites
        /\ ~f.app_closed /\ f.state \notin {"CLOSED", "SYN_RCVD"} /\ ~f.rst
    BY <1>2, ActiveWrite
  <2>2. f.write_id # 0
    BY <2>1
  <2>3. /\ FlowTypes(c)
        /\ Same(f, c, WriteFields)
        /\ ~c.active_write
        /\ c.total = 0 /\ c.offset = 0
        /\ \A id \in 1..MaxWrites :
             /\ Len(c.done[id]) = IF f.write_id = id THEN Len(f.done[id]) + 1
                                                     ELSE Len(f.done[id])
             /\ Succeeded(c.done[id]) =>
                  Succeeded(f.done[id]) \/ (code = "success" /\ f.write_id = id)
    BY <1>2, <2>1, <2>2, CompleteEffect
  <2> HIDE DEF c
  <2>4. /\ c.snd_una = f.snd_una /\ c.snd_nxt = f.snd_nxt /\ c.fin_sent = f.fin_sent
        /\ c.app_closed = f.app_closed /\ c.probe_in_flight = f.probe_in_flight
        /\ c.tcp_connections = f.tcp_connections /\ c.state = f.state /\ c.rst = f.rst
        /\ c.pc = f.pc /\ c.wake = f.wake /\ c.segment = f.segment /\ c.out = f.out
        /\ c.writes = f.writes /\ c.totals = f.totals
    BY <2>1, <2>3 DEF Same, WriteFields, Fields
  <2>5. /\ f.snd_nxt \in Nat /\ f.start_seq \in Nat /\ f.offset \in Nat
        /\ f.total \in Nat /\ f.total <= MaxTotal /\ MaxTotal \in Nat
        /\ f.write_id \in Nat /\ f.writes \in Nat /\ Room(f.writes) \in Nat
        /\ Room(f.write_id - 1) \in Nat
        /\ Room(f.write_id - 1) + MaxTotal <= Room(f.writes)
    BY <2>1, FlowNumbers
  <2>6. FlowOK(c, "none", e, D, m)
    <3>1. Lifecycle(c, "none") /\ FinLast(c, m)
      BY <1>2, <2>1, <2>3, <2>4 DEF Good, FlowOK, Lifecycle, FinLast
    <3>2. InStep(c, "none")
      BY <2>3, <2>4 DEF Good, FlowOK, InStep
    <3>3. Bounded(c, "none")
      <4>1. /\ f.start_seq + f.offset + FinOne(f) = f.snd_nxt
            /\ f.start_seq <= 1 + Room(f.write_id - 1) /\ f.offset <= f.total
        BY <1>2 DEF Good, FlowOK, InStep, Bounded, Lifecycle
      <4>2. f.snd_nxt <= 1 + Room(f.writes) + FinOne(f) /\ FinOne(c) = FinOne(f)
            /\ FinOne(f) \in 0..1
        BY <2>4, <2>5, <4>1 DEF FinOne
      <4> QED BY <2>1, <2>3, <2>4, <2>5, <4>2 DEF Bounded
    <3>4. WakeOK(c) /\ Counted(c)
      BY <2>4 DEF Good, FlowOK, WakeOK, Counted
    <3>5. Once(c)
      <4> SUFFICES ASSUME NEW id \in 1..MaxWrites
                   PROVE  Len(c.done[id]) = IF id <= f.writes THEN 1 ELSE 0
        BY <2>3, <2>4 DEF Once
      <4>1. Len(f.done[id]) = IF id <= f.writes /\ f.write_id # id THEN 1 ELSE 0
        BY <1>2 DEF Good, FlowOK, Once
      <4>2. f.write_id <= f.writes
        BY <2>1
      <4> QED BY <2>3, <4>1, <4>2
    <3>6. Acked(c, "none", e, D)
      <4>1. ASSUME NEW id \in 1..MaxWrites, Succeeded(c.done[id])
            PROVE  id \in D \/ c.totals[id] = 0
        BY <1>2, <2>3, <2>4, <4>1 DEF Good, FlowOK, Acked
      <4> QED BY <2>3, <2>4, <4>1 DEF Good, FlowOK, Acked
    <3> QED BY <2>3, <3>1, <3>2, <3>3, <3>4, <3>5, <3>6 DEF FlowOK
  <2>7. Keeps(f, pc, c, "none")
    <3> SUFFICES ASSUME NEW i \in Nat, NEW b, PosOK(f, pc, i, b) PROVE PosOK(c, "none", i, b)
      BY <2>4 DEF Keeps
    <3> QED BY <1>2, <2>3, <2>4 DEF PosOK
  <2>8. Leads(f, pc, c, "none", e, D, m)
    BY <2>4, <2>6, <2>7, SegmentsSame DEF Leads, Good
  <2>9. Leads(c, "none", g, "none", e, D, m) /\ g.pc = "none"
    <3>1. g = Finish(c)
      BY DEF c
    <3> QED BY <2>3, <2>8, <3>1, FinishStep DEF Leads
  <2> QED BY <2>8, <2>9, LeadsTransitive
<1> QED BY <1>1, <1>2

(* Exit, from a closed flow or after a failed device write. *)
LEMMA ExitStep ==
  ASSUME NEW f, NEW pc, NEW e, NEW D, NEW m, NEW g, g = Exit(f), Good(f, pc, e, D, m),
         f.active_write => pc = "device"
  PROVE  Leads(f, pc, g, "none", e, D, m) /\ g.pc = "none"
<1>1. f.active_write => pc # "start" /\ ~ProbeOut(f, pc)
  <2>1. f.active_write => ~f.app_closed /\ f.state # "CLOSED"
    BY ActiveWrite
  <2> QED BY <2>1 DEF ProbeOut
<1>2. PICK code \in Codes : code # "success" /\ g = Finish(complete(f, code))
  BY DEF Exit, Codes
<1> QED BY <1>1, <1>2, CompleteFinishStep

(* One pass of write_loop. *)
LEMMA LoopStep ==
  ASSUME NEW f, NEW pc \in Waits \cup {"device"}, NEW e \in Nat, NEW D, NEW m, NEW g,
         g = Loop(f), Good(f, pc, e, D, m)
  PROVE  Leads(f, pc, g, g.pc, e, D, m)
<1>0. pc \notin {"start", "none"}
  BY DEF Waits
<1>1. CASE ~f.active_write \/ f.state = "CLOSED" \/ f.rst
  <2>1. g = Exit(f)
    BY <1>1 DEF Loop
  <2>2. ~f.active_write
    BY <1>1, ActiveWrite
  <2> QED BY <2>1, <2>2, ExitStep
<1>2. CASE f.active_write /\ ~(f.state = "CLOSED" \/ f.rst)
  <2>0. f.start_seq \in Nat /\ f.total \in Nat /\ f.offset \in Nat /\ f.snd_una \in Nat
    BY FlowNumbers DEF Good, FlowOK
  <2>1. CASE AllAcked(f)
    <3>1. g = Finish(complete(f, "success")) /\ "success" \in Codes
      BY <1>2, <2>1 DEF Loop, Codes
    <3>2. ~ProbeOut(f, pc)
      BY <1>2, <2>0, <2>1, ActiveWrite DEF ProbeOut, AllAcked
    <3>3. f.write_id \in D
      BY <1>0, <1>2, <2>0, <2>1 DEF AllAcked, write_end, Good, FlowOK, Acked
    <3> QED BY <1>0, <3>1, <3>2, <3>3, CompleteFinishStep
  <2>2. CASE ~AllAcked(f)
    <3>1. CASE f.state # "ESTABLISHED" /\ ~f.implicit_accept
      <4>1. g = Suspend(f, "handshake") /\ "handshake" \in Waits
        BY <1>2, <2>2, <3>1 DEF Loop, Waits
      <4> QED BY <1>0, <1>2, <4>1, SuspendStep
    <3>2. CASE ~(f.state # "ESTABLISHED" /\ ~f.implicit_accept) /\ f.peer_wnd = 0
      <4>1. g = Suspend(f, "window") /\ "window" \in Waits
        BY <1>2, <2>2, <3>2 DEF Loop, Waits
      <4> QED BY <1>0, <1>2, <4>1, SuspendStep
    <3>3. CASE ~(f.state # "ESTABLISHED" /\ ~f.implicit_accept) /\ f.peer_wnd # 0
      <4>1. CASE f.offset < f.total /\ InFlight(f) < f.peer_wnd
        <5>1. g = Suspend(build_next_segment(f), "device")
          BY <1>2, <2>2, <3>3, <4>1 DEF Loop
        <5>2. pc \notin {"start", "none"} /\ f.active_write
          BY <1>0, <1>2
        <5>3. Leads(f, pc, g, "device", e, D, m) /\ g.pc = "device"
          <6>1. pc # "start" /\ pc # "none"
            BY <5>2
          <6>2. f.offset < f.total /\ InFlight(f) < f.peer_wnd
            BY <4>1
          <6> QED BY <5>1, <5>2, <6>1, <6>2, BuildStep
        <5> QED BY <5>3
      <4>2. CASE ~(f.offset < f.total /\ InFlight(f) < f.peer_wnd)
        <5> DEFINE h == [f EXCEPT !.last_una = f.snd_una]
        <5>1. g = Suspend(h, "ack") /\ "ack" \in Waits
          BY <1>2, <2>2, <3>3, <4>2 DEF Loop, Waits
        <5>2. FlowTypes(f) /\ DOMAIN f = Fields
          BY <1>2, ActiveWrite
        <5>3. Same(f, h, {"last_una"}) /\ h.last_una = f.snd_una
          BY <5>2 DEF Same, Fields
        <5> HIDE DEF h
        <5>4. FlowTypes(h) /\ h.active_write
          BY <1>2, <5>2, <5>3 DEF FlowTypes, Same, Fields
        <5>5. Same(f, h, FreeFields)
          BY <5>2, <5>3 DEF Same, FreeFields, QuietFields, Fields
        <5>6. Leads(f, pc, h, pc, e, D, m)
          BY <5>4, <5>5, FreeStep
        <5>7. Leads(h, pc, g, "ack", e, D, m) /\ g.pc = "ack"
          <6>1. Good(h, pc, e, D, m) /\ pc # "start"
            BY <1>0, <5>6 DEF Leads
          <6> QED BY <5>1, <5>4, <6>1, SuspendStep
        <5> QED BY <5>6, <5>7, LeadsTransitive
      <4> QED BY <4>1, <4>2
    <3> QED BY <3>1, <3>2, <3>3
  <2> QED BY <2>1, <2>2
<1> QED BY <1>1, <1>2

(* abort_flow, and the coroutine ends: a timer gave up. *)
LEMMA GiveUpStep ==
  ASSUME NEW f, NEW pc, NEW e \in Nat, NEW D, NEW m, NEW g, g = Exit(abort_flow(f)),
         Good(f, pc, e, D, m)
  PROVE  Leads(f, pc, g, g.pc, e, D, m)
<1> DEFINE h == abort_flow(f)
<1>1. Leads(f, pc, h, pc, e, D, m) /\ h.state = "CLOSED"
  BY AbortGood
<1>2. g = Exit(h)
  OBVIOUS
<1> HIDE DEF h
<1>3. ~h.active_write
  BY <1>1, ActiveWrite DEF Leads
<1>4. Leads(h, pc, g, "none", e, D, m) /\ g.pc = "none"
  BY <1>1, <1>2, <1>3, ExitStep DEF Leads
<1> QED BY <1>1, <1>4, LeadsTransitive

(* A timer counts one more retransmission or probe, or starts over. *)
LEMMA CountStep ==
  ASSUME NEW f, NEW pc, NEW e, NEW D, NEW m, Good(f, pc, e, D, m), NEW g,
         \/ \E k \in 0..MaxRetransmits : g = [f EXCEPT !.retransmits = k]
         \/ \E k \in 0..MaxProbes : g = [f EXCEPT !.probes = k]
  PROVE  /\ Leads(f, pc, g, pc, e, D, m) /\ g.active_write = f.active_write
         /\ g.offset = f.offset /\ g.total = f.total /\ g.snd_una = f.snd_una
         /\ g.start_seq = f.start_seq /\ g.peer_wnd = f.peer_wnd
<1>1. FlowTypes(f) /\ DOMAIN f = Fields
  BY DEF Good, FlowOK, FlowTypes
<1>2. /\ Same(f, g, {"retransmits", "probes"})
      /\ g.retransmits \in 0..MaxRetransmits /\ g.probes \in 0..MaxProbes
  BY <1>1 DEF Same, Fields, FlowTypes
<1>3. FlowTypes(g)
  BY <1>1, <1>2 DEF FlowTypes, Same, Fields
<1>4. Same(f, g, FreeFields)
  BY <1>1, <1>2 DEF Same, FreeFields, QuietFields, Fields
<1>5. /\ g.active_write = f.active_write
      /\ g.offset = f.offset /\ g.total = f.total /\ g.snd_una = f.snd_una
      /\ g.start_seq = f.start_seq /\ g.peer_wnd = f.peer_wnd
  BY <1>1, <1>2 DEF Same, Fields
<1> QED BY <1>3, <1>4, <1>5, FreeStep

(* The persist timer: a probe, a retransmission, or the end of the flow. *)
LEMMA PersistStep ==
  ASSUME NEW f, NEW e \in Nat, NEW D, NEW m, NEW g, g = persist_timeout(f),
         Good(f, "window", e, D, m), f.active_write \/ f.probes + 1 > MaxProbes
  PROVE  Leads(f, "window", g, g.pc, e, D, m)
<1>1. CASE f.probes + 1 > MaxProbes
  BY <1>1, GiveUpStep DEF persist_timeout
<1>2. CASE ~(f.probes + 1 > MaxProbes)
  <2> DEFINE n == [f EXCEPT !.probes = @ + 1]
             h == IF n.offset < n.total THEN send_window_probe(n)
                  ELSE IF n.snd_una # write_end(n) THEN retransmit_unacked(n, Mss)
                  ELSE n
  <2>1. g = Loop(h)
    BY <1>2 DEF persist_timeout
  <2>2. f.probes + 1 \in 0..MaxProbes /\ Mss \in Nat
    <3>1. f.probes \in 0..MaxProbes
      BY DEF Good, FlowOK, FlowTypes
    <3> QED BY <1>2, <3>1, FlowAssumption
  <2>3. Leads(f, "window", n, "window", e, D, m) /\ n.active_write
    <3>1. f.active_write
      BY <1>2
    <3>2. \E k \in 0..MaxProbes : n = [f EXCEPT !.probes = k]
      BY <2>2
    <3> HIDE DEF n
    <3> QED BY <3>1, <3>2, CountStep
  <2> HIDE DEF n
  <2>4. Leads(n, "window", h, "window", e, D, m)
    <3>1. CASE n.offset < n.total
      BY <2>3, <3>1, ProbeStep DEF Leads
    <3>2. CASE ~(n.offset < n.total) /\ n.snd_una # write_end(n)
      BY <2>2, <2>3, <3>2, RetransmitStep DEF Leads
    <3>3. CASE ~(n.offset < n.total) /\ n.snd_una = write_end(n)
      BY <2>3, <3>3 DEF Leads, Keeps
    <3> QED BY <3>1, <3>2, <3>3
  <2> HIDE DEF h
  <2>5. Leads(h, "window", g, g.pc, e, D, m)
    BY <2>1, <2>4, LoopStep DEF Leads, Waits
  <2>6. Leads(f, "window", h, "window", e, D, m)
    BY <2>3, <2>4, LeadsTransitive
  <2> QED BY <2>5, <2>6, LeadsTransitive
<1> QED BY <1>1, <1>2

(* The retransmission timer. *)
LEMMA RtoStep ==
  ASSUME NEW f, NEW e \in Nat, NEW D, NEW m, NEW g, g = rto_timeout(f),
         Good(f, "ack", e, D, m)
  PROVE  Leads(f, "ack", g, g.pc, e, D, m)
<1>1. CASE f.snd_una # f.last_una
  <2> DEFINE n == [f EXCEPT !.retransmits = 0]
  <2>1. g = Loop(n)
    BY <1>1 DEF rto_timeout
  <2>2. Leads(f, "ack", n, "ack", e, D, m)
    BY CountStep, Zeros
  <2> HIDE DEF n
  <2>3. Leads(n, "ack", g, g.pc, e, D, m)
    BY <2>1, <2>2, LoopStep DEF Leads, Waits
  <2> QED BY <2>2, <2>3, LeadsTransitive
<1>2. CASE f.snd_una = f.last_una /\ f.retransmits + 1 > MaxRetransmits
  BY <1>2, GiveUpStep DEF rto_timeout
<1>3. CASE f.snd_una = f.last_una /\ ~(f.retransmits + 1 > MaxRetransmits)
  <2> DEFINE n == [f EXCEPT !.retransmits = @ + 1]
             h == IF n.snd_una # write_end(n) THEN retransmit_unacked(n, n.peer_wnd) ELSE n
  <2>1. g = Loop(h)
    BY <1>3 DEF rto_timeout
  <2>2. f.retransmits + 1 \in 0..MaxRetransmits
    <3>1. f.retransmits \in 0..MaxRetransmits
      BY DEF Good, FlowOK, FlowTypes
    <3> QED BY <1>3, <3>1, FlowAssumption
  <2>3. Leads(f, "ack", n, "ack", e, D, m)
    <3>1. \E k \in 0..MaxRetransmits : n = [f EXCEPT !.retransmits = k]
      BY <2>2
    <3> HIDE DEF n
    <3> QED BY <3>1, CountStep
  <2> HIDE DEF n
  <2>4. n.peer_wnd \in Nat
    BY <2>3, FlowAssumption DEF Leads, Good, FlowOK, FlowTypes
  <2>5. Leads(n, "ack", h, "ack", e, D, m)
    <3>1. CASE n.snd_una # write_end(n)
      BY <2>3, <2>4, <3>1, RetransmitStep DEF Leads
    <3>2. CASE n.snd_una = write_end(n)
      BY <2>3, <3>2 DEF Leads, Keeps
    <3> QED BY <3>1, <3>2
  <2> HIDE DEF h
  <2>6. Leads(h, "ack", g, g.pc, e, D, m)
    BY <2>1, <2>5, LoopStep DEF Leads, Waits
  <2>7. Leads(f, "ack", h, "ack", e, D, m)
    BY <2>3, <2>5, LeadsTransitive
  <2> QED BY <2>6, <2>7, LeadsTransitive
<1> QED BY <1>1, <1>2, <1>3

(* The persist timer fired and the write was completed since: the coroutine *)
(* may send a probe of whatever it finds.                                   *)
LEMMA StalePersistStep ==
  ASSUME NEW f, NEW e \in Nat, NEW D, NEW m, NEW g \in stale_persist_timeout(f),
         Good(f, "window", e, D, m), ~f.active_write
  PROVE  Leads(f, "window", g, g.pc, e, D, m)
<1> DEFINE s == [kind |-> "DATA", seq |-> f.snd_nxt, bytes |-> <<Garbage>>]
           h == send_segment(f, s)
           x == [h EXCEPT !.probe_in_flight = TRUE]
<1>1. CASE g = Loop(f)
  BY <1>1, LoopStep DEF Waits
<1>2. CASE g = Loop(x)
  <2>1. FlowTypes(f) /\ f.snd_nxt \in Nat /\ Room(f.writes) \in Nat
    BY FlowNumbers DEF Good, FlowOK
  <2>2. Leads(f, "window", f, "none", e, D, m)
    BY NoPosition
  <2>3. s \in Segments
    <3>1. Garbage \in Bytes
      BY DEF Bytes
    <3>2. <<Garbage>> \in Seq(Bytes)
      BY <3>1
    <3> QED BY <2>1, <3>2 DEF Segments
  <2>4. Sound(f, "none", s)
    <3> SUFFICES ASSUME NEW i \in Nat, Puts(s, i) # NoByte
                 PROVE  PosOK(f, "none", i, Puts(s, i))
      BY DEF Sound
    <3>1. i = f.snd_nxt
      BY <2>1 DEF Puts
    <3>2. f.state = "CLOSED" \/ f.app_closed
      BY DEF Good, FlowOK, Lifecycle
    <3> QED BY <3>1, <3>2 DEF PosOK, ProbeOut
  <2> HIDE DEF s
  <2>5. Leads(f, "none", h, "none", e, D, m) /\ Same(f, h, {"out"})
    BY <2>2, <2>3, <2>4, SendStep DEF Leads
  <2> HIDE DEF h
  <2>6. FlowTypes(h) /\ DOMAIN h = Fields /\ Good(h, "none", e, D, m)
    BY <2>5 DEF Leads, Good, FlowOK, FlowTypes
  <2>7. Same(h, x, {"probe_in_flight"}) /\ x.probe_in_flight = TRUE
    BY <2>6 DEF Same, Fields
  <2> HIDE DEF x
  <2>8. FlowTypes(x)
    BY <2>6, <2>7 DEF FlowTypes, Same, Fields
  <2>9. /\ x.snd_una = h.snd_una /\ x.snd_nxt = h.snd_nxt /\ x.fin_sent = h.fin_sent
        /\ x.app_closed = h.app_closed /\ x.tcp_connections = h.tcp_connections
        /\ x.active_write = h.active_write /\ x.write_id = h.write_id
        /\ x.total = h.total /\ x.offset = h.offset /\ x.start_seq = h.start_seq
        /\ x.pc = h.pc /\ x.wake = h.wake /\ x.segment = h.segment /\ x.out = h.out
        /\ x.writes = h.writes /\ x.totals = h.totals /\ x.done = h.done
        /\ x.state = h.state /\ x.rst = h.rst
    BY <2>6, <2>7 DEF Same, Fields
  <2>10. /\ h.state = f.state /\ h.app_closed = f.app_closed /\ h.snd_nxt = f.snd_nxt
         /\ h.writes = f.writes /\ h.active_write = f.active_write
    <3>1. DOMAIN f = Fields
      BY <2>1 DEF FlowTypes
    <3> QED BY <2>5, <3>1 DEF Same, Fields
  <2>11. f.app_closed /\ f.state # "CLOSED" => f.snd_nxt + 1 <= 3 + Room(f.writes)
    BY DEF Good, FlowOK, Bounded
  <2>12. Bounded(x, "none")
    BY <2>1, <2>6, <2>9, <2>10, <2>11 DEF Good, FlowOK, Bounded, FinOne
  <2>13. Lifecycle(x, "none") /\ FinLast(x, m) /\ InStep(x, "none")
    <3>1. f.state # "SYN_RCVD"
      BY DEF Good, FlowOK, Lifecycle, FinLast
    <3> QED BY <2>6, <2>9, <2>10, <3>1 DEF Good, FlowOK, Lifecycle, FinLast, InStep, FinOne
  <2>14. WakeOK(x) /\ Counted(x) /\ Once(x) /\ Acked(x, "none", e, D)
    BY <2>6, <2>9 DEF Good, FlowOK, WakeOK, Counted, Once, Acked
  <2>15. Keeps(h, "none", x, "none")
    BY <2>9 DEF Keeps, PosOK, ProbeOut
  <2>16. SegmentsOK(x, "none")
    BY <2>6, <2>9, <2>15, SegmentsSame DEF Good
  <2>17. Leads(h, "none", x, "none", e, D, m)
    BY <2>8, <2>12, <2>13, <2>14, <2>15, <2>16 DEF Leads, Good, FlowOK
  <2>18. g = Exit(x) /\ ~x.active_write
    BY <1>2, <2>9, <2>10 DEF Loop
  <2>19. Leads(x, "none", g, "none", e, D, m) /\ g.pc = "none"
    BY <2>17, <2>18, ExitStep DEF Leads
  <2>20. Leads(f, "window", h, "none", e, D, m)
    BY <2>2, <2>5, LeadsTransitive
  <2>21. Leads(f, "window", x, "none", e, D, m)
    BY <2>17, <2>20, LeadsTransitive
  <2> QED BY <2>19, <2>21, LeadsTransitive
<1> QED BY <1>1, <1>2 DEF stale_persist_timeout

(* The coroutine starts: its write takes the sequence numbers after all that *)
(* was sent, none of which the peer can hold yet.                            *)
LEMMA StartStep ==
  ASSUME NEW f, NEW e \in Nat, NEW D, NEW m, NEW g,
         g = [f EXCEPT !.start_seq = f.snd_nxt, !.last_una = f.snd_una,
                       !.retransmits = 0, !.probes = 0],
         Good(f, "start", e, D, m), f.active_write, e <= f.snd_nxt
  PROVE  Leads(f, "start", g, "ack", e, D, m)
<1>1. /\ FlowTypes(f) /\ DOMAIN f = Fields
      /\ f.write_id \in 1..f.writes
      /\ ~f.app_closed /\ f.state \notin {"CLOSED", "SYN_RCVD"} /\ ~f.rst
  BY ActiveWrite
<1>2. /\ f.snd_una \in Nat /\ f.snd_nxt \in Nat /\ f.total \in Nat /\ f.offset \in Nat
  BY <1>1, FlowNumbers
<1>3. /\ Same(f, g, {"start_seq", "last_una", "retransmits", "probes"})
      /\ g.start_seq = f.snd_nxt /\ g.last_una = f.snd_una
      /\ g.retransmits = 0 /\ g.probes = 0
  BY <1>1 DEF Same, Fields
<1>4. FlowTypes(g)
  BY <1>1, <1>2, <1>3, Zeros DEF FlowTypes, Same, Fields
<1>5. /\ g.snd_una = f.snd_una /\ g.snd_nxt = f.snd_nxt /\ g.fin_sent = f.fin_sent
      /\ g.app_closed = f.app_closed /\ g.tcp_connections = f.tcp_connections
      /\ g.active_write = f.active_write /\ g.write_id = f.write_id
      /\ g.total = f.total /\ g.offset = f.offset
      /\ g.pc = f.pc /\ g.wake = f.wake /\ g.segment = f.segment /\ g.out = f.out
      /\ g.writes = f.writes /\ g.totals = f.totals /\ g.done = f.done
      /\ g.state = f.state /\ g.rst = f.rst
  BY <1>1, <1>3 DEF Same, Fields
<1>6. /\ f.offset = 0 /\ ~f.fin_sent /\ f.snd_nxt > 0 /\ f.total > 0
      /\ f.snd_nxt <= 1 + Room(f.write_id - 1)
  BY <1>1 DEF Good, FlowOK, InStep, Lifecycle, Bounded
<1>7. FlowOK(g, "ack", e, D, m)
  <2>1. Lifecycle(g, "ack") /\ FinLast(g, m)
    BY <1>1, <1>5 DEF Good, FlowOK, Lifecycle, FinLast
  <2>2. InStep(g, "ack")
    BY <1>1, <1>2, <1>3, <1>5, <1>6 DEF Good, FlowOK, InStep, FinOne
  <2>3. Bounded(g, "ack")
    BY <1>1, <1>3, <1>5, <1>6 DEF Good, FlowOK, Bounded
  <2>4. WakeOK(g) /\ Counted(g) /\ Once(g)
    BY <1>5 DEF Good, FlowOK, WakeOK, Counted, Once
  <2>5. Acked(g, "ack", e, D)
    <3>1. ~(g.start_seq + g.total <= e)
      BY <1>2, <1>3, <1>5, <1>6
    <3> QED BY <1>5, <3>1 DEF Good, FlowOK, Acked
  <2> QED BY <1>4, <2>1, <2>2, <2>3, <2>4, <2>5 DEF FlowOK
<1>8. Keeps(f, "start", g, "ack")
  <2> SUFFICES ASSUME NEW i \in Nat, NEW b, PosOK(f, "start", i, b)
               PROVE  PosOK(g, "ack", i, b)
    BY <1>5 DEF Keeps
  <2>1. i < f.snd_nxt
    BY <1>1 DEF PosOK, ProbeOut
  <2>2. ~(i >= g.start_seq)
    BY <1>2, <1>3, <2>1
  <2> QED BY <1>5, <2>1, <2>2 DEF PosOK
<1> QED BY <1>5, <1>7, <1>8, SegmentsSame DEF Leads, Good

(* The coroutine resumes where it was suspended. *)
LEMMA ResumeStep ==
  ASSUME NEW f, NEW e \in Nat, NEW D, NEW m, NEW g, g = resume(f),
         f.wake # "none", ~StaleWake(f), Good(f, f.pc, e, D, m),
         f.pc = "start" /\ f.active_write => e <= f.snd_nxt
  PROVE  Leads(f, f.pc, g, g.pc, e, D, m)
<1>1. FlowTypes(f) /\ f.pc \in Pcs /\ f.wake \in Wakes /\ WakeOK(f)
  BY DEF Good, FlowOK, FlowTypes
<1>2. CASE f.pc = "start" /\ ~f.active_write
  <2>1. g = Finish(f)
    BY <1>2 DEF resume
  <2> QED BY <1>2, <2>1, FinishStep
<1>3. CASE f.pc = "start" /\ f.active_write
  <2> DEFINE h == [f EXCEPT !.start_seq = f.snd_nxt, !.last_una = f.snd_una,
                            !.retransmits = 0, !.probes = 0]
  <2>1. g = Loop(h)
    BY <1>3 DEF resume
  <2>2. Leads(f, "start", h, "ack", e, D, m)
    BY <1>3, StartStep
  <2> HIDE DEF h
  <2>3. Leads(h, "ack", g, g.pc, e, D, m)
    BY <2>1, <2>2, LoopStep DEF Leads, Waits
  <2> QED BY <1>3, <2>2, <2>3, LeadsTransitive
<1>4. CASE f.pc = "handshake"
  <2>1. g = Loop(f)
    BY <1>4 DEF resume
  <2> QED BY <1>4, <2>1, LoopStep DEF Waits
<1>5. CASE f.pc = "window" /\ f.wake = "signal"
  <2> DEFINE h == [f EXCEPT !.probes = 0]
  <2>1. g = Loop(h)
    BY <1>5 DEF resume
  <2>2. Leads(f, "window", h, "window", e, D, m)
    BY <1>5, CountStep, Zeros
  <2> HIDE DEF h
  <2>3. Leads(h, "window", g, g.pc, e, D, m)
    BY <2>1, <2>2, LoopStep DEF Leads, Waits
  <2> QED BY <1>5, <2>2, <2>3, LeadsTransitive
<1>6. CASE f.pc = "window" /\ f.wake = "timeout"
  <2>1. g = persist_timeout(f)
    BY <1>6 DEF resume
  <2>2. f.active_write \/ f.probes + 1 > MaxProbes
    <3>1. f.probes \in Nat
      BY <1>1, FlowAssumption DEF FlowTypes
    <3> QED BY <1>6, <3>1, FlowAssumption DEF StaleWake
  <2> QED BY <1>6, <2>1, <2>2, PersistStep
<1>7. CASE f.pc = "ack" /\ f.wake = "signal"
  <2> DEFINE h == IF f.snd_una # f.last_una THEN [f EXCEPT !.retransmits = 0] ELSE f
  <2>1. g = Loop(h)
    BY <1>7 DEF resume
  <2>2. Leads(f, "ack", h, "ack", e, D, m)
    <3>1. CASE f.snd_una # f.last_una
      BY <1>7, <3>1, CountStep, Zeros
    <3>2. CASE f.snd_una = f.last_una
      BY <1>7, <3>2 DEF Leads, Keeps
    <3> QED BY <3>1, <3>2
  <2> HIDE DEF h
  <2>3. Leads(h, "ack", g, g.pc, e, D, m)
    BY <2>1, <2>2, LoopStep DEF Leads, Waits
  <2> QED BY <1>7, <2>2, <2>3, LeadsTransitive
<1>8. CASE f.pc = "ack" /\ f.wake = "timeout"
  <2>1. g = rto_timeout(f)
    BY <1>8 DEF resume
  <2> QED BY <1>8, <2>1, RtoStep
<1>9. CASE f.pc = "device" /\ f.wake = "signal"
  <2>1. g = Loop(f)
    BY <1>9 DEF resume
  <2> QED BY <1>9, <2>1, LoopStep
<1>10. CASE f.pc = "device" /\ f.wake = "error"
  <2>1. g = Exit(f)
    BY <1>10 DEF resume
  <2> QED BY <1>10, <2>1, ExitStep
<1> QED BY <1>1, <1>2, <1>3, <1>4, <1>5, <1>6, <1>7, <1>8, <1>9, <1>10 DEF Pcs, Wakes, WakeOK

----------------------------------------------------------------------------
(* What only the coroutine itself changes is its position. *)

Stays(f, g) == DOMAIN g = Fields /\ g.pc = f.pc

(* The helpers leave the coroutine where it is. *)
LEMMA HelpersStay ==
  ASSUME NEW f, DOMAIN f = Fields
  PROVE  /\ \A s : Stays(f, send_segment(f, s))
         /\ Stays(f, signal_write(f))
         /\ \A code : Stays(f, complete(f, code))
         /\ \A code : Stays(f, close_flow(f, code))
         /\ Stays(f, abort_flow(f))
         /\ Stays(f, accept_flow(f))
         /\ Stays(f, establish(f))
         /\ Stays(f, handle_fin(f))
<1>1. ASSUME NEW h, DOMAIN h = Fields PROVE Stays(h, signal_write(h))
  BY <1>1 DEF signal_write, Stays, Fields
<1>2. ASSUME NEW h, DOMAIN h = Fields, NEW code PROVE Stays(h, complete(h, code))
  BY <1>2 DEF complete, Stays, Fields
<1>3. ASSUME NEW h, DOMAIN h = Fields, NEW s PROVE Stays(h, send_segment(h, s))
  BY <1>3 DEF send_segment, Stays, Fields
<1>4. ASSUME NEW h, DOMAIN h = Fields, NEW code PROVE Stays(h, close_flow(h, code))
  <2> DEFINE c == complete(h, code)
             n == IF h.state \in Opened THEN c.tcp_connections - 1 ELSE c.tcp_connections
             x == [c EXCEPT !.state = "CLOSED", !.tcp_connections = n]
  <2>1. Stays(h, c)
    BY <1>2, <1>4
  <2>2. close_flow(h, code) = h \/ close_flow(h, code) = signal_write(x)
    BY DEF close_flow
  <2> HIDE DEF c
  <2>3. Stays(h, x)
    BY <2>1 DEF Stays, Fields
  <2> HIDE DEF x
  <2>4. Stays(x, signal_write(x))
    BY <1>1, <2>3 DEF Stays
  <2> QED BY <1>4, <2>2, <2>3, <2>4 DEF Stays
<1>5. Stays(f, abort_flow(f))
  <2> DEFINE x == [send_segment(f, Rst) EXCEPT !.rst = TRUE]
  <2>1. abort_flow(f) = f \/ abort_flow(f) = close_flow(x, "connection_reset")
    BY DEF abort_flow
  <2>2. Stays(f, x)
    BY DEF send_segment, Stays, Fields
  <2> HIDE DEF x
  <2>3. Stays(x, close_flow(x, "connection_reset"))
    BY <1>4, <2>2 DEF Stays
  <2> QED BY <2>1, <2>2, <2>3 DEF Stays
<1>6. Stays(f, accept_flow(f)) /\ Stays(f, establish(f)) /\ Stays(f, handle_fin(f))
  <2>1. Stays(f, accept_flow(f))
    BY DEF accept_flow, send_segment, Stays, Fields
  <2>2. Stays(f, establish(f))
    BY DEF establish, Stays, Fields
  <2>3. Stays(f, handle_fin(f))
    BY DEF handle_fin, Stays, Fields
  <2> QED BY <2>1, <2>2, <2>3
<1> QED BY <1>1, <1>2, <1>3, <1>4, <1>5, <1>6

(* So does the FIN. *)
LEMMA FinStays ==
  ASSUME NEW f, DOMAIN f = Fields
  PROVE  Stays(f, send_fin(f))
<1> DEFINE h == [f EXCEPT !.fin_sent = TRUE]
           x == [send_segment(f, Fin(f.snd_nxt)) EXCEPT
                   !.fin_sent = TRUE,
                   !.snd_nxt = @ + 1,
                   !.state = IF f.state = "ESTABLISHED" THEN "FIN_WAIT_1" ELSE "LAST_ACK"]
<1>1. \/ send_fin(f) = f
      \/ send_fin(f) = [f EXCEPT !.fin_pending = TRUE]
      \/ send_fin(f) = abort_flow(h)
      \/ send_fin(f) = x
      \/ send_fin(f) = h
  BY DEF send_fin
<1>2. Stays(f, [f EXCEPT !.fin_pending = TRUE]) /\ Stays(f, h)
  BY DEF Stays, Fields
<1>3. Stays(f, x)
  BY DEF Stays, Fields, send_segment
<1> HIDE DEF h, x
<1>4. Stays(h, abort_flow(h))
  BY <1>2, HelpersStay DEF Stays
<1> QED BY <1>1, <1>2, <1>3, <1>4 DEF Stays

(* And so do the segments of the peer. *)
LEMMA PacketStays ==
  ASSUME NEW f, DOMAIN f = Fields, NEW s
  PROVE  Stays(f, on_packet(f, s))
<1>1. ASSUME NEW ack PROVE Stays(f, handle_ack(f, ack))
  <2> DEFINE u == advance_una(f, ack)
             a == [u EXCEPT !.probe_in_flight = FALSE]
             n == [a EXCEPT !.fin_pending = FALSE]
             b == IF a.fin_pending /\ a.snd_una = a.snd_nxt /\ ~Unsent(a) THEN send_fin(n) ELSE a
  <2>1. Stays(f, u)
    BY DEF advance_una, Stays, Fields
  <2>2. \/ handle_ack(f, ack) = close_flow(b, "success")
        \/ handle_ack(f, ack) = [b EXCEPT !.state = IF b.fin_received THEN "TIME_WAIT"
                                                                      ELSE "FIN_WAIT_2"]
        \/ handle_ack(f, ack) = b
    BY DEF handle_ack
  <2> HIDE DEF u
  <2>3. Stays(f, a)
    BY <2>1 DEF Stays, Fields
  <2> HIDE DEF a
  <2>4. Stays(f, n)
    BY <2>3 DEF Stays, Fields
  <2> HIDE DEF n
  <2>5. Stays(n, send_fin(n))
    BY <2>4, FinStays DEF Stays
  <2>6. Stays(f, b)
    BY <2>3, <2>4, <2>5 DEF Stays
  <2> HIDE DEF b
  <2>7. Stays(b, close_flow(b, "success"))
    BY <2>6, HelpersStay DEF Stays
  <2>8. Stays(b, [b EXCEPT !.state = IF b.fin_received THEN "TIME_WAIT" ELSE "FIN_WAIT_2"])
    BY <2>6 DEF Stays, Fields
  <2> QED BY <2>2, <2>6, <2>7, <2>8 DEF Stays
<1> DEFINE k == handle_ack(f, s.ack)
           a == IF s.ack = 0 THEN f ELSE [k EXCEPT !.peer_wnd = s.wnd]
           r == [a EXCEPT !.rst = TRUE]
           x == establish(a)
           y == IF s.fin THEN handle_fin(x) ELSE x
<1>2. \/ handle_segment(f, s) = a
      \/ handle_segment(f, s) = close_flow(r, "connection_reset")
      \/ handle_segment(f, s) = send_segment(a, SynAck)
      \/ handle_segment(f, s) = signal_write(y)
  BY DEF handle_segment
<1>3. Stays(f, k)
  BY <1>1
<1> HIDE DEF k
<1>4. Stays(f, a)
  BY <1>3 DEF Stays, Fields
<1> HIDE DEF a
<1>5. Stays(f, r)
  BY <1>4 DEF Stays, Fields
<1> HIDE DEF r
<1>6. Stays(f, x)
  BY <1>4, HelpersStay DEF Stays
<1> HIDE DEF x
<1>7. Stays(f, y)
  BY <1>6, HelpersStay DEF Stays
<1> HIDE DEF y
<1>8. /\ Stays(f, close_flow(r, "connection_reset"))
      /\ Stays(f, send_segment(a, SynAck))
      /\ Stays(f, signal_write(y))
  BY <1>4, <1>5, <1>7, HelpersStay DEF Stays
<1>9. Stays(f, close_flow(f, "success"))
  BY HelpersStay
<1> QED BY <1>2, <1>4, <1>8, <1>9 DEF on_packet

----------------------------------------------------------------------------
(* Timers and the device. *)

(* A timer wakes the coroutine that waits. *)
LEMMA TimerStep ==
  ASSUME NEW f, NEW e, NEW D, NEW m, NEW g, g = [f EXCEPT !.wake = "timeout"],
         Good(f, f.pc, e, D, m), Parked(f)
  PROVE  Leads(f, f.pc, g, g.pc, e, D, m)
<1>1. FlowTypes(f) /\ DOMAIN f = Fields
  BY DEF Good, FlowOK, FlowTypes
<1>2. Same(f, g, {"wake"}) /\ g.wake = "timeout"
  BY <1>1 DEF Same, Fields
<1>3. FlowTypes(g)
  <2>1. g.wake \in Wakes
    BY <1>2 DEF Wakes
  <2> QED BY <1>1, <1>2, <2>1 DEF FlowTypes, Same, Fields
<1>4. Same(f, g, QuietFields) /\ g.pc = f.pc /\ g.out = f.out /\ g.segment = f.segment
  BY <1>1, <1>2 DEF Same, Fields, QuietFields
<1>5. WakeOK(g)
  BY <1>2, <1>4 DEF WakeOK, Parked
<1> QED BY <1>3, <1>4, <1>5, QuietStep, SegmentsSame DEF Leads, Good

(* The device finished a write: it may send the segment it was given. *)
LEMMA DeviceStep ==
  ASSUME NEW f, NEW e, NEW D, NEW m, NEW g,
         Good(f, f.pc, e, D, m), f.pc = "device", f.wake = "none",
         \/ g = [f EXCEPT !.wake = "signal", !.segment = <<>>, !.out = {f.segment[1]}]
         \/ g = [f EXCEPT !.wake = "error", !.segment = <<>>]
  PROVE  Leads(f, f.pc, g, g.pc, e, D, m)
<1>1. FlowTypes(f) /\ DOMAIN f = Fields
  BY DEF Good, FlowOK, FlowTypes
<1>2. f.segment \in Seq(Segments) /\ Len(f.segment) = 1 /\ f.segment[1] \in Segments
  <2>1. f.segment \in Seq(Segments) /\ Len(f.segment) = 1
    BY <1>1 DEF Good, FlowOK, WakeOK, FlowTypes
  <2> QED BY <2>1
<1>3. /\ Same(f, g, {"wake", "segment", "out"})
      /\ g.wake \in {"signal", "error"} /\ g.segment = <<>>
      /\ g.out = f.out \/ g.out = {f.segment[1]}
  BY <1>1 DEF Same, Fields
<1>4. FlowTypes(g)
  <2>1. g.wake \in Wakes /\ g.segment \in Seq(Segments)
    BY <1>3 DEF Wakes
  <2>2. g.out \subseteq Segments
    BY <1>1, <1>2, <1>3 DEF FlowTypes
  <2>3. /\ DOMAIN g = Fields /\ g.state = f.state /\ g.snd_una = f.snd_una
        /\ g.snd_nxt = f.snd_nxt /\ g.start_seq = f.start_seq /\ g.last_una = f.last_una
        /\ g.peer_wnd = f.peer_wnd /\ g.fin_sent = f.fin_sent
        /\ g.fin_received = f.fin_received /\ g.fin_pending = f.fin_pending
        /\ g.rst = f.rst /\ g.app_closed = f.app_closed
        /\ g.probe_in_flight = f.probe_in_flight /\ g.active_write = f.active_write
        /\ g.implicit_accept = f.implicit_accept
        /\ g.tcp_connections = f.tcp_connections /\ g.write_id = f.write_id
        /\ g.writes = f.writes /\ g.total = f.total /\ g.offset = f.offset
        /\ g.pc = f.pc /\ g.retransmits = f.retransmits /\ g.probes = f.probes
        /\ g.totals = f.totals /\ g.done = f.done
    BY <1>1, <1>3 DEF Same, Fields
  <2> QED BY <1>1, <2>1, <2>2, <2>3 DEF FlowTypes
<1>5. Same(f, g, QuietFields) /\ g.pc = f.pc
  BY <1>1, <1>3 DEF Same, Fields, QuietFields
<1>6. WakeOK(g)
  BY <1>3, <1>5 DEF WakeOK
<1>7. FlowOK(g, f.pc, e, D, m) /\ Keeps(f, f.pc, g, f.pc)
  BY <1>4, <1>5, <1>6, QuietStep DEF Good
<1>8. SegmentsOK(g, f.pc)
  <2>1. Sound(f, f.pc, f.segment[1]) /\ \A s \in f.out : Sound(f, f.pc, s)
    BY <1>2 DEF Good, SegmentsOK
  <2>2. \A s \in g.out : Sound(g, f.pc, s)
    BY <1>3, <1>7, <2>1 DEF Sound, Keeps
  <2> QED BY <1>3, <2>2 DEF SegmentsOK
<1> QED BY <1>5, <1>7, <1>8 DEF Leads, Good

----------------------------------------------------------------------------
(* Calls of the application. *)

(* While the flow is open and the application did not close it, its sequence *)
(* numbers have the room of the writes that were started.                    *)
LEMMA OpenBound ==
  ASSUME NEW f, NEW pc, NEW e, NEW D, NEW m, Good(f, pc, e, D, m),
         f.state # "CLOSED", ~f.app_closed
  PROVE  f.snd_nxt <= 1 + Room(f.writes) + FinOne(f)
<1>1. FlowTypes(f)
  BY DEF Good, FlowOK
<1>2. CASE ~f.active_write
  BY <1>2 DEF Good, FlowOK, Bounded
<1>3. CASE f.active_write
  <2>1. f.write_id \in 1..f.writes
    BY <1>3, ActiveWrite
  <2>2. /\ f.snd_nxt \in Nat /\ f.start_seq \in Nat /\ f.offset \in Nat
        /\ f.total \in Nat /\ f.total <= MaxTotal /\ MaxTotal \in Nat /\ Room(f.writes) \in Nat
        /\ Room(f.write_id - 1) \in Nat
        /\ Room(f.write_id - 1) + MaxTotal <= Room(f.writes)
        /\ FinOne(f) \in 0..1
    BY <1>1, <2>1, FlowNumbers DEF FinOne
  <2>3. CASE pc = "start"
    <3>1. f.snd_nxt <= 1 + Room(f.write_id - 1)
      BY <1>3, <2>3 DEF Good, FlowOK, Bounded
    <3> QED BY <2>2, <3>1
  <2>4. CASE pc # "start"
    <3>1. /\ f.start_seq + f.offset + FinOne(f) = f.snd_nxt
          /\ f.start_seq <= 1 + Room(f.write_id - 1) /\ f.offset <= f.total
      BY <1>3, <2>4 DEF Good, FlowOK, InStep, Bounded, Lifecycle
    <3> QED BY <2>2, <3>1
  <2> QED BY <2>3, <2>4
<1> QED BY <1>2, <1>3

(* A write that ends at once: refused, or empty. *)
LEMMA BookStep ==
  ASSUME NEW f, NEW pc, NEW e, NEW D, NEW m, Good(f, pc, e, D, m), f.writes < MaxWrites,
         NEW n \in 0..MaxTotal, NEW code \in Codes, code = "success" => n = 0,
         NEW g, Same(f, g, {"writes", "totals", "done"}), g.writes = f.writes + 1,
         g.totals = [f.totals EXCEPT ![f.writes + 1] = n],
         g.done = [f.done EXCEPT ![f.writes + 1] = <<code>>]
  PROVE  Leads(f, pc, g, pc, e, D, m)
<1> DEFINE id == f.writes + 1
<1>1. /\ FlowTypes(f) /\ DOMAIN f = Fields
      /\ f.totals \in [1..MaxWrites -> 0..MaxTotal]
      /\ f.done \in [1..MaxWrites -> Seq(Codes)] /\ f.writes \in 0..MaxWrites
  BY DEF Good, FlowOK, FlowTypes
<1>2. id \in 1..MaxWrites /\ f.writes \in Nat /\ id \in 0..MaxWrites
  BY <1>1, FlowAssumption
<1>3. /\ g.snd_una = f.snd_una /\ g.snd_nxt = f.snd_nxt /\ g.fin_sent = f.fin_sent
      /\ g.app_closed = f.app_closed /\ g.probe_in_flight = f.probe_in_flight
      /\ g.tcp_connections = f.tcp_connections /\ g.active_write = f.active_write
      /\ g.write_id = f.write_id /\ g.total = f.total /\ g.offset = f.offset
      /\ g.start_seq = f.start_seq /\ g.pc = f.pc /\ g.wake = f.wake
      /\ g.segment = f.segment /\ g.out = f.out /\ g.state = f.state /\ g.rst = f.rst
  BY <1>1 DEF Same, Fields
<1>4. /\ g.done \in [1..MaxWrites -> Seq(Codes)] /\ g.done[id] = <<code>>
      /\ \A k \in 1..MaxWrites : k # id => g.done[k] = f.done[k]
  <2>1. <<code>> \in Seq(Codes)
    OBVIOUS
  <2> QED BY <1>1, <1>2, <2>1
<1>5. /\ g.totals \in [1..MaxWrites -> 0..MaxTotal] /\ g.totals[id] = n
      /\ \A k \in 1..MaxWrites : k # id => g.totals[k] = f.totals[k]
  BY <1>1, <1>2
<1>6. FlowTypes(g)
  <2>1. g.writes \in 0..MaxWrites
    BY <1>2
  <2> QED BY <1>1, <1>4, <1>5, <2>1 DEF FlowTypes, Same, Fields
<1>7. f.active_write => f.write_id \in 1..f.writes
  BY ActiveWrite
<1>8. /\ f.snd_nxt \in Nat /\ Room(f.writes) \in Nat /\ Room(g.writes) \in Nat
      /\ Room(f.writes) <= Room(g.writes)
  <2>1. f.writes <= g.writes /\ g.writes \in Nat
    BY <1>2
  <2> QED BY <1>1, <1>2, <2>1, FlowNumbers, RoomFacts
<1>9. FlowOK(g, pc, e, D, m)
  <2>1. Lifecycle(g, pc)
    <3>1. f.active_write => f.write_id \in 1..g.writes
      BY <1>2, <1>7
    <3>2. f.active_write => g.totals[f.write_id] = f.totals[f.write_id]
      <4>1. f.active_write => f.write_id \in 1..MaxWrites /\ f.write_id # id
        BY <1>2, <1>7, ActiveWrite
      <4> QED BY <1>5, <4>1
    <3> QED BY <1>3, <3>1, <3>2 DEF Good, FlowOK, Lifecycle
  <2>2. FinLast(g, m) /\ InStep(g, pc) /\ WakeOK(g) /\ Counted(g)
    BY <1>3 DEF Good, FlowOK, FinLast, InStep, FinOne, WakeOK, Counted
  <2>3. Bounded(g, pc)
    <3>1. FinOne(g) = FinOne(f) /\ FinOne(f) \in 0..1
      BY <1>3 DEF FinOne
    <3>2. ~g.active_write /\ g.state # "CLOSED" /\ ~g.app_closed =>
            g.snd_nxt <= 1 + Room(g.writes) + FinOne(g)
      <4> SUFFICES ASSUME ~g.active_write, g.state # "CLOSED", ~g.app_closed
                   PROVE  g.snd_nxt <= 1 + Room(g.writes) + FinOne(g)
        OBVIOUS
      <4>1. f.snd_nxt <= 1 + Room(f.writes) + FinOne(f)
        BY <1>3, OpenBound
      <4> QED BY <1>3, <1>8, <3>1, <4>1
    <3>3. g.snd_nxt <= 3 + Room(g.writes)
      BY <1>3, <1>8 DEF Good, FlowOK, Bounded
    <3>4. g.app_closed /\ g.state # "CLOSED" =>
            g.snd_nxt + (IF pc # "none" \/ g.probe_in_flight THEN 1 ELSE 0) <= 3 + Room(g.writes)
      BY <1>3, <1>8 DEF Good, FlowOK, Bounded
    <3> QED BY <1>3, <3>2, <3>3, <3>4 DEF Good, FlowOK, Bounded
  <2>4. Once(g)
    <3> SUFFICES ASSUME NEW k \in 1..MaxWrites
                 PROVE  Len(g.done[k]) =
                          IF k <= g.writes /\ ~(g.active_write /\ g.write_id = k) THEN 1 ELSE 0
      BY DEF Once
    <3>1. CASE k = id
      <4>1. Len(g.done[k]) = 1
        BY <1>4, <3>1
      <4>2. ~(g.active_write /\ g.write_id = k)
        BY <1>2, <1>3, <1>7, <3>1
      <4>3. k <= g.writes
        BY <1>2, <3>1
      <4> QED BY <4>1, <4>2, <4>3
    <3>2. CASE k # id
      <4>1. Len(g.done[k]) = IF k <= f.writes /\ ~(f.active_write /\ f.write_id = k)
                             THEN 1 ELSE 0
        BY <1>4, <3>2 DEF Good, FlowOK, Once
      <4>2. k <= f.writes <=> k <= g.writes
        BY <1>2, <3>2
      <4> QED BY <1>3, <4>1, <4>2
    <3> QED BY <3>1, <3>2
  <2>5. Acked(g, pc, e, D)
    <3>1. ASSUME NEW k \in 1..MaxWrites, Succeeded(g.done[k])
          PROVE  k \in D \/ g.totals[k] = 0
      <4>1. CASE k = id
        <5>1. code = "success"
          BY <1>4, <3>1, <4>1 DEF Succeeded
        <5> QED BY <1>5, <4>1, <5>1
      <4>2. CASE k # id
        BY <1>4, <1>5, <3>1, <4>2 DEF Good, FlowOK, Acked
      <4> QED BY <4>1, <4>2
    <3> QED BY <1>3, <3>1 DEF Good, FlowOK, Acked
  <2> QED BY <1>6, <2>1, <2>2, <2>3, <2>4, <2>5 DEF FlowOK
<1>10. Keeps(f, pc, g, pc)
  <2>1. ASSUME NEW k \in 1..f.writes PROVE k \in 1..g.writes /\ g.totals[k] = f.totals[k]
    <3>1. g.writes = f.writes + 1 /\ f.writes <= MaxWrites /\ MaxWrites \in Nat
      BY <1>1, FlowAssumption
    <3> HIDE DEF id
    <3>2. k \in 1..MaxWrites /\ k # id /\ k \in 1..g.writes
      BY <1>2, <3>1 DEF id
    <3> QED BY <1>5, <3>2
  <2> QED BY <1>3, <2>1 DEF Keeps, PosOK, ProbeOut
<1> QED BY <1>3, <1>9, <1>10, SegmentsSame DEF Leads, Good

(* A write is started: its coroutine will run. *)
LEMMA SpawnStep ==
  ASSUME NEW f, NEW e, NEW D, NEW m, Good(f, f.pc, e, D, m), f.writes < MaxWrites,
         f.state \notin {"CLOSED", "SYN_RCVD"}, ~f.app_closed, ~f.fin_sent, ~f.active_write,
         NEW n \in 1..MaxTotal, NEW g,
         Same(f, g, {"writes", "totals", "active_write", "write_id", "total", "offset",
                     "implicit_accept", "pc", "wake"}),
         g.writes = f.writes + 1, g.totals = [f.totals EXCEPT ![f.writes + 1] = n],
         g.active_write = TRUE, g.write_id = f.writes + 1, g.total = n, g.offset = 0,
         g.implicit_accept \in BOOLEAN, g.pc = "start", g.wake = "signal"
  PROVE  Leads(f, f.pc, g, g.pc, e, D, m)
<1> DEFINE id == f.writes + 1
<1>1. /\ FlowTypes(f) /\ DOMAIN f = Fields
      /\ f.totals \in [1..MaxWrites -> 0..MaxTotal] /\ f.writes \in 0..MaxWrites
      /\ f.done \in [1..MaxWrites -> Seq(Codes)]
  BY DEF Good, FlowOK, FlowTypes
<1>2. /\ id \in 1..MaxWrites /\ f.writes \in Nat /\ id \in 0..MaxWrites /\ id - 1 = f.writes
      /\ n \in 0..MaxTotal /\ n > 0 /\ 0 \in Nat
  BY <1>1, FlowAssumption
<1>3. /\ g.snd_una = f.snd_una /\ g.snd_nxt = f.snd_nxt /\ g.fin_sent = f.fin_sent
      /\ g.app_closed = f.app_closed /\ g.tcp_connections = f.tcp_connections
      /\ g.start_seq = f.start_seq /\ g.segment = f.segment /\ g.out = f.out
      /\ g.state = f.state /\ g.rst = f.rst /\ g.done = f.done
  BY <1>1 DEF Same, Fields
<1>4. /\ g.totals \in [1..MaxWrites -> 0..MaxTotal] /\ g.totals[id] = n
      /\ \A k \in 1..MaxWrites : k # id => g.totals[k] = f.totals[k]
  BY <1>1, <1>2
<1>5. FlowTypes(g)
  <2>1. g.pc \in Pcs /\ g.wake \in Wakes
    BY DEF Pcs, Wakes
  <2>2. /\ g.writes \in 0..MaxWrites /\ g.write_id \in 0..MaxWrites
        /\ g.total \in 0..MaxTotal /\ g.offset \in Nat
    BY <1>2
  <2> QED BY <1>1, <1>4, <2>1, <2>2 DEF FlowTypes, Same, Fields
<1>6. f.snd_nxt \in Nat /\ Room(f.writes) \in Nat /\ Room(f.writes) <= Room(g.writes)
      /\ Room(g.writes) \in Nat
  <2>1. f.writes <= g.writes /\ g.writes \in Nat
    BY <1>2
  <2> QED BY <1>1, <1>2, <2>1, FlowNumbers, RoomFacts
<1>7. f.snd_nxt <= 1 + Room(f.writes)
  BY <1>6, OpenBound DEF FinOne
<1>8. FlowOK(g, "start", e, D, m)
  <2>1. Lifecycle(g, "start")
    <3>1. /\ g.write_id \in 1..g.writes /\ g.total > 0 /\ g.offset <= g.total
          /\ g.totals[g.write_id] = g.total
      BY <1>2, <1>4
    <3> QED BY <1>3, <3>1 DEF Good, FlowOK, Lifecycle
  <2>2. FinLast(g, m)
    BY <1>3 DEF Good, FlowOK, FinLast
  <2>3. InStep(g, "start")
    BY <1>3 DEF Good, FlowOK, InStep
  <2>4. Bounded(g, "start")
    <3>1. g.write_id - 1 = f.writes
      BY <1>2
    <3> QED BY <1>3, <1>6, <1>7, <3>1 DEF Bounded
  <2>5. WakeOK(g) /\ Counted(g)
    BY <1>3 DEF Good, FlowOK, WakeOK, Counted
  <2>6. \A k \in 1..MaxWrites : Len(f.done[k]) = IF k <= f.writes THEN 1 ELSE 0
    BY DEF Good, FlowOK, Once
  <2>7. Once(g)
    <3> SUFFICES ASSUME NEW k \in 1..MaxWrites
                 PROVE  Len(g.done[k]) = IF k <= g.writes /\ g.write_id # k THEN 1 ELSE 0
      BY DEF Once
    <3>1. k <= f.writes <=> k <= g.writes /\ g.write_id # k
      BY <1>2
    <3> QED BY <1>3, <2>6, <3>1
  <2>8. Acked(g, "start", e, D)
    <3>1. f.state \notin {"FIN_WAIT_2", "TIME_WAIT"}
      BY DEF Good, FlowOK, FinLast
    <3>2. ASSUME NEW k \in 1..MaxWrites, Succeeded(g.done[k])
          PROVE  k \in D \/ g.totals[k] = 0
      <4>1. Succeeded(f.done[k]) /\ f.done[k] \in Seq(Codes)
        BY <1>1, <1>3, <3>2
      <4>2. Len(f.done[k]) # 0
        BY <4>1 DEF Succeeded
      <4>3. k # id
        BY <1>2, <2>6, <4>2
      <4> QED BY <1>4, <4>1, <4>3 DEF Good, FlowOK, Acked
    <3> QED BY <1>3, <3>1, <3>2 DEF Good, FlowOK, Acked
  <2> QED BY <1>5, <2>1, <2>2, <2>3, <2>4, <2>5, <2>7, <2>8 DEF FlowOK
<1>9. Keeps(f, f.pc, g, "start")
  <2>1. ASSUME NEW k \in 1..f.writes PROVE k \in 1..g.writes /\ g.totals[k] = f.totals[k]
    <3>1. g.writes = f.writes + 1 /\ f.writes <= MaxWrites /\ MaxWrites \in Nat
      BY <1>1, FlowAssumption
    <3> HIDE DEF id
    <3>2. k \in 1..MaxWrites /\ k # id /\ k \in 1..g.writes
      BY <1>2, <3>1 DEF id
    <3> QED BY <1>4, <3>2
  <2>2. ASSUME NEW i \in Nat, NEW b, PosOK(f, f.pc, i, b) PROVE PosOK(g, "start", i, b)
    <3>1. i < f.snd_nxt
      BY <2>2 DEF PosOK, ProbeOut
    <3> QED BY <1>3, <3>1 DEF PosOK
  <2> QED BY <2>1, <2>2 DEF Keeps
<1> QED BY <1>3, <1>8, <1>9, SegmentsSame DEF Leads, Good

(* tcp_flow_start_write. *)
LEMMA WriteStep ==
  ASSUME NEW f, NEW e, NEW D, NEW m, Good(f, f.pc, e, D, m), f.writes < MaxWrites,
         NEW n \in 0..MaxTotal, NEW g, g = start_write(f, n)
  PROVE  Leads(f, f.pc, g, g.pc, e, D, m)
<1> DEFINE id == f.writes + 1
           k == [f EXCEPT !.writes = id, !.totals[id] = n]
           a == accept_flow(f)
<1>1. FlowTypes(f) /\ DOMAIN f = Fields
  BY DEF Good, FlowOK, FlowTypes
<1>2. refuse_write(f) # "none" => refuse_write(f) \in {"bad_descriptor", "connection_reset"}
  BY DEF refuse_write
<1>3. ASSUME NEW code \in Codes, code = "success" => n = 0, g = [k EXCEPT !.done[id] = <<code>>]
      PROVE  Leads(f, f.pc, g, g.pc, e, D, m)
  <2>1. /\ Same(f, g, {"writes", "totals", "done"}) /\ g.writes = f.writes + 1
        /\ g.totals = [f.totals EXCEPT ![f.writes + 1] = n]
        /\ g.done = [f.done EXCEPT ![f.writes + 1] = <<code>>] /\ g.pc = f.pc
    BY <1>1, <1>3 DEF Same, Fields
  <2> QED BY <1>3, <2>1, BookStep
<1>4. CASE refuse_write(f) # "none"
  <2>1. g = [k EXCEPT !.done[id] = <<refuse_write(f)>>]
    BY <1>4 DEF start_write
  <2> QED BY <1>2, <1>3, <1>4, <2>1 DEF Codes
<1>5. CASE refuse_write(f) = "none" /\ n # 0 /\ f.active_write
  <2>1. g = [k EXCEPT !.done[id] = <<"no_buffer_space">>]
    BY <1>5 DEF start_write
  <2> QED BY <1>3, <2>1 DEF Codes
<1>6. Leads(f, f.pc, a, f.pc, e, D, m) /\ a.pc = f.pc
  BY <1>1, AcceptStep, HelpersStay DEF Stays
<1>7. /\ Same(f, a, {"out", "snd_nxt", "state"})
      /\ f.state # "SYN_RCVD" => a.state = f.state
      /\ f.state = "SYN_RCVD" => a.state = "SYN_ACK_SENT"
      /\ DOMAIN a = Fields
  BY <1>1 DEF accept_flow, send_segment, Same, Fields
<1>8. Same(a, accept_flow(k), {"writes", "totals"})
      /\ accept_flow(k).writes = id /\ accept_flow(k).totals = [f.totals EXCEPT ![id] = n]
      /\ accept_flow(k).done = f.done
  <2>1. CASE f.state = "SYN_RCVD"
    BY <1>1, <2>1 DEF accept_flow, send_segment, Same, Fields
  <2>2. CASE f.state # "SYN_RCVD"
    BY <1>1, <2>2 DEF accept_flow, Same, Fields
  <2> QED BY <2>1, <2>2
<1> DEFINE ak == accept_flow(k)
<1>9. DOMAIN ak = Fields /\ a.writes = f.writes /\ a.totals = f.totals /\ a.done = f.done
      /\ a.app_closed = f.app_closed /\ a.fin_sent = f.fin_sent
      /\ a.active_write = f.active_write
  BY <1>1, <1>7, <1>8 DEF Same, Fields
<1>10. CASE refuse_write(f) = "none" /\ n = 0
  <2>1. g = [ak EXCEPT !.done[id] = <<"success">>]
    BY <1>10 DEF start_write
  <2> HIDE DEF ak, a, k
  <2>2. /\ Same(a, g, {"writes", "totals", "done"}) /\ g.writes = a.writes + 1
        /\ g.totals = [a.totals EXCEPT ![a.writes + 1] = n]
        /\ g.done = [a.done EXCEPT ![a.writes + 1] = <<"success">>] /\ g.pc = a.pc
    BY <1>7, <1>8, <1>9, <2>1 DEF Same, Fields, ak
  <2>3. Leads(a, f.pc, g, f.pc, e, D, m)
    <3>1. "success" \in Codes /\ a.writes < MaxWrites
      BY <1>9 DEF Codes
    <3>2. Good(a, f.pc, e, D, m)
      BY <1>6 DEF Leads
    <3> QED BY <1>10, <2>2, <3>1, <3>2, BookStep
  <2> QED BY <1>6, <2>2, <2>3, LeadsTransitive
<1>11. CASE refuse_write(f) = "none" /\ n # 0 /\ ~f.active_write
  <2>1. g = [ak EXCEPT
              !.active_write = TRUE, !.write_id = id, !.total = n, !.offset = 0,
              !.implicit_accept = (f.state = "SYN_RCVD"),
              !.pc = "start", !.wake = "signal"]
    BY <1>11 DEF start_write
  <2>2. /\ a.state \notin {"CLOSED", "SYN_RCVD"} /\ ~a.app_closed /\ ~a.fin_sent
        /\ ~a.active_write /\ n \in 1..MaxTotal
    <3>1. f.state # "CLOSED" /\ ~f.app_closed /\ ~f.fin_sent
      BY <1>11 DEF refuse_write
    <3>2. n \in 1..MaxTotal
      BY <1>11, FlowAssumption
    <3> QED BY <1>7, <1>9, <1>11, <3>1, <3>2
  <2> HIDE DEF ak, a, k
  <2>3. /\ Same(a, g, {"writes", "totals", "active_write", "write_id", "total", "offset",
                       "implicit_accept", "pc", "wake"})
        /\ g.writes = a.writes + 1 /\ g.totals = [a.totals EXCEPT ![a.writes + 1] = n]
        /\ g.active_write = TRUE /\ g.write_id = a.writes + 1 /\ g.total = n /\ g.offset = 0
        /\ g.pc = "start" /\ g.wake = "signal"
    <3>1. /\ Same(ak, g, {"active_write", "write_id", "total", "offset",
                           "implicit_accept", "pc", "wake"})
          /\ g.active_write = TRUE /\ g.write_id = id /\ g.total = n /\ g.offset = 0
          /\ g.pc = "start" /\ g.wake = "signal"
      BY <1>9, <2>1 DEF Same, Fields
    <3>2. g.writes = ak.writes /\ g.totals = ak.totals
      BY <1>9, <3>1 DEF Same, Fields
    <3>3. Same(a, ak, {"writes", "totals"}) /\ ak.writes = id
          /\ ak.totals = [f.totals EXCEPT ![id] = n]
      BY <1>8 DEF ak
    <3>4. Same(a, g, {"writes", "totals", "active_write", "write_id", "total", "offset",
                      "implicit_accept", "pc", "wake"})
      BY <1>7, <1>9, <3>1, <3>3 DEF Same
    <3> QED BY <1>9, <3>1, <3>2, <3>3, <3>4
  <2>6. g.implicit_accept \in BOOLEAN
    <3>1. g.implicit_accept = (f.state = "SYN_RCVD")
      BY <1>9, <2>1 DEF Fields
    <3> QED BY <3>1
  <2>4. Good(a, a.pc, e, D, m) /\ a.writes < MaxWrites
    BY <1>6, <1>9 DEF Leads
  <2>5. Leads(a, a.pc, g, g.pc, e, D, m)
    BY <2>2, <2>3, <2>4, <2>6, SpawnStep
  <2> QED BY <1>6, <2>5, LeadsTransitive
<1> HIDE DEF a, k, ak
<1> QED BY <1>4, <1>5, <1>10, <1>11

(* The mark of a FIN is only a promise: without it the invariant holds too. *)
LEMMA Unmark ==
  ASSUME NEW f, NEW pc, NEW e, NEW D, NEW m, Good(f, pc, e, D, m)
  PROVE  Good(f, pc, e, D, -1)
<1>1. FinLast(f, -1)
  BY DEF Good, FlowOK, FinLast
<1> QED BY <1>1 DEF Good, FlowOK

(* tcp_flow_close: the write is aborted, and the flow is reset or sends its *)
(* FIN.  A FIN that was sent stays the last.                                *)
LEMMA CloseStep ==
  ASSUME NEW f, NEW pc, NEW e, NEW D, NEW m, NEW g, g = close(f), Good(f, pc, e, D, m)
  PROVE  /\ Good(g, pc, e, D, -1) /\ Keeps(f, pc, g, pc) /\ g.pc = f.pc
         /\ f.fin_sent => g.snd_nxt = f.snd_nxt
<1> DEFINE c == complete(f, "operation_aborted")
           x == [c EXCEPT !.app_closed = TRUE]
           w == signal_write(x)
           h == [w EXCEPT !.fin_sent = TRUE]
<1>1. FlowTypes(f) /\ DOMAIN f = Fields /\ f.state \in States
  BY DEF Good, FlowOK, FlowTypes
<1>2. CASE f.state = "CLOSED" \/ f.app_closed
  <2>1. g = f
    BY <1>2 DEF close
  <2> QED BY <2>1, Unmark DEF Keeps
<1>3. CASE ~(f.state = "CLOSED" \/ f.app_closed)
  <2>1. g = IF w.snd_una # w.snd_nxt THEN abort_flow(w) ELSE send_fin(w)
    BY <1>3 DEF close
  <2>2. f.active_write => f.write_id \in 1..f.writes /\ f.write_id # 0
    BY ActiveWrite
  <2>3. /\ FlowTypes(c)
        /\ Same(f, c, WriteFields)
        /\ ~c.active_write
        /\ f.active_write => c.total = 0 /\ c.offset = 0
        /\ ~f.active_write => c = f
        /\ \A id \in 1..MaxWrites :
             /\ Len(c.done[id]) = IF f.active_write /\ f.write_id = id
                                  THEN Len(f.done[id]) + 1 ELSE Len(f.done[id])
             /\ Succeeded(c.done[id]) => Succeeded(f.done[id])
    BY <1>1, <2>2, CompleteEffect DEF Codes
  <2> HIDE DEF c
  <2>4. DOMAIN c = Fields
    BY <2>3 DEF FlowTypes
  <2>5. Same(c, x, {"app_closed"}) /\ x.app_closed = TRUE
    BY <2>4 DEF Same, Fields
  <2> HIDE DEF x
  <2>6. Same(x, w, {"wake"}) /\ (w.wake = x.wake \/ (w.wake = "signal" /\ x.pc \in Waits))
    <3>1. DOMAIN x = Fields
      BY <2>4, <2>5 DEF Same
    <3>2. CASE Parked(x)
      BY <3>1, <3>2 DEF signal_write, Parked, Same, Fields, Waits
    <3>3. CASE ~Parked(x)
      BY <3>3 DEF signal_write, Same
    <3> QED BY <3>2, <3>3
  <2> HIDE DEF w
  <2>7. /\ w.done = c.done /\ ~w.active_write /\ w.writes = f.writes
        /\ w.totals = f.totals /\ w.snd_una = f.snd_una /\ w.snd_nxt = f.snd_nxt
        /\ w.out = f.out /\ w.segment = f.segment /\ w.pc = f.pc
        /\ w.fin_sent = f.fin_sent /\ w.app_closed /\ w.state = f.state
        /\ w.tcp_connections = f.tcp_connections /\ w.rst = f.rst
        /\ w.probe_in_flight = f.probe_in_flight
        /\ w.wake = f.wake \/ (w.wake = "signal" /\ f.pc \in Waits)
        /\ w.total = c.total /\ w.offset = c.offset
    <3>1. /\ w.done = c.done /\ w.active_write = c.active_write /\ w.writes = c.writes
          /\ w.totals = c.totals /\ w.snd_una = c.snd_una /\ w.snd_nxt = c.snd_nxt
          /\ w.out = c.out /\ w.segment = c.segment /\ w.pc = c.pc
          /\ w.fin_sent = c.fin_sent /\ w.app_closed = TRUE /\ w.state = c.state
          /\ w.tcp_connections = c.tcp_connections /\ w.rst = c.rst
          /\ w.probe_in_flight = c.probe_in_flight
          /\ w.wake = c.wake \/ (w.wake = "signal" /\ c.pc \in Waits)
          /\ w.total = c.total /\ w.offset = c.offset
      BY <2>4, <2>5, <2>6 DEF Same, Fields
    <3>2. /\ c.writes = f.writes /\ c.totals = f.totals /\ c.snd_una = f.snd_una
          /\ c.snd_nxt = f.snd_nxt /\ c.out = f.out /\ c.segment = f.segment
          /\ c.pc = f.pc /\ c.wake = f.wake /\ c.fin_sent = f.fin_sent
          /\ c.state = f.state /\ c.tcp_connections = f.tcp_connections
          /\ c.rst = f.rst /\ c.probe_in_flight = f.probe_in_flight
      BY <1>1, <2>3 DEF Same, Fields, WriteFields
    <3> QED BY <2>3, <3>1, <3>2
  <2>8. w.total = 0 /\ w.offset <= 0
    <3>1. CASE f.active_write
      BY <2>3, <2>7, <3>1
    <3>2. CASE ~f.active_write
      BY <2>3, <2>7, <3>2 DEF Good, FlowOK, Lifecycle
    <3> QED BY <3>1, <3>2
  <2>9. FlowTypes(w) /\ DOMAIN w = Fields
    <3>1. FlowTypes(x)
      BY <2>3, <2>4, <2>5 DEF FlowTypes, Same, Fields
    <3>2. w.wake \in Wakes
      BY <2>6, <3>1 DEF FlowTypes, Wakes
    <3> QED BY <2>4, <2>5, <2>6, <3>1, <3>2 DEF FlowTypes, Same, Fields
  <2>10. Closable(f, e, D, m)
    BY GoodClosable
  <2>11. WakeOK(w) /\ Counted(w)
    BY <2>7, <2>10 DEF Closable, WakeOK, Counted, Waits
  <2>12. Once(w)
    <3> SUFFICES ASSUME NEW id \in 1..MaxWrites
                 PROVE  Len(w.done[id]) = IF id <= f.writes THEN 1 ELSE 0
      BY <2>7 DEF Once
    <3>1. Len(f.done[id]) = IF id <= f.writes /\ ~(f.active_write /\ f.write_id = id)
                           THEN 1 ELSE 0
      BY <2>10 DEF Closable, Once
    <3>2. f.active_write => f.write_id <= f.writes
      BY <2>2
    <3> QED BY <2>3, <2>7, <3>1, <3>2
  <2>13. \A id \in 1..MaxWrites : Succeeded(w.done[id]) => id \in D \/ w.totals[id] = 0
    BY <2>3, <2>7, <2>10 DEF Closable
  <2>14. Closable(w, e, D, -1)
    BY <2>7, <2>8, <2>9, <2>10, <2>11, <2>12, <2>13 DEF Closable
  <2>15. f.snd_nxt \in Nat /\ Room(f.writes) \in Nat /\ FinOne(f) \in 0..1 /\ FinOne(w) = FinOne(f)
    BY <1>1, <2>7, FlowNumbers DEF FinOne
  <2>16. f.snd_nxt <= 1 + Room(f.writes) + FinOne(f)
    BY <1>3, OpenBound
  <2>17. ASSUME NEW y, y = w \/ y = h, g = abort_flow(y)
         PROVE  /\ Good(g, pc, e, D, -1) /\ Keeps(f, pc, g, pc) /\ g.pc = f.pc
                /\ f.fin_sent => g.snd_nxt = f.snd_nxt
    <3>1. Same(w, y, {"fin_sent"}) /\ y.fin_sent \in BOOLEAN
      <4>1. w.fin_sent \in BOOLEAN
        BY <2>9 DEF FlowTypes
      <4> QED BY <2>9, <2>17, <4>1 DEF Same, Fields
    <3>2. /\ y.done = w.done /\ y.active_write = w.active_write /\ y.writes = w.writes
          /\ y.totals = w.totals /\ y.snd_una = w.snd_una /\ y.snd_nxt = w.snd_nxt
          /\ y.out = w.out /\ y.segment = w.segment /\ y.pc = w.pc /\ y.wake = w.wake
          /\ y.state = w.state /\ y.tcp_connections = w.tcp_connections
          /\ y.total = w.total /\ y.offset = w.offset /\ y.write_id = w.write_id
      BY <2>9, <3>1 DEF Same, Fields
    <3>3. FlowTypes(y) /\ DOMAIN y = Fields
      BY <2>9, <3>1 DEF FlowTypes, Same, Fields
    <3>4. WakeOK(y) /\ Counted(y) /\ Once(y)
      BY <2>11, <2>12, <3>2 DEF WakeOK, Counted, Once
    <3>5. Closable(y, e, D, -1)
      BY <2>14, <3>2, <3>3, <3>4 DEF Closable
    <3>6. /\ Good(g, pc, e, D, -1) /\ g.state = "CLOSED" /\ ~g.active_write
          /\ g.snd_nxt = y.snd_nxt /\ g.writes = y.writes /\ g.totals = y.totals
      BY <1>3, <2>7, <2>17, <3>2, <3>5, AbortStep
    <3>7. g.pc = f.pc
      BY <2>7, <2>17, <3>2, <3>3, HelpersStay DEF Stays
    <3>8. Keeps(f, pc, g, pc)
      BY <2>7, <2>15, <3>2, <3>6 DEF Keeps, PosOK, ProbeOut
    <3> QED BY <2>7, <3>2, <3>6, <3>7, <3>8
  <2>18. CASE w.snd_una # w.snd_nxt
    BY <2>1, <2>17, <2>18
  <2>19. CASE w.snd_una = w.snd_nxt /\ w.fin_sent
    <3>1. g = w
      BY <2>1, <2>19 DEF send_fin
    <3>2. FlowOK(w, pc, e, D, -1)
      <4>1. Lifecycle(w, pc) /\ FinLast(w, -1) /\ InStep(w, pc)
        BY <1>3, <2>7, <2>8, <2>19 DEF Good, FlowOK, Lifecycle, FinLast, InStep
      <4>2. Bounded(w, pc)
        BY <2>7, <2>15, <2>16 DEF Bounded
      <4>3. Acked(w, pc, e, D)
        BY <2>7, <2>13 DEF Good, FlowOK, Acked
      <4> QED BY <2>9, <2>11, <2>12, <4>1, <4>2, <4>3 DEF FlowOK
    <3>3. Keeps(f, pc, w, pc)
      <4>1. ~ProbeOut(f, pc)
        <5>1. f.active_write => f.offset = f.total /\ f.total \in Nat
          BY <1>1, <2>7, <2>19, FlowNumbers DEF Good, FlowOK, FinLast
        <5> QED BY <1>3, <5>1 DEF ProbeOut
      <4> QED BY <2>7, <4>1 DEF Keeps, PosOK
    <3>4. SegmentsOK(w, pc)
      BY <2>7, <3>3, SegmentsSame DEF Good
    <3> QED BY <2>7, <3>1, <3>2, <3>3, <3>4 DEF Good
  <2>20. CASE w.snd_una = w.snd_nxt /\ ~w.fin_sent
    <3>1. ~MustDefer(w) /\ w.state # "CLOSED"
      BY <1>3, <2>7, <2>20 DEF MustDefer, Unsent
    <3>2. CASE w.state \in {"SYN_RCVD", "SYN_ACK_SENT"}
      <4>1. g = abort_flow(h)
        BY <2>1, <2>20, <3>1, <3>2 DEF send_fin
      <4> QED BY <2>17, <4>1
    <3>3. CASE w.state \in {"ESTABLISHED", "CLOSE_WAIT"}
      <4>1. g = send_fin(w)
        BY <2>1, <2>20
      <4>2. /\ FlowTypes(g)
            /\ Same(w, g, {"out", "fin_sent", "snd_nxt", "state"})
            /\ g.fin_sent /\ g.snd_nxt = w.snd_nxt + 1
            /\ g.state \in {"FIN_WAIT_1", "LAST_ACK"}
            /\ g.out = w.out \cup {Fin(w.snd_nxt)}
        BY <2>9, <2>20, <3>1, <3>3, <4>1, FinEffect
      <4>3. /\ g.pc = w.pc /\ g.wake = w.wake /\ g.tcp_connections = w.tcp_connections
            /\ g.done = w.done /\ g.writes = w.writes /\ g.active_write = w.active_write
            /\ g.total = w.total /\ g.offset = w.offset /\ g.totals = w.totals
            /\ g.segment = w.segment /\ g.snd_una = w.snd_una
            /\ g.app_closed = w.app_closed /\ g.rst = w.rst
        BY <2>9, <4>2 DEF Same, Fields
      <4>4. f.snd_una \in Nat /\ FinOne(f) = 0
        BY <1>1, <2>7, <2>20, FlowNumbers DEF FinOne
      <4>5. FlowOK(g, pc, e, D, -1)
        <5>1. ~f.rst
          BY <1>3 DEF Good, FlowOK, Lifecycle
        <5>2. Lifecycle(g, pc) /\ FinLast(g, -1)
          BY <2>7, <2>8, <4>2, <4>3, <5>1 DEF Lifecycle, FinLast
        <5>3. InStep(g, pc)
          BY <2>7, <2>15, <2>20, <4>2, <4>3, <4>4 DEF InStep
        <5>4. Bounded(g, pc)
          BY <2>7, <2>15, <2>16, <4>2, <4>3, <4>4 DEF Bounded
        <5>5. WakeOK(g) /\ Counted(g) /\ Once(g)
          <6>1. WakeOK(g) /\ Once(g)
            BY <2>7, <2>11, <2>12, <4>3 DEF WakeOK, Once
          <6>2. Counted(g)
            BY <2>11, <3>3, <4>2, <4>3 DEF Counted, Opened, States
          <6> QED BY <6>1, <6>2
        <5>6. Acked(g, pc, e, D)
          BY <2>7, <2>13, <4>3 DEF Good, FlowOK, Acked
        <5> QED BY <4>2, <5>2, <5>3, <5>4, <5>5, <5>6 DEF FlowOK
      <4>6. Keeps(f, pc, g, pc)
        <5>1. ASSUME NEW i \in Nat, NEW b, PosOK(f, pc, i, b) PROVE PosOK(g, pc, i, b)
          <6>1. i < g.snd_nxt
            BY <2>7, <2>15, <4>2, <5>1 DEF PosOK
          <6> QED BY <2>7, <4>3, <6>1 DEF PosOK
        <5> QED BY <2>7, <4>3, <5>1 DEF Keeps
      <4>7. SegmentsOK(g, pc)
        <5> DEFINE N == {Fin(w.snd_nxt)}
        <5>1. Sound(g, pc, Fin(w.snd_nxt))
          <6> SUFFICES ASSUME NEW i \in Nat, Puts(Fin(w.snd_nxt), i) # NoByte
                       PROVE  PosOK(g, pc, i, Puts(Fin(w.snd_nxt), i))
            BY DEF Sound
          <6>1. i = w.snd_nxt
            BY <2>7, <2>15, ControlSegments
          <6> QED BY <2>7, <2>15, <4>2, <4>3, <6>1 DEF PosOK
        <5>2. /\ \A s \in N : Sound(g, pc, s)
              /\ g.out \subseteq f.out \cup N
              /\ g.segment = f.segment \/ \E s \in N : g.segment = <<s>>
          BY <2>7, <4>2, <4>3, <5>1
        <5> HIDE DEF N
        <5> QED BY <4>6, <5>2, SegmentsKept DEF Good
      <4> QED BY <2>7, <2>20, <4>3, <4>5, <4>6, <4>7 DEF Good
    <3>4. w.state \in {"FIN_WAIT_1", "FIN_WAIT_2", "LAST_ACK", "TIME_WAIT"} => w.fin_sent
      BY <2>7 DEF Good, FlowOK, FinLast
    <3>5. w.state \in States
      BY <1>1, <2>7
    <3> QED BY <2>20, <3>1, <3>2, <3>3, <3>4, <3>5 DEF States
  <2> QED BY <2>18, <2>19, <2>20
<1> QED BY <1>2, <1>3

----------------------------------------------------------------------------
(* What the peer holds. *)

(* The peer holds the positions before the one it expects, and no other. *)
LEMMA PrefixFacts ==
  ASSUME NEW got
  PROVE  /\ MaxSeq \in Nat /\ Expected(got) \in 1..(MaxSeq + 1)
         /\ IsFiniteSet(Prefix(got))
         /\ \A i \in 1..MaxSeq : i < Expected(got) => i \in Prefix(got)
         /\ \A i \in Prefix(got) : i \in 1..MaxSeq /\ got[i] # NoByte
<1>1. MaxSeq \in Nat
  BY FlowAssumption DEF MaxSeq
<1>2. /\ Prefix(got) \subseteq 1..MaxSeq
      /\ \A i \in Prefix(got) : \A j \in 1..i : j \in Prefix(got)
  <2>1. ASSUME NEW i \in Prefix(got), NEW j \in 1..i PROVE j \in Prefix(got)
    BY <1>1 DEF Prefix, Holds
  <2> QED BY <2>1 DEF Prefix
<1>3. \A n \in Nat : IsFiniteSet(1..n) /\ Cardinality(1..n) = n
  <2> SUFFICES ASSUME NEW n \in Nat PROVE IsFiniteSet(1..n) /\ Cardinality(1..n) = n
    OBVIOUS
  <2> QED BY FS_Interval
<1>4. /\ IsFiniteSet(Prefix(got)) /\ Cardinality(Prefix(got)) \in Nat
      /\ Cardinality(Prefix(got)) <= MaxSeq
  BY <1>1, <1>2, <1>3, FS_Subset, FS_CardinalityType
<1>5. ASSUME NEW i \in 1..MaxSeq, i \notin Prefix(got) PROVE Expected(got) <= i
  <2>1. i - 1 \in Nat
    BY <1>1
  <2>2. Prefix(got) \subseteq 1..(i - 1)
    BY <1>1, <1>2, <1>5
  <2>3. Cardinality(Prefix(got)) <= i - 1
    BY <1>3, <2>1, <2>2, FS_Subset
  <2> QED BY <1>1, <1>4, <2>3 DEF Expected
<1>6. ASSUME NEW i \in Prefix(got) PROVE i \in 1..MaxSeq /\ got[i] # NoByte
  BY <1>1, <1>6 DEF Prefix, Holds
<1>7. Expected(got) \in 1..(MaxSeq + 1)
  BY <1>1, <1>4 DEF Expected
<1> QED BY <1>1, <1>4, <1>5, <1>6, <1>7

(* What the peer receives is added to what it holds. *)
LEMMA PrefixGrows ==
  ASSUME NEW got, NEW got2,
         \A i \in 1..MaxSeq : got[i] # NoByte => got2[i] = got[i]
  PROVE  Prefix(got) \subseteq Prefix(got2) /\ Expected(got) <= Expected(got2)
<1>1. MaxSeq \in Nat
  BY PrefixFacts
<1>2. ASSUME NEW i \in Prefix(got) PROVE i \in Prefix(got2)
  <2>1. i \in 1..MaxSeq /\ \A j \in 1..i : got[j] # NoByte /\ (j < i => got[j] # FinMark)
    BY DEF Prefix, Holds
  <2>2. \A j \in 1..i : j \in 1..MaxSeq
    BY <1>1, <2>1
  <2> QED BY <2>1, <2>2 DEF Prefix, Holds
<1>3. Cardinality(Prefix(got)) <= Cardinality(Prefix(got2))
  BY <1>2, PrefixFacts, FS_Subset
<1>4. Cardinality(Prefix(got)) \in Nat /\ Cardinality(Prefix(got2)) \in Nat
  BY PrefixFacts, FS_CardinalityType
<1> QED BY <1>2, <1>3, <1>4 DEF Expected

(* A segment puts bytes, a FIN or nothing. *)
LEMMA PutsType ==
  ASSUME NEW s \in Segments, NEW i \in Nat
  PROVE  Puts(s, i) \in Bytes \cup {NoByte, FinMark}
<1>1. s.bytes \in Seq(Bytes) /\ s.seq \in Nat
  BY DEF Segments
<1>2. CASE s.kind = "DATA" /\ i - s.seq \in 0..(Len(s.bytes) - 1)
  <2>1. i - s.seq + 1 \in 1..Len(s.bytes)
    BY <1>1, <1>2
  <2>2. s.bytes[i - s.seq + 1] \in Bytes
    BY <1>1, <2>1
  <2>3. Puts(s, i) = s.bytes[i - s.seq + 1]
    BY <1>2 DEF Puts
  <2> QED BY <2>2, <2>3
<1>3. CASE ~(s.kind = "DATA" /\ i - s.seq \in 0..(Len(s.bytes) - 1))
  BY <1>3 DEF Puts
<1> QED BY <1>2, <1>3

(* Sound segments leave the peer with what may stand where it stands. *)
LEMMA PeerStep ==
  ASSUME NEW f, NEW g, NEW p, NEW S, NEW q, q = PeerGets(p, S),
         GotOK(f, f.pc, p.got), Keeps(f, f.pc, g, g.pc),
         S \subseteq Segments, \A s \in S : Sound(g, g.pc, s),
         DOMAIN p = {"syn", "alive", "got", "budget"},
         p.got \in [1..MaxSeq -> Bytes \cup {NoByte, FinMark}]
  PROVE  /\ GotOK(g, g.pc, q.got)
         /\ \A i \in 1..MaxSeq : p.got[i] # NoByte => q.got[i] = p.got[i]
         /\ DOMAIN q = DOMAIN p
         /\ q.got \in [1..MaxSeq -> Bytes \cup {NoByte, FinMark}]
<1> DEFINE V(i) == IF p.got[i] = NoByte /\ \E s \in S : Puts(s, i) # NoByte
                   THEN Puts(CHOOSE s \in S : Puts(s, i) # NoByte, i)
                   ELSE p.got[i]
<1>1. DOMAIN q = DOMAIN p /\ q.got = [i \in 1..MaxSeq |-> V(i)]
  BY DEF PeerGets
<1>2. MaxSeq \in Nat
  BY PrefixFacts
<1>3. ASSUME NEW i \in 1..MaxSeq
      PROVE  \/ V(i) = p.got[i]
             \/ p.got[i] = NoByte /\ \E s \in S : V(i) = Puts(s, i)
  <2>1. CASE p.got[i] = NoByte /\ \E s \in S : Puts(s, i) # NoByte
    <3> DEFINE t == CHOOSE s \in S : Puts(s, i) # NoByte
    <3>1. t \in S
      BY <2>1
    <3>2. V(i) = Puts(t, i)
      BY <2>1
    <3> QED BY <2>1, <3>1, <3>2
  <2>2. CASE ~(p.got[i] = NoByte /\ \E s \in S : Puts(s, i) # NoByte)
    BY <2>2
  <2> QED BY <2>1, <2>2
<1> HIDE DEF V
<1>5. ASSUME NEW i \in 1..MaxSeq
      PROVE  /\ q.got[i] = V(i) /\ i \in Nat
             /\ V(i) \in Bytes \cup {NoByte, FinMark}
             /\ V(i) # NoByte => PosOK(g, g.pc, i, V(i))
             /\ p.got[i] # NoByte => V(i) = p.got[i]
  <2>1. q.got[i] = V(i) /\ i \in Nat /\ p.got[i] \in Bytes \cup {NoByte, FinMark}
    BY <1>1, <1>2
  <2>2. CASE V(i) = p.got[i]
    BY <2>1, <2>2 DEF GotOK, Keeps
  <2>3. CASE p.got[i] = NoByte /\ \E s \in S : V(i) = Puts(s, i)
    BY <2>1, <2>3, PutsType DEF Sound
  <2> QED BY <1>3, <2>1, <2>2, <2>3
<1>6. GotOK(g, g.pc, q.got)
  BY <1>5 DEF GotOK
<1> QED BY <1>1, <1>5, <1>6

(* The flow's view of the peer stays true when the peer holds more: a write *)
(* whose last byte is acknowledged was delivered.                           *)
LEMMA ViewStep ==
  ASSUME NEW f, NEW g, NEW pc, NEW qc, NEW got, NEW got2, NEW m,
         Keeps(f, pc, g, qc), Good(g, qc, Expected(got), Delivered(f, got), m),
         GotOK(g, qc, got2),
         \A i \in 1..MaxSeq : got[i] # NoByte => got2[i] = got[i]
  PROVE  Good(g, qc, Expected(got2), Delivered(g, got2), Mark(g))
<1> DEFINE e == Expected(got)
           d == Expected(got2)
           D == Delivered(f, got)
           E == Delivered(g, got2)
<1>1. FlowTypes(g)
  BY DEF Good, FlowOK
<1>2. e \in Nat /\ d \in Nat /\ e <= d /\ MaxSeq \in Nat /\ d <= MaxSeq + 1
  BY PrefixFacts, PrefixGrows
<1>3. D \subseteq E
  <2> SUFFICES ASSUME NEW id \in D PROVE id \in E
    OBVIOUS
  <2>1. id \in 1..g.writes /\ g.totals[id] = f.totals[id]
    BY DEF Delivered, Keeps
  <2>2. ASSUME NEW off \in 0..(g.totals[id] - 1)
        PROVE  \E i \in Prefix(got2) : got2[i] = Byte(id, off)
    <3>1. PICK i \in Prefix(got) : got[i] = Byte(id, off)
      BY <2>1 DEF Delivered
    <3>2. i \in Prefix(got2) /\ i \in 1..MaxSeq /\ got[i] # NoByte
      BY PrefixGrows, PrefixFacts
    <3> QED BY <3>1, <3>2
  <2> QED BY <2>1, <2>2 DEF Delivered
<1>4. ASSUME g.active_write, qc # "start", g.start_seq + g.total <= d PROVE g.write_id \in E
  <2>1. /\ g.write_id \in 1..g.writes /\ g.totals[g.write_id] = g.total
        /\ g.start_seq > 0
    BY <1>4 DEF Good, FlowOK, Lifecycle, InStep
  <2>2. g.start_seq \in Nat /\ g.total \in Nat
    BY <1>1, FlowNumbers
  <2>3. ASSUME NEW off \in 0..(g.totals[g.write_id] - 1)
        PROVE  \E i \in Prefix(got2) : got2[i] = Byte(g.write_id, off)
    <3> DEFINE i == g.start_seq + off
    <3>1. /\ i \in Nat /\ i >= g.start_seq /\ i < g.start_seq + g.total
          /\ i - g.start_seq = off /\ i \in 1..MaxSeq /\ i < d
      BY <1>2, <1>4, <2>1, <2>2
    <3> HIDE DEF i
    <3>2. i \in Prefix(got2) /\ got2[i] # NoByte
      BY <3>1, PrefixFacts
    <3>3. PosOK(g, qc, i, got2[i])
      BY <3>1, <3>2 DEF GotOK
    <3>4. got2[i] = Byte(g.write_id, off)
      BY <1>4, <3>1, <3>3 DEF PosOK
    <3> QED BY <3>2, <3>4
  <2> QED BY <2>1, <2>3 DEF Delivered
<1>5. Acked(g, qc, d, E)
  <2>1. Acked(g, qc, e, D)
    BY DEF Good, FlowOK
  <2>2. g.snd_una \in Nat /\ g.snd_nxt \in Nat
    BY <1>1, FlowNumbers
  <2> HIDE DEF e, d, D, E
  <2> QED BY <1>2, <1>3, <1>4, <2>1, <2>2 DEF Acked
<1>6. FinLast(g, Mark(g))
  BY <1>1 DEF Good, FlowOK, FinLast, Mark, FlowTypes
<1> QED BY <1>5, <1>6 DEF Good, FlowOK

(* A coroutine that has not started its write: the peer holds at most what *)
(* was sent before.                                                        *)
LEMMA NotAhead ==
  ASSUME NEW f, NEW p, Consistent(f, p), f.active_write, f.pc = "start"
  PROVE  Expected(p.got) <= f.snd_nxt
<1>1. Good(f, f.pc, Expected(p.got), Delivered(f, p.got), Mark(f)) /\ GotOK(f, f.pc, p.got)
  BY DEF Consistent, Good
<1>2. f.snd_nxt \in Nat /\ f.snd_nxt > 0 /\ ~ProbeOut(f, f.pc)
  <2>1. f.snd_nxt \in Nat
    BY <1>1, FlowNumbers DEF Good, FlowOK
  <2>2. ~f.app_closed /\ f.state \notin {"CLOSED", "SYN_RCVD"}
    BY <1>1, ActiveWrite
  <2>3. f.snd_nxt > 0
    BY <1>1, <2>2 DEF Good, FlowOK, InStep
  <2> QED BY <2>1, <2>2, <2>3 DEF ProbeOut
<1>3. f.snd_nxt \notin Prefix(p.got)
  <2> SUFFICES ASSUME f.snd_nxt \in Prefix(p.got) PROVE FALSE
    OBVIOUS
  <2>1. PosOK(f, f.pc, f.snd_nxt, p.got[f.snd_nxt])
    BY <1>1, PrefixFacts DEF GotOK
  <2> QED BY <1>2, <2>1 DEF PosOK
<1>4. /\ MaxSeq \in Nat /\ Expected(p.got) \in 1..(MaxSeq + 1)
      /\ f.snd_nxt \in 1..MaxSeq /\ f.snd_nxt < Expected(p.got) => f.snd_nxt \in Prefix(p.got)
  BY PrefixFacts
<1> QED BY <1>2, <1>3, <1>4

(* The peer acknowledges the byte after snd_nxt only when a probe carried it. *)
LEMMA OnlyProbes ==
  ASSUME NEW f, NEW p, Consistent(f, p), f.state # "CLOSED", f.probe_in_flight,
         f.snd_nxt + 1 <= Expected(p.got)
  PROVE  ProbeOut(f, f.pc)
<1>1. Good(f, f.pc, Expected(p.got), Delivered(f, p.got), Mark(f)) /\ GotOK(f, f.pc, p.got)
  BY DEF Consistent, Good
<1>2. f.snd_nxt \in Nat /\ f.snd_nxt > 0
  BY <1>1, FlowNumbers DEF Good, FlowOK, InStep
<1>3. /\ MaxSeq \in Nat /\ Expected(p.got) \in 1..(MaxSeq + 1)
      /\ f.snd_nxt \in 1..MaxSeq /\ f.snd_nxt < Expected(p.got) => f.snd_nxt \in Prefix(p.got)
  BY PrefixFacts
<1>4. f.snd_nxt \in Prefix(p.got)
  BY <1>2, <1>3
<1>5. PosOK(f, f.pc, f.snd_nxt, p.got[f.snd_nxt])
  BY <1>1, <1>4, PrefixFacts DEF GotOK
<1> QED BY <1>2, <1>5 DEF PosOK

----------------------------------------------------------------------------
(* The specification. *)

\* A FIN that was sent before the application closed the flow stays the last.
FinIsLast(f, g) == f.fin_sent /\ ~f.app_closed => g.snd_nxt = f.snd_nxt

\* g is what a handler may make of f.
Handled(f, p, g) ==
  \E m :
    /\ Good(g, g.pc, Expected(p.got), Delivered(f, p.got), m)
    /\ Keeps(f, f.pc, g, g.pc)
    /\ m = Mark(f) \/ FinIsLast(f, g)

\* r is the peer before it receives anything.
SamePeer(p, r) == DOMAIN r = DOMAIN p /\ r.got = p.got

(* The segments of a handler are sent, and some of them are received. *)
LEMMA CommitStep ==
  ASSUME NEW f, NEW p, Consistent(f, p), NEW g, Handled(f, p, g), NEW r, SamePeer(p, r),
         NEW S, S \subseteq g.out,
         NEW f2, f2 = [g EXCEPT !.out = {}], NEW q, q = PeerGets(r, S)
  PROVE  Consistent(f2, q) /\ FinIsLast(f, f2)
<1> DEFINE e == Expected(p.got)
           D == Delivered(f, p.got)
<1>1. PICK m : /\ Good(g, g.pc, e, D, m)
               /\ Keeps(f, f.pc, g, g.pc)
               /\ m = Mark(f) \/ FinIsLast(f, g)
  BY DEF Handled
<1>2. /\ GotOK(g, g.pc, q.got)
      /\ \A i \in 1..MaxSeq : p.got[i] # NoByte => q.got[i] = p.got[i]
      /\ DOMAIN q = DOMAIN p
      /\ q.got \in [1..MaxSeq -> Bytes \cup {NoByte, FinMark}]
  <2>1. GotOK(f, f.pc, r.got) /\ DOMAIN r = {"syn", "alive", "got", "budget"}
        /\ r.got \in [1..MaxSeq -> Bytes \cup {NoByte, FinMark}] /\ r.got = p.got
        /\ DOMAIN r = DOMAIN p
    BY DEF Consistent, SamePeer
  <2>2. Keeps(f, f.pc, g, g.pc) /\ g.out \subseteq Segments /\ \A s \in g.out : Sound(g, g.pc, s)
    BY <1>1 DEF Good, FlowOK, FlowTypes, SegmentsOK
  <2>3. /\ GotOK(g, g.pc, q.got)
        /\ \A i \in 1..MaxSeq : r.got[i] # NoByte => q.got[i] = r.got[i]
        /\ DOMAIN q = DOMAIN r
        /\ q.got \in [1..MaxSeq -> Bytes \cup {NoByte, FinMark}]
    BY <2>1, <2>2, PeerStep
  <2> QED BY <2>1, <2>3
<1> DEFINE e2 == Expected(q.got)
           D2 == Delivered(g, q.got)
           m2 == Mark(g)
<1>3. Good(g, g.pc, e2, D2, m2)
  BY <1>1, <1>2, ViewStep
<1>4. FlowTypes(g) /\ DOMAIN g = Fields
  BY <1>3 DEF Good, FlowOK, FlowTypes
<1>5. Same(g, f2, {"out"}) /\ f2.out = {}
  BY <1>4 DEF Same, Fields
<1>6. FlowTypes(f2)
  BY <1>4, <1>5 DEF FlowTypes, Same, Fields
<1>7. /\ f2.pc = g.pc /\ f2.wake = g.wake /\ f2.segment = g.segment /\ f2.writes = g.writes
      /\ f2.totals = g.totals /\ f2.fin_sent = g.fin_sent /\ f2.app_closed = g.app_closed
      /\ f2.snd_nxt = g.snd_nxt
  BY <1>4, <1>5 DEF Same, Fields
<1>8. Same(g, f2, QuietFields) /\ WakeOK(f2)
  BY <1>3, <1>4, <1>5, <1>7 DEF Same, QuietFields, WakeOK, Good, FlowOK
<1>9. D2 = Delivered(f2, q.got) /\ m2 = Mark(f2)
  BY <1>7 DEF Delivered, Mark
<1> HIDE DEF e2, D2, m2
<1>10. FlowOK(f2, g.pc, e2, D2, m2) /\ Keeps(g, g.pc, f2, g.pc)
  BY <1>3, <1>6, <1>8, QuietStep DEF Good
<1>11. SegmentsOK(f2, g.pc)
  BY <1>3, <1>5, <1>7, <1>10, SegmentsSame DEF Good
<1>12. GotOK(f2, f2.pc, q.got)
  <2>1. \A i \in 1..MaxSeq : i \in Nat
    BY PrefixFacts
  <2> QED BY <1>2, <1>7, <1>10, <2>1 DEF GotOK, Keeps
<1>13. Consistent(f2, q)
  BY <1>2, <1>5, <1>7, <1>9, <1>10, <1>11, <1>12 DEF Consistent, e2
<1>14. FinIsLast(f, g)
  <2>1. CASE m = Mark(f)
    <3>1. f.snd_nxt \in Nat
      BY FlowNumbers DEF Consistent, FlowOK
    <3>2. m \in Nat => g.snd_nxt = m
      BY <1>1 DEF Good, FlowOK, FinLast
    <3> QED BY <2>1, <3>1, <3>2 DEF Mark, FinIsLast
  <2>2. CASE FinIsLast(f, g)
    BY <2>2
  <2> QED BY <1>1, <2>1, <2>2
<1> QED BY <1>7, <1>13, <1>14 DEF FinIsLast

(* The flow of a new SYN. *)
LEMMA InitStep == Init => FlowInvariant
<1> SUFFICES ASSUME Init PROVE Consistent(flow, peer)
  BY DEF FlowInvariant
<1>1. /\ DOMAIN flow = Fields
      /\ flow.state = "SYN_RCVD" /\ flow.snd_una = 0 /\ flow.snd_nxt = 0
      /\ flow.peer_wnd \in Windows /\ flow.fin_sent = FALSE /\ flow.fin_received = FALSE
      /\ flow.fin_pending = FALSE /\ flow.rst = FALSE /\ flow.app_closed = FALSE
      /\ flow.probe_in_flight = FALSE /\ flow.tcp_connections = 0
      /\ flow.active_write = FALSE /\ flow.write_id = 0 /\ flow.total = 0 /\ flow.offset = 0
      /\ flow.start_seq = 0 /\ flow.implicit_accept = FALSE
      /\ flow.pc = "none" /\ flow.wake = "none" /\ flow.last_una = 0
      /\ flow.retransmits = 0 /\ flow.probes = 0 /\ flow.segment = <<>> /\ flow.out = {}
      /\ flow.writes = 0 /\ flow.totals = [id \in 1..MaxWrites |-> 0]
      /\ flow.done = [id \in 1..MaxWrites |-> <<>>]
  BY DEF Init, Fields
<1>2. /\ DOMAIN peer = {"syn", "alive", "got", "budget"}
      /\ peer.got = [i \in 1..MaxSeq |-> NoByte]
  BY DEF Init
<1>3. FlowTypes(flow)
  <2>1. flow.totals \in [1..MaxWrites -> 0..MaxTotal]
    BY <1>1, Zeros
  <2>2. flow.done \in [1..MaxWrites -> Seq(Codes)]
    BY <1>1
  <2>3. flow.state \in States /\ flow.pc \in Pcs /\ flow.wake \in Wakes
    BY <1>1 DEF States, Pcs, Wakes
  <2>4. /\ flow.segment \in Seq(Segments) /\ flow.out \subseteq Segments
        /\ flow.tcp_connections \in Int
    BY <1>1
  <2>5. /\ flow.snd_una \in Nat /\ flow.snd_nxt \in Nat /\ flow.start_seq \in Nat
        /\ flow.last_una \in Nat /\ flow.offset \in Nat
        /\ flow.write_id \in 0..MaxWrites /\ flow.writes \in 0..MaxWrites
        /\ flow.total \in 0..MaxTotal
        /\ flow.retransmits \in 0..MaxRetransmits /\ flow.probes \in 0..MaxProbes
    BY <1>1, Zeros
  <2>6. /\ flow.fin_sent \in BOOLEAN /\ flow.fin_received \in BOOLEAN
        /\ flow.fin_pending \in BOOLEAN /\ flow.rst \in BOOLEAN
        /\ flow.app_closed \in BOOLEAN /\ flow.probe_in_flight \in BOOLEAN
        /\ flow.active_write \in BOOLEAN /\ flow.implicit_accept \in BOOLEAN
    BY <1>1
  <2>7. DOMAIN flow = Fields /\ flow.peer_wnd \in Windows
    BY <1>1
  <2> QED BY ONLY <2>1, <2>2, <2>3, <2>4, <2>5, <2>6, <2>7 DEF FlowTypes
<1> DEFINE e == Expected(peer.got)
           D == Delivered(flow, peer.got)
           m == Mark(flow)
<1>4. FlowOK(flow, "none", e, D, m)
  <2>1. e \in Nat /\ Room(flow.writes) \in Nat
    BY <1>3, PrefixFacts, FlowNumbers
  <2>2. m = -1
    BY <1>1 DEF Mark
  <2> HIDE DEF e, D, m
  <2>3. Lifecycle(flow, "none") /\ FinLast(flow, m) /\ InStep(flow, "none")
    BY <1>1, <2>2 DEF Lifecycle, FinLast, InStep
  <2>4. Bounded(flow, "none")
    BY <1>1, <2>1 DEF Bounded, FinOne
  <2>5. WakeOK(flow) /\ Counted(flow)
    BY <1>1 DEF WakeOK, Counted, Opened
  <2>6. Once(flow)
    BY <1>1 DEF Once
  <2>7. Acked(flow, "none", e, D)
    BY <1>1, <2>1 DEF Acked, Succeeded
  <2> QED BY <1>3, <2>3, <2>4, <2>5, <2>6, <2>7 DEF FlowOK
<1>5. SegmentsOK(flow, "none")
  BY <1>1 DEF SegmentsOK
<1>6. GotOK(flow, "none", peer.got)
  BY <1>2 DEF GotOK
<1> QED BY <1>1, <1>2, <1>4, <1>5, <1>6 DEF Consistent

(* A contract that keeps the mark of the FIN is one a handler may fulfil. *)
LEMMA LeadsHandled ==
  ASSUME NEW f, NEW p, NEW g, Consistent(f, p),
         Leads(f, f.pc, g, g.pc, Expected(p.got), Delivered(f, p.got), Mark(f))
  PROVE  Handled(f, p, g)
BY DEF Leads, Handled

(* A call: what the handler made of the flow is the next state. *)
LEMMA CallStep ==
  ASSUME FlowInvariant, NEW g, Handled(flow, peer, g), NEW r, SamePeer(peer, r), Commit(g, r)
  PROVE  FlowInvariant' /\ FinIsLast(flow, flow')
<1>1. PICK S \in SUBSET g.out : flow' = [g EXCEPT !.out = {}] /\ peer' = PeerGets(r, S)
  BY DEF Commit
<1>2. S \subseteq g.out
  BY <1>1
<1>3. Consistent(flow', peer') /\ FinIsLast(flow, flow')
  BY <1>1, <1>2, CommitStep DEF FlowInvariant
<1> QED BY <1>3 DEF FlowInvariant

(* What the actions of a consistent flow find. *)
LEMMA Found ==
  ASSUME FlowInvariant
  PROVE  /\ Good(flow, flow.pc, Expected(peer.got), Delivered(flow, peer.got), Mark(flow))
         /\ Expected(peer.got) \in Nat
         /\ DOMAIN flow = Fields
         /\ SamePeer(peer, peer)
<1>1. Good(flow, flow.pc, Expected(peer.got), Delivered(flow, peer.got), Mark(flow))
  BY DEF FlowInvariant, Consistent, Good
<1>2. Expected(peer.got) \in Nat
  BY PrefixFacts
<1>3. DOMAIN flow = Fields
  BY <1>1 DEF Good, FlowOK, FlowTypes
<1> QED BY <1>1, <1>2, <1>3 DEF SamePeer

(* The application accepts, rejects, shuts down its sending side, resets. *)
LEMMA ApplicationCalls ==
  ASSUME FlowInvariant, AppAccept \/ AppReject \/ AppShutdownSend \/ AppReset
  PROVE  FlowInvariant' /\ FinIsLast(flow, flow')
<1> DEFINE e == Expected(peer.got)
           D == Delivered(flow, peer.got)
           m == Mark(flow)
<1>1. Good(flow, flow.pc, e, D, m) /\ DOMAIN flow = Fields /\ SamePeer(peer, peer)
  BY Found
<1>2. PICK g : Commit(g, peer) /\ g \in {accept_flow(flow), abort_flow(flow), send_fin(flow), flow}
  BY DEF AppAccept, AppReject, AppShutdownSend, AppReset, shutdown_send, reset, Call
<1> HIDE DEF e, D, m
<1>3. /\ Leads(flow, flow.pc, accept_flow(flow), flow.pc, e, D, m)
      /\ Leads(flow, flow.pc, abort_flow(flow), flow.pc, e, D, m)
      /\ Leads(flow, flow.pc, send_fin(flow), flow.pc, e, D, m)
      /\ Leads(flow, flow.pc, flow, flow.pc, e, D, m)
  <2>1. Leads(flow, flow.pc, accept_flow(flow), flow.pc, e, D, m)
    BY <1>1, AcceptStep
  <2>2. Leads(flow, flow.pc, abort_flow(flow), flow.pc, e, D, m)
    BY <1>1, AbortGood
  <2>3. Leads(flow, flow.pc, send_fin(flow), flow.pc, e, D, m)
    BY <1>1, FinStep
  <2>4. Leads(flow, flow.pc, flow, flow.pc, e, D, m)
    BY <1>1 DEF Leads, Keeps
  <2> QED BY <2>1, <2>2, <2>3, <2>4
<1>4. g.pc = flow.pc
  BY <1>1, <1>2, HelpersStay, FinStays DEF Stays
<1>5. Leads(flow, flow.pc, g, g.pc, e, D, m)
  BY <1>2, <1>3, <1>4
<1>6. Handled(flow, peer, g)
  BY <1>5, LeadsHandled DEF e, D, m, FlowInvariant
<1> QED BY <1>1, <1>2, <1>6, CallStep

(* It writes, and it closes: the FIN may then be sent, or a reset. *)
LEMMA WriteAndClose ==
  ASSUME FlowInvariant, AppWrite \/ AppClose
  PROVE  FlowInvariant' /\ FinIsLast(flow, flow')
<1> DEFINE e == Expected(peer.got)
           D == Delivered(flow, peer.got)
           m == Mark(flow)
<1>1. Good(flow, flow.pc, e, D, m) /\ DOMAIN flow = Fields /\ SamePeer(peer, peer)
  BY Found
<1>2. CASE AppWrite
  <2>1. PICK n \in 0..MaxTotal : flow.writes < MaxWrites /\ Commit(start_write(flow, n), peer)
    BY <1>2 DEF AppWrite, Call
  <2> DEFINE g == start_write(flow, n)
  <2>2. Leads(flow, flow.pc, g, g.pc, e, D, m)
    <3> HIDE DEF e, D, m
    <3> QED BY <1>1, <2>1, WriteStep
  <2>3. Handled(flow, peer, g)
    BY <2>2, LeadsHandled DEF FlowInvariant
  <2> QED BY <1>1, <2>1, <2>3, CallStep
<1>3. CASE AppClose
  <2> DEFINE g == close(flow)
  <2>1. Commit(g, peer)
    BY <1>3 DEF AppClose, Call
  <2>2. /\ Good(g, flow.pc, e, D, -1) /\ Keeps(flow, flow.pc, g, flow.pc) /\ g.pc = flow.pc
        /\ flow.fin_sent => g.snd_nxt = flow.snd_nxt
    <3> HIDE DEF e, D, m
    <3> QED BY <1>1, CloseStep
  <2>3. Handled(flow, peer, g)
    <3> HIDE DEF g
    <3> QED BY <2>2 DEF Handled, FinIsLast
  <2> QED BY <1>1, <2>1, <2>3, CallStep
<1> QED BY <1>2, <1>3

(* The engine's sweep, and its own closing. *)
LEMMA EngineCloses ==
  ASSUME FlowInvariant, Sweep \/ CloseAll
  PROVE  FlowInvariant' /\ FinIsLast(flow, flow')
<1> DEFINE e == Expected(peer.got)
           D == Delivered(flow, peer.got)
           m == Mark(flow)
           x == close_flow(flow, "operation_aborted")
<1>1. Good(flow, flow.pc, e, D, m) /\ DOMAIN flow = Fields /\ SamePeer(peer, peer)
  BY Found
<1>2. PICK g : Commit(g, peer) /\ g \in {abort_flow(flow), x}
  BY DEF Sweep, CloseAll, sweep, Call
<1> HIDE DEF e, D, m
<1>3. Leads(flow, flow.pc, abort_flow(flow), flow.pc, e, D, m)
  BY <1>1, AbortGood
<1>4. Leads(flow, flow.pc, x, flow.pc, e, D, m)
  <2>1. "operation_aborted" \in Codes /\ "operation_aborted" # "success"
    BY DEF Codes
  <2> QED BY <1>1, <2>1, CloseGood
<1>5. g.pc = flow.pc
  BY <1>1, <1>2, HelpersStay DEF Stays
<1>6. Leads(flow, flow.pc, g, g.pc, e, D, m)
  BY <1>2, <1>3, <1>4, <1>5
<1>7. Handled(flow, peer, g)
  BY <1>6, LeadsHandled DEF e, D, m, FlowInvariant
<1> QED BY <1>1, <1>2, <1>7, CallStep

(* The coroutine, its timers and the device. *)
LEMMA CoroutineRuns ==
  ASSUME FlowInvariant, Timer \/ Resume \/ ResumeStale \/ DeviceDone
  PROVE  FlowInvariant' /\ FinIsLast(flow, flow')
<1> DEFINE e == Expected(peer.got)
           D == Delivered(flow, peer.got)
           m == Mark(flow)
<1>1. Good(flow, flow.pc, e, D, m) /\ e \in Nat /\ SamePeer(peer, peer)
  BY Found
<1>2. PICK g : Commit(g, peer) /\ Leads(flow, flow.pc, g, g.pc, e, D, m)
  <2>1. CASE Timer
    <3> DEFINE g == [flow EXCEPT !.wake = "timeout"]
    <3>1. Commit(g, peer) /\ Parked(flow)
      BY <2>1 DEF Timer, Call
    <3>2. Leads(flow, flow.pc, g, g.pc, e, D, m)
      <4> HIDE DEF e, D, m
      <4> QED BY <1>1, <3>1, TimerStep
    <3> QED BY <3>1, <3>2
  <2>2. CASE Resume
    <3> DEFINE g == resume(flow)
    <3>1. Commit(g, peer) /\ flow.wake # "none" /\ ~StaleWake(flow)
      BY <2>2 DEF Resume, Call
    <3>2. flow.pc = "start" /\ flow.active_write => e <= flow.snd_nxt
      BY NotAhead DEF FlowInvariant
    <3>3. Leads(flow, flow.pc, g, g.pc, e, D, m)
      <4> HIDE DEF e, D, m
      <4> QED BY <1>1, <3>1, <3>2, ResumeStep
    <3> QED BY <3>1, <3>3
  <2>3. CASE ResumeStale
    <3>1. PICK g \in stale_persist_timeout(flow) : Commit(g, peer)
      BY <2>3 DEF ResumeStale, Call
    <3>2. flow.pc = "window" /\ ~flow.active_write
      BY <2>3 DEF ResumeStale, StaleWake
    <3>3. Leads(flow, flow.pc, g, g.pc, e, D, m)
      <4> HIDE DEF e, D, m
      <4> QED BY <1>1, <3>2, StalePersistStep
    <3> QED BY <3>1, <3>3
  <2>4. CASE DeviceDone
    <3>1. PICK g : /\ Commit(g, peer)
                   /\ \/ g = [flow EXCEPT !.wake = "signal", !.segment = <<>>,
                                          !.out = {flow.segment[1]}]
                      \/ g = [flow EXCEPT !.wake = "error", !.segment = <<>>]
      BY <2>4 DEF DeviceDone, Call
    <3>2. flow.pc = "device" /\ flow.wake = "none"
      BY <2>4 DEF DeviceDone
    <3>3. Leads(flow, flow.pc, g, g.pc, e, D, m)
      <4> HIDE DEF e, D, m
      <4> QED BY <1>1, <3>1, <3>2, DeviceStep
    <3> QED BY <3>1, <3>3
  <2> QED BY <2>1, <2>2, <2>3, <2>4
<1>3. Handled(flow, peer, g)
  BY <1>2, LeadsHandled DEF FlowInvariant
<1> QED BY <1>1, <1>2, <1>3, CallStep

(* A segment of the peer. *)
LEMMA PeerSends ==
  ASSUME FlowInvariant, PeerSyn \/ PeerRst \/ PeerAck
  PROVE  FlowInvariant' /\ FinIsLast(flow, flow')
<1> DEFINE e == Expected(peer.got)
           D == Delivered(flow, peer.got)
           m == Mark(flow)
<1>1. Good(flow, flow.pc, e, D, m) /\ e \in Nat /\ DOMAIN flow = Fields
  BY Found
<1>2. PICK s : Receive(s) /\ PeerSegment(s, e)
  <2>1. CASE PeerSyn
    <3> DEFINE t == [ack |-> 0, wnd |-> 0, syn |-> TRUE, fin |-> FALSE, rst |-> FALSE]
    <3>1. Receive(t) /\ PeerSegment(t, e)
      BY <1>1, <2>1 DEF PeerSyn, PeerSegment
    <3> HIDE DEF t
    <3> QED BY <3>1
  <2>2. CASE PeerRst
    <3> DEFINE t == [ack |-> 0, wnd |-> 0, syn |-> FALSE, fin |-> FALSE, rst |-> TRUE]
    <3>1. Receive(t) /\ PeerSegment(t, e)
      BY <1>1, <2>2 DEF PeerRst, PeerSegment
    <3> HIDE DEF t
    <3> QED BY <3>1
  <2>3. CASE PeerAck
    <3>1. PICK ack \in 1..e, wnd \in Windows, fin \in BOOLEAN :
            Receive([ack |-> ack, wnd |-> wnd, syn |-> FALSE, fin |-> fin, rst |-> FALSE])
      BY <2>3 DEF PeerAck
    <3> DEFINE t == [ack |-> ack, wnd |-> wnd, syn |-> FALSE, fin |-> fin, rst |-> FALSE]
    <3>2. Receive(t)
      BY <3>1
    <3>3. PeerSegment(t, e)
      BY <1>1 DEF PeerSegment
    <3> HIDE DEF t
    <3> QED BY <3>2, <3>3
  <2> QED BY <2>1, <2>2, <2>3
<1> DEFINE g == on_packet(flow, s)
           r == [peer EXCEPT !.budget = @ - 1, !.alive = ~s.rst]
<1>3. Commit(g, r) /\ flow.state # "CLOSED"
  BY <1>2 DEF Receive
<1>4. SamePeer(peer, r)
  BY DEF SamePeer, FlowInvariant, Consistent
<1>5. flow.probe_in_flight /\ s.ack = flow.snd_nxt + 1 => ProbeOut(flow, flow.pc)
  BY <1>2, <1>3, OnlyProbes DEF FlowInvariant, PeerSegment
<1>6. Leads(flow, flow.pc, g, flow.pc, e, D, m) /\ g.pc = flow.pc
  <2> HIDE DEF e, D, m
  <2>1. Leads(flow, flow.pc, g, flow.pc, e, D, m)
    BY <1>1, <1>2, <1>3, <1>5, PacketStep
  <2>2. g.pc = flow.pc
    BY <1>1, PacketStays DEF Stays
  <2> QED BY <2>1, <2>2
<1> HIDE DEF g, r
<1>7. Handled(flow, peer, g)
  BY <1>6, LeadsHandled DEF FlowInvariant
<1> QED BY <1>3, <1>4, <1>7, CallStep

(* Every step. *)
LEMMA NextStep ==
  ASSUME FlowInvariant, [Next]_vars
  PROVE  FlowInvariant' /\ FinIsLast(flow, flow')
<1>1. CASE Next
  BY <1>1, ApplicationCalls, WriteAndClose, EngineCloses, CoroutineRuns, PeerSends DEF Next
<1>2. CASE UNCHANGED vars
  BY <1>2 DEF vars, FlowInvariant, FinIsLast
<1> QED BY <1>1, <1>2

----------------------------------------------------------------------------
(* What the invariant says of the flow. *)

(* The sequence numbers stay below the bound the types give them. *)
LEMMA InRange ==
  ASSUME FlowInvariant
  PROVE  flow.snd_una \in 0..MaxSeq /\ flow.snd_nxt \in 0..MaxSeq
<1>1. FlowTypes(flow) /\ flow.snd_una <= flow.snd_nxt /\ flow.snd_nxt <= 3 + Room(flow.writes)
  BY DEF FlowInvariant, Consistent, FlowOK, InStep, Bounded
<1>2. flow.snd_una \in Nat /\ flow.snd_nxt \in Nat /\ Room(flow.writes) \in Nat
  BY <1>1, FlowNumbers
<1>3. flow.writes \in Nat /\ MaxWrites \in Nat /\ flow.writes <= MaxWrites
  BY <1>1, FlowAssumption DEF FlowTypes
<1>4. Room(flow.writes) <= Room(MaxWrites) /\ Room(MaxWrites) \in Nat
  BY <1>3, RoomFacts
<1>5. MaxSeq = Room(MaxWrites) + 3
  BY DEF MaxSeq, Room
<1> QED BY <1>1, <1>2, <1>4, <1>5

(* The types, the offset and the count. *)
LEMMA Sees ==
  ASSUME FlowInvariant
  PROVE  FlowInv /\ WritesCompleteOnce /\ SuccessDelivered
<1>1. FlowOK(flow, flow.pc, Expected(peer.got), Delivered(flow, peer.got), Mark(flow))
  BY DEF FlowInvariant, Consistent
<1>2. FlowTypes(flow)
  BY <1>1 DEF FlowOK
<1>3. TypeOK
  <2>1. \A b \in {flow.fin_sent, flow.fin_received, flow.fin_pending, flow.rst,
                  flow.app_closed, flow.probe_in_flight, flow.active_write,
                  flow.implicit_accept} : b \in BOOLEAN
    BY <1>2 DEF FlowTypes
  <2>2. flow.offset \in 0..flow.total
    BY <1>1, <1>2, FlowNumbers DEF FlowOK, Lifecycle
  <2>3. flow.out = {} /\ peer.got \in [1..MaxSeq -> Bytes \cup {NoByte, FinMark}]
    BY DEF FlowInvariant, Consistent
  <2>4. /\ flow.state \in States /\ flow.peer_wnd \in Windows /\ flow.total \in 0..MaxTotal
        /\ flow.pc \in Pcs /\ flow.wake \in Wakes
        /\ flow.retransmits \in 0..MaxRetransmits /\ flow.probes \in 0..MaxProbes
        /\ flow.done \in [1..MaxWrites -> Seq(Codes)]
    BY <1>2 DEF FlowTypes
  <2> QED BY <2>1, <2>2, <2>3, <2>4, InRange DEF TypeOK, Pcs, Wakes
<1>4. OffsetInStep
  BY <1>1 DEF FlowOK, InStep, FinOne, OffsetInStep
<1>5. ConnectionCounted
  BY <1>1 DEF FlowOK, Counted, ConnectionCounted
<1>6. WritesCompleteOnce
  <2> SUFFICES ASSUME NEW id \in 1..flow.writes
               PROVE  Len(flow.done[id]) =
                        IF flow.active_write /\ flow.write_id = id THEN 0 ELSE 1
    BY DEF WritesCompleteOnce
  <2>1. id \in 1..MaxWrites /\ id <= flow.writes
    BY <1>2, FlowAssumption DEF FlowTypes
  <2> QED BY <1>1, <2>1 DEF FlowOK, Once
<1>7. SuccessDelivered
  <2> SUFFICES ASSUME NEW id \in 1..MaxWrites,
                      "success" \in {flow.done[id][i] : i \in DOMAIN flow.done[id]},
                      NEW off \in 0..(flow.totals[id] - 1)
               PROVE  \E i \in Prefix(peer.got) : peer.got[i] = Byte(id, off)
    BY DEF SuccessDelivered
  <2>1. Succeeded(flow.done[id])
    BY DEF Succeeded
  <2>2. flow.totals[id] # 0
    OBVIOUS
  <2>3. id \in Delivered(flow, peer.got)
    BY <1>1, <2>1, <2>2 DEF FlowOK, Acked
  <2> QED BY <2>3 DEF Delivered
<1> QED BY <1>3, <1>4, <1>5, <1>6, <1>7 DEF FlowInv

----------------------------------------------------------------------------
(* The theorems. *)

(* The invariant holds in every state. *)
LEMMA Invariance == Spec => []FlowInvariant
<1>1. FlowInvariant /\ [Next]_vars => FlowInvariant'
  BY NextStep
<1> QED BY InitStep, <1>1, PTL DEF Spec

(* Types and sequence numbers stay in range through every interleaving of   *)
(* segments, timers, calls and the coroutine; the write offset stays in     *)
(* step with the sequence space, probes and FIN included (handle_ack,       *)
(* build_next_segment, send_fin), and tcp_connections counts the flow while *)
(* it is open (close_flow, handle_segment).                                 *)
THEOREM OffsetsInStep == Spec => []FlowInv
<1>1. FlowInvariant => FlowInv
  BY Sees
<1> QED BY Invariance, <1>1, PTL

(* Every write that was started has its handler completed exactly once,     *)
(* whichever of write_loop, close_flow and tcp_flow_close gets to it first. *)
THEOREM CompletedOnce == Spec => []WritesCompleteOnce
<1>1. FlowInvariant => WritesCompleteOnce
  BY Sees
<1> QED BY Invariance, <1>1, PTL

(* write_loop reports success only for a write whose bytes the peer holds   *)
(* all of, whatever was lost, probed, retransmitted or reset on the way.    *)
THEOREM SuccessMeansDelivered == Spec => []SuccessDelivered
<1>1. FlowInvariant => SuccessDelivered
  BY Sees
<1> QED BY Invariance, <1>1, PTL

(* After the FIN no step uses a sequence number, until the application      *)
(* closes the flow: send_fin waits for the data, and no probe outlives it.  *)
THEOREM FinEndsStream == Spec => NothingAfterFin
<1>1. FlowInvariant /\ [Next]_vars =>
        [flow.fin_sent /\ ~flow.app_closed => flow'.snd_nxt = flow.snd_nxt]_vars
  BY NextStep DEF FinIsLast
<1> QED BY Invariance, <1>1, PTL DEF Spec, NothingAfterFin

=============================================================================
