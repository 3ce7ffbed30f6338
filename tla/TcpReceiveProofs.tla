-------------------------- MODULE TcpReceiveProofs --------------------------
(***************************************************************************)
(* Proofs about the receiving side of a TCP connection, for any stream,    *)
(* windows, limits and read sizes, and any segments of the peer.           *)
(*                                                                         *)
(* A handler is an operator from flow records to flow records, composed of *)
(* the operators for the functions of the code, so the proofs go operator  *)
(* by operator: each one turns a flow that is Whole into one that is.      *)
(* Between two handlers a flow is also Steady: no read waits for what is   *)
(* there, and the cache is beyond rcv_nxt; inside a handler neither holds. *)
(***************************************************************************)
EXTENDS TcpReceiveCache

----------------------------------------------------------------------------
(* The inductive invariant. *)

Fields ==
  {"state", "rcv_nxt", "rx_data", "ooo_cache", "ooo_bytes", "used", "active_read",
   "owed", "delivered", "eof", "last_wnd", "ack_pending", "ack_timer",
   "fin_received", "fin_sent", "fin_acked", "fin_pending", "rx_shutdown",
   "app_closed", "out"}

\* The application may still read what is queued.
Readable(f) == f.state # "CLOSED" /\ ~f.rx_shutdown /\ ~f.app_closed

\* The place after the last byte that was received in order.
Upto(f) == IF f.fin_received THEN FinPlace ELSE f.rcv_nxt

Types(f) ==
  /\ DOMAIN f = Fields
  /\ f.state \in States
  /\ f.rcv_nxt \in 1 .. (FinPlace + 1)
  /\ f.rx_data \in Seq(1 .. StreamLen)
  /\ f.active_read \in ReadSizes \cup {0}
  /\ f.fin_received \in BOOLEAN

\* The reads got the stream up to a place d, and the queue goes on from it.
Stream(f) ==
  /\ f.fin_received <=> f.rcv_nxt = FinPlace + 1
  /\ \E d \in 1 .. FinPlace :
       /\ Stretch(f.delivered, 1, d)
       /\ f.eof => d = FinPlace
       /\ Readable(f) => Stretch(f.rx_data, d, Upto(f))

Reads(f) ==
  /\ f.owed = IF f.active_read = 0 THEN 0 ELSE 1
  /\ f.active_read # 0 => Readable(f)

\* What the flow holds and what others hold, h, is what is charged.
Books(f, h) ==
  /\ h \in Nat /\ f.ooo_bytes \in Nat
  /\ f.used = Len(f.rx_data) + f.ooo_bytes + h
  /\ f.used <= Limit /\ Len(f.rx_data) <= MaxRx /\ f.ooo_bytes <= MaxRx

Cache(f) ==
  /\ Tidy(f.ooo_cache)
  /\ f.ooo_bytes = Total(f.ooo_cache)
  /\ Cardinality(f.ooo_cache) <= OooMax

\* Everything up to the edge e fits in the queue.
Fits(f, e) ==
  f.state # "CLOSED" /\ e > f.rcv_nxt =>
    /\ Len(f.rx_data) + (e - f.rcv_nxt) <= MaxRx
    /\ Len(f.rx_data) + (e - f.rcv_nxt) <= Limit

\* What was said in this handler: an acknowledgement and a window.
Notices == [kind : {"ACK", "SYN", "FIN", "RST"}, ack : 1 .. (FinPlace + 1), wnd : 0 .. MaxRx]

Said(f) ==
  /\ f.last_wnd \in 0 .. FixedWnd
  /\ f.out \in Seq(Notices)
  /\ \A i \in 1 .. Len(f.out) : Fits(f, f.out[i].ack + f.out[i].wnd)

Sound(f, h) == Types(f) /\ Stream(f) /\ Reads(f) /\ Books(f, h) /\ Cache(f)
Whole(f, h) == Sound(f, h) /\ Said(f)

\* No read waits for what is there already.
Calm(f) == f.active_read # 0 => f.rx_data = <<>> /\ ~f.fin_received

\* The cache is wholly beyond the next byte.
Beyond(f) == \A s \in f.ooo_cache : s.seq > f.rcv_nxt

Steady(f, h) == Whole(f, h) /\ Calm(f) /\ Beyond(f)

\* The invariant: between two handlers.
Inv ==
  /\ Steady(flow, other.held)
  /\ flow.out = <<>>
  /\ Fits(flow, peer.edge)
  /\ other \in [held : 0 .. Limit, takes : 0 .. MaxFaults]
  /\ peer \in [una : 0 .. (FinPlace + 1), edge : 1 .. (FinPlace + 1 + MaxRx),
               fin_seen : BOOLEAN, lost : 0 .. MaxFaults]
  /\ peer.lost + other.takes <= MaxFaults

----------------------------------------------------------------------------
(* Numbers and the shape of records. *)

(* The constants that are numbers. *)
LEMMA Numbers ==
  /\ StreamLen \in Nat /\ FinPlace \in Nat /\ FinPlace = StreamLen + 1 /\ StreamLen > 0
  /\ Mss \in Nat /\ Mss > 0 /\ FixedWnd \in Nat /\ MaxRx \in Nat /\ Limit \in Nat
  /\ OooMax \in Nat /\ WndUnit \in Nat /\ WndUnit > 0 /\ MaxFaults \in Nat
  /\ ReadSizes \subseteq Nat /\ TakeSizes \subseteq Nat
BY ReceiveAssumption, StreamNumbers

(* Rounding down. *)
LEMMA RoundDown ==
  ASSUME NEW w \in Nat, NEW u \in Nat, u > 0
  PROVE  w \div u \in 0 .. w /\ (w \div u) * u \in 0 .. w
OBVIOUS

\* Members two records share, by which a flow is Sound.
Alike(f, g) ==
  /\ DOMAIN g = Fields
  /\ g.state = f.state /\ g.rcv_nxt = f.rcv_nxt /\ g.rx_data = f.rx_data
  /\ g.ooo_cache = f.ooo_cache /\ g.ooo_bytes = f.ooo_bytes /\ g.used = f.used
  /\ g.active_read = f.active_read /\ g.owed = f.owed /\ g.delivered = f.delivered
  /\ g.eof = f.eof /\ g.fin_received = f.fin_received
  /\ g.rx_shutdown = f.rx_shutdown /\ g.app_closed = f.app_closed

(* A flow that differs in no other member is as sound. *)
LEMMA AlikeSound ==
  ASSUME NEW f, NEW g, NEW h, Sound(f, h), Alike(f, g)
  PROVE  Sound(g, h)
<1>1. Types(g)
  BY DEF Sound, Types, Alike
<1>2. Stream(g)
  <2>1. Readable(g) = Readable(f) /\ Upto(g) = Upto(f)
    BY DEF Alike, Readable, Upto
  <2>2. f.fin_received <=> f.rcv_nxt = FinPlace + 1
    BY DEF Sound, Stream
  <2>3. PICK d \in 1 .. FinPlace :
          /\ Stretch(f.delivered, 1, d) /\ (f.eof => d = FinPlace)
          /\ Readable(f) => Stretch(f.rx_data, d, Upto(f))
    BY DEF Sound, Stream
  <2>4. /\ g.fin_received <=> g.rcv_nxt = FinPlace + 1
        /\ Stretch(g.delivered, 1, d) /\ (g.eof => d = FinPlace)
        /\ Readable(g) => Stretch(g.rx_data, d, Upto(g))
    BY <2>1, <2>2, <2>3 DEF Alike
  <2> QED BY <2>4 DEF Stream
<1>3. Reads(g)
  BY DEF Sound, Reads, Alike, Readable
<1>4. Books(g, h)
  BY DEF Sound, Books, Alike
<1>5. Cache(g)
  BY DEF Sound, Cache, Alike
<1> QED BY <1>1, <1>2, <1>3, <1>4, <1>5 DEF Sound

(* Alike is transitive ... *)
LEMMA AlikeTrans ==
  ASSUME NEW f, NEW g, NEW k, Alike(f, g), Alike(g, k)
  PROVE  Alike(f, k)
BY DEF Alike

(* ... and reflexive. *)
LEMMA AlikeSelf ==
  ASSUME NEW f, Types(f)
  PROVE  Alike(f, f)
BY DEF Alike, Types

\* From f to g the room before an edge does not shrink.
Narrows(f, g) ==
  \/ g.state = "CLOSED"
  \/ /\ f.state # "CLOSED"
     /\ g.rcv_nxt >= f.rcv_nxt
     /\ Len(g.rx_data) + f.rcv_nxt <= Len(f.rx_data) + g.rcv_nxt

(* What is known of the numbers in a flow. *)
LEMMA FlowNumbers ==
  ASSUME NEW f, NEW h, Sound(f, h)
  PROVE  /\ f.rcv_nxt \in Nat /\ f.rcv_nxt >= 1 /\ f.rcv_nxt <= FinPlace + 1
         /\ f.rx_data \in Seq(1 .. StreamLen) /\ Len(f.rx_data) \in Nat
         /\ f.ooo_bytes \in Nat /\ f.used \in Nat /\ h \in Nat
         /\ f.used = Len(f.rx_data) + f.ooo_bytes + h /\ f.used <= Limit
         /\ Len(f.rx_data) <= MaxRx /\ f.ooo_bytes <= MaxRx
         /\ f.active_read \in Nat
<1>1. f.rcv_nxt \in 1 .. (FinPlace + 1) /\ f.rx_data \in Seq(1 .. StreamLen)
  BY DEF Sound, Types
<1>2. Len(f.rx_data) \in Nat
  BY <1>1, LenProperties
<1>3. f.active_read \in Nat
  <2>1. f.active_read \in ReadSizes \cup {0}
    BY DEF Sound, Types
  <2>2. ReadSizes \subseteq Nat
    BY Numbers
  <2> DEFINE x == f.active_read
  <2>3. x \in ReadSizes \/ x = 0
    BY <2>1
  <2> HIDE DEF x
  <2>4. x \in Nat
    <3>1. CASE x \in ReadSizes
      BY ONLY <2>2, <3>1, Zenon
    <3>2. CASE x = 0
      BY <3>2
    <3> QED BY <2>3, <3>1, <3>2
  <2> QED BY <2>4 DEF x
<1>4. /\ h \in Nat /\ f.ooo_bytes \in Nat
      /\ f.used = Len(f.rx_data) + f.ooo_bytes + h
      /\ f.used <= Limit /\ Len(f.rx_data) <= MaxRx /\ f.ooo_bytes <= MaxRx
  BY DEF Sound, Books
<1>5. f.used \in Nat
  BY ONLY <1>2, <1>4
<1>6. FinPlace \in Nat
  BY Numbers
<1>7. f.rcv_nxt \in Nat /\ f.rcv_nxt >= 1 /\ f.rcv_nxt <= FinPlace + 1
  BY ONLY <1>1, <1>6
<1> QED BY <1>1, <1>2, <1>3, <1>4, <1>5, <1>7

(* Sums of four and of six numbers. *)
LEMMA EdgeSum ==
  ASSUME NEW a \in Nat, NEW b \in Nat, NEW c \in Nat, NEW d \in Nat, NEW e \in Nat, NEW m \in Nat,
         c + b <= a + d, a + (e - b) <= m
  PROVE  c + (e - d) <= m
OBVIOUS

(* ... and how two of them add up. *)
LEMMA RoomSum ==
  ASSUME NEW a \in Nat, NEW b \in Nat, NEW c \in Nat, NEW d \in Nat, NEW e \in Nat, NEW m \in Nat,
         c + b <= a + d, e + d <= c + m
  PROVE  e + b <= a + m
OBVIOUS

(* An edge that fits goes on fitting. *)
LEMMA NarrowsFits ==
  ASSUME NEW f, NEW g, NEW h, NEW k, Sound(f, h), Sound(g, k), Narrows(f, g),
         NEW e \in Nat, Fits(f, e)
  PROVE  Fits(g, e)
<1>1. f.rcv_nxt \in Nat /\ Len(f.rx_data) \in Nat
  BY FlowNumbers
<1>2. g.rcv_nxt \in Nat /\ Len(g.rx_data) \in Nat
  BY FlowNumbers
<1>3. MaxRx \in Nat /\ Limit \in Nat /\ e \in Nat
  BY Numbers
<1>4. SUFFICES ASSUME g.state # "CLOSED", e > g.rcv_nxt
               PROVE  /\ Len(g.rx_data) + (e - g.rcv_nxt) <= MaxRx
                      /\ Len(g.rx_data) + (e - g.rcv_nxt) <= Limit
  BY DEF Fits
<1>5. /\ f.state # "CLOSED" /\ g.rcv_nxt >= f.rcv_nxt
      /\ Len(g.rx_data) + f.rcv_nxt <= Len(f.rx_data) + g.rcv_nxt
  BY <1>4 DEF Narrows
<1>6. e > f.rcv_nxt
  BY ONLY <1>1, <1>2, <1>3, <1>4, <1>5
<1>7. /\ Len(f.rx_data) + (e - f.rcv_nxt) <= MaxRx
      /\ Len(f.rx_data) + (e - f.rcv_nxt) <= Limit
  BY <1>5, <1>6 DEF Fits
<1> QED BY ONLY <1>1, <1>2, <1>3, <1>5, <1>7, EdgeSum

(* Room is gained from step to step. *)
LEMMA NarrowsTrans ==
  ASSUME NEW f, NEW g, NEW k, NEW h, NEW i, NEW j, Sound(f, h), Sound(g, i), Sound(k, j),
         Narrows(f, g), Narrows(g, k)
  PROVE  Narrows(f, k)
<1>1. f.rcv_nxt \in Nat /\ Len(f.rx_data) \in Nat
  BY FlowNumbers
<1>2. g.rcv_nxt \in Nat /\ Len(g.rx_data) \in Nat
  BY FlowNumbers
<1>3. k.rcv_nxt \in Nat /\ Len(k.rx_data) \in Nat
  BY FlowNumbers
<1>4. SUFFICES ASSUME k.state # "CLOSED"
               PROVE  /\ f.state # "CLOSED" /\ k.rcv_nxt >= f.rcv_nxt
                      /\ Len(k.rx_data) + f.rcv_nxt <= Len(f.rx_data) + k.rcv_nxt
  BY DEF Narrows
<1>5. /\ g.state # "CLOSED" /\ k.rcv_nxt >= g.rcv_nxt
      /\ Len(k.rx_data) + g.rcv_nxt <= Len(g.rx_data) + k.rcv_nxt
  BY <1>4 DEF Narrows
<1>6. /\ f.state # "CLOSED" /\ g.rcv_nxt >= f.rcv_nxt
      /\ Len(g.rx_data) + f.rcv_nxt <= Len(f.rx_data) + g.rcv_nxt
  BY <1>5 DEF Narrows
<1>7. k.rcv_nxt >= f.rcv_nxt
  BY ONLY <1>1, <1>2, <1>3, <1>5, <1>6
<1>8. Len(k.rx_data) + f.rcv_nxt <= Len(f.rx_data) + k.rcv_nxt
  BY ONLY <1>1, <1>2, <1>3, <1>5, <1>6, RoomSum
<1> QED BY <1>6, <1>7, <1>8

(* A flow that is alike has the same room. *)
LEMMA AlikeNarrows ==
  ASSUME NEW f, NEW g, NEW h, Sound(f, h), Alike(f, g)
  PROVE  Narrows(f, g)
<1>1. f.rcv_nxt \in Nat /\ Len(f.rx_data) \in Nat
  BY FlowNumbers
<1> QED BY <1>1 DEF Narrows, Alike

(* What was said stays true when only room is gained. *)
LEMMA SaidStays ==
  ASSUME NEW f, NEW g, NEW h, NEW k, Sound(f, h), Sound(g, k), Said(f), Narrows(f, g),
         g.out = f.out, g.last_wnd = f.last_wnd
  PROVE  Said(g)
<1>1. ASSUME NEW i \in 1 .. Len(g.out) PROVE Fits(g, g.out[i].ack + g.out[i].wnd)
  <2>1. f.out \in Seq(Notices) /\ i \in 1 .. Len(f.out)
    BY DEF Said
  <2>2. f.out[i] \in Notices
    BY <2>1, ElementOfSeq
  <2>3. f.out[i].ack + f.out[i].wnd \in Nat
    BY <2>2, Numbers DEF Notices
  <2>4. Fits(f, f.out[i].ack + f.out[i].wnd)
    BY <2>1 DEF Said
  <2> QED BY <2>3, <2>4, NarrowsFits
<1> QED BY <1>1 DEF Said

----------------------------------------------------------------------------
(* Acknowledgements and the window. *)

(* A window is never more than what the queue and the accountant have room for. *)
LEMMA WindowIs ==
  ASSUME NEW f, NEW h, Sound(f, h)
  PROVE  LET w == current_wnd(f)
         IN  /\ w \in Nat /\ w \in 0 .. FixedWnd /\ w <= MaxRx
             /\ Len(f.rx_data) + w <= MaxRx /\ Len(f.rx_data) + w <= Limit
<1> DEFINE l == Len(f.rx_data)
           o == f.ooo_bytes
           u == f.used
           queued == l + o
           room == IF MaxRx > queued THEN MaxRx - queued ELSE 0
           avail == IF Limit > u THEN Limit - u ELSE 0
           least == Least(FixedWnd, Least(room, avail))
           w == IF least < Mss THEN 0 ELSE least
<1>1. /\ l \in Nat /\ o \in Nat /\ u \in Nat /\ h \in Nat /\ u = l + o + h /\ u <= Limit /\ l <= MaxRx
  BY FlowNumbers
<1>2. MaxRx \in Nat /\ Limit \in Nat /\ FixedWnd \in Nat /\ Mss \in Nat
  BY Numbers
<1>3. current_wnd(f) = w
  BY DEF current_wnd
<1> HIDE DEF l, o, u
<1>4. room \in Nat /\ avail \in Nat /\ l + room <= MaxRx /\ l + avail <= Limit /\ room <= MaxRx
  BY <1>1, <1>2
<1> HIDE DEF room, avail
<1>5. least \in Nat /\ least <= FixedWnd /\ least <= room /\ least <= avail
  BY <1>2, <1>4 DEF Least
<1> HIDE DEF least
<1>6. w \in Nat /\ w <= FixedWnd /\ w <= room /\ w <= avail
  BY <1>2, <1>4, <1>5
<1> HIDE DEF w
<1>7. w \in Nat /\ w \in 0 .. FixedWnd /\ w <= MaxRx /\ l + w <= MaxRx /\ l + w <= Limit
  BY <1>1, <1>2, <1>4, <1>6
<1> QED BY <1>3, <1>7 DEF l

(* The window that the peer reads is not more. *)
LEMMA ToldIs ==
  ASSUME NEW f, NEW h, Sound(f, h), NEW kind
  PROVE  Told(f, kind) \in Nat /\ Told(f, kind) <= current_wnd(f)
<1> DEFINE w == current_wnd(f)
           d == w \div WndUnit
           p == (w \div WndUnit) * WndUnit
<1>1. w \in Nat
  BY WindowIs
<1>2. WndUnit \in Nat /\ WndUnit > 0
  BY Numbers
<1>3. Told(f, kind) = p \/ Told(f, kind) = w \/ Told(f, kind) = d
  BY DEF Told
<1> HIDE DEF w
<1>4. d \in 0 .. w /\ p \in 0 .. w
  BY <1>1, <1>2, RoundDown
<1> HIDE DEF d, p
<1>5. d \in Nat /\ d <= w /\ p \in Nat /\ p <= w /\ w <= w
  BY <1>1, <1>4
<1> QED BY <1>1, <1>3, <1>5 DEF w

Kinds == {"ACK", "SYN", "FIN", "RST"}

(* Whatever is sent, nothing but what was said and is pending changes. *)
LEMMA SegmentSent ==
  ASSUME NEW f, NEW h, Whole(f, h), NEW kind \in Kinds
  PROVE  Whole(send_segment(f, kind), h) /\ Alike(f, send_segment(f, kind))
<1> DEFINE g == send_segment(f, kind)
<1>0. Sound(f, h) /\ Types(f) /\ Said(f) /\ DOMAIN f = Fields
  BY DEF Whole, Sound, Types
<1>1. CASE f.state = "CLOSED"
  <2>1. g = f
    BY <1>1 DEF send_segment
  <2>2. Alike(f, f)
    BY <1>0, AlikeSelf
  <2> QED BY <2>1, <2>2
<1>2. CASE f.state # "CLOSED"
  <2> DEFINE n == [kind |-> kind, ack |-> f.rcv_nxt, wnd |-> Told(f, kind)]
             w == current_wnd(f)
  <2>1. g = [f EXCEPT !.ack_pending = FALSE, !.last_wnd = w, !.out = Append(@, n)]
    BY <1>2 DEF send_segment
  <2> HIDE DEF g
  <2>2. Alike(f, g)
    BY <1>0, <2>1 DEF Alike, Fields
  <2>3. g.last_wnd = w /\ g.out = Append(f.out, n)
    BY <1>0, <2>1 DEF Fields
  <2>4. Sound(g, h)
    BY <1>0, <2>2, AlikeSound
  <2>5. f.out \in Seq(Notices) /\ \A i \in 1 .. Len(f.out) : Fits(f, f.out[i].ack + f.out[i].wnd)
    BY <1>0 DEF Said
  <2>6. Told(f, kind) \in Nat /\ Told(f, kind) <= w /\ w \in Nat /\ w \in 0 .. FixedWnd /\ w <= MaxRx
    BY <1>0, ToldIs, WindowIs
  <2>7. n \in Notices
    <3>1. f.rcv_nxt \in 1 .. (FinPlace + 1)
      BY <1>0 DEF Types
    <3>2. Told(f, kind) \in 0 .. MaxRx
      BY <2>6, Numbers
    <3> QED BY <3>1, <3>2 DEF Notices, Kinds
  <2>8. Fits(f, n.ack + n.wnd)
    <3> DEFINE l == Len(f.rx_data)
               t == Told(f, kind)
               r == f.rcv_nxt
    <3>1. n.ack = r /\ n.wnd = t
      OBVIOUS
    <3>2. l + w <= MaxRx /\ l + w <= Limit
      BY <1>0, WindowIs
    <3>3. l \in Nat /\ r \in Nat
      BY <1>0, FlowNumbers
    <3>4. t \in Nat /\ t <= w /\ w \in Nat /\ MaxRx \in Nat /\ Limit \in Nat
      BY <2>6, Numbers
    <3> HIDE DEF l, t, r, w, n
    <3>5. l + ((r + t) - r) <= MaxRx /\ l + ((r + t) - r) <= Limit
      BY ONLY <3>2, <3>3, <3>4
    <3> QED BY <3>1, <3>5 DEF Fits, l, r
  <2> HIDE DEF n, w
  <2>9. /\ g.out \in Seq(Notices) /\ Len(g.out) = Len(f.out) + 1
        /\ \A i \in 1 .. Len(f.out) : g.out[i] = f.out[i]
        /\ g.out[Len(f.out) + 1] = n
    BY <2>3, <2>5, <2>7, AppendProperties
  <2>10. ASSUME NEW i \in 1 .. Len(g.out) PROVE Fits(f, g.out[i].ack + g.out[i].wnd)
    <3>1. Len(f.out) \in Nat
      BY <2>5, LenProperties
    <3>2. i \in 1 .. Len(f.out) \/ i = Len(f.out) + 1
      BY <2>9, <3>1
    <3> QED BY <2>5, <2>8, <2>9, <3>2
  <2>11. \A i \in 1 .. Len(g.out) : Fits(g, g.out[i].ack + g.out[i].wnd)
    BY <2>2, <2>10 DEF Fits, Alike
  <2>12. Said(g)
    BY <2>3, <2>6, <2>9, <2>11 DEF Said
  <2> QED BY <2>2, <2>4, <2>12 DEF g, Whole
<1> QED BY <1>1, <1>2

(* send_ack. *)
LEMMA AckSent ==
  ASSUME NEW f, NEW h, Whole(f, h)
  PROVE  Whole(send_ack(f), h) /\ Alike(f, send_ack(f))
<1> DEFINE k == "ACK"
<1>1. k \in Kinds
  BY DEF Kinds
<1> HIDE DEF k
<1>2. Whole(send_segment(f, k), h) /\ Alike(f, send_segment(f, k))
  BY <1>1, SegmentSent
<1> QED BY <1>2 DEF send_ack, k

(* The members that are pending, sent or timed change nothing else. *)
LEMMA AlikeWhole ==
  ASSUME NEW f, NEW g, NEW h, Whole(f, h), Alike(f, g), g.out = f.out, g.last_wnd \in 0 .. FixedWnd
  PROVE  Whole(g, h)
<1>1. Sound(f, h) /\ Said(f)
  BY DEF Whole
<1>2. Sound(g, h)
  BY <1>1, AlikeSound
<1>3. Said(g)
  BY <1>1 DEF Said, Fits, Alike
<1> QED BY <1>2, <1>3 DEF Whole

(* note_data_ack. *)
LEMMA DataAckNoted ==
  ASSUME NEW f, NEW h, Whole(f, h)
  PROVE  Whole(note_data_ack(f), h) /\ Alike(f, note_data_ack(f))
<1> DEFINE g == [f EXCEPT !.ack_pending = TRUE, !.ack_timer = TRUE]
<1>1. DOMAIN f = Fields /\ f.last_wnd \in 0 .. FixedWnd
  BY DEF Whole, Sound, Types, Said
<1>2. Alike(f, g) /\ g.out = f.out /\ g.last_wnd = f.last_wnd
  BY <1>1 DEF Alike, Fields
<1>3. Whole(g, h)
  BY <1>1, <1>2, AlikeWhole
<1>4. Whole(send_ack(f), h) /\ Alike(f, send_ack(f))
  BY AckSent
<1> HIDE DEF g
<1> QED BY <1>2, <1>3, <1>4 DEF note_data_ack, g

(* flush_pending_ack. *)
LEMMA PendingAckFlushed ==
  ASSUME NEW f, NEW h, Whole(f, h)
  PROVE  Whole(flush_pending_ack(f), h) /\ Alike(f, flush_pending_ack(f))
<1>1. Whole(send_ack(f), h) /\ Alike(f, send_ack(f))
  BY AckSent
<1>2. Alike(f, f)
  BY AlikeSelf DEF Whole, Sound
<1> QED BY <1>1, <1>2 DEF flush_pending_ack

(* notify_window_updated. *)
LEMMA WindowNotified ==
  ASSUME NEW f, NEW h, Whole(f, h)
  PROVE  Whole(notify_window_updated(f), h) /\ Alike(f, notify_window_updated(f))
<1> DEFINE w == current_wnd(f)
           g == notify_window_updated(f)
<1>1. Sound(f, h) /\ Alike(f, f)
  BY AlikeSelf DEF Whole, Sound
<1>2. w \in 0 .. FixedWnd
  BY <1>1, WindowIs
<1>3. CASE f.state = "CLOSED"
  BY <1>1, <1>3 DEF notify_window_updated
<1>4. CASE f.state # "CLOSED"
  <2>1. PICK k \in {send_ack(f), f} : g = [k EXCEPT !.last_wnd = w]
    BY <1>4 DEF notify_window_updated
  <2>2. Whole(k, h) /\ Alike(f, k)
    BY <1>1, AckSent
  <2> HIDE DEF g, w
  <2>3. DOMAIN k = Fields
    BY <2>2 DEF Alike
  <2>4. Alike(k, g) /\ g.out = k.out /\ g.last_wnd = w
    BY <2>1, <2>3 DEF Alike, Fields
  <2>5. Whole(g, h)
    BY <1>2, <2>2, <2>4, AlikeWhole
  <2>6. Alike(f, g)
    BY <2>2, <2>4, AlikeTrans
  <2> QED BY <2>5, <2>6 DEF g
<1> QED BY <1>3, <1>4

----------------------------------------------------------------------------
(* Delivery to the application. *)

\* Members that delivery to a read leaves alone; the queue only gets shorter.
Kept(f, g) ==
  /\ g.state = f.state /\ g.rcv_nxt = f.rcv_nxt
  /\ g.ooo_cache = f.ooo_cache /\ g.ooo_bytes = f.ooo_bytes
  /\ g.fin_received = f.fin_received
  /\ g.rx_shutdown = f.rx_shutdown /\ g.app_closed = f.app_closed
  /\ Len(g.rx_data) <= Len(f.rx_data)

(* A shorter queue gives room. *)
LEMMA KeptNarrows ==
  ASSUME NEW f, NEW g, NEW h, NEW k, Sound(f, h), Sound(g, k), Kept(f, g)
  PROVE  Narrows(f, g)
<1>1. f.rcv_nxt \in Nat /\ Len(f.rx_data) \in Nat
  BY FlowNumbers
<1>2. g.rcv_nxt = f.rcv_nxt /\ Len(g.rx_data) <= Len(f.rx_data) /\ Len(g.rx_data) \in Nat
  BY FlowNumbers DEF Kept
<1>3. g.rcv_nxt >= f.rcv_nxt /\ Len(g.rx_data) + f.rcv_nxt <= Len(f.rx_data) + g.rcv_nxt
  BY ONLY <1>1, <1>2
<1> QED BY <1>3 DEF Narrows, Kept

(* A flow that is alike keeps them. *)
LEMMA AlikeKept ==
  ASSUME NEW f, NEW g, NEW h, Sound(f, h), Alike(f, g)
  PROVE  Kept(f, g)
<1>1. Len(f.rx_data) \in Nat
  BY FlowNumbers
<1> QED BY <1>1 DEF Kept, Alike

(* They are kept from step to step. *)
LEMMA KeptTrans ==
  ASSUME NEW f, NEW g, NEW k, NEW h, Sound(f, h), Sound(g, h), Sound(k, h), Kept(f, g), Kept(g, k)
  PROVE  Kept(f, k)
<1>1. Len(f.rx_data) \in Nat
  BY FlowNumbers
<1>2. Len(g.rx_data) \in Nat
  BY FlowNumbers
<1>3. Len(k.rx_data) \in Nat
  BY FlowNumbers
<1>4. Len(k.rx_data) <= Len(g.rx_data) /\ Len(g.rx_data) <= Len(f.rx_data)
  BY DEF Kept
<1>5. Len(k.rx_data) <= Len(f.rx_data)
  BY ONLY <1>1, <1>2, <1>3, <1>4
<1> QED BY <1>5 DEF Kept

(* The place up to which the stream was received. *)
LEMMA UptoIs ==
  ASSUME NEW f, Types(f), Stream(f)
  PROVE  /\ Upto(f) \in 1 .. FinPlace /\ Upto(f) \in Nat
         /\ f.fin_received => Upto(f) = FinPlace /\ f.rcv_nxt = FinPlace + 1
         /\ ~f.fin_received => Upto(f) = f.rcv_nxt
<1> DEFINE r == f.rcv_nxt
<1>1. r \in 1 .. (FinPlace + 1) /\ (f.fin_received <=> r = FinPlace + 1)
  BY DEF Types, Stream
<1>2. FinPlace \in Nat /\ FinPlace > 0
  BY Numbers
<1> HIDE DEF r
<1>3. r # FinPlace + 1 => r \in 1 .. FinPlace
  BY ONLY <1>1, <1>2
<1>4. Upto(f) = IF f.fin_received THEN FinPlace ELSE r
  BY DEF Upto, r
<1>5. FinPlace \in 1 .. FinPlace
  BY ONLY <1>2
<1>6. Upto(f) \in 1 .. FinPlace
  BY <1>1, <1>3, <1>4, <1>5
<1>7. Upto(f) \in Nat
  BY ONLY <1>2, <1>6
<1> QED BY <1>1, <1>4, <1>6, <1>7 DEF r

(* How a flow is shown to be whole after its queue, reads and budget changed. *)
LEMMA WholeAgain ==
  ASSUME NEW f, NEW g, NEW h, Whole(f, h), DOMAIN g = Fields,
         g.state = f.state, g.fin_received \in BOOLEAN,
         g.rcv_nxt \in 1 .. (FinPlace + 1), g.rcv_nxt >= f.rcv_nxt,
         g.rx_data \in Seq(1 .. StreamLen),
         g.active_read \in ReadSizes \cup {0},
         Stream(g), Reads(g),
         g.ooo_cache = f.ooo_cache, g.ooo_bytes = f.ooo_bytes,
         g.used = Len(g.rx_data) + g.ooo_bytes + h, g.used <= Limit, Len(g.rx_data) <= MaxRx,
         Len(g.rx_data) + f.rcv_nxt <= Len(f.rx_data) + g.rcv_nxt,
         g.out = f.out, g.last_wnd = f.last_wnd
  PROVE  Whole(g, h) /\ Narrows(f, g)
<1>1. Sound(f, h) /\ Said(f)
  BY DEF Whole
<1>2. Types(g)
  BY <1>1 DEF Sound, Types
<1>3. Cache(g)
  BY <1>1 DEF Sound, Cache
<1>4. Books(g, h)
  BY <1>1 DEF Sound, Books
<1>5. Sound(g, h)
  BY <1>2, <1>3, <1>4 DEF Sound
<1>6. Narrows(f, g)
  BY DEF Narrows
<1>7. Said(g)
  BY <1>1, <1>5, <1>6, SaidStays
<1> QED BY <1>5, <1>6, <1>7 DEF Whole

\* Members that no delivery changes.
Frame(f, g) ==
  /\ DOMAIN g = Fields
  /\ g.state = f.state /\ g.ooo_cache = f.ooo_cache /\ g.ooo_bytes = f.ooo_bytes
  /\ g.fin_received = f.fin_received
  /\ g.rx_shutdown = f.rx_shutdown /\ g.app_closed = f.app_closed
  /\ g.out = f.out /\ g.last_wnd = f.last_wnd

\* A waiting read takes n bytes from the front of the queue.
Took(f, r, n) ==
  /\ Frame(f, r)
  /\ r.rcv_nxt = f.rcv_nxt /\ r.eof = f.eof /\ r.active_read = 0 /\ r.owed = f.owed - 1
  /\ r.delivered = f.delivered \o SubSeq(f.rx_data, 1, n)
  /\ r.rx_data = Drop(f.rx_data, n) /\ r.used = f.used - n

(* ... as in flush_reads. *)
LEMMA FrontTook ==
  ASSUME NEW f, Types(f), NEW n
  PROVE  Took(f, release([complete_read(f, SubSeq(f.rx_data, 1, n)) EXCEPT
                            !.rx_data = Drop(@, n)], n), n)
<1> DEFINE t == SubSeq(f.rx_data, 1, n)
           d == Drop(f.rx_data, n)
           r == [f EXCEPT !.active_read = 0, !.owed = @ - 1, !.delivered = @ \o t,
                          !.rx_data = d, !.used = @ - n]
<1>0. DOMAIN f = Fields
  BY DEF Types
<1>1. release([complete_read(f, SubSeq(f.rx_data, 1, n)) EXCEPT !.rx_data = Drop(@, n)], n) = r
  BY <1>0 DEF release, complete_read, Fields
<1> HIDE DEF t, d
<1>2. Frame(f, r)
  BY <1>0 DEF Frame, Fields
<1>3. /\ r.rcv_nxt = f.rcv_nxt /\ r.eof = f.eof /\ r.active_read = 0 /\ r.owed = f.owed - 1
      /\ r.delivered = f.delivered \o t /\ r.rx_data = d /\ r.used = f.used - n
  BY <1>0 DEF Fields
<1> HIDE DEF r
<1>4. Took(f, r, n)
  BY <1>2, <1>3 DEF Took, t, d
<1> QED BY <1>1, <1>4

(* A flow is whole after it. *)
LEMMA FrontTaken ==
  ASSUME NEW f, NEW h, Whole(f, h), f.active_read # 0, f.rx_data # <<>>,
         NEW n, n = Least(f.active_read, Len(f.rx_data)), NEW r, Took(f, r, n)
  PROVE  Whole(r, h) /\ Kept(f, r) /\ r.active_read = 0
<1> DEFINE q == f.rx_data
           taken == SubSeq(q, 1, n)
           rest == Drop(q, n)
<1>0. /\ Sound(f, h) /\ Types(f) /\ Stream(f) /\ Reads(f) /\ DOMAIN f = Fields
  BY DEF Whole, Sound, Types
<1>1. /\ q \in Seq(1 .. StreamLen) /\ Len(q) \in Nat /\ f.active_read \in Nat /\ h \in Nat
      /\ f.ooo_bytes \in Nat /\ f.used \in Nat /\ f.rcv_nxt \in Nat
      /\ f.used = Len(q) + f.ooo_bytes + h /\ f.used <= Limit /\ Len(q) <= MaxRx
  BY <1>0, FlowNumbers
<1>2. Len(q) # 0
  BY <1>1, EmptySeq
<1>3. n \in Nat /\ n > 0 /\ n <= Len(q)
  <2> DEFINE a == f.active_read
             l == Len(q)
  <2>1. a \in Nat /\ a # 0 /\ l \in Nat /\ l # 0 /\ n = Least(a, l)
    BY <1>1, <1>2
  <2> HIDE DEF a, l
  <2>2. n \in Nat /\ n > 0 /\ n <= l
    BY ONLY <2>1 DEF Least
  <2> QED BY <2>2 DEF l
<1>5. /\ DOMAIN r = Fields
      /\ r.state = f.state /\ r.rcv_nxt = f.rcv_nxt /\ r.ooo_cache = f.ooo_cache
      /\ r.ooo_bytes = f.ooo_bytes /\ r.fin_received = f.fin_received /\ r.eof = f.eof
      /\ r.rx_shutdown = f.rx_shutdown /\ r.app_closed = f.app_closed
      /\ r.out = f.out /\ r.last_wnd = f.last_wnd
  BY DEF Took, Frame
<1>6. /\ r.active_read = 0 /\ r.owed = f.owed - 1 /\ r.delivered = f.delivered \o taken
      /\ r.rx_data = rest /\ r.used = f.used - n
  BY DEF Took
<1>7. Readable(f) /\ f.owed = 1
  BY <1>0 DEF Reads
<1>8. Upto(f) \in 1 .. FinPlace /\ Upto(f) \in Nat
  BY <1>0, UptoIs
<1>9. PICK d \in 1 .. FinPlace :
        Stretch(f.delivered, 1, d) /\ (f.eof => d = FinPlace) /\ Stretch(q, d, Upto(f))
  BY <1>0, <1>7 DEF Stream
<1> DEFINE e == Upto(f)
<1> HIDE DEF q
<1>11. e \in 1 .. FinPlace /\ d \in Nat /\ Len(q) = e - d /\ e <= FinPlace /\ e \in Nat /\ FinPlace \in Nat
  BY <1>8, <1>9, StretchIs, Numbers
<1>13. /\ Stretch(taken, d, d + n) /\ Stretch(rest, d + n, e)
       /\ Len(rest) = Len(q) - n /\ rest \in Seq(1 .. StreamLen)
  BY <1>3, <1>9, StretchCut
<1> HIDE DEF e
<1>12. d + n \in 1 .. FinPlace /\ d # FinPlace
  <2>1. d + n \in 1 .. FinPlace
    BY <1>13 DEF Stretch
  <2> DEFINE l == Len(q)
  <2>2. l = e - d /\ n <= l /\ n > 0 /\ n \in Nat
    BY <1>3, <1>11
  <2> HIDE DEF l
  <2>3. d # FinPlace
    BY ONLY <1>11, <2>2
  <2> QED BY <2>1, <2>3
<1>14. Stretch(f.delivered \o taken, 1, d + n)
  BY <1>9, <1>13, StretchJoin
<1>15. rest \in Seq(1 .. StreamLen) /\ Len(rest) = Len(q) - n
  BY <1>13
<1> HIDE DEF taken, rest
<1>16. Upto(r) = e /\ Readable(r)
  BY <1>5, <1>7 DEF Upto, Readable, e
<1>17. Stream(r)
  <2>1. r.fin_received <=> r.rcv_nxt = FinPlace + 1
    BY <1>0, <1>5 DEF Stream
  <2>2. Stretch(r.delivered, 1, d + n) /\ Stretch(r.rx_data, d + n, e) /\ ~r.eof
    BY ONLY <1>5, <1>6, <1>9, <1>12, <1>13, <1>14
  <2> QED BY <1>12, <1>16, <2>1, <2>2 DEF Stream
<1>18. Reads(r)
  BY <1>6, <1>7 DEF Reads
<1>19. /\ Len(rest) \in Nat /\ Len(rest) <= Len(q) /\ Len(rest) <= MaxRx
       /\ f.used - n = Len(rest) + f.ooo_bytes + h /\ f.used - n <= Limit
       /\ Len(rest) + f.rcv_nxt <= Len(q) + f.rcv_nxt /\ f.rcv_nxt >= f.rcv_nxt
  <2> DEFINE l == Len(q)
             m == Len(rest)
             u == f.used
             o == f.ooo_bytes
             c == f.rcv_nxt
  <2>1. /\ l \in Nat /\ m = l - n /\ o \in Nat /\ h \in Nat /\ u = l + o + h /\ u <= Limit
        /\ l <= MaxRx /\ n \in Nat /\ n <= l /\ Limit \in Nat /\ MaxRx \in Nat /\ c \in Nat
    BY <1>1, <1>3, <1>15, Numbers DEF q
  <2> HIDE DEF l, m, u, o, c
  <2>2. /\ m \in Nat /\ m <= l /\ m <= MaxRx /\ u - n = m + o + h /\ u - n <= Limit
        /\ m + c <= l + c /\ c >= c
    BY ONLY <2>1
  <2> QED BY <2>2 DEF l, m, u, o, c
<1>20. r.rcv_nxt \in 1 .. (FinPlace + 1) /\ r.fin_received \in BOOLEAN
  BY <1>0, <1>5 DEF Types
<1>21. /\ r.rx_data \in Seq(1 .. StreamLen) /\ r.active_read \in ReadSizes \cup {0}
       /\ r.used = Len(r.rx_data) + r.ooo_bytes + h /\ r.used <= Limit /\ Len(r.rx_data) <= MaxRx
       /\ Len(r.rx_data) + f.rcv_nxt <= Len(f.rx_data) + r.rcv_nxt /\ r.rcv_nxt >= f.rcv_nxt
  BY ONLY <1>5, <1>6, <1>15, <1>19 DEF q
<1>22. Whole(r, h)
  BY <1>5, <1>17, <1>18, <1>20, <1>21, WholeAgain
<1>23. Kept(f, r)
  BY ONLY <1>5, <1>6, <1>19 DEF Kept, q
<1> QED BY <1>6, <1>22, <1>23

(* A read that waits at the end of the stream gets the end of it. *)
LEMMA EofRead ==
  ASSUME NEW f, NEW h, Whole(f, h), f.rx_data = <<>> \/ f.active_read = 0
  PROVE  LET g == read_eof(f)
         IN  Whole(g, h) /\ Calm(g) /\ Kept(f, g)
<1> DEFINE g == read_eof(f)
<1>0. /\ Sound(f, h) /\ Types(f) /\ Stream(f) /\ Reads(f) /\ DOMAIN f = Fields
      /\ Len(f.rx_data) \in Nat
  BY FlowNumbers DEF Whole, Sound, Types
<1>1. CASE ~(f.rx_data = <<>> /\ f.fin_received /\ f.active_read # 0)
  <2>1. g = f
    BY <1>1 DEF read_eof
  <2>2. Calm(f)
    BY <1>1 DEF Calm
  <2>3. Len(f.rx_data) <= Len(f.rx_data)
    BY ONLY <1>0
  <2>4. Kept(f, f)
    BY <2>3 DEF Kept
  <2> QED BY <2>1, <2>2, <2>4
<1>2. CASE f.rx_data = <<>> /\ f.fin_received /\ f.active_read # 0
  <2> DEFINE r == [f EXCEPT !.active_read = 0, !.owed = @ - 1, !.delivered = @ \o <<>>, !.eof = TRUE]
  <2>1. g = r
    BY <1>0, <1>2 DEF read_eof, complete_read, Fields
  <2> HIDE DEF g
  <2>2. /\ Frame(f, r) /\ r.rcv_nxt = f.rcv_nxt /\ r.rx_data = f.rx_data /\ r.used = f.used
    BY <1>0 DEF Frame, Fields
  <2>3. r.active_read = 0 /\ r.owed = f.owed - 1 /\ r.delivered = f.delivered \o <<>>
    BY <1>0 DEF Fields
  <2> HIDE DEF r
  <2>4. Readable(f) /\ f.owed = 1
    BY <1>0, <1>2 DEF Reads
  <2>5. Upto(f) = FinPlace
    BY <1>2 DEF Upto
  <2>6. PICK d \in 1 .. FinPlace : Stretch(f.delivered, 1, d) /\ Stretch(f.rx_data, d, Upto(f))
    BY <1>0, <2>4 DEF Stream
  <2>7. d = FinPlace
    BY <1>2, <2>5, <2>6, StretchIs
  <2>8. f.delivered \o <<>> = f.delivered
    <3>1. f.delivered \in Seq(1 .. StreamLen)
      BY <2>6, StretchIs
    <3> QED BY <3>1, ConcatEmptySeq
  <2>9. Readable(r) = Readable(f) /\ Upto(r) = Upto(f)
    BY <2>2 DEF Readable, Upto, Frame
  <2>10. Stream(r)
    <3>1. r.fin_received <=> r.rcv_nxt = FinPlace + 1
      BY <1>0, <2>2 DEF Stream, Frame
    <3>2. Stretch(r.delivered, 1, d) /\ Stretch(r.rx_data, d, Upto(r))
      BY <2>2, <2>3, <2>6, <2>8, <2>9
    <3> QED BY <2>7, <3>1, <3>2 DEF Stream
  <2>11. Reads(r)
    BY <2>3, <2>4 DEF Reads
  <2>12. /\ f.rcv_nxt \in Nat /\ f.used = Len(f.rx_data) + f.ooo_bytes + h /\ f.used <= Limit
         /\ Len(f.rx_data) <= MaxRx /\ f.rx_data \in Seq(1 .. StreamLen)
         /\ f.rcv_nxt \in 1 .. (FinPlace + 1) /\ f.fin_received \in BOOLEAN
    BY <1>0, FlowNumbers DEF Types
  <2>13. /\ f.rcv_nxt >= f.rcv_nxt /\ Len(f.rx_data) + f.rcv_nxt <= Len(f.rx_data) + f.rcv_nxt
         /\ Len(f.rx_data) <= Len(f.rx_data)
    BY ONLY <1>0, <2>12
  <2>14. /\ DOMAIN r = Fields /\ r.state = f.state /\ r.fin_received \in BOOLEAN
         /\ r.ooo_cache = f.ooo_cache /\ r.ooo_bytes = f.ooo_bytes
         /\ r.out = f.out /\ r.last_wnd = f.last_wnd
    BY <2>2, <2>12 DEF Frame
  <2>15. /\ r.rcv_nxt \in 1 .. (FinPlace + 1) /\ r.rcv_nxt >= f.rcv_nxt
         /\ r.rx_data \in Seq(1 .. StreamLen) /\ r.active_read \in ReadSizes \cup {0}
         /\ r.used = Len(r.rx_data) + r.ooo_bytes + h /\ r.used <= Limit /\ Len(r.rx_data) <= MaxRx
         /\ Len(r.rx_data) + f.rcv_nxt <= Len(f.rx_data) + r.rcv_nxt
    BY ONLY <2>2, <2>3, <2>12, <2>13, <2>14
  <2>16. Whole(r, h)
    BY <2>10, <2>11, <2>14, <2>15, WholeAgain
  <2>17. Kept(f, r)
    BY <2>2, <2>13 DEF Kept, Frame
  <2>18. Calm(r)
    BY <2>3 DEF Calm
  <2> QED BY <2>1, <2>16, <2>17, <2>18 DEF g
<1> QED BY <1>1, <1>2

(* flush_reads: afterwards no read waits for what is there. *)
LEMMA ReadsFlushed ==
  ASSUME NEW f, NEW h, Whole(f, h)
  PROVE  LET g == flush_reads(f)
         IN  Whole(g, h) /\ Calm(g) /\ Kept(f, g)
<1> DEFINE g == flush_reads(f)
           n == Least(f.active_read, Len(f.rx_data))
           r == release([complete_read(f, SubSeq(f.rx_data, 1, n)) EXCEPT !.rx_data = Drop(@, n)], n)
           x == notify_window_updated(r)
           y == flush_pending_ack(x)
<1>0. Types(f) /\ Sound(f, h)
  BY DEF Whole, Sound
<1>1. CASE ~(f.active_read # 0 /\ f.rx_data # <<>>)
  <2>1. g = read_eof(f)
    BY <1>1 DEF flush_reads
  <2>2. f.rx_data = <<>> \/ f.active_read = 0
    BY <1>1
  <2> HIDE DEF g
  <2>3. Whole(read_eof(f), h) /\ Calm(read_eof(f)) /\ Kept(f, read_eof(f))
    BY <2>2, EofRead
  <2> QED BY <2>1, <2>3 DEF g
<1>2. CASE f.active_read # 0 /\ f.rx_data # <<>>
  <2>1. g = read_eof(y)
    BY <1>2 DEF flush_reads
  <2>2. Took(f, r, n)
    BY <1>0, FrontTook
  <2> HIDE DEF g, r, n
  <2>3. Whole(r, h) /\ Kept(f, r) /\ r.active_read = 0
    BY <1>2, <2>2, FrontTaken DEF n
  <2>4. Whole(x, h) /\ Alike(r, x)
    BY <2>3, WindowNotified
  <2> HIDE DEF x
  <2>5. Whole(y, h) /\ Alike(x, y)
    BY <2>4, PendingAckFlushed
  <2> HIDE DEF y
  <2>6. Alike(r, y) /\ y.active_read = 0
    BY <2>3, <2>4, <2>5, AlikeTrans DEF Alike
  <2>7. Whole(g, h) /\ Calm(g) /\ Kept(y, g)
    BY <2>1, <2>5, <2>6, EofRead
  <2>8. Sound(f, h) /\ Sound(r, h) /\ Sound(y, h) /\ Sound(g, h)
    BY <2>3, <2>5, <2>7 DEF Whole
  <2>9. Kept(f, y)
    BY <2>3, <2>6, <2>8, AlikeKept, KeptTrans
  <2>10. Kept(f, g)
    BY <2>7, <2>8, <2>9, KeptTrans
  <2> QED BY <2>7, <2>10 DEF g
<1> QED BY <1>1, <1>2

\* The next byte is still that of f, or is e; the cache and the switches are those of f.
Goes(f, g, e) ==
  /\ g.state = f.state /\ (g.rcv_nxt = f.rcv_nxt \/ g.rcv_nxt = e)
  /\ g.ooo_cache = f.ooo_cache /\ g.ooo_bytes = f.ooo_bytes
  /\ g.fin_received = f.fin_received
  /\ g.rx_shutdown = f.rx_shutdown /\ g.app_closed = f.app_closed

(* Reads and segments sent afterwards leave that as it is. *)
LEMMA GoesOn ==
  ASSUME NEW f, NEW g, NEW k, NEW e, Goes(f, g, e), Kept(g, k) \/ Alike(g, k)
  PROVE  Goes(f, k, e)
BY DEF Goes, Kept, Alike

(* Before the FIN: the next byte and what is left of the stream. *)
LEMMA BeforeFin ==
  ASSUME NEW f, NEW h, Sound(f, h), NEW data, NEW e, Stretch(data, f.rcv_nxt, e), f.rcv_nxt < e
  PROVE  /\ ~f.fin_received /\ Upto(f) = f.rcv_nxt /\ data \in Seq(1 .. StreamLen)
         /\ f.rcv_nxt + Len(data) = e /\ Len(data) \in Nat /\ Len(data) # 0
         /\ e \in Nat /\ e \in 1 .. FinPlace /\ e # FinPlace + 1 /\ f.rcv_nxt # FinPlace + 1
<1> DEFINE r == f.rcv_nxt
           l == Len(data)
<1>1. /\ data \in Seq(1 .. StreamLen) /\ l \in Nat /\ l = e - r /\ r \in Nat /\ e \in Nat
      /\ e <= FinPlace /\ e \in 1 .. FinPlace
  BY StretchIs DEF Stretch
<1>2. Types(f) /\ Stream(f) /\ FinPlace \in Nat /\ r < e
  BY Numbers DEF Sound
<1> HIDE DEF r, l
<1>3. r + l = e /\ l # 0 /\ r # FinPlace + 1 /\ e # FinPlace + 1
  BY ONLY <1>1, <1>2
<1>4. ~f.fin_received
  BY <1>2, <1>3 DEF Stream, r
<1>5. Upto(f) = f.rcv_nxt
  BY <1>2, <1>4, UptoIs
<1> QED BY <1>1, <1>3, <1>4, <1>5 DEF r, l

\* The members a delivery sets.
Set(f, g, e, queue, active, owed, got, used) ==
  /\ Frame(f, g) /\ g.rcv_nxt = e /\ g.eof = f.eof
  /\ g.rx_data = queue /\ g.active_read = active /\ g.owed = owed
  /\ g.delivered = got /\ g.used = used

(* Data is thrown away, after shutdown_receive. *)
LEMMA DataGone ==
  ASSUME NEW f, NEW h, Whole(f, h), Calm(f), NEW data, NEW e, Stretch(data, f.rcv_nxt, e),
         f.rcv_nxt < e, f.rx_shutdown, NEW g,
         Set(f, g, e, f.rx_data, f.active_read, f.owed, f.delivered, f.used)
  PROVE  Whole(g, h) /\ Calm(g) /\ Narrows(f, g) /\ Goes(f, g, e)
<1>0. Sound(f, h) /\ Types(f) /\ Stream(f) /\ Reads(f)
  BY DEF Whole, Sound
<1>1. /\ ~f.fin_received /\ e \in Nat /\ e \in 1 .. FinPlace /\ e # FinPlace + 1
  BY <1>0, BeforeFin
<1>2. /\ DOMAIN g = Fields
      /\ g.state = f.state /\ g.rcv_nxt = e /\ g.ooo_cache = f.ooo_cache
      /\ g.ooo_bytes = f.ooo_bytes /\ g.fin_received = f.fin_received /\ g.eof = f.eof
      /\ g.rx_shutdown = f.rx_shutdown /\ g.app_closed = f.app_closed
      /\ g.out = f.out /\ g.last_wnd = f.last_wnd
  BY DEF Set, Frame
<1>3. /\ g.rx_data = f.rx_data /\ g.active_read = f.active_read /\ g.owed = f.owed
      /\ g.delivered = f.delivered /\ g.used = f.used
  BY DEF Set
<1>4. ~Readable(f) /\ ~Readable(g)
  BY <1>2 DEF Readable
<1>5. Stream(g)
  <2>1. PICK d \in 1 .. FinPlace : Stretch(f.delivered, 1, d) /\ (f.eof => d = FinPlace)
    BY <1>0 DEF Stream
  <2>2. g.fin_received <=> g.rcv_nxt = FinPlace + 1
    BY <1>1, <1>2
  <2> QED BY <1>2, <1>3, <1>4, <2>1, <2>2 DEF Stream
<1>6. Reads(g)
  BY <1>0, <1>3, <1>4 DEF Reads
<1>7. /\ f.rcv_nxt \in Nat /\ Len(f.rx_data) \in Nat /\ FinPlace \in Nat
      /\ f.used = Len(f.rx_data) + f.ooo_bytes + h /\ f.used <= Limit /\ Len(f.rx_data) <= MaxRx
      /\ f.rx_data \in Seq(1 .. StreamLen)
  BY <1>0, FlowNumbers, Numbers
<1>8. e \in 1 .. (FinPlace + 1) /\ e >= f.rcv_nxt /\ Len(f.rx_data) + f.rcv_nxt <= Len(f.rx_data) + e
  <2> DEFINE l == Len(f.rx_data)
             r == f.rcv_nxt
  <2>1. l \in Nat /\ r \in Nat /\ r < e
    BY <1>7
  <2> HIDE DEF l, r
  <2>2. e \in 1 .. (FinPlace + 1) /\ e >= r /\ l + r <= l + e
    BY ONLY <1>1, <1>7, <2>1
  <2> QED BY <2>2 DEF l, r
<1>9. /\ g.rcv_nxt \in 1 .. (FinPlace + 1) /\ g.rcv_nxt >= f.rcv_nxt
      /\ g.rx_data \in Seq(1 .. StreamLen)
      /\ g.used = Len(g.rx_data) + g.ooo_bytes + h /\ g.used <= Limit /\ Len(g.rx_data) <= MaxRx
      /\ Len(g.rx_data) + f.rcv_nxt <= Len(f.rx_data) + g.rcv_nxt
  BY ONLY <1>2, <1>3, <1>7, <1>8
<1>10. g.active_read \in ReadSizes \cup {0} /\ g.fin_received \in BOOLEAN
  BY <1>0, <1>2, <1>3 DEF Types
<1>11. Whole(g, h) /\ Narrows(f, g)
  BY <1>2, <1>5, <1>6, <1>9, <1>10, WholeAgain
<1>12. Calm(g)
  BY <1>2, <1>3 DEF Calm
<1> QED BY <1>2, <1>11, <1>12 DEF Goes

(* Data goes to the waiting read, what is over to the queue. *)
LEMMA DataRead ==
  ASSUME NEW f, NEW h, Whole(f, h), f.rx_data = <<>>, f.active_read # 0,
         NEW data, NEW e, Stretch(data, f.rcv_nxt, e), f.rcv_nxt < e,
         Len(data) <= MaxRx, CanReserve(f, Len(data)),
         NEW n, n = Least(f.active_read, Len(data)), NEW g,
         Set(f, g, e, Drop(data, n), 0, f.owed - 1, f.delivered \o SubSeq(data, 1, n),
             (f.used + Len(data)) - n)
  PROVE  Whole(g, h) /\ Calm(g) /\ Narrows(f, g) /\ Goes(f, g, e)
<1> DEFINE taken == SubSeq(data, 1, n)
           rest == Drop(data, n)
<1>0. Sound(f, h) /\ Types(f) /\ Stream(f) /\ Reads(f)
  BY DEF Whole, Sound
<1>1. /\ ~f.fin_received /\ e \in Nat /\ e \in 1 .. FinPlace /\ e # FinPlace + 1
      /\ Upto(f) = f.rcv_nxt /\ f.rcv_nxt + Len(data) = e /\ Len(data) \in Nat /\ Len(data) # 0
  BY <1>0, BeforeFin
<1>2. /\ DOMAIN g = Fields
      /\ g.state = f.state /\ g.rcv_nxt = e /\ g.ooo_cache = f.ooo_cache
      /\ g.ooo_bytes = f.ooo_bytes /\ g.fin_received = f.fin_received /\ g.eof = f.eof
      /\ g.rx_shutdown = f.rx_shutdown /\ g.app_closed = f.app_closed
      /\ g.out = f.out /\ g.last_wnd = f.last_wnd
  BY DEF Set, Frame
<1>3. /\ g.rx_data = rest /\ g.active_read = 0 /\ g.owed = f.owed - 1
      /\ g.delivered = f.delivered \o taken /\ g.used = (f.used + Len(data)) - n
  BY DEF Set
<1>4. Readable(f) /\ Readable(g) /\ f.owed = 1
  BY <1>0, <1>2 DEF Readable, Reads
<1>5. /\ f.rcv_nxt \in Nat /\ f.active_read \in Nat /\ f.ooo_bytes \in Nat /\ h \in Nat
      /\ f.used = Len(f.rx_data) + f.ooo_bytes + h /\ Len(f.rx_data) = 0
      /\ f.rcv_nxt # FinPlace + 1
  BY <1>0, <1>1, FlowNumbers, EmptySeq DEF Stream
<1>6. n \in Nat /\ n <= Len(data)
  <2> DEFINE a == f.active_read
             l == Len(data)
  <2>1. a \in Nat /\ l \in Nat /\ n = Least(a, l)
    BY <1>1, <1>5
  <2> HIDE DEF a, l
  <2>2. n \in Nat /\ n <= l
    BY ONLY <2>1 DEF Least
  <2> QED BY <2>2 DEF l
<1>7. /\ Stretch(taken, f.rcv_nxt, f.rcv_nxt + n) /\ Stretch(rest, f.rcv_nxt + n, e)
      /\ Len(rest) = Len(data) - n /\ rest \in Seq(1 .. StreamLen)
  BY <1>6, StretchCut
<1>8. PICK d \in 1 .. FinPlace :
        Stretch(f.delivered, 1, d) /\ (f.eof => d = FinPlace) /\ Stretch(f.rx_data, d, f.rcv_nxt)
  BY <1>0, <1>1, <1>4 DEF Stream
<1>9. d = f.rcv_nxt
  BY <1>8, StretchIs
<1>10. Stretch(f.delivered \o taken, 1, f.rcv_nxt + n)
  BY <1>7, <1>8, <1>9, StretchJoin
<1>11. f.rcv_nxt + n \in 1 .. FinPlace
  BY <1>7 DEF Stretch
<1>12. ~f.eof
  <2>1. FinPlace \in Nat /\ f.rcv_nxt < e /\ e <= FinPlace
    BY <1>7, StretchIs, Numbers
  <2>2. f.rcv_nxt # FinPlace
    BY ONLY <1>1, <1>5, <2>1
  <2> QED BY <1>8, <1>9, <2>2
<1> HIDE DEF taken, rest
<1>13. Stream(g)
  <2>1. g.fin_received <=> g.rcv_nxt = FinPlace + 1
    BY <1>1, <1>2
  <2>2. Upto(g) = e
    BY <1>1, <1>2 DEF Upto
  <2>3. Stretch(g.delivered, 1, f.rcv_nxt + n) /\ Stretch(g.rx_data, f.rcv_nxt + n, Upto(g)) /\ ~g.eof
    BY <1>2, <1>3, <1>7, <1>10, <1>12, <2>2
  <2> QED BY <1>11, <2>1, <2>3 DEF Stream
<1>14. Reads(g)
  BY <1>3, <1>4 DEF Reads
<1>15. /\ e \in 1 .. (FinPlace + 1) /\ e >= f.rcv_nxt /\ Len(rest) <= MaxRx
       /\ Len(rest) + f.rcv_nxt <= Len(f.rx_data) + e
       /\ (f.used + Len(data)) - n = Len(rest) + f.ooo_bytes + h /\ (f.used + Len(data)) - n <= Limit
  <2> DEFINE l == Len(data)
             m == Len(rest)
             p == Len(f.rx_data)
             r == f.rcv_nxt
             o == f.ooo_bytes
             u == f.used
  <2>1. /\ l \in Nat /\ m = l - n /\ n \in Nat /\ n <= l /\ r \in Nat /\ r + l = e /\ p = 0
        /\ u = p + o + h /\ o \in Nat /\ h \in Nat /\ u <= Limit - l /\ l <= MaxRx
        /\ Limit \in Nat /\ MaxRx \in Nat /\ FinPlace \in Nat /\ e \in 1 .. FinPlace
    BY <1>1, <1>5, <1>6, <1>7, Numbers DEF CanReserve
  <2> HIDE DEF l, m, p, r, o, u
  <2>2. /\ e \in 1 .. (FinPlace + 1) /\ e >= r /\ m <= MaxRx /\ m + r <= p + e
        /\ (u + l) - n = m + o + h /\ (u + l) - n <= Limit
    BY ONLY <2>1
  <2> QED BY <2>2 DEF l, m, p, r, o, u
<1>16. /\ g.rcv_nxt \in 1 .. (FinPlace + 1) /\ g.rcv_nxt >= f.rcv_nxt
       /\ g.rx_data \in Seq(1 .. StreamLen)
       /\ g.used = Len(g.rx_data) + g.ooo_bytes + h /\ g.used <= Limit /\ Len(g.rx_data) <= MaxRx
       /\ Len(g.rx_data) + f.rcv_nxt <= Len(f.rx_data) + g.rcv_nxt
       /\ g.active_read \in ReadSizes \cup {0}
  BY ONLY <1>2, <1>3, <1>7, <1>15
<1>17. g.fin_received \in BOOLEAN
  BY <1>0, <1>2 DEF Types
<1>18. Whole(g, h) /\ Narrows(f, g)
  BY <1>2, <1>13, <1>14, <1>16, <1>17, WholeAgain
<1>19. Calm(g)
  BY <1>3 DEF Calm
<1> QED BY <1>2, <1>18, <1>19 DEF Goes

(* Data is queued. *)
LEMMA DataQueued ==
  ASSUME NEW f, NEW h, Whole(f, h), NEW data, NEW e, Stretch(data, f.rcv_nxt, e), f.rcv_nxt < e,
         Len(f.rx_data) + Len(data) <= MaxRx, CanReserve(f, Len(data)), NEW g,
         Set(f, g, e, f.rx_data \o data, f.active_read, f.owed, f.delivered, f.used + Len(data))
  PROVE  Whole(g, h) /\ Narrows(f, g) /\ Goes(f, g, e)
<1> DEFINE q == f.rx_data \o data
<1>0. Sound(f, h) /\ Types(f) /\ Stream(f) /\ Reads(f)
  BY DEF Whole, Sound
<1>1. /\ ~f.fin_received /\ e \in Nat /\ e \in 1 .. FinPlace /\ e # FinPlace + 1
      /\ Upto(f) = f.rcv_nxt /\ f.rcv_nxt + Len(data) = e /\ Len(data) \in Nat
      /\ data \in Seq(1 .. StreamLen)
  BY <1>0, BeforeFin
<1>2. /\ DOMAIN g = Fields
      /\ g.state = f.state /\ g.rcv_nxt = e /\ g.ooo_cache = f.ooo_cache
      /\ g.ooo_bytes = f.ooo_bytes /\ g.fin_received = f.fin_received /\ g.eof = f.eof
      /\ g.rx_shutdown = f.rx_shutdown /\ g.app_closed = f.app_closed
      /\ g.out = f.out /\ g.last_wnd = f.last_wnd
  BY DEF Set, Frame
<1>3. /\ g.rx_data = q /\ g.active_read = f.active_read /\ g.owed = f.owed
      /\ g.delivered = f.delivered /\ g.used = f.used + Len(data)
  BY DEF Set
<1>5. /\ f.rcv_nxt \in Nat /\ f.ooo_bytes \in Nat /\ h \in Nat /\ f.rx_data \in Seq(1 .. StreamLen)
      /\ f.used = Len(f.rx_data) + f.ooo_bytes + h /\ Len(f.rx_data) \in Nat
  BY <1>0, FlowNumbers
<1>6. q \in Seq(1 .. StreamLen) /\ Len(q) = Len(f.rx_data) + Len(data)
  BY <1>1, <1>5, ConcatProperties
<1>7. Stream(g)
  <2>1. g.fin_received <=> g.rcv_nxt = FinPlace + 1
    BY <1>1, <1>2
  <2>2. Upto(g) = e /\ Readable(g) = Readable(f)
    BY <1>1, <1>2 DEF Upto, Readable
  <2>3. PICK d \in 1 .. FinPlace :
          /\ Stretch(f.delivered, 1, d) /\ (f.eof => d = FinPlace)
          /\ Readable(f) => Stretch(f.rx_data, d, f.rcv_nxt)
    BY <1>0, <1>1 DEF Stream
  <2>4. ASSUME Readable(f) PROVE Stretch(q, d, e)
    BY <2>3, <2>4, StretchJoin
  <2> HIDE DEF q
  <2>5. /\ Stretch(g.delivered, 1, d) /\ (g.eof => d = FinPlace)
        /\ Readable(g) => Stretch(g.rx_data, d, Upto(g))
    BY <1>2, <1>3, <2>2, <2>3, <2>4
  <2> QED BY <2>1, <2>5 DEF Stream
<1> HIDE DEF q
<1>8. Reads(g)
  BY <1>0, <1>2, <1>3 DEF Reads, Readable
<1>9. /\ e \in 1 .. (FinPlace + 1) /\ e >= f.rcv_nxt /\ Len(q) <= MaxRx
      /\ Len(q) + f.rcv_nxt <= Len(f.rx_data) + e
      /\ f.used + Len(data) = Len(q) + f.ooo_bytes + h /\ f.used + Len(data) <= Limit
  <2> DEFINE l == Len(data)
             m == Len(q)
             p == Len(f.rx_data)
             r == f.rcv_nxt
             o == f.ooo_bytes
             u == f.used
  <2>1. /\ l \in Nat /\ m = p + l /\ r \in Nat /\ r + l = e /\ p \in Nat
        /\ u = p + o + h /\ o \in Nat /\ h \in Nat /\ u <= Limit - l /\ p + l <= MaxRx
        /\ Limit \in Nat /\ MaxRx \in Nat /\ FinPlace \in Nat /\ e \in 1 .. FinPlace
    BY <1>1, <1>5, <1>6, Numbers DEF CanReserve
  <2> HIDE DEF l, m, p, r, o, u
  <2>2. /\ e \in 1 .. (FinPlace + 1) /\ e >= r /\ m <= MaxRx /\ m + r <= p + e
        /\ u + l = m + o + h /\ u + l <= Limit
    BY ONLY <2>1
  <2> QED BY <2>2 DEF l, m, p, r, o, u
<1>10. /\ g.rcv_nxt \in 1 .. (FinPlace + 1) /\ g.rcv_nxt >= f.rcv_nxt
       /\ g.rx_data \in Seq(1 .. StreamLen)
       /\ g.used = Len(g.rx_data) + g.ooo_bytes + h /\ g.used <= Limit /\ Len(g.rx_data) <= MaxRx
       /\ Len(g.rx_data) + f.rcv_nxt <= Len(f.rx_data) + g.rcv_nxt
  BY ONLY <1>2, <1>3, <1>6, <1>9
<1>11. g.fin_received \in BOOLEAN /\ g.active_read \in ReadSizes \cup {0}
  BY <1>0, <1>2, <1>3 DEF Types
<1>12. Whole(g, h) /\ Narrows(f, g)
  BY <1>2, <1>7, <1>8, <1>10, <1>11, WholeAgain
<1> QED BY <1>2, <1>12 DEF Goes

(* How deliver_data sets the members: thrown away, to the read, queued. *)
LEMMA DeliverySets ==
  ASSUME NEW f, Types(f), NEW len, NEW data, NEW n
  PROVE  LET taken == [reserve(f, len) EXCEPT !.rcv_nxt = @ + len]
             e == f.rcv_nxt + len
         IN  /\ Set(f, [f EXCEPT !.rcv_nxt = @ + len], e, f.rx_data, f.active_read, f.owed,
                    f.delivered, f.used)
             /\ Set(f, [complete_read(release(taken, n), SubSeq(data, 1, n)) EXCEPT
                          !.rx_data = Drop(data, n)],
                    e, Drop(data, n), 0, f.owed - 1, f.delivered \o SubSeq(data, 1, n),
                    (f.used + len) - n)
             /\ Set(f, [taken EXCEPT !.rx_data = @ \o data], e, f.rx_data \o data, f.active_read,
                    f.owed, f.delivered, f.used + len)
<1> DEFINE e == f.rcv_nxt + len
           u == f.used + len
           v == u - n
           t == SubSeq(data, 1, n)
           r == Drop(data, n)
           q == f.rx_data \o data
           o == f.owed - 1
           d == f.delivered \o t
           a == [f EXCEPT !.rcv_nxt = e]
           b == [f EXCEPT !.used = v, !.rcv_nxt = e, !.active_read = 0, !.owed = o,
                          !.delivered = d, !.rx_data = r]
           c == [f EXCEPT !.used = u, !.rcv_nxt = e, !.rx_data = q]
           taken == [reserve(f, len) EXCEPT !.rcv_nxt = @ + len]
<1>0. DOMAIN f = Fields
  BY DEF Types
<1>1. [f EXCEPT !.rcv_nxt = @ + len] = a
  OBVIOUS
<1>2. [complete_read(release(taken, n), t) EXCEPT !.rx_data = r] = b
  BY <1>0 DEF release, reserve, complete_read, Fields
<1>3. [taken EXCEPT !.rx_data = @ \o data] = c
  BY <1>0 DEF reserve, Fields
<1> HIDE DEF e, u, v, t, r, q, o, d, taken
<1>4. Set(f, a, e, f.rx_data, f.active_read, f.owed, f.delivered, f.used)
  BY <1>0 DEF Set, Frame, Fields
<1>5. Set(f, b, e, r, 0, o, d, v)
  BY <1>0 DEF Set, Frame, Fields
<1>6. Set(f, c, e, q, f.active_read, f.owed, f.delivered, u)
  BY <1>0 DEF Set, Frame, Fields
<1> HIDE DEF a, b, c
<1>7. Set(f, [f EXCEPT !.rcv_nxt = @ + len], f.rcv_nxt + len, f.rx_data, f.active_read, f.owed,
          f.delivered, f.used)
  BY <1>1, <1>4 DEF e
<1>8. Set(f, [complete_read(release(taken, n), SubSeq(data, 1, n)) EXCEPT !.rx_data = Drop(data, n)],
          f.rcv_nxt + len, Drop(data, n), 0, f.owed - 1, f.delivered \o SubSeq(data, 1, n),
          (f.used + len) - n)
  BY <1>2, <1>5 DEF e, r, o, d, t, u, v
<1>9. Set(f, [taken EXCEPT !.rx_data = @ \o data], f.rcv_nxt + len, f.rx_data \o data,
          f.active_read, f.owed, f.delivered, f.used + len)
  <2> DEFINE k == [taken EXCEPT !.rx_data = @ \o data]
  <2>1. k = c
    BY <1>3
  <2> HIDE DEF k
  <2>2. Set(f, k, e, q, f.active_read, f.owed, f.delivered, u)
    BY <1>6, <2>1
  <2> QED BY <2>2 DEF k, e, q, u
<1> USE DEF taken
<1> QED BY ONLY <1>7, <1>8, <1>9, Zenon

(* A flow that is sent an acknowledgement, or reads, after it went on. *)
LEMMA ThenAck ==
  ASSUME NEW f, NEW g, NEW h, NEW e, Sound(f, h), Whole(g, h), Narrows(f, g), Goes(f, g, e)
  PROVE  LET k == send_ack(g)
         IN  Whole(k, h) /\ (Calm(g) => Calm(k)) /\ Narrows(f, k) /\ Goes(f, k, e)
<1> DEFINE k == send_ack(g)
<1>1. Whole(k, h) /\ Alike(g, k) /\ Sound(g, h)
  BY AckSent DEF Whole
<1> HIDE DEF k
<1>2. Sound(k, h) /\ Narrows(g, k)
  BY <1>1, AlikeNarrows DEF Whole
<1>3. Narrows(f, k)
  BY <1>1, <1>2, NarrowsTrans
<1>4. Goes(f, k, e)
  BY <1>1, GoesOn
<1>5. Calm(g) => Calm(k)
  BY <1>1 DEF Calm, Alike
<1> QED BY <1>1, <1>3, <1>4, <1>5 DEF k

(* ... the reads that wait are served, *)
LEMMA ThenReads ==
  ASSUME NEW f, NEW g, NEW h, NEW e, Sound(f, h), Whole(g, h), Narrows(f, g), Goes(f, g, e)
  PROVE  LET k == flush_reads(g)
         IN  Whole(k, h) /\ Calm(k) /\ Narrows(f, k) /\ Goes(f, k, e)
<1> DEFINE k == flush_reads(g)
<1>1. Whole(k, h) /\ Kept(g, k) /\ Calm(k) /\ Sound(g, h)
  BY ReadsFlushed DEF Whole
<1> HIDE DEF k
<1>2. Sound(k, h) /\ Narrows(g, k)
  BY <1>1, KeptNarrows DEF Whole
<1>3. Narrows(f, k)
  BY <1>1, <1>2, NarrowsTrans
<1>4. Goes(f, k, e)
  BY <1>1, GoesOn
<1> QED BY <1>1, <1>3, <1>4 DEF k

(* ... or the acknowledgement is put off. *)
LEMMA ThenNote ==
  ASSUME NEW f, NEW g, NEW h, NEW e, Sound(f, h), Whole(g, h), Narrows(f, g), Goes(f, g, e)
  PROVE  LET k == note_data_ack(g)
         IN  Whole(k, h) /\ Narrows(f, k) /\ Goes(f, k, e)
<1> DEFINE k == note_data_ack(g)
<1>1. Whole(k, h) /\ Alike(g, k) /\ Sound(g, h)
  BY DataAckNoted DEF Whole
<1> HIDE DEF k
<1>2. Sound(k, h) /\ Narrows(g, k)
  BY <1>1, AlikeNarrows DEF Whole
<1>3. Narrows(f, k)
  BY <1>1, <1>2, NarrowsTrans
<1>4. Goes(f, k, e)
  BY <1>1, GoesOn
<1> QED BY <1>1, <1>3, <1>4 DEF k

(* deliver_data: data that begins at the next byte. *)
LEMMA DataDelivered ==
  ASSUME NEW f, NEW h, Whole(f, h), Calm(f), NEW data, NEW e, Stretch(data, f.rcv_nxt, e),
         f.rcv_nxt < e
  PROVE  LET g == deliver_data(f, data)
         IN  Whole(g, h) /\ Calm(g) /\ Narrows(f, g) /\ Goes(f, g, e)
<1> DEFINE g == deliver_data(f, data)
           len == Len(data)
           n == Least(f.active_read, len)
           taken == [reserve(f, len) EXCEPT !.rcv_nxt = @ + len]
           a == [f EXCEPT !.rcv_nxt = @ + len]
           b == [complete_read(release(taken, n), SubSeq(data, 1, n)) EXCEPT !.rx_data = Drop(data, n)]
           c == [taken EXCEPT !.rx_data = @ \o data]
<1>0. Sound(f, h) /\ Types(f)
  BY DEF Whole, Sound
<1>1. f.rcv_nxt + len = e /\ len \in Nat /\ Len(f.rx_data) \in Nat
  BY <1>0, BeforeFin, FlowNumbers
<1>2. /\ Set(f, a, e, f.rx_data, f.active_read, f.owed, f.delivered, f.used)
      /\ Set(f, b, e, Drop(data, n), 0, f.owed - 1, f.delivered \o SubSeq(data, 1, n),
             (f.used + len) - n)
      /\ Set(f, c, e, f.rx_data \o data, f.active_read, f.owed, f.delivered, f.used + len)
  BY <1>0, <1>1, DeliverySets
<1>3. CASE f.rx_shutdown
  <2>1. g = send_ack(a)
    BY <1>3 DEF deliver_data
  <2> HIDE DEF a, g
  <2>2. Whole(a, h) /\ Calm(a) /\ Narrows(f, a) /\ Goes(f, a, e)
    BY <1>2, <1>3, DataGone
  <2>3. Whole(g, h) /\ Calm(g) /\ Narrows(f, g) /\ Goes(f, g, e)
    BY <1>0, <2>1, <2>2, ThenAck
  <2> QED BY <2>3 DEF g
<1>4. CASE ~f.rx_shutdown /\ (Len(f.rx_data) + len > MaxRx \/ ~CanReserve(f, len))
  <2>1. g = f
    BY <1>4 DEF deliver_data
  <2> HIDE DEF g
  <2>2. Narrows(f, f)
    BY <1>0, AlikeSelf, AlikeNarrows
  <2>3. Goes(f, f, e)
    BY DEF Goes
  <2> QED BY <2>1, <2>2, <2>3 DEF g
<1>5. CASE /\ ~f.rx_shutdown /\ ~(Len(f.rx_data) + len > MaxRx \/ ~CanReserve(f, len))
           /\ Direct(f)
  <2>1. g = send_ack(IF n < len THEN flush_reads(b) ELSE b)
    BY <1>5 DEF deliver_data
  <2>2. f.rx_data = <<>> /\ f.active_read # 0 /\ CanReserve(f, len)
    BY <1>5 DEF Direct
  <2>3. len <= MaxRx
    <3>1. Len(f.rx_data) = 0 /\ MaxRx \in Nat /\ ~(Len(f.rx_data) + len > MaxRx)
      BY <1>5, <2>2, EmptySeq, Numbers
    <3> HIDE DEF len
    <3> QED BY ONLY <1>1, <3>1
  <2> HIDE DEF b, g
  <2>4. Whole(b, h) /\ Calm(b) /\ Narrows(f, b) /\ Goes(f, b, e)
    <3> HIDE DEF n
    <3>1. n = Least(f.active_read, Len(data))
      BY DEF n
    <3> QED BY <1>2, <2>2, <2>3, <3>1, DataRead
  <2> DEFINE k == IF n < len THEN flush_reads(b) ELSE b
  <2>5. Whole(k, h) /\ Calm(k) /\ Narrows(f, k) /\ Goes(f, k, e)
    BY <1>0, <2>4, ThenReads
  <2> HIDE DEF k
  <2>6. g = send_ack(k)
    BY <2>1 DEF k
  <2>7. Whole(g, h) /\ Calm(g) /\ Narrows(f, g) /\ Goes(f, g, e)
    BY <1>0, <2>5, <2>6, ThenAck
  <2> QED BY <2>7 DEF g
<1>6. CASE /\ ~f.rx_shutdown /\ ~(Len(f.rx_data) + len > MaxRx \/ ~CanReserve(f, len))
           /\ ~Direct(f)
  <2> DEFINE k == note_data_ack(c)
  <2>1. g = flush_reads(k)
    BY <1>6 DEF deliver_data
  <2>2. Len(f.rx_data) + len <= MaxRx /\ CanReserve(f, len)
    <3>1. MaxRx \in Nat /\ ~(Len(f.rx_data) + len > MaxRx)
      BY <1>6, Numbers
    <3>2. Len(f.rx_data) + len <= MaxRx
      BY ONLY <1>1, <3>1
    <3> QED BY <1>6, <3>2
  <2> HIDE DEF c, g
  <2>3. Whole(c, h) /\ Narrows(f, c) /\ Goes(f, c, e)
    BY <1>2, <2>2, DataQueued
  <2>4. Whole(k, h) /\ Narrows(f, k) /\ Goes(f, k, e)
    BY <1>0, <2>3, ThenNote
  <2> HIDE DEF k
  <2>5. Whole(g, h) /\ Calm(g) /\ Narrows(f, g) /\ Goes(f, g, e)
    BY <1>0, <2>1, <2>4, ThenReads
  <2> QED BY <2>5 DEF g
<1> QED BY <1>3, <1>4, <1>5, <1>6

----------------------------------------------------------------------------
(* The FIN, and what leaves the cache. *)

\* The flow is closed in both or in none; the rest of what is read and held is the same.
Turned(f, g) ==
  /\ DOMAIN g = Fields
  /\ g.state \in States /\ (g.state = "CLOSED" <=> f.state = "CLOSED")
  /\ g.rcv_nxt = f.rcv_nxt /\ g.rx_data = f.rx_data
  /\ g.ooo_cache = f.ooo_cache /\ g.ooo_bytes = f.ooo_bytes /\ g.used = f.used
  /\ g.active_read = f.active_read /\ g.owed = f.owed /\ g.delivered = f.delivered
  /\ g.eof = f.eof /\ g.fin_received = f.fin_received
  /\ g.rx_shutdown = f.rx_shutdown /\ g.app_closed = f.app_closed
  /\ g.out = f.out /\ g.last_wnd = f.last_wnd

(* Another state of an open connection: nothing else depends on which. *)
LEMMA StateTurned ==
  ASSUME NEW f, NEW g, NEW h, Whole(f, h), Turned(f, g)
  PROVE  Whole(g, h) /\ Narrows(f, g) /\ (Calm(f) => Calm(g)) /\ (Beyond(f) => Beyond(g))
<1>0. Sound(f, h) /\ Types(f) /\ Stream(f) /\ Reads(f) /\ Books(f, h) /\ Cache(f) /\ Said(f)
  BY DEF Whole, Sound
<1>1. Readable(g) = Readable(f) /\ Upto(g) = Upto(f)
  BY DEF Turned, Readable, Upto
<1>2. Types(g)
  BY <1>0 DEF Types, Turned
<1>3. Stream(g)
  <2>1. f.fin_received <=> f.rcv_nxt = FinPlace + 1
    BY <1>0 DEF Stream
  <2>2. PICK d \in 1 .. FinPlace :
          /\ Stretch(f.delivered, 1, d) /\ (f.eof => d = FinPlace)
          /\ Readable(f) => Stretch(f.rx_data, d, Upto(f))
    BY <1>0 DEF Stream
  <2>3. /\ g.fin_received <=> g.rcv_nxt = FinPlace + 1
        /\ Stretch(g.delivered, 1, d) /\ (g.eof => d = FinPlace)
        /\ Readable(g) => Stretch(g.rx_data, d, Upto(g))
    BY <1>1, <2>1, <2>2 DEF Turned
  <2> QED BY <2>3 DEF Stream
<1>4. Reads(g)
  BY <1>0, <1>1 DEF Reads, Turned
<1>5. Books(g, h)
  BY <1>0 DEF Books, Turned
<1>6. Cache(g)
  BY <1>0 DEF Cache, Turned
<1>7. Sound(g, h)
  BY <1>2, <1>3, <1>4, <1>5, <1>6 DEF Sound
<1>8. Narrows(f, g)
  <2>1. f.rcv_nxt \in Nat /\ Len(f.rx_data) \in Nat
    BY <1>0, FlowNumbers
  <2> QED BY <2>1 DEF Narrows, Turned
<1>9. Said(g)
  <2>1. g.out = f.out /\ g.last_wnd = f.last_wnd
    BY DEF Turned
  <2> QED BY <1>0, <1>7, <1>8, <2>1, SaidStays
<1>10. (Calm(f) => Calm(g)) /\ (Beyond(f) => Beyond(g))
  BY DEF Calm, Beyond, Turned
<1> QED BY <1>7, <1>8, <1>9, <1>10 DEF Whole

\* Another cache C of n bytes, u bytes charged in all.
Recached(f, g, C, n, u) ==
  /\ DOMAIN g = Fields /\ g.state = f.state /\ g.rcv_nxt = f.rcv_nxt /\ g.rx_data = f.rx_data
  /\ g.active_read = f.active_read /\ g.owed = f.owed /\ g.delivered = f.delivered
  /\ g.eof = f.eof /\ g.fin_received = f.fin_received
  /\ g.rx_shutdown = f.rx_shutdown /\ g.app_closed = f.app_closed
  /\ g.out = f.out /\ g.last_wnd = f.last_wnd
  /\ g.ooo_cache = C /\ g.ooo_bytes = n /\ g.used = u

(* A flow is whole with another cache that is tidy, small enough and paid for. *)
LEMMA CacheSet ==
  ASSUME NEW f, NEW g, NEW h, NEW C, NEW n, NEW u, Whole(f, h), Recached(f, g, C, n, u),
         Tidy(C), n = Total(C), Cardinality(C) <= OooMax, n <= MaxRx,
         u = Len(f.rx_data) + n + h, u <= Limit
  PROVE  Whole(g, h) /\ Narrows(f, g) /\ (Calm(f) => Calm(g))
<1>0. Sound(f, h) /\ Types(f) /\ Stream(f) /\ Reads(f) /\ Books(f, h) /\ Said(f)
  BY DEF Whole, Sound
<1>1. Readable(g) = Readable(f) /\ Upto(g) = Upto(f)
  BY DEF Recached, Readable, Upto
<1>2. Types(g)
  BY <1>0 DEF Types, Recached
<1>3. Stream(g)
  <2>1. f.fin_received <=> f.rcv_nxt = FinPlace + 1
    BY <1>0 DEF Stream
  <2>2. PICK d \in 1 .. FinPlace :
          /\ Stretch(f.delivered, 1, d) /\ (f.eof => d = FinPlace)
          /\ Readable(f) => Stretch(f.rx_data, d, Upto(f))
    BY <1>0 DEF Stream
  <2>3. /\ g.fin_received <=> g.rcv_nxt = FinPlace + 1
        /\ Stretch(g.delivered, 1, d) /\ (g.eof => d = FinPlace)
        /\ Readable(g) => Stretch(g.rx_data, d, Upto(g))
    BY <1>1, <2>1, <2>2 DEF Recached
  <2> QED BY <2>3 DEF Stream
<1>4. Reads(g)
  BY <1>0, <1>1 DEF Reads, Recached
<1>5. Books(g, h)
  <2>1. n \in Nat
    BY TotalCovers
  <2>2. h \in Nat /\ Len(f.rx_data) <= MaxRx
    BY <1>0 DEF Books
  <2>3. g.rx_data = f.rx_data /\ g.ooo_bytes = n /\ g.used = u
    BY DEF Recached
  <2> QED BY <2>1, <2>2, <2>3 DEF Books
<1>6. Cache(g)
  BY DEF Cache, Recached
<1>7. Sound(g, h)
  BY <1>2, <1>3, <1>4, <1>5, <1>6 DEF Sound
<1>8. Narrows(f, g)
  <2>1. f.rcv_nxt \in Nat /\ Len(f.rx_data) \in Nat
    BY <1>0, FlowNumbers
  <2> QED BY <2>1 DEF Narrows, Recached
<1>9. Said(g)
  <2>1. g.out = f.out /\ g.last_wnd = f.last_wnd
    BY DEF Recached
  <2> QED BY <1>0, <1>7, <1>8, <2>1, SaidStays
<1>10. Calm(f) => Calm(g)
  BY DEF Calm, Recached
<1> QED BY <1>7, <1>8, <1>9, <1>10 DEF Whole

\* The cache is that of f, and the flow is closed if f is.
SameCache(f, g) ==
  /\ g.ooo_cache = f.ooo_cache /\ g.ooo_bytes = f.ooo_bytes
  /\ g.state = "CLOSED" <=> f.state = "CLOSED"

(* handle_fin: the FIN counts once, when everything before it was received. *)
LEMMA FinHandled ==
  ASSUME NEW f, NEW h, Whole(f, h), Calm(f), NEW p, p = FinPlace
  PROVE  LET g == handle_fin(f, p)
         IN  /\ Whole(g, h) /\ Calm(g) /\ Narrows(f, g) /\ SameCache(f, g)
             /\ g.rcv_nxt = IF f.rcv_nxt = FinPlace THEN FinPlace + 1 ELSE f.rcv_nxt
<1> DEFINE g == handle_fin(f, p)
<1>0. Sound(f, h) /\ Types(f) /\ Stream(f) /\ Reads(f) /\ DOMAIN f = Fields /\ FinPlace \in Nat
  BY Numbers DEF Whole, Sound, Types
<1>1. f.rcv_nxt \in Nat /\ f.rcv_nxt >= 1 /\ f.rcv_nxt <= FinPlace + 1 /\ Len(f.rx_data) \in Nat
  BY <1>0, FlowNumbers
<1>2. CASE f.rcv_nxt # FinPlace
  <2>1. g = send_ack(f) \/ g = f
    BY <1>2 DEF handle_fin
  <2>2. Whole(send_ack(f), h) /\ Alike(f, send_ack(f)) /\ Alike(f, f)
    BY <1>0, AckSent, AlikeSelf
  <2> HIDE DEF g
  <2>3. Whole(g, h) /\ Alike(f, g)
    BY <2>1, <2>2
  <2>4. Narrows(f, g)
    BY <1>0, <2>3, AlikeNarrows
  <2>5. Calm(g) /\ SameCache(f, g) /\ g.rcv_nxt = f.rcv_nxt
    BY <2>3 DEF Calm, SameCache, Alike
  <2> QED BY <1>2, <2>3, <2>4, <2>5 DEF g
<1>3. CASE f.rcv_nxt = FinPlace
  <2> DEFINE r == f.rcv_nxt + 1
             k == [f EXCEPT !.rcv_nxt = r, !.fin_received = TRUE]
             a == send_ack(k)
             st == CASE a.state = "ESTABLISHED" -> "CLOSE_WAIT"
                     [] a.state = "FIN_WAIT_2" -> "TIME_WAIT"
                     [] OTHER -> a.state
             b == [a EXCEPT !.state = st]
  <2>1. ~f.fin_received
    BY <1>0, <1>3 DEF Stream
  <2>2. g = flush_reads(b)
    BY <1>3, <2>1 DEF handle_fin
  <2> HIDE DEF g
  <2>3. r = FinPlace + 1 /\ Upto(f) = FinPlace
    BY <1>3, <2>1 DEF Upto
  <2> HIDE DEF r
  <2>4. /\ DOMAIN k = Fields /\ k.state = f.state /\ k.rcv_nxt = r /\ k.rx_data = f.rx_data
        /\ k.ooo_cache = f.ooo_cache /\ k.ooo_bytes = f.ooo_bytes /\ k.used = f.used
        /\ k.active_read = f.active_read /\ k.owed = f.owed /\ k.delivered = f.delivered
        /\ k.eof = f.eof /\ k.rx_shutdown = f.rx_shutdown /\ k.app_closed = f.app_closed
        /\ k.out = f.out /\ k.last_wnd = f.last_wnd /\ k.fin_received = TRUE
    BY <1>0 DEF Fields
  <2> HIDE DEF k
  <2>5. Stream(k)
    <3>1. k.fin_received <=> k.rcv_nxt = FinPlace + 1
      BY <2>3, <2>4
    <3>2. Upto(k) = FinPlace /\ Readable(k) = Readable(f)
      BY <2>4 DEF Upto, Readable
    <3>3. PICK d \in 1 .. FinPlace :
            /\ Stretch(f.delivered, 1, d) /\ (f.eof => d = FinPlace)
            /\ Readable(f) => Stretch(f.rx_data, d, Upto(f))
      BY <1>0 DEF Stream
    <3>4. /\ Stretch(k.delivered, 1, d) /\ (k.eof => d = FinPlace)
          /\ Readable(k) => Stretch(k.rx_data, d, Upto(k))
      BY <2>3, <2>4, <3>2, <3>3
    <3> QED BY <3>1, <3>4 DEF Stream
  <2>6. Reads(k)
    BY <1>0, <2>4 DEF Reads, Readable
  <2>7. /\ f.used = Len(f.rx_data) + f.ooo_bytes + h /\ f.used <= Limit /\ Len(f.rx_data) <= MaxRx
        /\ f.rx_data \in Seq(1 .. StreamLen) /\ f.active_read \in ReadSizes \cup {0}
    BY <1>0, FlowNumbers DEF Types
  <2>8. /\ r \in 1 .. (FinPlace + 1) /\ r >= f.rcv_nxt
        /\ Len(f.rx_data) + f.rcv_nxt <= Len(f.rx_data) + r
    <3> DEFINE l == Len(f.rx_data)
               c == f.rcv_nxt
    <3>1. l \in Nat /\ c = FinPlace /\ r = FinPlace + 1
      BY <1>1, <1>3, <2>3
    <3> HIDE DEF l, c
    <3>2. r \in 1 .. (FinPlace + 1) /\ r >= c /\ l + c <= l + r
      BY ONLY <1>0, <3>1
    <3> QED BY <3>2 DEF l, c
  <2>9. /\ k.rcv_nxt \in 1 .. (FinPlace + 1) /\ k.rcv_nxt >= f.rcv_nxt
        /\ k.rx_data \in Seq(1 .. StreamLen) /\ k.active_read \in ReadSizes \cup {0}
        /\ k.used = Len(k.rx_data) + k.ooo_bytes + h /\ k.used <= Limit /\ Len(k.rx_data) <= MaxRx
        /\ Len(k.rx_data) + f.rcv_nxt <= Len(f.rx_data) + k.rcv_nxt
        /\ k.fin_received \in BOOLEAN
    BY ONLY <2>4, <2>7, <2>8
  <2>10. Whole(k, h) /\ Narrows(f, k)
    BY <2>4, <2>5, <2>6, <2>9, WholeAgain
  <2>11. Whole(a, h) /\ Alike(k, a)
    BY <2>10, AckSent
  <2> HIDE DEF a
  <2>12. st \in States /\ (st = "CLOSED" <=> a.state = "CLOSED")
    <3>1. a.state \in States
      BY <2>11 DEF Whole, Sound, Types
    <3> QED BY <3>1 DEF States
  <2> HIDE DEF st
  <2>13. Turned(a, b)
    <3>1. DOMAIN a = Fields
      BY <2>11 DEF Alike
    <3> QED BY <2>12, <3>1 DEF Turned, Fields
  <2> HIDE DEF b
  <2>14. Whole(b, h) /\ Narrows(a, b)
    BY <2>11, <2>13, StateTurned
  <2>15. Whole(g, h) /\ Calm(g) /\ Kept(b, g)
    BY <2>2, <2>14, ReadsFlushed
  <2>16. Sound(k, h) /\ Sound(a, h) /\ Sound(b, h) /\ Sound(g, h)
    BY <2>10, <2>11, <2>14, <2>15 DEF Whole
  <2>17. Narrows(k, a) /\ Narrows(b, g)
    BY <2>11, <2>15, <2>16, AlikeNarrows, KeptNarrows
  <2>18. Narrows(f, a)
    BY <1>0, <2>10, <2>16, <2>17, NarrowsTrans
  <2>19. Narrows(f, b)
    BY <1>0, <2>14, <2>16, <2>18, NarrowsTrans
  <2>20. Narrows(f, g)
    BY <1>0, <2>16, <2>17, <2>19, NarrowsTrans
  <2>21. SameCache(f, g) /\ g.rcv_nxt = FinPlace + 1
    BY <2>3, <2>4, <2>11, <2>13, <2>15 DEF SameCache, Alike, Turned, Kept
  <2> QED BY <1>3, <2>15, <2>20, <2>21 DEF g
<1> QED BY <1>2, <1>3

(* forget: cached segments return what they were charged. *)
LEMMA Forgotten ==
  ASSUME NEW f, NEW h, Whole(f, h), Calm(f), NEW S, S \subseteq f.ooo_cache
  PROVE  LET g == forget(f, S)
         IN  /\ Whole(g, h) /\ Calm(g) /\ Narrows(f, g)
             /\ g.ooo_cache = f.ooo_cache \ S /\ g.rcv_nxt = f.rcv_nxt /\ g.state = f.state
<1> DEFINE g == forget(f, S)
           C == f.ooo_cache \ S
           n == Total(S)
           m == f.ooo_bytes - n
           u == f.used - n
<1>0. Sound(f, h) /\ Types(f) /\ Cache(f) /\ DOMAIN f = Fields
  BY DEF Whole, Sound, Types
<1>1. g = [f EXCEPT !.ooo_cache = C, !.ooo_bytes = m, !.used = u]
  BY <1>0 DEF forget, release, Fields
<1>2. /\ Tidy(f.ooo_cache) /\ f.ooo_bytes = Total(f.ooo_cache)
      /\ Cardinality(f.ooo_cache) <= OooMax
  BY <1>0 DEF Cache
<1>3. Tidy(C) /\ Cardinality(C) <= Cardinality(f.ooo_cache) /\ Cardinality(C) \in Nat
  BY <1>2, TidySubset
<1>4. Cardinality(f.ooo_cache) \in Nat
  BY <1>2, TidySubset
<1>5. /\ n \in Nat /\ Total(f.ooo_cache) \in Nat /\ n <= Total(f.ooo_cache)
      /\ Total(C) = Total(f.ooo_cache) - n
  BY <1>2, TotalMinus
<1>6. Cardinality(C) <= OooMax
  <2> DEFINE x == Cardinality(C)
             y == Cardinality(f.ooo_cache)
  <2>1. x \in Nat /\ y \in Nat /\ x <= y /\ y <= OooMax /\ OooMax \in Nat
    BY <1>2, <1>3, <1>4, Numbers
  <2> HIDE DEF x, y
  <2>2. x <= OooMax
    BY ONLY <2>1
  <2> QED BY <2>2 DEF x
<1>7. m = Total(C) /\ m <= MaxRx /\ u = Len(f.rx_data) + m + h /\ u <= Limit
  <2> DEFINE l == Len(f.rx_data)
             o == f.ooo_bytes
             c == f.used
  <2>1. /\ l \in Nat /\ o \in Nat /\ c \in Nat /\ h \in Nat /\ c = l + o + h /\ c <= Limit /\ o <= MaxRx
        /\ Limit \in Nat /\ MaxRx \in Nat /\ n \in Nat /\ n <= o /\ Total(C) = o - n
    BY <1>0, <1>2, <1>5, FlowNumbers, Numbers
  <2>2. m = o - n /\ u = c - n
    OBVIOUS
  <2> HIDE DEF l, o, c, n, m, u
  <2>3. m = Total(C) /\ m <= MaxRx /\ u = l + m + h /\ u <= Limit
    BY ONLY <2>1, <2>2
  <2> QED BY <2>3 DEF l
<1> HIDE DEF g, C, m, u, n
<1>8. Recached(f, g, C, m, u)
  BY <1>0, <1>1 DEF Recached, Fields
<1>9. Whole(g, h) /\ Narrows(f, g) /\ Calm(g)
  BY <1>3, <1>6, <1>7, <1>8, CacheSet
<1>10. g.ooo_cache = C /\ g.rcv_nxt = f.rcv_nxt /\ g.state = f.state
  BY <1>8 DEF Recached
<1> QED BY <1>9, <1>10 DEF g, C

----------------------------------------------------------------------------
(* flush_ooo. *)

\* Every cached segment reaches beyond the next byte.
Pruned(f) == \A s \in f.ooo_cache : End(s) > f.rcv_nxt

(* The first loop: what was passed is gone, and the FIN is handled at its place. *)
LEMMA CachePruned ==
  ASSUME NEW f, NEW h, Whole(f, h), Calm(f), f.state # "CLOSED"
  PROVE  LET p == prune(f)
         IN  Whole(p, h) /\ Calm(p) /\ Narrows(f, p) /\ Pruned(p) /\ p.state # "CLOSED"
<1> DEFINE p == prune(f)
           C == f.ooo_cache
           r == f.rcv_nxt
           passed == {s \in C : End(s) <= r}
           last == {s \in passed : s.fin /\ End(s) = r}
           g == forget(f, passed \ last)
<1>0. Sound(f, h) /\ Tidy(C)
  BY DEF Whole, Sound, Cache
<1>1. r \in Nat /\ FinPlace \in Nat
  BY <1>0, FlowNumbers, Numbers
<1>2. ASSUME NEW s \in C PROVE End(s) \in Nat /\ End(s) <= FinPlace /\ (s.fin => End(s) = FinPlace)
  <2>1. End(s) \in 1 .. FinPlace /\ End(s) \in Nat /\ (s.fin => End(s) = FinPlace)
    BY <1>0, SegmentIs DEF Tidy
  <2> QED BY <1>1, <2>1
<1>3. passed \ last \subseteq C
  OBVIOUS
<1>4. p = IF last = {} THEN g ELSE forget(handle_fin(g, r), last)
  BY DEF prune
<1> HIDE DEF p
<1>5. /\ Whole(g, h) /\ Calm(g) /\ Narrows(f, g)
      /\ g.ooo_cache = C \ (passed \ last) /\ g.rcv_nxt = r /\ g.state = f.state
  BY <1>3, Forgotten
<1> HIDE DEF g
<1>6. CASE last = {}
  <2>1. p = g
    BY <1>4, <1>6
  <2>2. Pruned(g)
    BY <1>1, <1>2, <1>5, <1>6 DEF Pruned
  <2> QED BY <1>5, <2>1, <2>2 DEF p
<1>7. CASE last # {}
  <2>1. r = FinPlace
    BY <1>2, <1>7
  <2> DEFINE k == handle_fin(g, r)
  <2>2. /\ Whole(k, h) /\ Calm(k) /\ Narrows(g, k) /\ SameCache(g, k)
    BY <1>5, <2>1, FinHandled
  <2>3. p = forget(k, last)
    BY <1>4, <1>7
  <2> HIDE DEF k
  <2>4. last \subseteq k.ooo_cache /\ k.ooo_cache \ last = {}
    <3>1. k.ooo_cache = C \ (passed \ last)
      BY <1>5, <2>2 DEF SameCache
    <3>2. passed = C
      BY <1>2, <2>1
    <3> QED BY <3>1, <3>2
  <2> HIDE DEF last
  <2>5. /\ Whole(p, h) /\ Calm(p) /\ Narrows(k, p)
        /\ p.ooo_cache = k.ooo_cache \ last /\ p.rcv_nxt = k.rcv_nxt /\ p.state = k.state
    BY <2>2, <2>3, <2>4, Forgotten
  <2>6. Sound(g, h) /\ Sound(k, h) /\ Sound(p, h)
    BY <1>5, <2>2, <2>5 DEF Whole
  <2>7. Narrows(f, k)
    BY <1>0, <1>5, <2>2, <2>6, NarrowsTrans
  <2>8. Narrows(f, p)
    BY <1>0, <2>5, <2>6, <2>7, NarrowsTrans
  <2>9. Pruned(p) /\ p.state # "CLOSED"
    BY <1>5, <2>2, <2>4, <2>5 DEF Pruned, SameCache
  <2> QED BY <2>5, <2>8, <2>9 DEF p
<1> QED BY <1>6, <1>7

(* Nothing holds the next byte exactly when the cache is beyond it. *)
LEMMA NoCandidates ==
  ASSUME NEW f, NEW h, Sound(f, h)
  PROVE  /\ Beyond(f) => Candidates(f) = {}
         /\ Pruned(f) /\ Candidates(f) = {} => Beyond(f)
         /\ Pruned(f) => \A s \in Candidates(f) :
              s \in f.ooo_cache /\ s.seq <= f.rcv_nxt /\ f.rcv_nxt < End(s)
<1> DEFINE C == f.ooo_cache
           r == f.rcv_nxt
           exact == {s \in C : s.seq = r}
           over == {s \in C : s.seq < r /\ r < End(s)}
<1>1. r \in Nat /\ Tidy(C)
  BY FlowNumbers DEF Sound, Cache
<1>2. ASSUME NEW s \in C PROVE s.seq \in Nat /\ End(s) \in Nat
  BY <1>1, SegmentIs DEF Tidy
<1>3. Candidates(f) = IF exact # {} THEN exact ELSE over
  BY DEF Candidates
<1>4. Beyond(f) => exact = {} /\ over = {}
  BY <1>1, <1>2 DEF Beyond
<1>5. Pruned(f) /\ exact = {} /\ over = {} => Beyond(f)
  BY <1>1, <1>2 DEF Beyond, Pruned
<1>6. ASSUME Pruned(f), NEW s \in exact \cup over PROVE s \in C /\ s.seq <= r /\ r < End(s)
  BY <1>1, <1>2, <1>6 DEF Pruned
<1> HIDE DEF exact, over
<1>7. Beyond(f) => Candidates(f) = {}
  BY <1>3, <1>4
<1>8. Pruned(f) /\ Candidates(f) = {} => Beyond(f)
  BY <1>3, <1>5
<1>9. ASSUME Pruned(f), NEW s \in Candidates(f) PROVE s \in C /\ s.seq <= r /\ r < End(s)
  <2>1. s \in exact \cup over
    BY <1>3
  <2> QED BY <1>6, <1>9, <2>1
<1> QED BY <1>7, <1>8, <1>9

(* A turn of the second loop takes the segment that holds the next byte, and *)
(* what stays in the cache is beyond its end.                                *)
LEMMA NextTaken ==
  ASSUME NEW f, NEW h, Whole(f, h), Calm(f), Pruned(f), f.state # "CLOSED"
  PROVE  LET g == take_next(f)
         IN  Steady(g, h) /\ Narrows(f, g) /\ g.state # "CLOSED"
<1> DEFINE g == take_next(f)
           r == f.rcv_nxt
           C == f.ooo_cache
<1>0. Sound(f, h) /\ Tidy(C) /\ r \in Nat /\ FinPlace \in Nat
  BY FlowNumbers, Numbers DEF Whole, Sound, Cache
<1>1. CASE Candidates(f) = {}
  <2>1. g = f
    BY <1>1 DEF take_next
  <2>2. Beyond(f)
    BY <1>0, <1>1, NoCandidates
  <2>3. Narrows(f, f)
    BY <1>0, AlikeSelf, AlikeNarrows DEF Sound
  <2> HIDE DEF g
  <2> QED BY <2>1, <2>2, <2>3 DEF g, Steady
<1>2. CASE Candidates(f) # {}
  <2> DEFINE s == CHOOSE c \in Candidates(f) : TRUE
             data == Drop(s.data, r - s.seq)
             a == forget(f, {s})
             b == notify_window_updated(a)
             d == deliver_cached(b, data)
  <2>1. s \in Candidates(f)
    BY <1>2
  <2>2. g = fin_cached(d, s)
    BY <1>2 DEF take_next
  <2> HIDE DEF g, s
  <2>3. s \in C /\ s.seq <= r /\ r < End(s)
    BY <1>0, <2>1, NoCandidates
  <2>4. /\ TrueSegment(s) /\ s.seq \in 1 .. FinPlace /\ End(s) \in 1 .. FinPlace /\ s.seq \in Nat
        /\ End(s) \in Nat /\ s.seq <= End(s) /\ s.data = Bytes(s.seq, End(s))
        /\ (s.fin => End(s) = FinPlace)
    BY <1>0, <2>3, SegmentIs DEF Tidy
  <2>5. Stretch(data, r, End(s))
    <3>1. Stretch(s.data, s.seq, End(s))
      BY <2>4, StretchOf
    <3>2. r <= End(s)
      BY <1>0, <2>3, <2>4
    <3> HIDE DEF r
    <3> QED BY <1>0, <2>3, <3>1, <3>2, StretchFrom
  <2>6. data # <<>>
    <3>1. r # End(s)
      BY <1>0, <2>3, <2>4
    <3> HIDE DEF data
    <3> QED BY <2>5, <3>1, StretchIs
  <2>7. /\ Whole(a, h) /\ Calm(a) /\ Narrows(f, a)
        /\ a.ooo_cache = C \ {s} /\ a.rcv_nxt = r /\ a.state = f.state
    <3>1. {s} \subseteq f.ooo_cache
      BY <2>3
    <3> QED BY <3>1, Forgotten
  <2> HIDE DEF a
  <2>8. Whole(b, h) /\ Alike(a, b)
    BY <2>7, WindowNotified
  <2> HIDE DEF b
  <2>9. Calm(b) /\ b.rcv_nxt = r /\ b.ooo_cache = C \ {s} /\ b.state = f.state
    BY <2>7, <2>8 DEF Calm, Alike
  <2>10. d = deliver_data(b, data)
    BY <2>6 DEF deliver_cached
  <2> HIDE DEF d, data
  <2>11. Whole(d, h) /\ Calm(d) /\ Narrows(b, d) /\ Goes(b, d, End(s))
    BY <2>3, <2>5, <2>8, <2>9, <2>10, DataDelivered
  <2>12. /\ d.ooo_cache = C \ {s} /\ d.state = f.state /\ (d.rcv_nxt = r \/ d.rcv_nxt = End(s))
    BY <2>9, <2>11 DEF Goes
  <2>13. ASSUME NEW t \in C \ {s} PROVE t.seq > End(s) /\ t.seq \in Nat /\ t.seq <= FinPlace
    <3>1. /\ t.seq \in Nat /\ End(t) \in Nat /\ t.seq \in 1 .. FinPlace
      BY <1>0, SegmentIs DEF Tidy
    <3>2. Apart(s, t)
      BY <1>0, <2>3 DEF Tidy
    <3>3. End(t) > r
      BY DEF Pruned
    <3>4. ~(End(t) < s.seq)
      BY <1>0, <2>3, <2>4, <3>1, <3>3
    <3> QED BY <1>0, <2>4, <3>1, <3>2, <3>4 DEF Apart
  <2>14. Beyond(d)
    <3>1. ASSUME NEW t \in C \ {s} PROVE t.seq > d.rcv_nxt
      <4>1. t.seq > End(s) /\ t.seq \in Nat
        BY <2>13
      <4>2. t.seq > r
        BY <1>0, <2>3, <2>4, <4>1
      <4> QED BY <2>12, <4>1, <4>2
    <3> QED BY <2>12, <3>1 DEF Beyond
  <2>15. Sound(a, h) /\ Sound(b, h) /\ Sound(d, h)
    BY <2>7, <2>8, <2>11 DEF Whole
  <2>16. Narrows(a, b)
    BY <2>8, <2>15, AlikeNarrows
  <2>17. Narrows(f, b)
    BY <1>0, <2>7, <2>15, <2>16, NarrowsTrans
  <2>18. Narrows(f, d)
    BY <1>0, <2>11, <2>15, <2>17, NarrowsTrans
  <2>19. CASE ~(s.fin /\ End(s) = d.rcv_nxt)
    <3>1. g = d
      BY <2>2, <2>19 DEF fin_cached
    <3> QED BY <2>11, <2>12, <2>14, <2>18, <3>1 DEF g, Steady
  <2>20. CASE s.fin /\ End(s) = d.rcv_nxt
    <3>1. g = handle_fin(d, End(s)) /\ End(s) = FinPlace
      BY <2>2, <2>4, <2>20 DEF fin_cached
    <3>2. Whole(g, h) /\ Calm(g) /\ Narrows(d, g) /\ SameCache(d, g)
      BY <2>11, <3>1, FinHandled
    <3>3. C \ {s} = {}
      <4>1. ASSUME NEW t \in C \ {s} PROVE FALSE
        BY <1>0, <2>13, <3>1
      <4> QED BY <4>1
    <3>4. Beyond(g) /\ g.state # "CLOSED"
      BY <2>12, <3>2, <3>3 DEF Beyond, SameCache
    <3>5. Sound(g, h)
      BY <3>2 DEF Whole
    <3>6. Narrows(f, g)
      BY <1>0, <2>15, <2>18, <3>2, <3>5, NarrowsTrans
    <3> QED BY <3>2, <3>4, <3>6 DEF g, Steady
  <2> QED BY <2>19, <2>20
<1> QED BY <1>1, <1>2

(* The turns of the second loop, when nothing changes after the first. *)
LEMMA TakeLoop ==
  ASSUME NEW N \in Nat, NEW p, NEW q, q = take_next(p), q = take_next(q)
  PROVE  LET loop[n \in 0 .. N] == IF n = 0 THEN p ELSE take_next(loop[n - 1])
         IN  loop[N] = IF N = 0 THEN p ELSE q
<1> DEFINE Is(g) == g = [n \in 0 .. N |-> IF n = 0 THEN p ELSE take_next(g[n - 1])]
           at(n) == IF n = 0 THEN p ELSE q
           f == [n \in 0 .. N |-> at(n)]
           loop == CHOOSE g : Is(g)
<1>1. \A n \in 0 .. N : at(n) = IF n = 0 THEN p ELSE take_next(f[n - 1])
  <2>1. SUFFICES ASSUME NEW n \in 0 .. N PROVE at(n) = IF n = 0 THEN p ELSE take_next(f[n - 1])
    OBVIOUS
  <2>2. CASE n = 0
    BY <2>2
  <2>3. CASE n = 1
    <3>1. f[n - 1] = p /\ at(n) = q
      BY <2>3
    <3> HIDE DEF f, at
    <3> QED BY <2>3, <3>1
  <2>4. CASE n > 1
    <3>1. f[n - 1] = q /\ at(n) = q /\ n # 0
      BY <2>4
    <3> HIDE DEF f, at
    <3> QED BY <2>4, <3>1
  <2> QED BY <2>2, <2>3, <2>4
<1>2. Is(f)
  <2>1. \A n \in 0 .. N : f[n] = IF n = 0 THEN p ELSE take_next(f[n - 1])
    BY <1>1
  <2>2. f = [n \in 0 .. N |-> f[n]]
    OBVIOUS
  <2> HIDE DEF f, at
  <2> QED BY <2>1, <2>2
<1>3. Is(loop)
  <2> HIDE DEF Is, f
  <2> QED BY <1>2
<1>4. \A n \in 0 .. N : loop[n] = at(n)
  <2> HIDE DEF loop
  <2>1. \A n \in 0 .. N : loop[n] = IF n = 0 THEN p ELSE take_next(loop[n - 1])
    BY <1>3
  <2> DEFINE S == {n \in Nat : n \in 0 .. N => loop[n] = at(n)}
  <2>2. 0 \in S
    BY <2>1
  <2>3. ASSUME NEW n \in Nat, n \in S PROVE n + 1 \in S
    <3>1. SUFFICES ASSUME n + 1 \in 0 .. N PROVE loop[n + 1] = at(n + 1)
      OBVIOUS
    <3>2. n \in 0 .. N /\ (n + 1) - 1 = n /\ n + 1 # 0
      BY <3>1
    <3>3. loop[n] = at(n)
      BY <2>3, <3>2
    <3>4. loop[n + 1] = take_next(at(n))
      BY <2>1, <3>1, <3>2, <3>3
    <3>5. at(n + 1) = take_next(at(n))
      OBVIOUS
    <3> QED BY <3>4, <3>5
  <2>4. Nat \subseteq S
    <3> HIDE DEF S
    <3> QED BY <2>2, <2>3, NatBySet
  <2> HIDE DEF at
  <2> QED BY <2>4
<1>5. loop[N] = at(N)
  <2> HIDE DEF loop, at
  <2> QED BY <1>4
<1> QED BY <1>5

\* What flush_loop leaves after its turns.
Looped(p) ==
  LET loop[n \in 0 .. Cardinality(p.ooo_cache)] ==
        IF n = 0 THEN p ELSE take_next(loop[n - 1])
  IN  loop[Cardinality(p.ooo_cache)]

(* flush_ooo: afterwards the cache is beyond the next byte. *)
LEMMA CacheFlushed ==
  ASSUME NEW f, NEW h, Whole(f, h), Calm(f), f.state # "CLOSED"
  PROVE  LET g == flush_ooo(f)
         IN  Steady(g, h) /\ Narrows(f, g) /\ g.state # "CLOSED"
<1> DEFINE g == flush_ooo(f)
           p == prune(f)
           q == take_next(p)
           x == Looped(p)
<1>1. Whole(p, h) /\ Calm(p) /\ Narrows(f, p) /\ Pruned(p) /\ p.state # "CLOSED"
  BY CachePruned
<1>2. g = IF Candidates(p) # {} THEN send_ack(x)
          ELSE IF p.ooo_cache # f.ooo_cache THEN notify_window_updated(p) ELSE p
  BY DEF flush_ooo, flush_loop, Looped
<1> HIDE DEF g, p
<1>3. Steady(q, h) /\ Narrows(p, q) /\ q.state # "CLOSED"
  BY <1>1, NextTaken
<1>4. Sound(f, h) /\ Sound(p, h) /\ Sound(q, h) /\ Whole(q, h) /\ Calm(q) /\ Beyond(q)
  BY <1>1, <1>3 DEF Steady, Whole
<1>5. q = take_next(q)
  <2>1. Candidates(q) = {}
    BY <1>4, NoCandidates
  <2> HIDE DEF q
  <2> QED BY <2>1 DEF take_next
<1>6. Narrows(f, q)
  BY <1>1, <1>3, <1>4, NarrowsTrans
<1>7. CASE Candidates(p) # {}
  <2> DEFINE N == Cardinality(p.ooo_cache)
  <2>1. N \in Nat /\ N # 0
    <3>1. p.ooo_cache # {}
      BY <1>7 DEF Candidates
    <3>2. IsFiniteSet(p.ooo_cache)
      BY <1>4 DEF Sound, Cache, Tidy
    <3> QED BY <3>1, <3>2, FS_CardinalityType, FS_EmptySet
  <2> HIDE DEF N
  <2>2. x = q
    <3> DEFINE y == CHOOSE z : z = [n \in 0 .. N |-> IF n = 0 THEN p ELSE take_next(z[n - 1])]
    <3>1. x = y[N]
      BY DEF Looped, N
    <3> HIDE DEF x
    <3>2. y[N] = IF N = 0 THEN p ELSE q
      <4> HIDE DEF p
      <4>1. q = take_next(p)
        OBVIOUS
      <4> HIDE DEF q
      <4> QED BY <1>5, <2>1, <4>1, TakeLoop
    <3> HIDE DEF y
    <3> QED BY <2>1, <3>1, <3>2
  <2> HIDE DEF x, q
  <2>3. g = send_ack(q)
    BY <1>2, <1>7, <2>2
  <2>4. Whole(g, h) /\ Alike(q, g)
    BY <1>4, <2>3, AckSent
  <2>5. Calm(g) /\ Beyond(g) /\ g.state # "CLOSED"
    BY <1>3, <1>4, <2>4 DEF Calm, Beyond, Alike
  <2>6. Narrows(q, g) /\ Sound(g, h)
    BY <1>4, <2>4, AlikeNarrows DEF Whole
  <2>7. Narrows(f, g)
    BY <1>4, <1>6, <2>6, NarrowsTrans
  <2> QED BY <2>4, <2>5, <2>7 DEF g, Steady
<1>8. CASE Candidates(p) = {}
  <2>1. g = notify_window_updated(p) \/ g = p
    BY <1>2, <1>8
  <2>2. Beyond(p) /\ Alike(p, p)
    BY <1>1, <1>4, <1>8, NoCandidates, AlikeSelf DEF Sound
  <2>3. Whole(g, h) /\ Alike(p, g)
    BY <1>1, <2>1, <2>2, WindowNotified
  <2>4. Calm(g) /\ Beyond(g) /\ g.state # "CLOSED"
    BY <1>1, <2>2, <2>3 DEF Calm, Beyond, Alike
  <2>5. Narrows(p, g) /\ Sound(g, h)
    BY <1>4, <2>3, AlikeNarrows DEF Whole
  <2>6. Narrows(f, g)
    BY <1>1, <1>4, <2>5, NarrowsTrans
  <2> QED BY <2>3, <2>4, <2>6 DEF g, Steady
<1> QED BY <1>7, <1>8

----------------------------------------------------------------------------
(* Segments that come early. *)

\* The flow is in the same state, and the same byte is next.
Stays(f, g) == g.state = f.state /\ g.rcv_nxt = f.rcv_nxt

(* Another cache, beyond the next byte. *)
LEMMA CacheSteady ==
  ASSUME NEW f, NEW g, NEW h, NEW C, NEW n, NEW u, Steady(f, h), Recached(f, g, C, n, u),
         Tidy(C), n = Total(C), Cardinality(C) <= OooMax, n <= MaxRx,
         u = Len(f.rx_data) + n + h, u <= Limit, \A s \in C : s.seq > f.rcv_nxt
  PROVE  Steady(g, h) /\ Narrows(f, g) /\ Stays(f, g)
<1>1. Whole(f, h) /\ Calm(f)
  BY DEF Steady
<1>2. Whole(g, h) /\ Narrows(f, g) /\ Calm(g)
  BY <1>1, CacheSet
<1>3. Beyond(g) /\ Stays(f, g)
  BY DEF Beyond, Stays, Recached
<1> QED BY <1>2, <1>3 DEF Steady

(* An acknowledgement, between handlers. *)
LEMMA AckSteady ==
  ASSUME NEW f, NEW h, Steady(f, h)
  PROVE  LET g == send_ack(f) IN Steady(g, h) /\ Narrows(f, g) /\ Stays(f, g)
<1> DEFINE g == send_ack(f)
<1>0. Whole(f, h) /\ Sound(f, h) /\ Calm(f) /\ Beyond(f)
  BY DEF Steady, Whole
<1>1. Whole(g, h) /\ Alike(f, g)
  BY <1>0, AckSent
<1> HIDE DEF g
<1>2. Narrows(f, g)
  BY <1>0, <1>1, AlikeNarrows
<1>3. Calm(g) /\ Beyond(g) /\ Stays(f, g)
  BY <1>0, <1>1 DEF Calm, Beyond, Stays, Alike
<1> QED BY <1>1, <1>2, <1>3 DEF g, Steady

(* The FIN is noted at the cached segment that ends at it. *)
LEMMA CacheMarked ==
  ASSUME NEW f, NEW h, Steady(f, h), NEW E, E = {s \in f.ooo_cache : End(s) = FinPlace}, E # {}
  PROVE  LET g == [f EXCEPT !.ooo_cache = (@ \ E) \cup {[s EXCEPT !.fin = TRUE] : s \in E}]
         IN  Steady(g, h) /\ Narrows(f, g) /\ Stays(f, g)
<1> DEFINE C == f.ooo_cache
           M == (C \ E) \cup {[s EXCEPT !.fin = TRUE] : s \in E}
           g == [f EXCEPT !.ooo_cache = M]
<1>0. Sound(f, h) /\ Cache(f) /\ Beyond(f) /\ DOMAIN f = Fields
  BY DEF Steady, Whole, Sound, Types
<1>1. Tidy(C) /\ f.ooo_bytes = Total(C) /\ Cardinality(C) <= OooMax
  BY <1>0 DEF Cache
<1>2. /\ Tidy(M) /\ Covered(M) = Covered(C) /\ Cardinality(M) = Cardinality(C)
      /\ \A s \in M : \E t \in C : t.seq = s.seq
  BY <1>1, MarkedTidy
<1> HIDE DEF M
<1>3. Total(M) = Total(C)
  BY <1>1, <1>2, TotalCovers
<1>4. \A s \in M : s.seq > f.rcv_nxt
  BY <1>0, <1>2 DEF Beyond
<1>5. f.used = Len(f.rx_data) + f.ooo_bytes + h /\ f.used <= Limit /\ f.ooo_bytes <= MaxRx
  BY <1>0, FlowNumbers
<1>6. Recached(f, g, M, f.ooo_bytes, f.used)
  BY <1>0 DEF Recached, Fields
<1> HIDE DEF g
<1>7. f.ooo_bytes = Total(M) /\ Cardinality(M) <= OooMax
  BY <1>1, <1>2, <1>3
<1>8. Steady(g, h) /\ Narrows(f, g) /\ Stays(f, g)
  BY <1>2, <1>4, <1>5, <1>6, <1>7, CacheSteady
<1> QED BY <1>8 DEF g, M

(* append_fin: a FIN without data, before the bytes it follows. *)
LEMMA FinCached ==
  ASSUME NEW f, NEW h, Steady(f, h), NEW p, p = FinPlace, p > f.rcv_nxt
  PROVE  LET g == append_fin(f, p) IN Steady(g, h) /\ Narrows(f, g) /\ Stays(f, g)
<1> DEFINE g == append_fin(f, p)
           C == f.ooo_cache
           E == {s \in C : End(s) = p}
           over == {s \in C : s.seq <= p /\ End(s) > p}
           a == send_ack(f)
           b == [f EXCEPT !.ooo_cache = (@ \ E) \cup {[s EXCEPT !.fin = TRUE] : s \in E}]
           c == [f EXCEPT !.ooo_cache = @ \cup {[seq |-> p, data |-> <<>>, fin |-> TRUE]}]
<1>0. Sound(f, h) /\ Cache(f) /\ Beyond(f) /\ DOMAIN f = Fields
  BY DEF Steady, Whole, Sound, Types
<1>1. Steady(a, h) /\ Narrows(f, a) /\ Stays(f, a)
  BY AckSteady
<1>2. CASE E # {}
  <2>1. g = a \/ g = b
    BY <1>2 DEF append_fin
  <2>2. Steady(b, h) /\ Narrows(f, b) /\ Stays(f, b)
    BY <1>2, CacheMarked
  <2> HIDE DEF a, b, g
  <2> QED BY <1>1, <2>1, <2>2 DEF g
<1>3. CASE E = {} /\ (over # {} \/ Cardinality(C) >= OooMax)
  <2>1. g = a
    BY <1>3 DEF append_fin
  <2> HIDE DEF a, g
  <2> QED BY <1>1, <2>1 DEF g
<1>4. CASE E = {} /\ ~(over # {} \/ Cardinality(C) >= OooMax)
  <2> DEFINE d == [seq |-> FinPlace, data |-> <<>>, fin |-> TRUE]
             M == C \cup {d}
  <2>1. g = [f EXCEPT !.ooo_cache = M]
    BY <1>4 DEF append_fin
  <2>2. Tidy(C) /\ f.ooo_bytes = Total(C) /\ \A s \in C : End(s) # FinPlace
    BY <1>0, <1>4 DEF Cache
  <2>3. d.seq = FinPlace /\ Tidy(M) /\ Covered(M) = Covered(C) /\ Cardinality(M) <= Cardinality(C) + 1
    BY <2>2, FinAloneTidy
  <2> HIDE DEF g, d
  <2>4. \A s \in M : s.seq > f.rcv_nxt
    BY <1>0, <2>3 DEF Beyond
  <2> HIDE DEF M
  <2>5. f.ooo_bytes = Total(M)
    BY <2>2, <2>3, TotalCovers
  <2>6. Cardinality(M) <= OooMax
    <3> DEFINE x == Cardinality(M)
               y == Cardinality(C)
    <3>1. x \in Nat
      BY <2>3, FS_CardinalityType DEF Tidy
    <3>2. y \in Nat
      BY <2>2, FS_CardinalityType DEF Tidy
    <3>3. x <= y + 1 /\ ~(y >= OooMax) /\ OooMax \in Nat
      BY <1>4, <2>3, Numbers
    <3> HIDE DEF x, y
    <3>4. x <= OooMax
      BY ONLY <3>1, <3>2, <3>3
    <3> QED BY <3>4 DEF x
  <2>7. f.used = Len(f.rx_data) + f.ooo_bytes + h /\ f.used <= Limit /\ f.ooo_bytes <= MaxRx
    BY <1>0, FlowNumbers
  <2>8. Recached(f, g, M, f.ooo_bytes, f.used)
    BY <1>0, <2>1 DEF Recached, Fields
  <2>9. Steady(g, h) /\ Narrows(f, g) /\ Stays(f, g)
    BY <2>3, <2>4, <2>5, <2>6, <2>7, <2>8, CacheSteady
  <2> QED BY <2>9 DEF g
<1> QED BY <1>2, <1>3, <1>4

(* The new segment with the FIN of a cached one that ends where it ends. *)
LEMMA NewMarked ==
  ASSUME NEW new, TrueSegment(new), NEW fin \in BOOLEAN, fin => End(new) = FinPlace,
         new.seq < End(new)
  PROVE  LET t == [new EXCEPT !.fin = fin]
         IN  TrueSegment(t) /\ t.seq = new.seq /\ End(t) = End(new) /\ t.data = new.data
<1>1. PICK a \in 1 .. FinPlace, b \in 1 .. FinPlace, old \in BOOLEAN :
        new = Segment(a, b, old) /\ a <= b
  BY DEF TrueSegment
<1>2. new.seq = a /\ End(new) = b /\ new.data = Bytes(a, b)
  BY <1>1, SegmentParts
<1> DEFINE t == Segment(a, b, fin)
           d == Bytes(a, b)
<1>3. new = [seq |-> a, data |-> d, fin |-> old]
  BY <1>1 DEF Segment
<1> HIDE DEF d
<1>4. [new EXCEPT !.fin = fin] = [seq |-> a, data |-> d, fin |-> fin]
  BY <1>3
<1>5. [new EXCEPT !.fin = fin] = t
  BY <1>4 DEF Segment, d
<1> HIDE DEF t
<1>6. TrueSegment(t)
  BY <1>1, <1>2, SegmentTrue DEF t
<1>7. t.seq = a /\ End(t) = b /\ t.data = Bytes(a, b)
  BY <1>1, SegmentParts DEF t
<1> QED BY <1>2, <1>5, <1>6, <1>7

(* ooo_append: data beyond the next byte. *)
LEMMA DataCached ==
  ASSUME NEW f, NEW h, Steady(f, h), NEW new, TrueSegment(new), new.seq < End(new),
         new.seq > f.rcv_nxt
  PROVE  LET g == ooo_append(f, new) IN Steady(g, h) /\ Narrows(f, g) /\ Stays(f, g)
<1> DEFINE g == ooo_append(f, new)
           C == f.ooo_cache
           net == NetAdd(f, new)
           ending == {s \in C : End(s) = End(new)}
           covered == \E s \in ending : s.fin
           touches == \E s \in C : s.seq <= End(new) /\ End(s) >= new.seq
           fin == new.fin \/ covered
           t == [new EXCEPT !.fin = fin]
           a == send_ack(f)
           b == [f EXCEPT !.ooo_cache = (@ \ ending) \cup {[s EXCEPT !.fin = TRUE] : s \in ending}]
           c == [reserve(f, net) EXCEPT !.ooo_bytes = @ + net, !.ooo_cache = Inserted(@, t)]
           refused == \/ Cardinality(C) >= OooMax /\ ~touches
                      \/ Len(f.rx_data) + f.ooo_bytes + net > MaxRx
                      \/ ~CanReserve(f, net)
<1>0. Sound(f, h) /\ Cache(f) /\ Beyond(f) /\ DOMAIN f = Fields
  BY DEF Steady, Whole, Sound, Types
<1>1. Steady(a, h) /\ Narrows(f, a) /\ Stays(f, a)
  BY AckSteady
<1>2. Tidy(C) /\ f.ooo_bytes = Total(C) /\ Cardinality(C) <= OooMax
  BY <1>0 DEF Cache
<1>3. new.fin \in BOOLEAN /\ (new.fin => End(new) = FinPlace)
  BY SegmentIs
<1>4. CASE net = 0
  <2>1. CASE ~new.fin \/ covered \/ ending = {}
    <3>1. g = a
      BY <1>4, <2>1 DEF ooo_append
    <3> HIDE DEF a, g
    <3> QED BY <1>1, <3>1 DEF g
  <2>2. CASE ~(~new.fin \/ covered \/ ending = {})
    <3>1. g = b
      BY <1>4, <2>2 DEF ooo_append
    <3>2. ending = {s \in C : End(s) = FinPlace} /\ ending # {}
      BY <1>3, <2>2
    <3> HIDE DEF ending
    <3>3. Steady(b, h) /\ Narrows(f, b) /\ Stays(f, b)
      BY <3>2, CacheMarked
    <3> HIDE DEF b, g
    <3> QED BY <3>1, <3>3 DEF g
  <2> QED BY <2>1, <2>2
<1>5. CASE net # 0 /\ refused
  <2>1. g = a
    BY <1>5 DEF ooo_append
  <2> HIDE DEF a, g
  <2> QED BY <1>1, <2>1 DEF g
<1>6. CASE net # 0 /\ ~refused
  <2> DEFINE I == Inserted(C, t)
             m == f.ooo_bytes + net
             u == f.used + net
  <2>1. g = c
    BY <1>6 DEF ooo_append
  <2>2. c = [f EXCEPT !.used = u, !.ooo_bytes = m, !.ooo_cache = I]
    BY <1>0 DEF reserve, Fields
  <2>3. fin \in BOOLEAN /\ (fin => End(new) = FinPlace)
    <3>1. ASSUME NEW s \in C PROVE s.fin \in BOOLEAN /\ (s.fin => End(s) = FinPlace)
      BY <1>2, SegmentIs DEF Tidy
    <3> QED BY <1>3, <3>1
  <2> HIDE DEF fin
  <2>4. TrueSegment(t) /\ t.seq = new.seq /\ End(t) = End(new) /\ t.data = new.data
    BY <2>3, NewMarked
  <2> HIDE DEF t, g, c
  <2>5. t.seq < End(t)
    BY <2>4
  <2>6. /\ Tidy(I)
        /\ \A s \in I : s.seq = t.seq \/ \E x \in C : x.seq = s.seq
        /\ Cardinality(I) <= IF Touched(C, t) = {} THEN Cardinality(C) + 1 ELSE Cardinality(C)
        /\ Cardinality(I) \in Nat
    BY <1>2, <2>4, <2>5, InsertedTidy
  <2>7. net \in Nat /\ Total(I) = Total(C) + net
    <3>1. LET n == Len(t.data) - Cardinality({x \in Held(C) : x[2] \in t.seq .. End(t) - 1})
          IN  n \in Nat /\ Total(Inserted(C, t)) = Total(C) + n
      BY <1>2, <2>4, <2>5, InsertedTotal
    <3>2. net = Len(t.data) - Cardinality({x \in Held(C) : x[2] \in t.seq .. End(t) - 1})
      BY <2>4 DEF NetAdd
    <3> HIDE DEF net
    <3> QED BY <3>1, <3>2
  <2> HIDE DEF net
  <2>8. Cardinality(I) <= OooMax
    <3> DEFINE x == Cardinality(I)
               y == Cardinality(C)
    <3>1. x \in Nat
      BY <2>6
    <3>2. y \in Nat
      BY <1>2, FS_CardinalityType DEF Tidy
    <3>3. y <= OooMax /\ OooMax \in Nat
      BY <1>2, Numbers
    <3>4. x <= IF Touched(C, t) = {} THEN y + 1 ELSE y
      BY <2>6
    <3>5. ~touches => ~(y >= OooMax)
      BY <1>6
    <3>6. Touched(C, t) = {} => ~touches
      BY <2>4 DEF Touched
    <3> HIDE DEF x, y, touches
    <3>7. x <= OooMax
      BY <3>1, <3>2, <3>3, <3>4, <3>5, <3>6
    <3> QED BY <3>7 DEF x
  <2>9. \A s \in I : s.seq > f.rcv_nxt
    BY <1>0, <2>4, <2>6 DEF Beyond
  <2>10. m = Total(I) /\ m <= MaxRx /\ u = Len(f.rx_data) + m + h /\ u <= Limit
    <3> DEFINE l == Len(f.rx_data)
               o == f.ooo_bytes
               v == f.used
    <3>1. /\ l \in Nat /\ o \in Nat /\ v \in Nat /\ h \in Nat /\ v = l + o + h
          /\ Limit \in Nat /\ MaxRx \in Nat /\ net \in Nat
      BY <1>0, <2>7, FlowNumbers, Numbers
    <3>2. ~(l + o + net > MaxRx) /\ v <= Limit - net
      BY <1>6 DEF CanReserve
    <3>3. Total(I) = o + net
      BY <1>2, <2>7
    <3>4. m = o + net /\ u = v + net
      OBVIOUS
    <3> HIDE DEF l, o, v, m, u
    <3>5. m = Total(I) /\ m <= MaxRx /\ u = l + m + h /\ u <= Limit
      BY ONLY <3>1, <3>2, <3>3, <3>4
    <3> QED BY <3>5 DEF l
  <2> HIDE DEF m, u, I
  <2>11. Recached(f, g, I, m, u)
    BY <1>0, <2>1, <2>2 DEF Recached, Fields
  <2>12. Steady(g, h) /\ Narrows(f, g) /\ Stays(f, g)
    BY <2>6, <2>8, <2>9, <2>10, <2>11, CacheSteady
  <2> QED BY <2>12 DEF g
<1> QED BY <1>4, <1>5, <1>6

(* handle_data. *)
LEMMA DataHandled ==
  ASSUME NEW f, NEW h, Steady(f, h), f.state # "CLOSED", NEW s, TrueSegment(s), s.data # <<>>
  PROVE  LET g == handle_data(f, s) IN Steady(g, h) /\ Narrows(f, g) /\ g.state # "CLOSED"
<1> DEFINE g == handle_data(f, s)
           r == f.rcv_nxt
<1>0. Whole(f, h) /\ Sound(f, h) /\ Calm(f)
  BY DEF Steady, Whole
<1>1. r \in Nat
  BY <1>0, FlowNumbers
<1>2. /\ s.seq \in 1 .. FinPlace /\ End(s) \in 1 .. FinPlace /\ s.seq \in Nat /\ End(s) \in Nat
      /\ s.seq <= End(s) /\ s.data = Bytes(s.seq, End(s)) /\ s.seq # End(s)
  BY SegmentIs
<1>3. s.seq < End(s)
  BY <1>2
<1>4. CASE s.seq > r
  <2>1. g = ooo_append(f, s)
    BY <1>4 DEF handle_data
  <2> HIDE DEF g
  <2>2. Steady(g, h) /\ Narrows(f, g) /\ Stays(f, g)
    BY <1>3, <1>4, <2>1, DataCached
  <2> QED BY <2>2 DEF g, Stays
<1>5. CASE ~(s.seq > r) /\ End(s) > r
  <2> DEFINE data == Drop(s.data, r - s.seq)
             k == deliver_data(f, data)
  <2>1. g = flush_ooo(k)
    BY <1>5 DEF handle_data
  <2>2. s.seq <= r /\ r <= End(s) /\ r < End(s)
    BY <1>1, <1>2, <1>5
  <2>3. Stretch(data, r, End(s))
    <3>1. Stretch(s.data, s.seq, End(s))
      BY <1>2, StretchOf
    <3> HIDE DEF r
    <3> QED BY <1>1, <2>2, <3>1, StretchFrom
  <2> HIDE DEF g, data
  <2>4. Whole(k, h) /\ Calm(k) /\ Narrows(f, k) /\ Goes(f, k, End(s))
    BY <1>0, <2>2, <2>3, DataDelivered
  <2> HIDE DEF k
  <2>5. k.state # "CLOSED" /\ Sound(k, h)
    BY <2>4 DEF Goes, Whole
  <2>6. Steady(g, h) /\ Narrows(k, g) /\ g.state # "CLOSED"
    BY <2>1, <2>4, <2>5, CacheFlushed
  <2>7. Narrows(f, g)
    <3>1. Sound(g, h)
      BY <2>6 DEF Steady, Whole
    <3> QED BY <1>0, <2>4, <2>5, <2>6, <3>1, NarrowsTrans
  <2> QED BY <2>6, <2>7 DEF g
<1>6. CASE ~(s.seq > r) /\ ~(End(s) > r)
  <2>1. g = send_ack(f)
    BY <1>6 DEF handle_data
  <2> HIDE DEF g
  <2>2. Steady(g, h) /\ Narrows(f, g) /\ Stays(f, g)
    BY <2>1, AckSteady
  <2> QED BY <2>2 DEF g, Stays
<1> QED BY <1>4, <1>5, <1>6

----------------------------------------------------------------------------
(* Handlers. *)

\* A handler makes g of f: a steady flow, and no edge was moved back.
Serves(f, g, h) == Steady(g, h) /\ Narrows(f, g)

(* One after the other. *)
LEMMA ServesOn ==
  ASSUME NEW f, NEW g, NEW k, NEW h, Steady(f, h), Serves(f, g, h), Serves(g, k, h)
  PROVE  Serves(f, k, h)
<1>1. Sound(f, h) /\ Sound(g, h) /\ Sound(k, h) /\ Narrows(f, g) /\ Narrows(g, k)
  BY DEF Serves, Steady, Whole
<1>2. Narrows(f, k)
  BY <1>1, NarrowsTrans
<1> QED BY <1>2 DEF Serves

(* Nothing is done. *)
LEMMA ServesNone ==
  ASSUME NEW f, NEW h, Steady(f, h)
  PROVE  Serves(f, f, h)
<1>1. Sound(f, h) /\ Types(f)
  BY DEF Steady, Whole, Sound
<1>2. Narrows(f, f)
  BY <1>1, AlikeSelf, AlikeNarrows
<1> QED BY <1>2 DEF Serves

(* Another state of an open connection, or a flag. *)
LEMMA ServesTurn ==
  ASSUME NEW f, NEW g, NEW h, Steady(f, h), Turned(f, g)
  PROVE  Serves(f, g, h)
BY StateTurned DEF Serves, Steady

(* A segment is sent. *)
LEMMA ServesSend ==
  ASSUME NEW f, NEW h, Steady(f, h), NEW kind \in Kinds
  PROVE  LET g == send_segment(f, kind) IN Serves(f, g, h) /\ Alike(f, g)
<1> DEFINE g == send_segment(f, kind)
<1>0. Whole(f, h) /\ Sound(f, h) /\ Calm(f) /\ Beyond(f)
  BY DEF Steady, Whole
<1>1. Whole(g, h) /\ Alike(f, g)
  BY <1>0, SegmentSent
<1> HIDE DEF g
<1>2. Narrows(f, g)
  BY <1>0, <1>1, AlikeNarrows
<1>3. Calm(g) /\ Beyond(g)
  BY <1>0, <1>1 DEF Calm, Beyond, Alike
<1> QED BY <1>1, <1>2, <1>3 DEF g, Steady, Serves

\* Reads, queue and cache are gone, and the application reads no more.
Emptied(f, g) ==
  /\ DOMAIN g = Fields /\ g.state \in States /\ ~Readable(g)
  /\ f.state = "CLOSED" => g.state = "CLOSED"
  /\ g.rcv_nxt = f.rcv_nxt /\ g.fin_received = f.fin_received
  /\ g.delivered = f.delivered /\ g.eof = f.eof
  /\ g.active_read = 0 /\ g.owed = 0
  /\ g.rx_data = <<>> /\ g.ooo_cache = {} /\ g.ooo_bytes = 0
  /\ g.used = f.used - (Len(f.rx_data) + f.ooo_bytes)
  /\ g.out = f.out /\ g.last_wnd = f.last_wnd

(* Nothing is left charged. *)
LEMMA ServesEmpty ==
  ASSUME NEW f, NEW g, NEW h, Steady(f, h), Emptied(f, g)
  PROVE  Serves(f, g, h)
<1>0. Sound(f, h) /\ Types(f) /\ Stream(f) /\ Said(f)
  BY DEF Steady, Whole, Sound
<1>1. /\ DOMAIN g = Fields /\ g.state \in States /\ ~Readable(g)
      /\ g.rcv_nxt = f.rcv_nxt /\ g.fin_received = f.fin_received
      /\ g.delivered = f.delivered /\ g.eof = f.eof /\ g.active_read = 0 /\ g.owed = 0
      /\ g.out = f.out /\ g.last_wnd = f.last_wnd
      /\ f.state = "CLOSED" => g.state = "CLOSED"
  BY DEF Emptied
<1>2. /\ g.rx_data = <<>> /\ g.ooo_cache = {} /\ g.ooo_bytes = 0
      /\ g.used = f.used - (Len(f.rx_data) + f.ooo_bytes)
  BY DEF Emptied
<1>3. Types(g)
  <2>1. <<>> \in Seq(1 .. StreamLen)
    BY EmptySeq
  <2> QED BY <1>0, <1>1, <1>2, <2>1 DEF Types
<1>4. Stream(g)
  <2>1. f.fin_received <=> f.rcv_nxt = FinPlace + 1
    BY <1>0 DEF Stream
  <2>2. PICK d \in 1 .. FinPlace : Stretch(f.delivered, 1, d) /\ (f.eof => d = FinPlace)
    BY <1>0 DEF Stream
  <2> QED BY <1>1, <2>1, <2>2 DEF Stream
<1>5. Reads(g)
  BY <1>1 DEF Reads
<1>6. Len(g.rx_data) = 0
  BY <1>2, EmptySeq
<1>7. Books(g, h)
  <2> DEFINE l == Len(f.rx_data)
             o == f.ooo_bytes
             u == f.used
             v == g.used
             m == Len(g.rx_data)
             n == g.ooo_bytes
  <2>1. /\ l \in Nat /\ o \in Nat /\ u \in Nat /\ h \in Nat /\ u = l + o + h /\ u <= Limit
        /\ v = u - (l + o) /\ m = 0 /\ n = 0 /\ Limit \in Nat /\ MaxRx \in Nat
    BY <1>0, <1>2, <1>6, FlowNumbers, Numbers
  <2> HIDE DEF l, o, u, v, m, n
  <2>2. h \in Nat /\ n \in Nat /\ v = m + n + h /\ v <= Limit /\ m <= MaxRx /\ n <= MaxRx
    BY ONLY <2>1
  <2> QED BY <2>2 DEF v, m, n, Books
<1>8. Cache(g)
  <2>1. Tidy({}) /\ Cardinality({}) = 0
    BY FS_EmptySet DEF Tidy
  <2>2. Total({}) = 0
    <3>1. Held({}) = {}
      BY DEF Held
    <3> QED BY <2>1, <3>1 DEF Total
  <2>3. 0 <= OooMax
    BY Numbers
  <2> QED BY <1>2, <2>1, <2>2, <2>3 DEF Cache
<1>9. Sound(g, h)
  BY <1>3, <1>4, <1>5, <1>7, <1>8 DEF Sound
<1>10. Narrows(f, g)
  <2> DEFINE l == Len(f.rx_data)
             m == Len(g.rx_data)
             r == f.rcv_nxt
             q == g.rcv_nxt
  <2>1. l \in Nat /\ m = 0 /\ r \in Nat /\ q = r
    BY <1>0, <1>1, <1>6, FlowNumbers
  <2> HIDE DEF l, m, r, q
  <2>2. q >= r /\ m + r <= l + q
    BY ONLY <2>1
  <2> QED BY <1>1, <2>2 DEF Narrows, l, m, r, q
<1>11. Said(g)
  BY <1>0, <1>1, <1>9, <1>10, SaidStays
<1>12. Calm(g) /\ Beyond(g)
  BY <1>1, <1>2 DEF Calm, Beyond
<1> QED BY <1>9, <1>10, <1>11, <1>12 DEF Serves, Steady, Whole

\* The waiting read, if there is one, is gone.
Failed(f, k) ==
  /\ DOMAIN k = Fields /\ k.state = f.state /\ k.rcv_nxt = f.rcv_nxt
  /\ k.fin_received = f.fin_received /\ k.delivered = f.delivered /\ k.eof = f.eof
  /\ k.active_read = 0 /\ k.owed = 0
  /\ k.rx_data = f.rx_data /\ k.ooo_cache = f.ooo_cache /\ k.ooo_bytes = f.ooo_bytes
  /\ k.used = f.used /\ k.out = f.out /\ k.last_wnd = f.last_wnd
  /\ k.rx_shutdown = f.rx_shutdown /\ k.app_closed = f.app_closed

(* fail_read. *)
LEMMA ReadFailed ==
  ASSUME NEW f, NEW h, Sound(f, h)
  PROVE  Failed(f, fail_read(f))
<1> DEFINE k == fail_read(f)
<1>0. DOMAIN f = Fields /\ Reads(f) /\ Stream(f)
  BY DEF Sound, Types
<1>1. CASE f.active_read = 0
  <2>1. k = f /\ f.owed = 0
    BY <1>0, <1>1 DEF fail_read, Reads
  <2> HIDE DEF k
  <2> QED BY <1>0, <1>1, <2>1 DEF Failed, k
<1>2. CASE f.active_read # 0
  <2> DEFINE d == f.delivered \o <<>>
             o == f.owed - 1
  <2>1. k = [f EXCEPT !.active_read = 0, !.owed = o, !.delivered = d]
    BY <1>2 DEF fail_read, complete_read
  <2>2. o = 0
    BY <1>0, <1>2 DEF Reads
  <2>3. d = f.delivered
    <3>1. PICK x \in 1 .. FinPlace : Stretch(f.delivered, 1, x)
      BY <1>0 DEF Stream
    <3>2. f.delivered \in Seq(1 .. StreamLen)
      BY <3>1, StretchIs
    <3> QED BY <3>2, ConcatEmptySeq
  <2> HIDE DEF d, o, k
  <2>4. Failed(f, k)
    BY <1>0, <2>1, <2>2, <2>3 DEF Failed, Fields
  <2> QED BY <2>4 DEF k
<1> QED BY <1>1, <1>2

(* What close_flow, shutdown_receive and close do with it. *)
LEMMA Discarded ==
  ASSUME NEW f, NEW h, Sound(f, h), NEW yes, yes = TRUE
  PROVE  LET k == fail_read(f)
         IN  /\ f.state # "CLOSED" =>
                  Emptied(f, [discard(k) EXCEPT !.state = "CLOSED", !.ack_timer = FALSE])
             /\ Emptied(f, discard([k EXCEPT !.rx_shutdown = yes]))
             /\ Emptied(f, discard([k EXCEPT !.app_closed = yes]))
<1> DEFINE k == fail_read(f)
           u == k.used - (Len(k.rx_data) + k.ooo_bytes)
           v == f.used - (Len(f.rx_data) + f.ooo_bytes)
           e == <<>>
           n == {}
           a == [k EXCEPT !.used = u, !.rx_data = e, !.ooo_cache = n, !.ooo_bytes = 0,
                          !.state = "CLOSED", !.ack_timer = FALSE]
           b == [k EXCEPT !.used = u, !.rx_data = e, !.ooo_cache = n, !.ooo_bytes = 0,
                          !.rx_shutdown = yes]
           c == [k EXCEPT !.used = u, !.rx_data = e, !.ooo_cache = n, !.ooo_bytes = 0,
                          !.app_closed = yes]
<1>1. Failed(f, k) /\ f.state \in States
  BY ReadFailed DEF Sound, Types
<1> HIDE DEF k
<1>2. DOMAIN k = Fields /\ u = v
  BY <1>1 DEF Failed
<1>3. [discard(k) EXCEPT !.state = "CLOSED", !.ack_timer = FALSE] = a
  BY <1>2 DEF discard, release, Fields
<1>4. discard([k EXCEPT !.rx_shutdown = yes]) = b
  BY <1>2 DEF discard, release, Fields
<1>5. discard([k EXCEPT !.app_closed = yes]) = c
  BY <1>2 DEF discard, release, Fields
<1> DEFINE Rest(g) ==
             /\ DOMAIN g = Fields /\ g.rcv_nxt = k.rcv_nxt /\ g.fin_received = k.fin_received
             /\ g.delivered = k.delivered /\ g.eof = k.eof
             /\ g.active_read = k.active_read /\ g.owed = k.owed
             /\ g.rx_data = e /\ g.ooo_cache = n /\ g.ooo_bytes = 0 /\ g.used = u
             /\ g.out = k.out /\ g.last_wnd = k.last_wnd
<1> HIDE DEF e, n, u
<1>6. Rest(a) /\ a.state = "CLOSED"
  BY <1>2 DEF Fields
<1>7. Rest(b) /\ b.state = k.state /\ b.rx_shutdown = yes
  BY <1>2 DEF Fields
<1>8. Rest(c) /\ c.state = k.state /\ c.app_closed = yes
  BY <1>2 DEF Fields
<1> HIDE DEF a, b, c
<1>9. ASSUME NEW g, Rest(g), g.state \in States, ~Readable(g), f.state = "CLOSED" => g.state = "CLOSED"
      PROVE  Emptied(f, g)
  BY <1>1, <1>2, <1>9 DEF Emptied, Failed, e, n
<1>10. Emptied(f, a)
  <2>1. a.state \in States /\ ~Readable(a)
    BY <1>6 DEF States, Readable
  <2> HIDE DEF Rest
  <2> QED BY <1>6, <1>9, <2>1
<1>11. Emptied(f, b)
  <2>1. b.state = f.state /\ ~Readable(b)
    BY <1>1, <1>7 DEF Failed, Readable
  <2> HIDE DEF Rest
  <2> QED BY <1>1, <1>7, <1>9, <2>1
<1>12. Emptied(f, c)
  <2>1. c.state = f.state /\ ~Readable(c)
    BY <1>1, <1>8 DEF Failed, Readable
  <2> HIDE DEF Rest
  <2> QED BY <1>1, <1>8, <1>9, <2>1
<1> QED BY <1>3, <1>4, <1>5, <1>10, <1>11, <1>12 DEF k

(* close_flow. *)
LEMMA ServesClose ==
  ASSUME NEW f, NEW h, Steady(f, h)
  PROVE  Serves(f, close_flow(f), h) /\ close_flow(f).state = "CLOSED"
<1> DEFINE g == close_flow(f)
           k == [discard(fail_read(f)) EXCEPT !.state = "CLOSED", !.ack_timer = FALSE]
<1>1. CASE f.state = "CLOSED"
  <2>1. g = f
    BY <1>1 DEF close_flow
  <2> HIDE DEF g
  <2> QED BY <1>1, <2>1, ServesNone DEF g
<1>2. CASE f.state # "CLOSED"
  <2>1. g = k
    BY <1>2 DEF close_flow
  <2>2. Emptied(f, k)
    BY <1>2, Discarded DEF Steady, Whole
  <2>3. k.state = "CLOSED"
    <3> DEFINE j == discard(fail_read(f))
    <3>1. Failed(f, fail_read(f))
      BY ReadFailed DEF Steady, Whole
    <3>2. DOMAIN j = Fields
      BY <3>1 DEF discard, release, Failed
    <3> HIDE DEF j
    <3>3. [j EXCEPT !.state = "CLOSED", !.ack_timer = FALSE].state = "CLOSED"
      BY <3>2 DEF Fields
    <3> QED BY <3>3 DEF j
  <2> HIDE DEF g, k
  <2>4. Serves(f, k, h)
    BY <2>2, ServesEmpty
  <2> QED BY <2>1, <2>3, <2>4 DEF g
<1> QED BY <1>1, <1>2

(* abort_flow. *)
LEMMA ServesAbort ==
  ASSUME NEW f, NEW h, Steady(f, h)
  PROVE  Serves(f, abort_flow(f), h) /\ abort_flow(f).state = "CLOSED"
<1> DEFINE kind == "RST"
           k == send_segment(f, kind)
           g == close_flow(k)
<1>1. kind \in Kinds /\ abort_flow(f) = g
  BY DEF Kinds, abort_flow
<1> HIDE DEF kind
<1>2. Serves(f, k, h)
  BY <1>1, ServesSend
<1> HIDE DEF k
<1>3. Serves(k, g, h) /\ g.state = "CLOSED"
  BY <1>2, ServesClose DEF Serves
<1> HIDE DEF g
<1>4. Serves(f, g, h)
  BY <1>2, <1>3, ServesOn
<1> QED BY <1>1, <1>3, <1>4

(* A flag of the sending side, or the timer, is set. *)
LEMMA Flagged ==
  ASSUME NEW f, NEW h, Steady(f, h), NEW v
  PROVE  /\ Serves(f, [f EXCEPT !.fin_sent = v], h)
         /\ Serves(f, [f EXCEPT !.fin_pending = v], h)
         /\ Serves(f, [f EXCEPT !.fin_acked = v], h)
         /\ Serves(f, [f EXCEPT !.ack_timer = v], h)
<1>1. DOMAIN f = Fields /\ f.state \in States
  BY DEF Steady, Whole, Sound, Types
<1>2. Turned(f, [f EXCEPT !.fin_sent = v])
  BY <1>1 DEF Turned, Fields
<1>3. Turned(f, [f EXCEPT !.fin_pending = v])
  BY <1>1 DEF Turned, Fields
<1>4. Turned(f, [f EXCEPT !.fin_acked = v])
  BY <1>1 DEF Turned, Fields
<1>5. Turned(f, [f EXCEPT !.ack_timer = v])
  BY <1>1 DEF Turned, Fields
<1> QED BY <1>2, <1>3, <1>4, <1>5, ServesTurn

(* accept_flow. *)
LEMMA ServesAccept ==
  ASSUME NEW f, NEW h, Steady(f, h)
  PROVE  LET g == accept_flow(f)
         IN  /\ Serves(f, g, h) /\ (f.state # "CLOSED" => g.state # "CLOSED")
             /\ g.rx_shutdown = f.rx_shutdown /\ g.app_closed = f.app_closed
<1> DEFINE g == accept_flow(f)
           kind == "SYN"
           k == send_segment(f, kind)
           st == "SYN_ACK_SENT"
<1>1. CASE f.state # "SYN_RCVD"
  <2>1. g = f
    BY <1>1 DEF accept_flow
  <2> HIDE DEF g
  <2> QED BY <2>1, ServesNone DEF g
<1>2. CASE f.state = "SYN_RCVD"
  <2>1. g = [k EXCEPT !.state = st]
    BY <1>2 DEF accept_flow
  <2>2. kind \in Kinds /\ st \in States /\ st # "CLOSED"
    BY DEF Kinds, States
  <2> HIDE DEF g, kind, st
  <2>3. Serves(f, k, h) /\ Alike(f, k)
    BY <2>2, ServesSend
  <2> HIDE DEF k
  <2>4. DOMAIN k = Fields /\ k.state # "CLOSED"
    BY <1>2, <2>3 DEF Alike
  <2>5. Turned(k, g)
    BY <2>1, <2>2, <2>4 DEF Turned, Fields
  <2>6. Serves(k, g, h)
    BY <2>3, <2>5, ServesTurn DEF Serves
  <2>7. Serves(f, g, h)
    BY <2>3, <2>6, ServesOn
  <2>8. g.state # "CLOSED" /\ g.rx_shutdown = f.rx_shutdown /\ g.app_closed = f.app_closed
    BY <2>3, <2>4, <2>5 DEF Turned, Alike
  <2> QED BY <2>7, <2>8 DEF g
<1> QED BY <1>1, <1>2

(* send_fin. *)
LEMMA ServesFin ==
  ASSUME NEW f, NEW h, Steady(f, h)
  PROVE  Serves(f, send_fin(f), h)
<1> DEFINE g == send_fin(f)
           yes == TRUE
           a == [f EXCEPT !.fin_pending = yes]
           b == [f EXCEPT !.fin_sent = yes]
           kind == "FIN"
           k == send_segment(f, kind)
           st == CASE f.state = "ESTABLISHED" -> "FIN_WAIT_1"
                   [] f.state = "CLOSE_WAIT" -> "LAST_ACK"
                   [] OTHER -> f.state
<1>1. CASE f.fin_sent \/ f.state = "CLOSED"
  <2>1. g = f
    BY <1>1 DEF send_fin
  <2> HIDE DEF g
  <2> QED BY <2>1, ServesNone DEF g
<1>2. CASE ~(f.fin_sent \/ f.state = "CLOSED") /\ Unacked(f)
  <2>1. g = a
    BY <1>2 DEF send_fin
  <2> HIDE DEF yes
  <2>2. Serves(f, a, h)
    BY Flagged
  <2> HIDE DEF g, a
  <2> QED BY <2>1, <2>2 DEF g
<1>3. CASE /\ ~(f.fin_sent \/ f.state = "CLOSED") /\ ~Unacked(f)
           /\ f.state \in {"SYN_RCVD", "SYN_ACK_SENT"}
  <2>1. g = abort_flow(b)
    BY <1>3 DEF send_fin
  <2> HIDE DEF yes
  <2>2. Serves(f, b, h)
    BY Flagged
  <2> HIDE DEF g, b
  <2>3. Serves(b, g, h)
    BY <2>1, <2>2, ServesAbort DEF Serves
  <2>4. Serves(f, g, h)
    BY <2>2, <2>3, ServesOn
  <2> QED BY <2>4 DEF g
<1>4. CASE /\ ~(f.fin_sent \/ f.state = "CLOSED") /\ ~Unacked(f)
           /\ f.state \notin {"SYN_RCVD", "SYN_ACK_SENT"}
  <2>1. g = [k EXCEPT !.fin_sent = yes, !.state = st]
    BY <1>4 DEF send_fin
  <2>2. kind \in Kinds
    BY DEF Kinds
  <2>3. st \in States /\ st # "CLOSED"
    <3>1. f.state \in States /\ f.state # "CLOSED"
      BY <1>4 DEF Steady, Whole, Sound, Types
    <3> QED BY <3>1 DEF States
  <2> HIDE DEF g, kind, st, yes
  <2>4. Serves(f, k, h) /\ Alike(f, k)
    BY <2>2, ServesSend
  <2> HIDE DEF k
  <2>5. DOMAIN k = Fields /\ k.state # "CLOSED"
    BY <1>4, <2>4 DEF Alike
  <2>6. Turned(k, g)
    BY <2>1, <2>3, <2>5 DEF Turned, Fields
  <2>7. Serves(k, g, h)
    BY <2>4, <2>6, ServesTurn DEF Serves
  <2>8. Serves(f, g, h)
    BY <2>4, <2>7, ServesOn
  <2> QED BY <2>8 DEF g
<1> QED BY <1>1, <1>2, <1>3, <1>4

(* handle_ack. *)
LEMMA ServesHandleAck ==
  ASSUME NEW f, NEW h, Steady(f, h), NEW of_fin
  PROVE  Serves(f, handle_ack(f, of_fin), h)
<1> DEFINE g == handle_ack(f, of_fin)
           yes == TRUE
           no == FALSE
           a == [f EXCEPT !.fin_pending = no]
           b == [a EXCEPT !.fin_sent = yes]
           c == [f EXCEPT !.fin_acked = yes]
           st == IF f.fin_received THEN "TIME_WAIT" ELSE "FIN_WAIT_2"
           d == [c EXCEPT !.state = st]
<1>1. CASE f.state = "SYN_ACK_SENT" /\ f.fin_pending
  <2>1. g = abort_flow(b)
    BY <1>1 DEF handle_ack
  <2> HIDE DEF yes, no
  <2>2. Serves(f, a, h)
    BY Flagged
  <2> HIDE DEF g, a
  <2>3. Serves(a, b, h)
    BY <2>2, Flagged DEF Serves
  <2> HIDE DEF b
  <2>4. Serves(f, b, h)
    BY <2>2, <2>3, ServesOn
  <2>5. Serves(b, g, h)
    BY <2>1, <2>4, ServesAbort DEF Serves
  <2>6. Serves(f, g, h)
    BY <2>4, <2>5, ServesOn
  <2> QED BY <2>6 DEF g
<1>2. CASE ~(f.state = "SYN_ACK_SENT" /\ f.fin_pending) /\ (~of_fin \/ f.state = "CLOSED")
  <2>1. g = f
    BY <1>2 DEF handle_ack
  <2> HIDE DEF g
  <2> QED BY <2>1, ServesNone DEF g
<1>3. CASE ~(f.state = "SYN_ACK_SENT" /\ f.fin_pending) /\ ~(~of_fin \/ f.state = "CLOSED")
  <2>1. \/ f.state = "FIN_WAIT_1" /\ g = d
        \/ f.state = "LAST_ACK" /\ g = close_flow(c)
        \/ g = c
    BY <1>3 DEF handle_ack
  <2>2. st \in States /\ st # "CLOSED"
    BY DEF States
  <2> HIDE DEF yes, no, g, st
  <2>3. Serves(f, c, h)
    BY Flagged
  <2>4. DOMAIN c = Fields /\ c.state = f.state
    BY DEF Steady, Whole, Sound, Types, Fields
  <2> HIDE DEF c
  <2>5. ASSUME f.state = "FIN_WAIT_1" PROVE Serves(f, d, h)
    <3>1. Turned(c, d)
      BY <2>2, <2>4, <2>5 DEF Turned, Fields
    <3> HIDE DEF d
    <3>2. Serves(c, d, h)
      BY <2>3, <3>1, ServesTurn DEF Serves
    <3> QED BY <2>3, <3>2, ServesOn
  <2> HIDE DEF d
  <2>6. Serves(f, close_flow(c), h)
    <3>1. Serves(c, close_flow(c), h)
      BY <2>3, ServesClose DEF Serves
    <3> QED BY <2>3, <3>1, ServesOn
  <2> QED BY <2>1, <2>3, <2>5, <2>6 DEF g
<1> QED BY <1>1, <1>2, <1>3

(* flush_reads, between handlers: what a flow has is given to a read. *)
LEMMA ServesReads ==
  ASSUME NEW f, NEW h, Whole(f, h), Beyond(f)
  PROVE  LET g == flush_reads(f) IN Serves(f, g, h) /\ g.state = f.state
<1> DEFINE g == flush_reads(f)
<1>1. Whole(g, h) /\ Calm(g) /\ Kept(f, g)
  BY ReadsFlushed
<1> HIDE DEF g
<1>2. Sound(f, h) /\ Sound(g, h)
  BY <1>1 DEF Whole
<1>3. Narrows(f, g)
  BY <1>1, <1>2, KeptNarrows
<1>4. Beyond(g) /\ g.state = f.state
  BY <1>1 DEF Kept, Beyond
<1> QED BY <1>1, <1>3, <1>4 DEF g, Serves, Steady

(* handle_segment: the handshake is over. *)
LEMMA ServesEstablished ==
  ASSUME NEW f, NEW h, Steady(f, h), f.state # "CLOSED"
  PROVE  LET g == established(f) IN Serves(f, g, h) /\ g.state # "CLOSED"
<1> DEFINE g == established(f)
           st == "ESTABLISHED"
           k == [f EXCEPT !.state = st]
<1>1. CASE f.state # "SYN_ACK_SENT"
  <2>1. g = f
    BY <1>1 DEF established
  <2> HIDE DEF g
  <2> QED BY <2>1, ServesNone DEF g
<1>2. CASE f.state = "SYN_ACK_SENT"
  <2>1. g = flush_reads(k)
    BY <1>2 DEF established
  <2>2. st \in States /\ st # "CLOSED" /\ DOMAIN f = Fields
    BY DEF States, Steady, Whole, Sound, Types
  <2> HIDE DEF g, st
  <2>3. Turned(f, k)
    BY <1>2, <2>2 DEF Turned, Fields
  <2> HIDE DEF k
  <2>4. Serves(f, k, h) /\ k.state # "CLOSED"
    BY <2>3, ServesTurn DEF Turned
  <2>5. Serves(k, g, h) /\ g.state = k.state
    <3>1. Whole(k, h) /\ Beyond(k)
      BY <2>4 DEF Serves, Steady
    <3> QED BY <2>1, <3>1, ServesReads
  <2>6. Serves(f, g, h)
    BY <2>4, <2>5, ServesOn
  <2> QED BY <2>4, <2>5, <2>6 DEF g
<1> QED BY <1>1, <1>2

(* ... the data. *)
LEMMA ServesPayload ==
  ASSUME NEW f, NEW h, Steady(f, h), f.state # "CLOSED", NEW s, s.data # <<>> => TrueSegment(s)
  PROVE  LET g == payload(f, s) IN Serves(f, g, h) /\ g.state # "CLOSED"
<1> DEFINE g == payload(f, s)
<1>1. CASE s.data = <<>>
  <2>1. g = f
    BY <1>1 DEF payload
  <2> HIDE DEF g
  <2> QED BY <2>1, ServesNone DEF g
<1>2. CASE s.data # <<>>
  <2>1. g = handle_data(f, s)
    BY <1>2 DEF payload
  <2> HIDE DEF g
  <2>2. Steady(g, h) /\ Narrows(f, g) /\ g.state # "CLOSED"
    BY <1>2, <2>1, DataHandled
  <2> QED BY <2>2 DEF g, Serves
<1> QED BY <1>1, <1>2

(* ... the FIN. *)
LEMMA ServesFinal ==
  ASSUME NEW f, NEW h, Steady(f, h), NEW s, s.fin => TrueSegment(s)
  PROVE  Serves(f, final(f, s), h)
<1> DEFINE g == final(f, s)
<1>1. CASE ~s.fin
  <2>1. g = f
    BY <1>1 DEF final
  <2> HIDE DEF g
  <2> QED BY <2>1, ServesNone DEF g
<1>2. CASE s.fin /\ s.data = <<>> /\ s.seq > f.rcv_nxt
  <2>1. g = append_fin(f, s.seq)
    BY <1>2 DEF final
  <2> HIDE DEF g
  <2>2. s.seq = FinPlace
    BY <1>2, SegmentIs
  <2>3. Steady(g, h) /\ Narrows(f, g)
    BY <1>2, <2>1, <2>2, FinCached
  <2> QED BY <2>3 DEF g, Serves
<1>3. CASE s.fin /\ ~(s.data = <<>> /\ s.seq > f.rcv_nxt)
  <2>1. g = handle_fin(f, End(s))
    BY <1>3 DEF final
  <2> HIDE DEF g
  <2>2. End(s) = FinPlace
    BY <1>3, SegmentIs
  <2>3. Whole(f, h) /\ Calm(f) /\ Beyond(f) /\ Sound(f, h)
    BY DEF Steady, Whole
  <2>4. /\ Whole(g, h) /\ Calm(g) /\ Narrows(f, g) /\ SameCache(f, g)
        /\ g.rcv_nxt = IF f.rcv_nxt = FinPlace THEN FinPlace + 1 ELSE f.rcv_nxt
    BY <2>1, <2>2, <2>3, FinHandled
  <2>5. Beyond(g)
    <3>1. CASE f.rcv_nxt # FinPlace
      BY <2>3, <2>4, <3>1 DEF Beyond, SameCache
    <3>2. CASE f.rcv_nxt = FinPlace
      <4>1. ASSUME NEW t \in f.ooo_cache PROVE FALSE
        <5>1. t.seq > FinPlace
          BY <2>3, <3>2 DEF Beyond
        <5>2. t.seq \in 1 .. FinPlace
          BY <2>3, SegmentIs DEF Sound, Cache, Tidy
        <5>3. FinPlace \in Nat
          BY Numbers
        <5> QED BY <5>1, <5>2, <5>3
      <4> QED BY <2>4, <4>1 DEF Beyond, SameCache
    <3> QED BY <3>1, <3>2
  <2> QED BY <2>4, <2>5 DEF g, Serves, Steady
<1> QED BY <1>1, <1>2, <1>3

(* handle_segment. *)
LEMMA ServesSegment ==
  ASSUME NEW f, NEW h, Steady(f, h), NEW s, NEW of_fin,
         s.data # <<>> => TrueSegment(s), s.fin => TrueSegment(s)
  PROVE  Serves(f, handle_segment(f, s, of_fin), h)
<1> DEFINE k == handle_ack(f, of_fin)
           g == acknowledged(k, s)
<1>1. handle_segment(f, s, of_fin) = g
  BY DEF handle_segment
<1>2. Serves(f, k, h)
  BY ServesHandleAck
<1> HIDE DEF k
<1>3. Serves(k, g, h)
  <2>0. Steady(k, h)
    BY <1>2 DEF Serves
  <2>1. CASE k.state \in {"CLOSED", "SYN_RCVD"}
    <3>1. g = k
      BY <2>1 DEF acknowledged
    <3> HIDE DEF g
    <3> QED BY <2>0, <3>1, ServesNone
  <2>2. CASE k.state \notin {"CLOSED", "SYN_RCVD"}
    <3> DEFINE a == established(k)
               b == payload(a, s)
    <3>1. g = final(b, s)
      BY <2>2 DEF acknowledged
    <3> HIDE DEF g
    <3>2. Serves(k, a, h) /\ a.state # "CLOSED"
      BY <2>0, <2>2, ServesEstablished
    <3> HIDE DEF a
    <3>3. Serves(a, b, h)
      BY <3>2, ServesPayload DEF Serves
    <3> HIDE DEF b
    <3>4. Serves(b, g, h)
      BY <3>1, <3>3, ServesFinal DEF Serves
    <3>5. Serves(k, b, h)
      BY <2>0, <3>2, <3>3, ServesOn
    <3> QED BY <2>0, <3>4, <3>5, ServesOn
  <2> QED BY <2>1, <2>2
<1> HIDE DEF g
<1> QED BY <1>1, <1>2, <1>3, ServesOn

(* tcp_flow_start_read. *)
LEMMA ServesStartRead ==
  ASSUME NEW f, NEW h, Steady(f, h), f.state # "CLOSED", NEW total \in ReadSizes
  PROVE  Serves(f, start_read(f, total), h)
<1> DEFINE g == start_read(f, total)
           k == accept_flow(f)
           o == k.owed + 1
           r == [k EXCEPT !.active_read = total, !.owed = o]
<1>1. CASE f.app_closed \/ f.rx_shutdown
  <2>1. g = f
    BY <1>1 DEF start_read
  <2> HIDE DEF g
  <2> QED BY <2>1, ServesNone DEF g
<1>2. CASE ~(f.app_closed \/ f.rx_shutdown)
  <2>1. g = IF total = 0 \/ k.active_read # 0 THEN k ELSE flush_reads(r)
    BY <1>2 DEF start_read
  <2> HIDE DEF g
  <2>2. /\ Serves(f, k, h) /\ k.state # "CLOSED"
        /\ k.rx_shutdown = f.rx_shutdown /\ k.app_closed = f.app_closed
    BY ServesAccept
  <2> HIDE DEF k
  <2>3. CASE total = 0 \/ k.active_read # 0
    BY <2>1, <2>2, <2>3 DEF g
  <2>4. CASE ~(total = 0 \/ k.active_read # 0)
    <3>0. /\ Whole(k, h) /\ Sound(k, h) /\ Types(k) /\ Stream(k) /\ Reads(k) /\ Beyond(k)
          /\ DOMAIN k = Fields
      BY <2>2 DEF Serves, Steady, Whole, Sound, Types
    <3>1. o = 1
      BY <2>4, <3>0 DEF Reads
    <3> HIDE DEF o
    <3>2. /\ DOMAIN r = Fields /\ r.state = k.state /\ r.rcv_nxt = k.rcv_nxt
          /\ r.rx_data = k.rx_data /\ r.ooo_cache = k.ooo_cache /\ r.ooo_bytes = k.ooo_bytes
          /\ r.used = k.used /\ r.delivered = k.delivered /\ r.eof = k.eof
          /\ r.fin_received = k.fin_received /\ r.rx_shutdown = k.rx_shutdown
          /\ r.app_closed = k.app_closed /\ r.out = k.out /\ r.last_wnd = k.last_wnd
          /\ r.active_read = total /\ r.owed = o
      BY <3>0 DEF Fields
    <3> HIDE DEF r
    <3>3. Readable(k) /\ Readable(r) /\ Upto(r) = Upto(k)
      BY <1>2, <2>2, <3>2 DEF Readable, Upto
    <3>4. Stream(r)
      <4>1. k.fin_received <=> k.rcv_nxt = FinPlace + 1
        BY <3>0 DEF Stream
      <4>2. PICK d \in 1 .. FinPlace :
              /\ Stretch(k.delivered, 1, d) /\ (k.eof => d = FinPlace)
              /\ Stretch(k.rx_data, d, Upto(k))
        BY <3>0, <3>3 DEF Stream
      <4> QED BY <3>2, <3>3, <4>1, <4>2 DEF Stream
    <3>5. Reads(r)
      BY <2>4, <3>1, <3>2, <3>3 DEF Reads
    <3>6. /\ k.rcv_nxt \in Nat /\ Len(k.rx_data) \in Nat
          /\ k.used = Len(k.rx_data) + k.ooo_bytes + h /\ k.used <= Limit
          /\ Len(k.rx_data) <= MaxRx /\ k.rx_data \in Seq(1 .. StreamLen)
          /\ k.rcv_nxt \in 1 .. (FinPlace + 1) /\ k.fin_received \in BOOLEAN
      BY <3>0, FlowNumbers DEF Types
    <3>7. k.rcv_nxt >= k.rcv_nxt /\ Len(k.rx_data) + k.rcv_nxt <= Len(k.rx_data) + k.rcv_nxt
      BY ONLY <3>6
    <3>8. /\ r.rcv_nxt \in 1 .. (FinPlace + 1) /\ r.rcv_nxt >= k.rcv_nxt
          /\ r.rx_data \in Seq(1 .. StreamLen) /\ r.fin_received \in BOOLEAN
          /\ r.used = Len(r.rx_data) + r.ooo_bytes + h /\ r.used <= Limit /\ Len(r.rx_data) <= MaxRx
          /\ Len(r.rx_data) + k.rcv_nxt <= Len(k.rx_data) + r.rcv_nxt
      BY ONLY <3>2, <3>6, <3>7
    <3>9. r.active_read \in ReadSizes \cup {0}
      BY <3>2
    <3>10. Whole(r, h) /\ Narrows(k, r)
      BY <3>0, <3>2, <3>4, <3>5, <3>8, <3>9, WholeAgain
    <3>11. Beyond(r)
      BY <3>0, <3>2 DEF Beyond
    <3>12. g = flush_reads(r)
      BY <2>1, <2>4
    <3>13. Serves(r, g, h)
      BY <3>10, <3>11, <3>12, ServesReads
    <3>14. Narrows(k, g) /\ Steady(g, h)
      <4>1. Sound(r, h) /\ Sound(g, h) /\ Narrows(r, g)
        BY <3>10, <3>13 DEF Serves, Steady, Whole
      <4>2. Narrows(k, g)
        BY <3>0, <3>10, <4>1, NarrowsTrans
      <4> QED BY <3>13, <4>2 DEF Serves
    <3>15. Serves(f, g, h)
      BY <2>2, <3>14, ServesOn DEF Serves
    <3> QED BY <3>15 DEF g
  <2> QED BY <2>3, <2>4
<1> QED BY <1>1, <1>2

(* tcp_flow_shutdown_receive. *)
LEMMA ServesShutdownReceive ==
  ASSUME NEW f, NEW h, Steady(f, h)
  PROVE  Serves(f, discard([fail_read(f) EXCEPT !.rx_shutdown = TRUE]), h)
<1> DEFINE yes == TRUE
           g == discard([fail_read(f) EXCEPT !.rx_shutdown = yes])
<1>1. yes = TRUE /\ Sound(f, h)
  BY DEF Steady, Whole
<1>2. Emptied(f, g)
  <2> HIDE DEF yes
  <2> QED BY <1>1, Discarded
<1> HIDE DEF g
<1>3. Serves(f, g, h)
  BY <1>2, ServesEmpty
<1> QED BY <1>3 DEF g

(* tcp_flow_close: the queue and the cache go before the FIN or the RST. *)
LEMMA ServesAppClose ==
  ASSUME NEW f, NEW h, Steady(f, h)
  PROVE  LET g == discard([fail_read(f) EXCEPT !.app_closed = TRUE])
         IN  Serves(f, IF Unacked(g) THEN abort_flow(g) ELSE send_fin(g), h)
<1> DEFINE yes == TRUE
           g == discard([fail_read(f) EXCEPT !.app_closed = yes])
           k == IF Unacked(g) THEN abort_flow(g) ELSE send_fin(g)
<1>1. yes = TRUE /\ Sound(f, h)
  BY DEF Steady, Whole
<1>2. Emptied(f, g)
  <2> HIDE DEF yes
  <2> QED BY <1>1, Discarded
<1> HIDE DEF g
<1>3. Serves(f, g, h)
  BY <1>2, ServesEmpty
<1>4. Serves(g, abort_flow(g), h) /\ Serves(g, send_fin(g), h)
  BY <1>3, ServesAbort, ServesFin DEF Serves
<1>5. Serves(g, k, h)
  BY <1>4
<1> HIDE DEF k
<1>6. Serves(f, k, h)
  BY <1>3, <1>5, ServesOn
<1> QED BY <1>6 DEF k, g

----------------------------------------------------------------------------
(* The invariant is kept. *)

Peers == [una : 0 .. (FinPlace + 1), edge : 1 .. (FinPlace + 1 + MaxRx),
          fin_seen : BOOLEAN, lost : 0 .. MaxFaults]

(* What the peer may have heard. *)
LEMMA NoticeIs ==
  ASSUME NEW n \in Notices
  PROVE  /\ n.ack \in 1 .. (FinPlace + 1) /\ n.ack + n.wnd \in Nat
         /\ n.ack + n.wnd \in 1 .. (FinPlace + 1 + MaxRx)
<1> DEFINE a == n.ack
           w == n.wnd
<1>1. a \in 1 .. (FinPlace + 1) /\ w \in 0 .. MaxRx /\ FinPlace \in Nat /\ MaxRx \in Nat
  BY Numbers DEF Notices
<1> HIDE DEF a, w
<1>2. a + w \in Nat /\ a + w \in 1 .. (FinPlace + 1 + MaxRx)
  BY ONLY <1>1
<1> QED BY <1>1, <1>2 DEF a, w

(* A handler's end: what it sent reaches the peer or is lost. *)
LEMMA HandlerEnds ==
  ASSUME Inv, NEW g, Serves(flow, g, other.held), Becomes(g), other' = other
  PROVE  Inv'
<1> DEFINE h == other.held
<1>1. PICK k \in 0 .. Len(g.out) :
        /\ flow' = [g EXCEPT !.out = <<>>]
        /\ k < Len(g.out) => peer.lost + other.takes < MaxFaults
        /\ peer' = [una |-> IF k = 0 THEN peer.una ELSE Most(peer.una, g.out[k].ack),
                    edge |-> IF k = 0 THEN peer.edge
                             ELSE Most(peer.edge, g.out[k].ack + g.out[k].wnd),
                    fin_seen |-> peer.fin_seen \/ (k > 0 /\ g.out[k].kind = "FIN"),
                    lost |-> IF k < Len(g.out) THEN peer.lost + 1 ELSE peer.lost]
  BY DEF Becomes
<1>2. /\ Steady(flow, h) /\ Fits(flow, peer.edge) /\ peer \in Peers
      /\ other \in [held : 0 .. Limit, takes : 0 .. MaxFaults]
      /\ peer.lost + other.takes <= MaxFaults
  BY DEF Inv, Peers
<1>3. /\ Sound(flow, h) /\ Whole(g, h) /\ Sound(g, h) /\ Said(g) /\ Calm(g) /\ Beyond(g)
      /\ Narrows(flow, g) /\ DOMAIN g = Fields
  BY <1>2 DEF Serves, Steady, Whole, Sound, Types
<1>4. /\ g.out \in Seq(Notices) /\ g.last_wnd \in 0 .. FixedWnd
      /\ \A i \in 1 .. Len(g.out) : Fits(g, g.out[i].ack + g.out[i].wnd)
  BY <1>3 DEF Said
<1> DEFINE e == <<>>
<1>5. flow' = [g EXCEPT !.out = e]
  BY <1>1
<1>6. e = <<>> /\ e \in Seq(Notices) /\ Len(e) = 0
  BY EmptySeq
<1> HIDE DEF e
<1>7. Alike(g, flow') /\ flow'.out = e /\ flow'.last_wnd = g.last_wnd
  BY <1>3, <1>5 DEF Alike, Fields
<1>8. Sound(flow', h)
  BY <1>3, <1>7, AlikeSound
<1>9. Said(flow')
  <2>1. 1 .. Len(flow'.out) = {}
    BY <1>6, <1>7
  <2> QED BY <1>4, <1>6, <1>7, <2>1 DEF Said
<1>10. Calm(flow') /\ Beyond(flow')
  BY <1>3, <1>7 DEF Calm, Beyond, Alike
<1>11. Steady(flow', h)
  BY <1>8, <1>9, <1>10 DEF Steady, Whole
<1>12. /\ peer.una \in 0 .. (FinPlace + 1) /\ peer.edge \in 1 .. (FinPlace + 1 + MaxRx)
       /\ peer.lost \in 0 .. MaxFaults /\ peer.fin_seen \in BOOLEAN /\ peer.edge \in Nat
       /\ other.takes \in 0 .. MaxFaults
  BY <1>2, Numbers DEF Peers
<1>13. ASSUME k # 0
       PROVE  /\ g.out[k].ack \in 1 .. (FinPlace + 1) /\ g.out[k].ack + g.out[k].wnd \in Nat
              /\ g.out[k].ack + g.out[k].wnd \in 1 .. (FinPlace + 1 + MaxRx)
              /\ Fits(g, g.out[k].ack + g.out[k].wnd)
  <2>1. Len(g.out) \in Nat
    BY <1>4, LenProperties
  <2>2. k \in 1 .. Len(g.out)
    BY <1>13, <2>1
  <2>3. g.out[k] \in Notices
    BY <1>4, <2>2, ElementOfSeq
  <2> QED BY <1>4, <2>2, <2>3, NoticeIs
<1>14. Fits(g, peer.edge)
  BY <1>2, <1>3, <1>12, NarrowsFits
<1> DEFINE una == IF k = 0 THEN peer.una ELSE Most(peer.una, g.out[k].ack)
           edge == IF k = 0 THEN peer.edge ELSE Most(peer.edge, g.out[k].ack + g.out[k].wnd)
           seen == peer.fin_seen \/ (k > 0 /\ g.out[k].kind = "FIN")
           lost == IF k < Len(g.out) THEN peer.lost + 1 ELSE peer.lost
<1>15. peer' = [una |-> una, edge |-> edge, fin_seen |-> seen, lost |-> lost]
  BY <1>1
<1>16. una \in 0 .. (FinPlace + 1)
  <2>1. CASE k = 0
    BY <1>12, <2>1
  <2>2. CASE k # 0
    <3> DEFINE x == peer.una
               y == g.out[k].ack
    <3>1. x \in 0 .. (FinPlace + 1) /\ y \in 1 .. (FinPlace + 1) /\ FinPlace \in Nat
      BY <1>12, <1>13, <2>2, Numbers
    <3>2. una = Most(x, y)
      BY <2>2
    <3> HIDE DEF x, y, una
    <3> QED BY ONLY <3>1, <3>2 DEF Most
  <2> QED BY <2>1, <2>2
<1>17. edge \in 1 .. (FinPlace + 1 + MaxRx) /\ Fits(g, edge)
  <2>1. edge = peer.edge \/ (k # 0 /\ edge = g.out[k].ack + g.out[k].wnd)
    BY DEF Most
  <2> HIDE DEF edge
  <2> QED BY <1>12, <1>13, <1>14, <2>1
<1>18. seen \in BOOLEAN
  BY <1>12
<1>19. lost \in 0 .. MaxFaults /\ lost + other.takes <= MaxFaults
  <2> DEFINE x == peer.lost
             y == other.takes
  <2>1. /\ x \in 0 .. MaxFaults /\ y \in 0 .. MaxFaults /\ x + y <= MaxFaults /\ MaxFaults \in Nat
        /\ (lost = x \/ (lost = x + 1 /\ x + y < MaxFaults))
    BY <1>1, <1>2, <1>12, Numbers
  <2> HIDE DEF x, y, lost
  <2>2. lost \in 0 .. MaxFaults /\ lost + y <= MaxFaults
    BY ONLY <2>1
  <2> QED BY <2>2 DEF y
<1> HIDE DEF una, edge, seen, lost
<1>20. peer' \in Peers /\ peer'.edge = edge /\ peer'.lost = lost
  BY <1>15, <1>16, <1>17, <1>18, <1>19 DEF Peers
<1>21. Fits(flow', edge)
  BY <1>7, <1>17 DEF Fits, Alike
<1>22. /\ Steady(flow', other'.held) /\ flow'.out = <<>> /\ Fits(flow', peer'.edge)
       /\ other' \in [held : 0 .. Limit, takes : 0 .. MaxFaults]
       /\ peer'.lost + other'.takes <= MaxFaults
  BY <1>2, <1>6, <1>7, <1>11, <1>19, <1>20, <1>21
<1> QED BY <1>20, <1>22 DEF Inv, Peers

(* Other flows take budget and give it back: this flow's books go on to balance. *)
LEMMA BooksMoved ==
  ASSUME NEW f, NEW h, NEW j \in Nat, NEW u, Steady(f, h), u <= Limit,
         u = Len(f.rx_data) + f.ooo_bytes + j
  PROVE  LET g == [f EXCEPT !.used = u]
         IN  Steady(g, j) /\ Narrows(f, g) /\ Stays(f, g) /\ g.out = f.out /\ g.rx_data = f.rx_data
<1> DEFINE g == [f EXCEPT !.used = u]
<1>0. /\ Sound(f, h) /\ Types(f) /\ Stream(f) /\ Reads(f) /\ Books(f, h) /\ Cache(f) /\ Said(f)
      /\ Calm(f) /\ Beyond(f) /\ DOMAIN f = Fields
  BY DEF Steady, Whole, Sound, Types
<1>1. Frame(f, g) /\ g.rcv_nxt = f.rcv_nxt /\ g.rx_data = f.rx_data
  BY <1>0 DEF Frame, Fields
<1>2. /\ g.active_read = f.active_read /\ g.owed = f.owed /\ g.delivered = f.delivered
      /\ g.eof = f.eof /\ g.used = u
  BY <1>0 DEF Fields
<1> HIDE DEF g
<1>3. Readable(g) = Readable(f) /\ Upto(g) = Upto(f)
  BY <1>1 DEF Frame, Readable, Upto
<1>4. Types(g)
  BY <1>0, <1>1, <1>2 DEF Types, Frame
<1>5. Stream(g)
  <2>1. f.fin_received <=> f.rcv_nxt = FinPlace + 1
    BY <1>0 DEF Stream
  <2>2. PICK d \in 1 .. FinPlace :
          /\ Stretch(f.delivered, 1, d) /\ (f.eof => d = FinPlace)
          /\ Readable(f) => Stretch(f.rx_data, d, Upto(f))
    BY <1>0 DEF Stream
  <2>3. /\ g.fin_received <=> g.rcv_nxt = FinPlace + 1
        /\ Stretch(g.delivered, 1, d) /\ (g.eof => d = FinPlace)
        /\ Readable(g) => Stretch(g.rx_data, d, Upto(g))
    BY <1>1, <1>2, <1>3, <2>1, <2>2 DEF Frame
  <2> QED BY <2>3 DEF Stream
<1>6. Reads(g)
  BY <1>0, <1>2, <1>3 DEF Reads
<1>7. Books(g, j)
  BY <1>0, <1>1, <1>2 DEF Books, Frame
<1>8. Cache(g)
  BY <1>0, <1>1 DEF Cache, Frame
<1>9. Sound(g, j)
  BY <1>4, <1>5, <1>6, <1>7, <1>8 DEF Sound
<1>10. Narrows(f, g)
  <2>1. f.rcv_nxt \in Nat /\ Len(f.rx_data) \in Nat
    BY <1>0, FlowNumbers
  <2> QED BY <1>1, <2>1 DEF Narrows, Frame
<1>11. Said(g)
  <2>1. g.out = f.out /\ g.last_wnd = f.last_wnd
    BY <1>1 DEF Frame
  <2> QED BY <1>0, <1>9, <1>10, <2>1, SaidStays
<1>12. Calm(g) /\ Beyond(g) /\ Stays(f, g) /\ g.out = f.out
  BY <1>0, <1>1, <1>2 DEF Calm, Beyond, Stays, Frame
<1> QED BY <1>1, <1>9, <1>10, <1>11, <1>12 DEF g, Steady, Whole

(* ... and the invariant with them. *)
LEMMA OthersMove ==
  ASSUME Inv, NEW j \in 0 .. Limit, NEW u, u <= Limit, u = Len(flow.rx_data) + flow.ooo_bytes + j,
         flow' = [flow EXCEPT !.used = u], peer' = peer,
         other' \in [held : 0 .. Limit, takes : 0 .. MaxFaults], other'.held = j,
         peer.lost + other'.takes <= MaxFaults
  PROVE  Inv'
<1>1. Steady(flow, other.held) /\ flow.out = <<>> /\ Fits(flow, peer.edge)
  BY DEF Inv
<1>2. j \in Nat
  BY Numbers
<1>3. /\ Steady(flow', j) /\ Stays(flow, flow') /\ flow'.out = flow.out
      /\ flow'.rx_data = flow.rx_data
  BY <1>1, <1>2, BooksMoved
<1>4. Fits(flow', peer.edge)
  BY <1>1, <1>3 DEF Fits, Stays
<1>5. peer \in [una : 0 .. (FinPlace + 1), edge : 1 .. (FinPlace + 1 + MaxRx),
                fin_seen : BOOLEAN, lost : 0 .. MaxFaults]
  BY DEF Inv
<1> QED BY <1>1, <1>3, <1>4, <1>5 DEF Inv

(* OtherReserve. *)
LEMMA OthersTake ==
  ASSUME Inv, NEW n \in TakeSizes, OtherReserve(n)
  PROVE  Inv'
<1> DEFINE h == other.held
           j == h + n
           u == flow.used + n
           t == other.takes
<1>1. /\ CanReserve(flow, n) /\ other' = [held |-> j, takes |-> t + 1] /\ peer' = peer
      /\ flow' = [flow EXCEPT !.used = u] /\ peer.lost + t < MaxFaults
  BY DEF OtherReserve, reserve
<1>2. /\ Sound(flow, h) /\ t \in 0 .. MaxFaults /\ peer.lost \in 0 .. MaxFaults
  BY DEF Inv, Steady, Whole
<1>3. j \in 0 .. Limit /\ u <= Limit /\ u = Len(flow.rx_data) + flow.ooo_bytes + j
  <2> DEFINE l == Len(flow.rx_data)
             o == flow.ooo_bytes
             v == flow.used
  <2>1. /\ l \in Nat /\ o \in Nat /\ h \in Nat /\ v = l + o + h /\ Limit \in Nat
        /\ v <= Limit - n
    BY <1>1, <1>2, FlowNumbers, Numbers DEF CanReserve
  <2>2. n \in Nat
    <3>1. TakeSizes \subseteq Nat
      BY Numbers
    <3> QED BY <3>1, Zenon
  <2>3. j = h + n /\ u = v + n
    OBVIOUS
  <2> HIDE DEF l, o, v, h, j, u
  <2>4. j \in 0 .. Limit /\ u <= Limit /\ u = l + o + j
    BY ONLY <2>1, <2>2, <2>3
  <2> QED BY <2>4 DEF l, o
<1>4. t + 1 \in 0 .. MaxFaults /\ peer.lost + (t + 1) <= MaxFaults
  <2> DEFINE x == peer.lost
  <2>1. x \in 0 .. MaxFaults /\ x + t < MaxFaults /\ MaxFaults \in Nat
    BY <1>1, <1>2, Numbers
  <2> HIDE DEF x, t
  <2>2. t + 1 \in 0 .. MaxFaults /\ x + (t + 1) <= MaxFaults
    BY ONLY <1>2, <2>1
  <2> QED BY <2>2 DEF x
<1> HIDE DEF j, u, t
<1>5. /\ other' \in [held : 0 .. Limit, takes : 0 .. MaxFaults] /\ other'.held = j
      /\ peer.lost + other'.takes <= MaxFaults
  BY <1>1, <1>3, <1>4
<1> QED BY <1>1, <1>3, <1>5, OthersMove

(* OtherRelease. *)
LEMMA OthersGive ==
  ASSUME Inv, OtherRelease
  PROVE  Inv'
<1> DEFINE h == other.held
           u == flow.used - h
           z == 0
<1>1. other' = [other EXCEPT !.held = z] /\ peer' = peer /\ flow' = [flow EXCEPT !.used = u]
  BY DEF OtherRelease, release
<1>2. /\ Sound(flow, h) /\ other \in [held : 0 .. Limit, takes : 0 .. MaxFaults]
      /\ peer.lost + other.takes <= MaxFaults
  BY DEF Inv, Steady, Whole
<1>3. z \in 0 .. Limit /\ u <= Limit /\ u = Len(flow.rx_data) + flow.ooo_bytes + z
  <2> DEFINE l == Len(flow.rx_data)
             o == flow.ooo_bytes
             v == flow.used
  <2>1. /\ l \in Nat /\ o \in Nat /\ h \in Nat /\ v = l + o + h /\ Limit \in Nat /\ v <= Limit
        /\ u = v - h
    BY <1>2, FlowNumbers, Numbers
  <2> HIDE DEF l, o, v, h, u
  <2>2. z \in 0 .. Limit /\ u <= Limit /\ u = l + o + z
    BY ONLY <2>1 DEF z
  <2> QED BY <2>2 DEF l, o
<1> HIDE DEF z, u
<1>4. /\ other' \in [held : 0 .. Limit, takes : 0 .. MaxFaults] /\ other'.held = z
      /\ peer.lost + other'.takes <= MaxFaults
  BY <1>1, <1>2, <1>3
<1> QED BY <1>1, <1>3, <1>4, OthersMove

(* A segment of the peer is a stretch of the stream, perhaps an empty one. *)
LEMMA PeerSends ==
  ASSUME Inv, NEW a \in 1 .. FinPlace, NEW b \in 1 .. FinPlace, a <= b, NEW fin \in BOOLEAN,
         fin => b = FinPlace, NEW of_fin
  PROVE  Serves(flow, handle_segment(flow, Segment(a, b, fin), of_fin), other.held)
<1> DEFINE s == Segment(a, b, fin)
<1>1. Steady(flow, other.held)
  BY DEF Inv
<1>2. (s.data = <<>> <=> a = b) /\ s.fin = fin
  BY SegmentParts
<1>3. a \in Nat /\ b \in Nat
  BY Numbers
<1>4. a < b \/ fin => TrueSegment(s)
  BY SegmentTrue
<1> HIDE DEF s
<1>5. (s.data # <<>> => TrueSegment(s)) /\ (s.fin => TrueSegment(s))
  BY <1>2, <1>3, <1>4
<1>6. Serves(flow, handle_segment(flow, s, of_fin), other.held)
  BY <1>1, <1>5, ServesSegment
<1> QED BY <1>6 DEF s

(* The flow that a SYN makes, perhaps with data. *)
LEMMA StartsSteady ==
  ASSUME Init
  PROVE  Inv
<1>1. PICK tfo \in 0 .. Least(StreamLen, SegMax) :
        LET kept == IF tfo <= MaxRx /\ tfo <= Limit THEN tfo ELSE 0
        IN  flow = [state |-> "SYN_RCVD", rcv_nxt |-> 1 + kept, rx_data |-> Bytes(1, 1 + kept),
                    ooo_cache |-> {}, ooo_bytes |-> 0, used |-> kept,
                    active_read |-> 0, owed |-> 0, delivered |-> <<>>, eof |-> FALSE,
                    last_wnd |-> 0, ack_pending |-> FALSE, ack_timer |-> FALSE,
                    fin_received |-> FALSE, fin_sent |-> FALSE, fin_acked |-> FALSE,
                    fin_pending |-> FALSE, rx_shutdown |-> FALSE, app_closed |-> FALSE,
                    out |-> <<>>]
  BY DEF Init
<1> DEFINE kept == IF tfo <= MaxRx /\ tfo <= Limit THEN tfo ELSE 0
           r == 1 + kept
           q == Bytes(1, r)
           e == <<>>
           n == {}
           no == FALSE
           st == "SYN_RCVD"
<1>2. kept \in Nat /\ kept <= StreamLen /\ kept <= MaxRx /\ kept <= Limit
  <2>1. Least(StreamLen, SegMax) \in Nat /\ Least(StreamLen, SegMax) <= StreamLen
    BY ReceiveAssumption DEF Least
  <2>2. tfo \in Nat /\ tfo <= StreamLen
    BY <2>1, Numbers
  <2> QED BY <2>2, Numbers
<1>3. flow = [state |-> st, rcv_nxt |-> r, rx_data |-> q,
              ooo_cache |-> n, ooo_bytes |-> 0, used |-> kept,
              active_read |-> 0, owed |-> 0, delivered |-> e, eof |-> no,
              last_wnd |-> 0, ack_pending |-> no, ack_timer |-> no,
              fin_received |-> no, fin_sent |-> no, fin_acked |-> no,
              fin_pending |-> no, rx_shutdown |-> no, app_closed |-> no,
              out |-> e]
  BY <1>1
<1>4. other = [held |-> 0, takes |-> 0] /\ peer = [una |-> 0, edge |-> 1, fin_seen |-> no, lost |-> 0]
  BY DEF Init
<1> HIDE DEF kept
<1>5. /\ r \in 1 .. FinPlace /\ r \in 1 .. (FinPlace + 1) /\ r # FinPlace + 1 /\ 1 \in 1 .. FinPlace
      /\ 1 <= r /\ r - 1 = kept /\ r \in Nat
  BY <1>2, Numbers
<1> HIDE DEF r
<1>6. Stretch(q, 1, r) /\ q \in Seq(1 .. StreamLen) /\ Len(q) = kept
  <2>1. Stretch(q, 1, r)
    BY <1>5 DEF Stretch
  <2> HIDE DEF q
  <2> QED BY <1>5, <2>1, StretchIs
<1>7. Stretch(e, 1, 1)
  <2>1. Bytes(1, 1) = <<>> /\ 1 <= 1
    BY <1>5, BytesEmpty
  <2> QED BY <1>5, <2>1 DEF Stretch
<1>8. e \in Seq(Notices) /\ Len(e) = 0 /\ e = <<>>
  BY EmptySeq
<1>9. n = {} /\ ~no /\ no \in BOOLEAN /\ st \in States /\ st # "CLOSED"
  BY DEF States
<1> HIDE DEF q, e, n, no, st
<1>10. /\ DOMAIN flow = Fields /\ flow.state = st /\ flow.rcv_nxt = r /\ flow.rx_data = q
       /\ flow.ooo_cache = n /\ flow.ooo_bytes = 0 /\ flow.used = kept /\ flow.active_read = 0
       /\ flow.owed = 0 /\ flow.delivered = e /\ flow.eof = no /\ flow.last_wnd = 0
       /\ flow.fin_received = no /\ flow.out = e
  BY <1>3 DEF Fields
<1>11. other.held = 0 /\ other.takes = 0 /\ peer.edge = 1 /\ peer.lost = 0
  BY <1>4
<1>12. Types(flow)
  BY <1>5, <1>6, <1>9, <1>10 DEF Types
<1>13. Stream(flow)
  <2>1. Upto(flow) = r
    BY <1>9, <1>10 DEF Upto
  <2>2. flow.fin_received <=> flow.rcv_nxt = FinPlace + 1
    BY <1>5, <1>9, <1>10
  <2>3. Stretch(flow.delivered, 1, 1) /\ ~flow.eof /\ Stretch(flow.rx_data, 1, Upto(flow))
    BY <1>6, <1>7, <1>9, <1>10, <2>1
  <2> QED BY <1>5, <2>2, <2>3 DEF Stream
<1>14. Reads(flow)
  BY <1>10 DEF Reads
<1>15. Books(flow, 0)
  <2>1. kept = kept + 0 + 0 /\ 0 <= MaxRx
    BY <1>2, Numbers
  <2> QED BY <1>2, <1>6, <1>10, <2>1 DEF Books
<1>16. Cache(flow)
  <2>1. Tidy({}) /\ Cardinality({}) = 0
    BY FS_EmptySet DEF Tidy
  <2>2. Total({}) = 0
    <3>1. Held({}) = {}
      BY DEF Held
    <3> QED BY <2>1, <3>1 DEF Total
  <2>3. 0 <= OooMax
    BY Numbers
  <2> QED BY <1>9, <1>10, <2>1, <2>2, <2>3 DEF Cache
<1>17. Said(flow)
  <2>1. 1 .. Len(flow.out) = {} /\ 0 \in 0 .. FixedWnd
    BY <1>8, <1>10, Numbers
  <2> QED BY <1>8, <1>10, <2>1 DEF Said
<1>18. Steady(flow, other.held)
  <2>1. Calm(flow) /\ Beyond(flow)
    BY <1>9, <1>10 DEF Calm, Beyond
  <2> QED BY <1>11, <1>12, <1>13, <1>14, <1>15, <1>16, <1>17, <2>1 DEF Steady, Whole, Sound
<1>19. Fits(flow, peer.edge)
  BY <1>5, <1>10, <1>11 DEF Fits
<1>20. /\ other \in [held : 0 .. Limit, takes : 0 .. MaxFaults]
       /\ peer \in [una : 0 .. (FinPlace + 1), edge : 1 .. (FinPlace + 1 + MaxRx),
                    fin_seen : BOOLEAN, lost : 0 .. MaxFaults]
       /\ peer.lost + other.takes <= MaxFaults
  BY <1>4, <1>9, <1>11, Numbers
<1> QED BY <1>8, <1>10, <1>18, <1>19, <1>20 DEF Inv

(* Every step of the engine, the peer, the application and other flows. *)
LEMMA StepsSteady ==
  ASSUME Inv, [Next]_vars
  PROVE  Inv'
<1> DEFINE h == other.held
<1>0. Steady(flow, h)
  BY DEF Inv
<1>1. ASSUME NEW a \in 1 .. FinPlace, NEW b \in 1 .. FinPlace, NEW fin \in BOOLEAN,
             NEW of_fin \in BOOLEAN, PeerSegment(a, b, fin, of_fin)
      PROVE  Inv'
  <2>1. /\ a <= b /\ (fin => b = FinPlace) /\ other' = other
        /\ Becomes(handle_segment(flow, Segment(a, b, fin), of_fin))
    BY <1>1 DEF PeerSegment
  <2> DEFINE g == handle_segment(flow, Segment(a, b, fin), of_fin)
  <2>2. Serves(flow, g, h)
    BY <2>1, PeerSends
  <2> HIDE DEF g
  <2>3. Becomes(g)
    BY <2>1 DEF g
  <2> QED BY <2>1, <2>2, <2>3, HandlerEnds
<1>2. CASE PeerProbe
  <2> DEFINE a == peer.una
             no == FALSE
             g == handle_segment(flow, Segment(a, a + 1, no), no)
  <2>1. a > 0 /\ a <= StreamLen /\ Becomes(g) /\ other' = other
    BY <1>2 DEF PeerProbe, Connected
  <2>2. a \in 1 .. FinPlace /\ a + 1 \in 1 .. FinPlace /\ a <= a + 1
    <3>1. a \in 0 .. (FinPlace + 1)
      BY DEF Inv
    <3> HIDE DEF a
    <3> QED BY <2>1, <3>1, Numbers
  <2>3. no \in BOOLEAN /\ ~no
    OBVIOUS
  <2> HIDE DEF no, a
  <2>4. Serves(flow, g, h)
    BY <2>2, <2>3, PeerSends
  <2> HIDE DEF g
  <2> QED BY <2>1, <2>4, HandlerEnds
<1>3. CASE PeerSynAgain
  <2> DEFINE kind == "SYN"
             g == send_segment(flow, kind)
  <2>1. Becomes(g) /\ other' = other /\ kind \in Kinds
    BY <1>3 DEF PeerSynAgain, Kinds
  <2> HIDE DEF kind
  <2>2. Serves(flow, g, h)
    BY <1>0, <2>1, ServesSend
  <2> HIDE DEF g
  <2> QED BY <2>1, <2>2, HandlerEnds
<1>4. CASE PeerRst
  <2>1. Becomes(close_flow(flow)) /\ other' = other
    BY <1>4 DEF PeerRst
  <2> QED BY <1>0, <2>1, ServesClose, HandlerEnds
<1>5. CASE AckTimer
  <2> DEFINE no == FALSE
             k == [flow EXCEPT !.ack_timer = no]
             g == IF flow.ack_pending THEN send_ack(k) ELSE k
  <2>1. Becomes(g) /\ other' = other
    BY <1>5 DEF AckTimer
  <2> HIDE DEF no
  <2>2. Serves(flow, k, h)
    BY <1>0, Flagged
  <2> HIDE DEF k
  <2>3. Serves(k, send_ack(k), h)
    BY <2>2, AckSteady DEF Serves
  <2>4. Serves(flow, send_ack(k), h)
    BY <1>0, <2>2, <2>3, ServesOn
  <2>5. Serves(flow, g, h)
    BY <2>2, <2>4
  <2> HIDE DEF g
  <2> QED BY <2>1, <2>5, HandlerEnds
<1>6. ASSUME NEW total \in ReadSizes, AppRead(total)
      PROVE  Inv'
  <2>1. flow.state # "CLOSED" /\ Becomes(start_read(flow, total)) /\ other' = other
    BY <1>6 DEF AppRead, Does
  <2>2. Serves(flow, start_read(flow, total), h)
    BY <1>0, <2>1, ServesStartRead
  <2> QED BY <2>1, <2>2, HandlerEnds
<1>7. CASE AppAccept
  <2>1. Becomes(accept_flow(flow)) /\ other' = other
    BY <1>7 DEF AppAccept, Does
  <2>2. Serves(flow, accept_flow(flow), h)
    BY <1>0, ServesAccept
  <2> QED BY <2>1, <2>2, HandlerEnds
<1>8. CASE AppReset
  <2>1. Becomes(abort_flow(flow)) /\ other' = other
    BY <1>8 DEF AppReset, Does
  <2> QED BY <1>0, <2>1, ServesAbort, HandlerEnds
<1>9. CASE AppShutdownReceive
  <2> DEFINE g == discard([fail_read(flow) EXCEPT !.rx_shutdown = TRUE])
  <2>1. Becomes(g) /\ other' = other
    BY <1>9 DEF AppShutdownReceive, Does
  <2>2. Serves(flow, g, h)
    BY <1>0, ServesShutdownReceive
  <2> HIDE DEF g
  <2> QED BY <2>1, <2>2, HandlerEnds
<1>10. CASE AppShutdownSend
  <2>1. Becomes(send_fin(flow)) /\ other' = other
    BY <1>10 DEF AppShutdownSend, Does
  <2> QED BY <1>0, <2>1, ServesFin, HandlerEnds
<1>11. CASE AppClose
  <2> DEFINE k == discard([fail_read(flow) EXCEPT !.app_closed = TRUE])
             g == IF Unacked(k) THEN abort_flow(k) ELSE send_fin(k)
  <2>1. Becomes(g) /\ other' = other
    BY <1>11 DEF AppClose, Does
  <2>2. Serves(flow, g, h)
    BY <1>0, ServesAppClose
  <2> HIDE DEF g
  <2> QED BY <2>1, <2>2, HandlerEnds
<1>12. CASE Sweep
  <2>1. (Becomes(abort_flow(flow)) \/ Becomes(close_flow(flow))) /\ other' = other
    BY <1>12 DEF Sweep, Does
  <2> QED BY <1>0, <2>1, ServesAbort, ServesClose, HandlerEnds
<1>13. CASE CloseAll
  <2>1. Becomes(close_flow(flow)) /\ other' = other
    BY <1>13 DEF CloseAll, Does
  <2> QED BY <1>0, <2>1, ServesClose, HandlerEnds
<1>14. ASSUME NEW n \in TakeSizes, OtherReserve(n)
       PROVE  Inv'
  BY <1>14, OthersTake
<1>15. CASE OtherRelease
  BY <1>15, OthersGive
<1>16. CASE UNCHANGED vars
  BY <1>16 DEF vars, Inv, Steady, Whole, Sound, Types, Stream, Reads, Books, Cache, Said, Calm,
     Beyond, Fits, Readable, Upto
<1> QED BY <1>1, <1>2, <1>3, <1>4, <1>5, <1>6, <1>7, <1>8, <1>9, <1>10, <1>11, <1>12, <1>13,
       <1>14, <1>15, <1>16 DEF Next

----------------------------------------------------------------------------
(* What the invariant says of the properties. *)

(* The stream. *)
LEMMA InvStreamPrefix ==
  ASSUME Inv
  PROVE  StreamPrefix
<1>0. Types(flow) /\ Stream(flow)
  BY DEF Inv, Steady, Whole, Sound
<1>1. PICK d \in 1 .. FinPlace :
        /\ Stretch(flow.delivered, 1, d) /\ (flow.eof => d = FinPlace)
        /\ Readable(flow) => Stretch(flow.rx_data, d, Upto(flow))
  BY <1>0 DEF Stream
<1>2. /\ Len(flow.delivered) = d - 1 /\ d \in Nat /\ flow.delivered = Bytes(1, d)
      /\ Len(flow.delivered) \in Nat
  BY <1>1, StretchIs DEF Stretch
<1>3. Len(flow.delivered) + 1 = d
  <2> DEFINE l == Len(flow.delivered)
  <2>1. l = d - 1 /\ d \in Nat /\ l \in Nat
    BY <1>2
  <2> HIDE DEF l
  <2>2. l + 1 = d
    BY ONLY <2>1
  <2> QED BY <2>2 DEF l
<1>4. flow.delivered = Bytes(1, Len(flow.delivered) + 1)
  BY <1>2, <1>3
<1>5. flow.eof => Len(flow.delivered) = StreamLen
  BY <1>1, <1>2, Numbers
<1>6. ASSUME Readable(flow)
      PROVE  flow.delivered \o flow.rx_data
               = Bytes(1, IF flow.fin_received THEN flow.rcv_nxt - 1 ELSE flow.rcv_nxt)
  <2>1. Stretch(flow.delivered \o flow.rx_data, 1, Upto(flow))
    BY <1>1, <1>6, StretchJoin
  <2>2. flow.delivered \o flow.rx_data = Bytes(1, Upto(flow))
    BY <2>1 DEF Stretch
  <2>3. Upto(flow) = IF flow.fin_received THEN flow.rcv_nxt - 1 ELSE flow.rcv_nxt
    BY <1>0, UptoIs, Numbers
  <2> QED BY <2>2, <2>3
<1> QED BY <1>4, <1>5, <1>6 DEF StreamPrefix, Readable

(* The books. *)
LEMMA InvAccounted ==
  ASSUME Inv
  PROVE  Accounted
BY DEF Inv, Steady, Whole, Sound, Books, Cache, Accounted

(* The types, and the cache. *)
LEMMA InvReceiveInv ==
  ASSUME Inv
  PROVE  ReceiveInv
<1>0. /\ Sound(flow, other.held) /\ Types(flow) /\ Cache(flow) /\ Said(flow) /\ Beyond(flow)
      /\ Tidy(flow.ooo_cache)
  BY DEF Inv, Steady, Whole, Sound, Cache
<1>1. ASSUME NEW s \in flow.ooo_cache
      PROVE  /\ s \in Segments /\ s.seq > flow.rcv_nxt /\ s.data = Bytes(s.seq, End(s))
             /\ (s.fin => End(s) = FinPlace)
             /\ \A t \in flow.ooo_cache \ {s} : End(s) < t.seq \/ End(t) < s.seq
  <2>1. PICK a \in 1 .. FinPlace, b \in 1 .. FinPlace, fin \in BOOLEAN :
          s = Segment(a, b, fin) /\ a <= b /\ (fin => b = FinPlace)
    BY <1>0 DEF Tidy, TrueSegment
  <2>2. s \in Segments
    <3>1. Bytes(a, b) \in Seq(1 .. StreamLen)
      BY <2>1, BytesType
    <3> QED BY <2>1, <3>1 DEF Segment, Segments
  <2>3. s.seq > flow.rcv_nxt
    BY <1>0 DEF Beyond
  <2>4. s.data = Bytes(s.seq, End(s)) /\ (s.fin => End(s) = FinPlace)
    BY <2>1, SegmentParts
  <2>5. \A t \in flow.ooo_cache \ {s} : Apart(s, t)
    BY <1>0 DEF Tidy
  <2> QED BY <2>2, <2>3, <2>4, <2>5 DEF Apart
<1>2. CacheTidy
  BY <1>0, <1>1 DEF CacheTidy, Cache
<1>3. flow.ooo_bytes \in 0 .. MaxRx /\ flow.used \in 0 .. Limit /\ Len(flow.rx_data) <= MaxRx
  <2>1. /\ flow.ooo_bytes \in Nat /\ flow.ooo_bytes <= MaxRx /\ flow.used \in Nat
        /\ flow.used <= Limit /\ Len(flow.rx_data) <= MaxRx
    BY <1>0, FlowNumbers
  <2> QED BY <2>1, Numbers
<1>4. TypeOK
  <2>1. /\ flow.state \in States /\ flow.rcv_nxt \in 1 .. (FinPlace + 1)
        /\ flow.rx_data \in Seq(1 .. StreamLen) /\ flow.active_read \in ReadSizes \cup {0}
    BY <1>0 DEF Types
  <2>2. flow.last_wnd \in 0 .. FixedWnd
    BY <1>0 DEF Said
  <2>3. /\ flow.out = <<>> /\ other \in [held : 0 .. Limit, takes : 0 .. MaxFaults]
        /\ peer \in [una : 0 .. (FinPlace + 1), edge : 1 .. (FinPlace + 1 + MaxRx),
                     fin_seen : BOOLEAN, lost : 0 .. MaxFaults]
    BY DEF Inv
  <2>4. flow.ooo_cache \subseteq Segments
    BY <1>1
  <2> QED BY <1>3, <2>1, <2>2, <2>3, <2>4 DEF TypeOK
<1> QED BY <1>2, <1>4 DEF ReceiveInv

(* The reads. *)
LEMMA InvReadsOwed ==
  ASSUME Inv
  PROVE  ReadsOwed
BY DEF Inv, Steady, Whole, Sound, Reads, Calm, Readable, ReadsOwed

(* The edge. *)
LEMMA InvEdgeFits ==
  ASSUME Inv
  PROVE  EdgeFits
BY DEF Inv, Fits, EdgeFits, Least

----------------------------------------------------------------------------
(* Theorems. *)

(* Every state of the specification is one between two handlers. *)
THEOREM SteadyAlways == Spec => []Inv
<1>1. Init => Inv
  BY StartsSteady
<1>2. Inv /\ [Next]_vars => Inv'
  BY StepsSteady
<1> QED BY <1>1, <1>2, PTL DEF Spec

(* The reads return the stream in order, complete and once, whichever     *)
(* segments overlap, come early, again or are refused, for any sizes of    *)
(* windows, queues, cache and reads (deliver_data, flush_reads, flush_ooo, *)
(* ooo_append); its end is seen only after its last byte (handle_fin).     *)
THEOREM StreamDelivered == Spec => []StreamPrefix
<1>1. Inv => StreamPrefix
  BY InvStreamPrefix
<1> QED BY <1>1, SteadyAlways, PTL

(* What is charged to the accountant is what the queue, the cache and the  *)
(* other flows hold (buffer_accountant, on every path of the receive side).*)
THEOREM BudgetAccounted == Spec => []Accounted
<1>1. Inv => Accounted
  BY InvAccounted
<1> QED BY <1>1, SteadyAlways, PTL

(* Types and limits, and the cache: disjoint, merged, bounded, true to the *)
(* stream and beyond the next byte (ooo_append, flush_ooo).                *)
THEOREM CacheKeptTidy == Spec => []ReceiveInv
<1>1. Inv => ReceiveInv
  BY InvReceiveInv
<1> QED BY <1>1, SteadyAlways, PTL

(* A read is completed once, and none waits for what is there, or on a     *)
(* closed flow (flush_reads, close_flow).                                  *)
THEOREM ReadsCompleted == Spec => []ReadsOwed
<1>1. Inv => ReadsOwed
  BY InvReadsOwed
<1> QED BY <1>1, SteadyAlways, PTL

(* Everything up to the widest edge the peer was told fits in the queue    *)
(* (current_wnd, build_segment against deliver_data).                      *)
THEOREM WindowKept == Spec => []EdgeFits
<1>1. Inv => EdgeFits
  BY InvEdgeFits
<1> QED BY <1>1, SteadyAlways, PTL

=============================================================================
