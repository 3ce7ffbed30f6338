------------------------------ MODULE UdpEngine ------------------------------
(***************************************************************************)
(* The UDP engine: sessions per client endpoint, their queue of received   *)
(* datagrams, the accept queue, the idle-timeout heap with its single      *)
(* timer, and sends with IPv4 fragmentation: src/udp_engine.cpp and        *)
(* include/tunio/detail/udp_engine.hpp.                                    *)
(*                                                                         *)
(* Everything runs on one strand, so a handler is one step: an operator    *)
(* from engine records to engine records, composed as the code composes    *)
(* its calls.  What does not run at once is explicit: the waits of the     *)
(* timer (armed, or their callback queued, cancelled or not) and the       *)
(* writes handed to the device's write queue.                              *)
(*                                                                         *)
(* A datagram is its number and its length; lengths, the MTU and fragment  *)
(* offsets are bytes.  Time is a counter; the timer may fire up to Late    *)
(* units after its target.  Each behaviour has a script, drawn from        *)
(* Scripts, that says how often the clients and the application may act.   *)
(***************************************************************************)
EXTENDS Naturals, Sequences, FiniteSets, FiniteSetsExt, SequencesExt

CONSTANTS
  Keys,          \* client endpoints (udp_session_key)
  V6Keys,        \* the ones of family 6
  MaxFlows,      \* max_udp_flows
  MaxPending,    \* max_pending_new_sessions
  MaxRx,         \* max_rx_queue_per_flow
  Limit,         \* max_total_buffer
  IdleTimeout,   \* udp_idle_timeout
  OtherTimeout,  \* what the application may set instead
  PushInterval,  \* k_expiry_push_interval
  Late,          \* bound: how late a timer callback runs
  Scripts        \* bound: how often each operation happens, lengths, MTU, end

ASSUME UdpAssumption ==
  /\ V6Keys \subseteq Keys
  /\ \A n \in {MaxFlows, MaxPending, MaxRx, Limit, Late} : n \in Nat
  /\ \A n \in {IdleTimeout, OtherTimeout, PushInterval} : n \in Nat \ {0}

ScriptType ==
  [packets : Nat, accepts : Nat, cancels : Nat, reads : Nat, sends : Nat, closes : Nat,
   sets : Nat, shuts : Nat, lens : SUBSET Nat, valid : SUBSET BOOLEAN, totals : SUBSET Nat,
   mtu : Nat, until : Nat]

ASSUME ScriptAssumption == Scripts \subseteq ScriptType

VARIABLES
  now,    \* udp_clock::now()
  eng,    \* the engine, its sessions and the operations given to it
  left,   \* what the script still allows
  active  \* history: when each session last sent, received or was set

vars == <<now, eng, left, active>>

UdpHdr == 8
IpHdr(v6) == IF v6 THEN 40 ELSE 20
Down8(n) == 8 * (n \div 8)
Least(a, b) == IF a < b THEN a ELSE b
Minus(a, b) == IF a > b THEN a - b ELSE 0

Sids(e) == DOMAIN e.sess
Open(e) == {s \in Sids(e) : ~e.sess[s].closed}
LiveEntry(e, x) == ~e.sess[x.sid].closed /\ e.sess[x.sid].gen = x.gen
Live(e) == {x \in e.heap : LiveEntry(e, x)}

-----------------------------------------------------------------------------
(***************************************************************************)
(* Completions.  ops are the reads, accs the accepts and sends the sends   *)
(* of the application; times counts how often the handler of one was run.  *)
(***************************************************************************)
post_read(e, i, st, n, len) ==
  [e EXCEPT !.ops[i].st = st, !.ops[i].n = n, !.ops[i].len = len,
            !.ops[i].times = @ + 1]

post_accept(e, i, st, s) ==
  [e EXCEPT !.accs[i] = [st |-> st, sid |-> s, times |-> @.times + 1]]

\* How often a handler is in a queue of handlers.
Runs(q, i) == Cardinality({j \in DOMAIN q : q[j] = i})

aborted_read(o, k) == [o EXCEPT !.st = "aborted", !.n = 0, !.len = 0, !.times = @ + k]
aborted_accept(o, k) == [st |-> "aborted", sid |-> 0, times |-> o.times + k]

\* Every handler of a queue is run with an error.
abort_reads(ops, q) ==
  [i \in DOMAIN ops |-> IF Runs(q, i) = 0 THEN ops[i] ELSE aborted_read(ops[i], Runs(q, i))]

abort_accepts(accs, q) ==
  [i \in DOMAIN accs |-> IF Runs(q, i) = 0 THEN accs[i] ELSE aborted_accept(accs[i], Runs(q, i))]

post_send(e, i, st) ==
  [e EXCEPT !.sends[i].st = st, !.sends[i].times = @ + 1]

-----------------------------------------------------------------------------
(***************************************************************************)
(* The expiry heap.  Heap order only decides which entries are at the top: *)
(* the heap is a set.  A wait that is cancelled has its callback queued    *)
(* with an error unless it was queued already.                             *)
(***************************************************************************)
cancel_waits(ws) == {IF w.st = "armed" THEN [w EXCEPT !.st = "aborted"] ELSE w : w \in ws}

wait_until(e, target) ==
  [e EXCEPT !.wait_gen = @ + 1, !.target = target, !.waiting = TRUE,
            !.waits = cancel_waits(@) \union
                        {[gen |-> e.wait_gen + 1, at |-> target, st |-> "armed"]}]

FirstLive(e) == Min({x.at : x \in Live(e)})

\* The timer already waits for something, so it is left alone.
MutantArmNeverEarlier(e) ==
  IF Live(e) = {} \/ e.waiting THEN e ELSE wait_until(e, FirstLive(e))

\* The stale entries at the top go, then the timer is set for the first one.
arm_expiry_timer(e) ==
  LET live == Live(e)
      target == FirstLive(e)
      p == [e EXCEPT !.heap = {x \in @ : x \in live \/ x.at > target}]
  IN CASE live = {} -> [e EXCEPT !.heap = {}]
       [] live # {} /\ p.waiting /\ target >= p.target -> p
       [] OTHER -> wait_until(p, target)

push_entry(e, s) ==
  arm_expiry_timer(
    [e EXCEPT !.sess[s].gen = @ + 1, !.sess[s].heap_live = TRUE,
              !.sess[s].last_push = now,
              !.heap = @ \union {[at |-> e.sess[s].expiry, gen |-> e.sess[s].gen + 1,
                                  sid |-> s]}])

\* The throttle skips the expiry too.
MutantRefreshThrottledExpiry(e, s) ==
  LET d == e.sess[s]
  IN IF d.closed \/ (d.heap_live /\ now - d.last_push < PushInterval) THEN e
     ELSE push_entry([e EXCEPT !.sess[s].expiry = now + d.timeout], s)

refresh_expiry(e, s) ==
  LET d == e.sess[s]
      r == [e EXCEPT !.sess[s].expiry = now + d.timeout]
  IN IF d.closed THEN e
     ELSE IF d.heap_live /\ now - d.last_push < PushInterval THEN r
     ELSE push_entry(r, s)

close_session(e, s) ==
  LET d == e.sess[s]
  IN [e EXCEPT
        !.ops = abort_reads(e.ops, d.reads), !.sess[s].reads = <<>>, !.sess[s].closed = TRUE,
        !.sessions[d.key] = 0, !.count = @ - 1,
        !.used = @ - d.rx_bytes, !.sess[s].rx_bytes = 0, !.sess[s].rx = <<>>]

\* A session that closes stays in the list of new sessions.
MutantRemoveKeepsPending(e, s) == IF e.sess[s].closed THEN e ELSE close_session(e, s)

remove_session(e, s) ==
  IF e.sess[s].closed THEN e
  ELSE [close_session(e, s) EXCEPT
          !.pending = IF e.sess[s].pending
                      THEN RemoveAt(@, CHOOSE i \in DOMAIN @ : @[i] = s) ELSE @,
          !.sess[s].pending = FALSE]

Due(e) == {x \in e.heap : x.at <= now}
Top(S) == CHOOSE x \in S : \A y \in S : x.at <= y.at

\* The first entry leaves the heap: a session past its expiry goes, one that
\* was used meanwhile is noted.
pop_due(r) ==
  LET e == r.eng
      x == Top(Due(e))
      p == [e EXCEPT !.heap = @ \ {x}]
  IN CASE ~LiveEntry(e, x) -> [r EXCEPT !.eng = p]
       [] LiveEntry(e, x) /\ e.sess[x.sid].expiry <= now ->
            [r EXCEPT !.eng = remove_session(p, x.sid)]
       [] OTHER -> [eng |-> [p EXCEPT !.sess[x.sid].heap_live = FALSE],
                    extended |-> Append(r.extended, x.sid)]

pop_all_due(e) ==
  LET popped[n \in 0..Cardinality(Due(e))] ==
        IF n = 0 THEN [eng |-> e, extended |-> <<>>] ELSE pop_due(popped[n - 1])
  IN popped[Cardinality(Due(e))]

\* Sessions used meanwhile are pushed again, counted from now.
refresh_all(e, sids) ==
  LET after[n \in 0..Len(sids)] ==
        IF n = 0 THEN e ELSE refresh_expiry(after[n - 1], sids[n])
  IN after[Len(sids)]

\* An entry that is due is forgotten when its session was used meanwhile.
MutantExtendedDropped(e, ec) ==
  LET f == [e EXCEPT !.waiting = FALSE]
  IN arm_expiry_timer(IF ec THEN f ELSE pop_all_due(f).eng)

on_expiry_timer(e, ec) ==
  LET f == [e EXCEPT !.waiting = FALSE]
      r == pop_all_due(f)
  IN arm_expiry_timer(IF ec THEN f ELSE refresh_all(r.eng, r.extended))

-----------------------------------------------------------------------------
(***************************************************************************)
(* Receiving.                                                              *)
(***************************************************************************)
hand_over(e, s, n, len) ==
  LET i == Head(e.sess[s].reads)
  IN post_read([e EXCEPT !.sess[s].reads = Tail(@)], i, "ok", n, Least(len, e.ops[i].size))

queue_datagram(e, s, n, len) ==
  IF e.sess[s].rx_bytes + len > MaxRx \/ e.used + len > Limit
  THEN [e EXCEPT !.dropped = @ + 1]
  ELSE [e EXCEPT !.sess[s].rx = Append(@, [n |-> n, len |-> len]),
                 !.sess[s].rx_bytes = @ + len, !.used = @ + len]

deliver_datagram(e, s, n, len) ==
  LET r == refresh_expiry(e, s)
  IN CASE e.sess[s].closed -> e
       [] ~e.sess[s].closed /\ r.sess[s].reads # <<>> ->
            hand_over(r, s, n, len)
       [] OTHER -> queue_datagram(r, s, n, len)

new_session(k) ==
  [key |-> k, closed |-> FALSE, pending |-> FALSE, timeout |-> IdleTimeout,
   expiry |-> now + IdleTimeout, gen |-> 0, last_push |-> 0, heap_live |-> FALSE,
   rx |-> <<>>, rx_bytes |-> 0, reads |-> <<>>]

\* A session that nobody waits for joins the list of new sessions.
announce(e, s) ==
  IF e.waiters # <<>>
  THEN post_accept([e EXCEPT !.waiters = Tail(@)], Head(e.waiters), "ok", s)
  ELSE [e EXCEPT !.sess[s].pending = TRUE, !.pending = Append(@, s)]

create_session(e, k, n, len) ==
  LET s == Len(e.sess) + 1
      c == [e EXCEPT !.sess = Append(@, new_session(k)), !.sessions[k] = s,
                     !.count = @ + 1]
  IN announce(refresh_expiry(deliver_datagram(c, s, n, len), s), s)

\* The limit on waiting sessions counts one too many, the other is missing.
MutantUnlimited(e) == e.waiters = <<>> /\ Len(e.pending) > MaxPending

no_room(e) ==
  \/ Cardinality({j \in Keys : e.sessions[j] # 0}) >= MaxFlows
  \/ e.waiters = <<>> /\ Len(e.pending) >= MaxPending

\* A packet whose header, length or checksum is wrong is only counted.
on_packet(e, k, n, len, valid) ==
  LET s == e.sessions[k]
      there == s # 0 /\ ~e.sess[s].closed
      t == [e EXCEPT !.sessions[k] = 0]
  IN CASE ~valid -> [e EXCEPT !.dropped = @ + 1]
       [] valid /\ there -> deliver_datagram(e, s, n, len)
       [] valid /\ ~there /\ no_room(t) -> [t EXCEPT !.dropped = @ + 1]
       [] OTHER -> create_session(t, k, n, len)

\* Only the bytes copied are given back.
MutantPopReleasesCopied(e, s, i) ==
  LET d == Head(e.sess[s].rx)
      copied == Least(d.len, e.ops[i].size)
  IN post_read([e EXCEPT !.sess[s].rx = Tail(@), !.sess[s].rx_bytes = @ - d.len,
                         !.used = @ - copied], i, "ok", d.n, copied)

udp_pop_queued_datagram(e, s, i) ==
  LET d == Head(e.sess[s].rx)
  IN post_read([e EXCEPT !.sess[s].rx = Tail(@), !.sess[s].rx_bytes = @ - d.len,
                         !.used = @ - d.len],
               i, "ok", d.n, Least(d.len, e.ops[i].size))

\* The youngest read is served first.
MutantReceiveInFront(e, s, size) ==
  LET i == Len(e.ops) + 1
      f == [e EXCEPT !.ops = Append(@, [sid |-> s, size |-> size, st |-> "wait",
                                        n |-> 0, len |-> 0, times |-> 0])]
  IN CASE e.sess[s].closed -> post_read(f, i, "bad_descriptor", 0, 0)
       [] ~e.sess[s].closed /\ e.sess[s].rx # <<>> -> udp_pop_queued_datagram(f, s, i)
       [] OTHER -> [f EXCEPT !.sess[s].reads = <<i>> \o @]

start_receive(e, s, size) ==
  LET i == Len(e.ops) + 1
      f == [e EXCEPT !.ops = Append(@, [sid |-> s, size |-> size, st |-> "wait",
                                        n |-> 0, len |-> 0, times |-> 0])]
  IN CASE e.sess[s].closed -> post_read(f, i, "bad_descriptor", 0, 0)
       [] ~e.sess[s].closed /\ e.sess[s].rx # <<>> -> udp_pop_queued_datagram(f, s, i)
       [] OTHER -> [f EXCEPT !.sess[s].reads = Append(@, i)]

\* Sessions closed while they waited are skipped.
async_accept(e) ==
  LET i == Len(e.accs) + 1
      f == [e EXCEPT !.accs = Append(@, [st |-> "wait", sid |-> 0, times |-> 0])]
      fresh == {j \in DOMAIN f.pending : ~f.sess[f.pending[j]].closed}
      j == Min(fresh)
  IN IF fresh = {} THEN [f EXCEPT !.pending = <<>>, !.waiters = Append(@, i)]
     ELSE post_accept([f EXCEPT !.pending = SubSeq(@, j + 1, Len(@)),
                                !.sess[f.pending[j]].pending = FALSE],
                      i, "ok", f.pending[j])

cancel_accepts(e) ==
  [e EXCEPT !.waiters = <<>>, !.accs = abort_accepts(e.accs, e.waiters)]

\* Only those still open are in the table.
remove_all(e) ==
  LET after[n \in 0..Len(e.sess)] ==
        IF n = 0 THEN e ELSE remove_session(after[n - 1], n)
  IN after[Len(e.sess)]

close_all(e) ==
  LET c == [e EXCEPT !.waits = cancel_waits(@), !.waiting = FALSE]
  IN [cancel_accepts([remove_all(c) EXCEPT !.pending = <<>>]) EXCEPT !.heap = {}]

-----------------------------------------------------------------------------
(***************************************************************************)
(* Sending.  A packet is the offset and length of its part of the UDP      *)
(* datagram, header included, its MF flag and what became of the write.    *)
(***************************************************************************)
FragMax(mtu) == Down8(Minus(mtu, IpHdr(FALSE)))
FirstPart(mtu) == UdpHdr + Down8(Minus(FragMax(mtu), UdpHdr))

\* Where the loop is before its round i, and how many rounds it takes.
FragStart(mtu, i) == IF i = 1 THEN 0 ELSE FirstPart(mtu) + (i - 2) * FragMax(mtu)
FragCount(mtu, n) == 1 + (Minus(n, FirstPart(mtu)) + FragMax(mtu) - 1) \div FragMax(mtu)

udp_write_ipv4_fragments(mtu, n) ==
  LET End(i) == Least(n, FragStart(mtu, i + 1))
  IN [i \in 1..FragCount(mtu, n) |->
        [off |-> FragStart(mtu, i), len |-> End(i) - FragStart(mtu, i),
         more |-> End(i) < n, st |-> "queued"]]

udp_send_single(n) == <<[off |-> 0, len |-> n, more |-> FALSE, st |-> "queued"]>>

oversized(v6, total) == total > Minus(left.mtu, IpHdr(v6) + UdpHdr)

\* Why a send is refused before it counts as use of the session.
send_error(e, s, v6, total) ==
  LET v6Session == e.sess[s].key \in V6Keys
  IN CASE e.sess[s].closed -> "bad_descriptor"
       [] ~e.sess[s].closed /\ v6 # v6Session -> "address_family"
       [] ~e.sess[s].closed /\ v6 = v6Session
            /\ (UdpHdr + total > 65535 \/ (oversized(v6, total) /\ v6)) -> "message_size"
       [] OTHER -> "none"

start_send(e, s, v6, total) ==
  LET i == Len(e.sends) + 1
      n == UdpHdr + total
      f == [e EXCEPT !.sends = Append(@, [sid |-> s, total |-> total, st |-> "wait",
                       pkts |-> <<>>, pending |-> 0, err |-> FALSE, times |-> 0])]
      r == refresh_expiry(f, s)
      error == send_error(e, s, v6, total)
      large == oversized(v6, total)
      pkts == IF large THEN udp_write_ipv4_fragments(left.mtu, n) ELSE udp_send_single(n)
  IN CASE error # "none" -> post_send(f, i, error)
       [] error = "none" /\ large /\ FragMax(left.mtu) < UdpHdr ->
            post_send(r, i, "message_size")
       [] OTHER -> [r EXCEPT !.sends[i].pkts = pkts, !.sends[i].pending = Len(pkts)]

\* The last answer decides.
MutantOnFragLastError(e, i, j, ok) ==
  LET f == [e EXCEPT !.sends[i].pkts[j].st = IF ok THEN "written" ELSE "failed",
                     !.sends[i].err = ~ok,
                     !.sends[i].pending = @ - 1]
  IN IF f.sends[i].pending # 0 THEN f
     ELSE post_send(f, i, IF f.sends[i].err THEN "error" ELSE "ok")

\* The write queue's answer for one packet; the last one completes the send.
on_frag(e, i, j, ok) ==
  LET f == [e EXCEPT !.sends[i].pkts[j].st = IF ok THEN "written" ELSE "failed",
                     !.sends[i].err = @ \/ ~ok,
                     !.sends[i].pending = @ - 1]
  IN IF f.sends[i].pending # 0 THEN f
     ELSE post_send(f, i, IF f.sends[i].err THEN "error" ELSE "ok")

-----------------------------------------------------------------------------
Engine0 ==
  [sess |-> <<>>, sessions |-> [k \in Keys |-> 0], count |-> 0, pending |-> <<>>,
   waiters |-> <<>>, heap |-> {}, waiting |-> FALSE, target |-> 0, wait_gen |-> 0,
   waits |-> {}, used |-> 0, dropped |-> 0, packets |-> 0,
   ops |-> <<>>, accs |-> <<>>, sends |-> <<>>, shut |-> FALSE]

Init ==
  /\ now = 0
  /\ eng = Engine0
  /\ left \in Scripts
  /\ active = <<>>

\* What the application was given by an accept, it may use, closed or not.
Given == {eng.accs[i].sid : i \in {j \in DOMAIN eng.accs : eng.accs[j].st = "ok"}}

Touched(s) == [active EXCEPT ![s] = now]

\* handle_packet gives the engine a datagram of a client.
Packet(k, len, valid) ==
  /\ ~eng.shut /\ left.packets > 0
  /\ left' = [left EXCEPT !.packets = @ - 1]
  /\ eng' = [on_packet(eng, k, eng.packets + 1, len, valid) EXCEPT !.packets = @ + 1]
  /\ active' = LET new == [s \in Sids(eng') |-> IF s \in Sids(eng) THEN active[s] ELSE now]
               IN IF valid /\ eng.sessions[k] # 0 THEN Touched(eng.sessions[k]) ELSE new
  /\ UNCHANGED now

Accept ==
  /\ ~eng.shut /\ left.accepts > 0
  /\ left' = [left EXCEPT !.accepts = @ - 1]
  /\ eng' = async_accept(eng)
  /\ UNCHANGED <<now, active>>

Cancel ==
  /\ ~eng.shut /\ left.cancels > 0
  /\ left' = [left EXCEPT !.cancels = @ - 1]
  /\ eng' = cancel_accepts(eng)
  /\ UNCHANGED <<now, active>>

Receive(s, size) ==
  /\ left.reads > 0
  /\ left' = [left EXCEPT !.reads = @ - 1]
  /\ eng' = start_receive(eng, s, size)
  /\ UNCHANGED <<now, active>>

Send(s, v6, total) ==
  /\ left.sends > 0
  /\ left' = [left EXCEPT !.sends = @ - 1]
  /\ eng' = start_send(eng, s, v6, total)
  /\ active' = IF send_error(eng, s, v6, total) = "none" THEN Touched(s) ELSE active
  /\ UNCHANGED now

\* The device's write queue finishes a packet: written, or dropped.
WriteDone(i, j, ok) ==
  /\ eng.sends[i].pkts[j].st = "queued"
  /\ eng' = on_frag(eng, i, j, ok)
  /\ UNCHANGED <<now, left, active>>

Close(s) ==
  /\ left.closes > 0
  /\ left' = [left EXCEPT !.closes = @ - 1]
  /\ eng' = remove_session(eng, s)
  /\ UNCHANGED <<now, active>>

SetTimeout(s) ==
  /\ left.sets > 0 /\ ~eng.sess[s].closed
  /\ left' = [left EXCEPT !.sets = @ - 1]
  /\ eng' = refresh_expiry([eng EXCEPT !.sess[s].timeout = OtherTimeout], s)
  /\ active' = Touched(s)
  /\ UNCHANGED now

CloseAll ==
  /\ ~eng.shut /\ left.shuts > 0
  /\ left' = [left EXCEPT !.shuts = @ - 1]
  /\ eng' = [close_all(eng) EXCEPT !.shut = TRUE]
  /\ UNCHANGED <<now, active>>

\* The timer reaches its target: the callback is queued on the strand.
TimerExpires(w) ==
  /\ w.st = "armed" /\ w.at <= now
  /\ eng' = [eng EXCEPT !.waits = (@ \ {w}) \union {[w EXCEPT !.st = "fired"]}]
  /\ UNCHANGED <<now, left, active>>

\* The callback runs; one of an earlier wait is ignored.
TimerCallback(w) ==
  /\ w.st # "armed"
  /\ LET e == [eng EXCEPT !.waits = @ \ {w}]
     IN eng' = IF w.gen # eng.wait_gen THEN e ELSE on_expiry_timer(e, w.st = "aborted")
  /\ UNCHANGED <<now, left, active>>

\* No callback is delayed by more than Late.
Tick ==
  /\ now < left.until
  /\ \A w \in eng.waits : now < w.at + Late
  /\ now' = now + 1
  /\ UNCHANGED <<eng, left, active>>

Next ==
  \/ \E k \in Keys, len \in left.lens, valid \in left.valid : Packet(k, len, valid)
  \/ Accept
  \/ Cancel
  \/ \E s \in Given, size \in left.lens : Receive(s, size)
  \/ \E s \in Given, v6 \in BOOLEAN, total \in left.totals : Send(s, v6, total)
  \/ \E i \in DOMAIN eng.sends : \E j \in DOMAIN eng.sends[i].pkts, ok \in BOOLEAN :
       WriteDone(i, j, ok)
  \/ \E s \in Given : Close(s) \/ SetTimeout(s)
  \/ CloseAll
  \/ \E w \in eng.waits : TimerExpires(w) \/ TimerCallback(w)
  \/ Tick

Spec == Init /\ [][Next]_vars

-----------------------------------------------------------------------------
(***************************************************************************)
(* Properties.                                                             *)
(***************************************************************************)
\* The sum of a sequence of numbers.
Total(w) ==
  LET upto[n \in 0..Len(w)] == IF n = 0 THEN 0 ELSE upto[n - 1] + w[n]
  IN upto[Len(w)]

\* The engine's fields have their types, and the session count, the session
\* table and the open sessions agree: a key names the one open session it
\* has, udp_sessions counts them, and both limits hold.
TypeOK ==
  /\ now \in 0..left.until
  /\ eng.used \in 0..Limit /\ eng.dropped \in 0..eng.packets
  /\ \A k \in Keys : eng.sessions[k] \in {0} \union Sids(eng)
  /\ Open(eng) = {eng.sessions[k] : k \in Keys} \ {0}
  /\ \A s \in Open(eng) : eng.sessions[eng.sess[s].key] = s
  /\ eng.count = Cardinality(Open(eng)) /\ eng.count <= MaxFlows
  /\ Len(eng.pending) <= MaxPending

\* refresh_expiry's throttle, the lazy invalidation and the re-arming never
\* leave an open session without its one valid heap entry, nor the timer
\* waiting for something later than the first such entry; and the throttle
\* bounds the heap by the timeouts, whatever the packet rate.
ExpiryArmed ==
  /\ \A s \in Open(eng) :
       eng.sess[s].heap_live /\ Cardinality({x \in Live(eng) : x.sid = s}) = 1
  /\ \A x \in Live(eng) :
       /\ eng.waiting /\ eng.target <= x.at
       /\ \E w \in eng.waits : w.gen = eng.wait_gen /\ w.at <= x.at /\ w.st # "aborted"
  /\ \A s \in Sids(eng) :
       Cardinality({x \in eng.heap : x.sid = s})
         <= (Max({IdleTimeout, OtherTimeout}) + Late) \div PushInterval + 1

\* on_expiry_timer: a session nobody uses is gone, but for the delay of the
\* timer, after less than twice its own timeout: it is found extended once, and
\* pushed again counted from then.  If set_idle_timeout shortened the timeout
\* while the push was throttled, the entry of the first timeout still stands.
IdleBound ==
  \A s \in Open(eng) :
    now <= active[s] + Max({2 * eng.sess[s].timeout, IdleTimeout}) + Late

\* What the comments of refresh_expiry and on_expiry_timer promise: the entry
\* that stays when a push was throttled, and the one that is pushed when it is
\* found extended, have the session go at its current expiry, its timeout after
\* it was last used; the delay of the timer is allowed for.
GoneAtExpiry ==
  \A s \in Open(eng) : now <= active[s] + eng.sess[s].timeout + Late

\* The timer never takes a session that was used within its timeout.
NeverEarly ==
  [][\A w \in eng.waits : TimerCallback(w) =>
       \A s \in Open(eng) : eng'.sess[s].closed =>
          active[s] + eng.sess[s].timeout <= now]_vars

\* The budget taken from the accountant is what the queues of open sessions
\* hold, and every packet is read, queued, dropped or went with its session.
Accounted ==
  LET got(s) == {i \in DOMAIN eng.ops : eng.ops[i].sid = s /\ eng.ops[i].st = "ok"}
  IN /\ eng.used = Total([s \in Sids(eng) |-> eng.sess[s].rx_bytes])
     /\ \A s \in Sids(eng) : LET rx == eng.sess[s].rx IN
          eng.sess[s].rx_bytes = Total([i \in DOMAIN rx |-> rx[i].len])
     /\ Open(eng) = Sids(eng) =>
          eng.packets = eng.dropped
            + Total([s \in Sids(eng) |-> Len(eng.sess[s].rx) + Cardinality(got(s))])

\* Reads of a session get its datagrams in the order they came, each once; a
\* read waits only while nothing is queued, and none is left on a closed
\* session or completed twice.
ReadsInOrder ==
  LET oks == {i \in DOMAIN eng.ops : eng.ops[i].st = "ok"}
  IN /\ \A i, j \in oks : i < j /\ eng.ops[i].sid = eng.ops[j].sid
                            => eng.ops[i].n < eng.ops[j].n
     /\ \A i \in DOMAIN eng.ops : LET o == eng.ops[i] IN
          /\ o.times = (IF o.st = "wait" THEN 0 ELSE 1)
          /\ o.st = "wait" <=> Contains(eng.sess[o.sid].reads, i)
          /\ o.st = "wait" => ~eng.sess[o.sid].closed /\ eng.sess[o.sid].rx = <<>>

\* A session is given to one accept at most; an open session that was not
\* given is in the list of new sessions and nothing closed is; no accept
\* waits beside a session, and each is completed once.
AcceptsOnce ==
  /\ \A i, j \in DOMAIN eng.accs : i # j /\ eng.accs[i].st = "ok" /\ eng.accs[j].st = "ok"
                                     => eng.accs[i].sid # eng.accs[j].sid
  /\ ToSet(eng.pending) = Open(eng) \ Given
  /\ eng.waiters # <<>> => eng.pending = <<>>
  /\ \A i \in DOMAIN eng.accs :
       /\ eng.accs[i].times = (IF eng.accs[i].st = "wait" THEN 0 ELSE 1)
       /\ eng.accs[i].st = "wait" <=> Contains(eng.waiters, i)

\* A send is completed once, when the last of its packets is finished, with
\* success exactly when the device took all of them.
SendHonest ==
  \A i \in DOMAIN eng.sends : LET m == eng.sends[i] IN
    /\ m.times = (IF m.st = "wait" THEN 0 ELSE 1)
    /\ m.st = "wait" <=> \E j \in DOMAIN m.pkts : m.pkts[j].st = "queued"
    /\ m.st = "ok" <=> m.pkts # <<>> /\ \A j \in DOMAIN m.pkts : m.pkts[j].st = "written"

\* The packets of a datagram make it up again: they follow one another, all
\* but the last carry MF, offsets are multiples of 8, and each fits the MTU
\* (one that has room for the headers).
Reassembles ==
  \A i \in DOMAIN eng.sends :
    LET m == eng.sends[i]
        p == m.pkts
        hdr == IpHdr(eng.sess[m.sid].key \in V6Keys)
    IN p # <<>> =>
         /\ p[1].off = 0
         /\ \A j \in 2..Len(p) : p[j].off = p[j - 1].off + p[j - 1].len
         /\ p[Len(p)].off + p[Len(p)].len = UdpHdr + m.total
         /\ \A j \in DOMAIN p : /\ p[j].len > 0 /\ p[j].off % 8 = 0
                                /\ p[j].more = (j < Len(p))
                                /\ left.mtu >= hdr + UdpHdr => hdr + p[j].len <= left.mtu

\* What a send promises: its packets are the datagram, and its result is theirs.
SendsSound == SendHonest /\ Reassembles
=============================================================================
