--------------------------- MODULE UdpEngineProofs ---------------------------
(***************************************************************************)
(* Proofs about the UDP engine, for any endpoints, limits and timeouts and *)
(* any script.                                                             *)
(***************************************************************************)
EXTENDS UdpEngine, DataLemmas

-----------------------------------------------------------------------------
(* The shape of an engine, and what the timer's operators leave alone. *)

EngFields ==
  {"sess", "sessions", "count", "pending", "waiters", "heap", "waiting", "target",
   "wait_gen", "waits", "used", "dropped", "packets", "ops", "accs", "sends", "shut"}
SessFields ==
  {"key", "closed", "pending", "timeout", "expiry", "gen", "last_push", "heap_live",
   "rx", "rx_bytes", "reads"}

Shape(e) ==
  /\ DOMAIN e = EngFields
  /\ IsSeq(e.sess)
  /\ \A s \in Sids(e) : /\ DOMAIN e.sess[s] = SessFields
                          /\ e.sess[s].closed \in BOOLEAN /\ e.sess[s].pending \in BOOLEAN

\* The members of the engine that are not about the timer, sess apart.
Fixed(e, f) ==
  /\ DOMAIN f = EngFields
  /\ f.sessions = e.sessions /\ f.count = e.count /\ f.pending = e.pending
  /\ f.waiters = e.waiters /\ f.used = e.used /\ f.dropped = e.dropped
  /\ f.packets = e.packets /\ f.ops = e.ops /\ f.accs = e.accs /\ f.sends = e.sends
  /\ f.shut = e.shut

\* The members of a session that are not about the timer.
SameSession(c, d) ==
  /\ DOMAIN d = SessFields
  /\ d.key = c.key /\ d.closed = c.closed /\ d.pending = c.pending
  /\ d.timeout = c.timeout /\ d.rx = c.rx /\ d.rx_bytes = c.rx_bytes /\ d.reads = c.reads

\* Only the timer was changed.
Quiet(e, f) ==
  /\ Fixed(e, f)
  /\ IsSeq(f.sess) /\ Sids(f) = Sids(e)
  /\ \A s \in Sids(e) : SameSession(e.sess[s], f.sess[s])

\* Nothing was changed.
LEMMA QuietSelf ==
  ASSUME NEW e, Shape(e)
  PROVE  Quiet(e, e)
BY DEF Shape, Quiet, Fixed, SameSession

\* Two quiet steps make one.
LEMMA QuietTrans ==
  ASSUME NEW e, NEW f, NEW g, Quiet(e, f), Quiet(f, g)
  PROVE  Quiet(e, g)
<1>1. Fixed(e, g)
  BY DEF Quiet, Fixed
<1>2. \A s \in Sids(e) : SameSession(e.sess[s], g.sess[s])
  BY DEF Quiet, SameSession
<1> QED BY <1>1, <1>2 DEF Quiet

\* A quiet step keeps the shape.
LEMMA QuietShape ==
  ASSUME NEW e, NEW f, Shape(e), Quiet(e, f)
  PROVE  Shape(f)
BY DEF Shape, Quiet, Fixed, SameSession

\* One session gets another record.
Replaced(e, f, s, d) ==
  /\ IsSeq(f.sess) /\ Sids(f) = Sids(e) /\ f.sess[s] = d
  /\ \A r \in Sids(e) : r # s => f.sess[r] = e.sess[r]

\* What an EXCEPT on one session gives.
LEMMA Replacing ==
  ASSUME NEW e, Shape(e), NEW s \in Sids(e), NEW d, NEW f, f.sess = Put(e.sess, s, d)
  PROVE  Replaced(e, f, s, d)
<1>1. IsSeq(e.sess)
  BY DEF Shape
<1> QED BY <1>1, SeqExcept DEF Sids, Replaced

\* It keeps the shape when the new record has it.
LEMMA ReplacedShape ==
  ASSUME NEW e, Shape(e), NEW s \in Sids(e), NEW d, NEW f, Replaced(e, f, s, d),
         DOMAIN f = EngFields, DOMAIN f.sess[s] = SessFields,
         f.sess[s].closed \in BOOLEAN, f.sess[s].pending \in BOOLEAN
  PROVE  Shape(f)
<1>1. ASSUME NEW r \in Sids(f)
      PROVE  DOMAIN f.sess[r] = SessFields /\ f.sess[r].closed \in BOOLEAN
             /\ f.sess[r].pending \in BOOLEAN
  <2>1. CASE r = s
    BY <2>1
  <2>2. CASE r # s
    <3>1. r \in Sids(e) /\ f.sess[r] = e.sess[r]
      BY <2>2 DEF Replaced
    <3> QED BY <3>1 DEF Shape
  <2> QED BY <2>1, <2>2
<1> QED BY <1>1 DEF Shape, Replaced

\* Only the timing of one session was changed.
LEMMA OneSession ==
  ASSUME NEW e, Shape(e), NEW s \in Sids(e), NEW d, NEW f,
         Fixed(e, f), f.sess = Put(e.sess, s, d), SameSession(e.sess[s], d)
  PROVE  Quiet(e, f) /\ Replaced(e, f, s, d)
<1>1. Replaced(e, f, s, d)
  BY Replacing
<1>2. \A r \in Sids(e) : SameSession(e.sess[r], e.sess[r])
  BY DEF Shape, SameSession
<1> QED BY <1>1, <1>2 DEF Quiet, Replaced

\* What wait_until writes.
LEMMA WaitUntilIs ==
  ASSUME NEW e, DOMAIN e = EngFields, NEW t, NEW f, f = wait_until(e, t)
  PROVE  /\ Fixed(e, f) /\ f.sess = e.sess /\ f.heap = e.heap
         /\ f.wait_gen = e.wait_gen + 1 /\ f.target = t /\ f.waiting = TRUE
         /\ f.waits = cancel_waits(e.waits) \cup {[gen |-> e.wait_gen + 1, at |-> t, st |-> "armed"]}
BY DEF wait_until, Fixed, EngFields

\* What arm_expiry_timer writes: the heap, and perhaps a new wait.
Swept(e) == {x \in e.heap : x \in Live(e) \/ x.at > FirstLive(e)}

\* Its three cases: nothing valid, a timer that is early enough, a new wait.
LEMMA ArmIs ==
  ASSUME NEW e, DOMAIN e = EngFields, NEW f, f = arm_expiry_timer(e)
  PROVE  /\ Fixed(e, f) /\ f.sess = e.sess
         /\ Live(e) = {} =>
              /\ f.heap = {} /\ f.waiting = e.waiting /\ f.target = e.target
              /\ f.wait_gen = e.wait_gen /\ f.waits = e.waits
         /\ Live(e) # {} /\ e.waiting /\ FirstLive(e) >= e.target =>
              /\ f.heap = Swept(e) /\ f.waiting = e.waiting /\ f.target = e.target
              /\ f.wait_gen = e.wait_gen /\ f.waits = e.waits
         /\ Live(e) # {} /\ ~(e.waiting /\ FirstLive(e) >= e.target) =>
              /\ f.heap = Swept(e) /\ f.waiting = TRUE /\ f.target = FirstLive(e)
              /\ f.wait_gen = e.wait_gen + 1
              /\ f.waits = cancel_waits(e.waits) \cup
                   {[gen |-> e.wait_gen + 1, at |-> FirstLive(e), st |-> "armed"]}
<1> DEFINE p == [e EXCEPT !.heap = {x \in @ : x \in Live(e) \/ x.at > FirstLive(e)}]
<1>1. /\ Fixed(e, p) /\ p.sess = e.sess /\ p.heap = Swept(e) /\ p.waiting = e.waiting
      /\ p.target = e.target /\ p.wait_gen = e.wait_gen /\ p.waits = e.waits
  BY DEF Fixed, EngFields, Swept
<1>2. f = CASE Live(e) = {} -> [e EXCEPT !.heap = {}]
            [] Live(e) # {} /\ p.waiting /\ FirstLive(e) >= p.target -> p
            [] OTHER -> wait_until(p, FirstLive(e))
  BY DEF arm_expiry_timer
<1> HIDE DEF p
<1>3. CASE Live(e) = {}
  <2>1. f = [e EXCEPT !.heap = {}]
    BY <1>2, <1>3
  <2> QED BY <1>3, <2>1 DEF Fixed, EngFields
<1>4. CASE Live(e) # {} /\ e.waiting /\ FirstLive(e) >= e.target
  <2>1. f = p
    BY <1>1, <1>2, <1>4
  <2> QED BY <1>1, <1>4, <2>1
<1>5. CASE Live(e) # {} /\ ~(e.waiting /\ FirstLive(e) >= e.target)
  <2>1. f = wait_until(p, FirstLive(e))
    BY <1>1, <1>2, <1>5
  <2>2. /\ Fixed(p, f) /\ f.sess = p.sess /\ f.heap = p.heap
        /\ f.wait_gen = p.wait_gen + 1 /\ f.target = FirstLive(e) /\ f.waiting = TRUE
        /\ f.waits = cancel_waits(p.waits) \cup
             {[gen |-> p.wait_gen + 1, at |-> FirstLive(e), st |-> "armed"]}
    <3>1. DOMAIN p = EngFields
      BY <1>1 DEF Fixed
    <3> QED BY <2>1, <3>1, WaitUntilIs
  <2>3. Fixed(e, f)
    BY <1>1, <2>2 DEF Fixed
  <2> QED BY <1>1, <1>5, <2>2, <2>3
<1> QED BY <1>3, <1>4, <1>5

\* It writes nothing but the timer.
LEMMA ArmQuiet ==
  ASSUME NEW e, Shape(e), NEW f, f = arm_expiry_timer(e)
  PROVE  Quiet(e, f)
<1>1. Fixed(e, f) /\ f.sess = e.sess
  BY ArmIs DEF Shape
<1>2. Quiet(e, e)
  BY QuietSelf
<1> QED BY <1>1, <1>2 DEF Quiet, Sids

\* What push_entry has written before it arms the timer.
Entry(e, s) == [at |-> e.sess[s].expiry, gen |-> e.sess[s].gen + 1, sid |-> s]

Pushed(e, s) ==
  [e EXCEPT !.sess[s].gen = @ + 1, !.sess[s].heap_live = TRUE, !.sess[s].last_push = now,
            !.heap = @ \union {Entry(e, s)}]

PushDone(e, s, f) ==
  /\ f.heap = e.heap \cup {Entry(e, s)}
  /\ f.waiting = e.waiting /\ f.target = e.target /\ f.wait_gen = e.wait_gen
  /\ f.waits = e.waits
  /\ f.sess[s].gen = e.sess[s].gen + 1 /\ f.sess[s].heap_live = TRUE
  /\ f.sess[s].last_push = now /\ f.sess[s].expiry = e.sess[s].expiry
  /\ \A r \in Sids(e) : r # s => f.sess[r] = e.sess[r]

\* The entry is in the heap, and the session knows of it.
LEMMA PushedIs ==
  ASSUME NEW e, Shape(e), NEW s \in Sids(e), NEW f, f = Pushed(e, s)
  PROVE  Quiet(e, f) /\ PushDone(e, s, f)
<1> DEFINE c == e.sess[s]
           d == [c EXCEPT !.gen = @ + 1, !.heap_live = TRUE, !.last_push = now]
<1>1. DOMAIN e = EngFields /\ DOMAIN c = SessFields /\ s \in DOMAIN e.sess
  BY DEF Shape, Sids
<1>2. /\ Fixed(e, f) /\ f.heap = e.heap \cup {Entry(e, s)}
      /\ f.waiting = e.waiting /\ f.target = e.target /\ f.wait_gen = e.wait_gen
      /\ f.waits = e.waits
  BY <1>1 DEF Pushed, Fixed, EngFields
<1>3. f.sess = Put(e.sess, s, d)
  BY <1>1 DEF Pushed, EngFields, Put
<1>4. /\ SameSession(c, d) /\ d.gen = c.gen + 1 /\ d.heap_live = TRUE
      /\ d.last_push = now /\ d.expiry = c.expiry
  BY <1>1 DEF SameSession, SessFields
<1> HIDE DEF d
<1>5. Quiet(e, f) /\ Replaced(e, f, s, d)
  <2>1. Fixed(e, f) /\ SameSession(e.sess[s], d)
    BY <1>2, <1>4
  <2> QED BY <1>3, <2>1, OneSession
<1> QED BY <1>2, <1>4, <1>5 DEF Replaced, PushDone

\* What refresh_expiry has written before it looks at the throttle.
Renewed(e, s) == [e EXCEPT !.sess[s].expiry = now + e.sess[s].timeout]

\* The session has another expiry, and nothing else was changed.
LEMMA RenewedIs ==
  ASSUME NEW e, Shape(e), NEW s \in Sids(e), NEW f, f = Renewed(e, s)
  PROVE  /\ Quiet(e, f) /\ f.heap = e.heap
         /\ f.waiting = e.waiting /\ f.target = e.target /\ f.wait_gen = e.wait_gen
         /\ f.waits = e.waits
         /\ f.sess[s].gen = e.sess[s].gen /\ f.sess[s].heap_live = e.sess[s].heap_live
         /\ f.sess[s].last_push = e.sess[s].last_push
         /\ f.sess[s].expiry = now + e.sess[s].timeout
         /\ \A r \in Sids(e) : r # s => f.sess[r] = e.sess[r]
<1> DEFINE c == e.sess[s]
           d == [c EXCEPT !.expiry = now + c.timeout]
<1>1. DOMAIN e = EngFields /\ DOMAIN c = SessFields /\ s \in DOMAIN e.sess
  BY DEF Shape, Sids
<1>2. /\ Fixed(e, f) /\ f.heap = e.heap
      /\ f.waiting = e.waiting /\ f.target = e.target /\ f.wait_gen = e.wait_gen
      /\ f.waits = e.waits
  BY <1>1 DEF Renewed, Fixed, EngFields
<1>3. f.sess = Put(e.sess, s, d)
  BY <1>1 DEF Renewed, EngFields, Put
<1>4. /\ SameSession(c, d) /\ d.gen = c.gen /\ d.heap_live = c.heap_live
      /\ d.last_push = c.last_push /\ d.expiry = now + c.timeout
  BY <1>1 DEF SameSession, SessFields
<1> HIDE DEF d
<1>5. Quiet(e, f) /\ Replaced(e, f, s, d)
  <2>1. Fixed(e, f) /\ SameSession(e.sess[s], d)
    BY <1>2, <1>4
  <2> QED BY <1>3, <2>1, OneSession
<1> QED BY <1>2, <1>4, <1>5 DEF Replaced

\* Its three cases: a closed session, the throttle, a push.
LEMMA RefreshIs ==
  ASSUME NEW e, NEW s, NEW f, f = refresh_expiry(e, s)
  PROVE  \/ e.sess[s].closed /\ f = e
         \/ /\ ~e.sess[s].closed
            /\ e.sess[s].heap_live /\ now - e.sess[s].last_push < PushInterval
            /\ f = Renewed(e, s)
         \/ /\ ~e.sess[s].closed
            /\ ~(e.sess[s].heap_live /\ now - e.sess[s].last_push < PushInterval)
            /\ f = arm_expiry_timer(Pushed(Renewed(e, s), s))
BY DEF refresh_expiry, Renewed, push_entry, Pushed, Entry

\* It writes nothing but the timer and the timing of its session.
LEMMA RefreshQuiet ==
  ASSUME NEW e, Shape(e), NEW s \in Sids(e), NEW f, f = refresh_expiry(e, s)
  PROVE  Quiet(e, f)
<1> DEFINE r == Renewed(e, s)
           p == Pushed(r, s)
<1>1. Quiet(e, e)
  BY QuietSelf
<1>2. Quiet(e, r)
  BY RenewedIs
<1>3. Shape(r) /\ Sids(r) = Sids(e)
  BY <1>2, QuietShape DEF Quiet
<1> HIDE DEF r
<1>4. Quiet(r, p)
  BY <1>3, PushedIs
<1>5. Shape(p)
  BY <1>3, <1>4, QuietShape
<1> HIDE DEF p
<1>6. Quiet(p, arm_expiry_timer(p))
  BY <1>5, ArmQuiet
<1>7. Quiet(e, arm_expiry_timer(p))
  BY <1>2, <1>4, <1>6, QuietTrans
<1> QED BY <1>1, <1>2, <1>7, RefreshIs DEF r, p

-----------------------------------------------------------------------------
(* What remove_session writes. *)

Closed(d) ==
  [d EXCEPT !.reads = <<>>, !.closed = TRUE, !.rx_bytes = 0, !.rx = <<>>, !.pending = FALSE]

\* The members that only the timer and the sends write.
Aside(e, f) ==
  /\ f.heap = e.heap /\ f.waiting = e.waiting /\ f.target = e.target
  /\ f.wait_gen = e.wait_gen /\ f.waits = e.waits /\ f.sends = e.sends /\ f.shut = e.shut

Removal(e, s, f) ==
  /\ Aside(e, f) /\ DOMAIN f = EngFields
  /\ f.waiters = e.waiters /\ f.accs = e.accs /\ f.dropped = e.dropped
  /\ f.packets = e.packets
  /\ f.ops = abort_reads(e.ops, e.sess[s].reads)
  /\ f.sess = Put(e.sess, s, Closed(e.sess[s]))
  /\ f.sessions = [e.sessions EXCEPT ![e.sess[s].key] = 0]
  /\ f.count = e.count - 1 /\ f.used = e.used - e.sess[s].rx_bytes
  /\ f.pending = IF e.sess[s].pending THEN Unlisted(e.pending, s) ELSE e.pending

\* Every member that it writes, when the session is open.
LEMMA RemoveIs ==
  ASSUME NEW e, Shape(e), NEW s \in Sids(e), ~e.sess[s].closed,
         NEW f, f = remove_session(e, s)
  PROVE  Removal(e, s, f)
<1> DEFINE d == e.sess[s]
           h == close_session(e, s)
           t == [d EXCEPT !.reads = <<>>, !.closed = TRUE, !.rx_bytes = 0, !.rx = <<>>]
<1>1. DOMAIN e = EngFields /\ DOMAIN d = SessFields /\ s \in DOMAIN e.sess
  BY DEF Shape, Sids
<1>3. h = [e EXCEPT !.ops = abort_reads(e.ops, d.reads),
        !.sess[s].reads = <<>>, !.sess[s].closed = TRUE,
        !.sessions[d.key] = 0, !.count = @ - 1,
        !.used = @ - d.rx_bytes, !.sess[s].rx_bytes = 0, !.sess[s].rx = <<>>]
  BY DEF close_session
<1>4. /\ DOMAIN h = EngFields /\ h.ops = abort_reads(e.ops, d.reads)
      /\ h.sess = Put(e.sess, s, t)
      /\ h.sessions = [e.sessions EXCEPT ![d.key] = 0] /\ h.count = e.count - 1
      /\ h.used = e.used - d.rx_bytes
      /\ h.pending = e.pending /\ h.waiters = e.waiters /\ h.accs = e.accs
      /\ h.dropped = e.dropped /\ h.packets = e.packets /\ Aside(e, h)
  <2> HIDE DEF h, d
  <2>1. e.sess[s] = d
    BY <1>1 DEF d
  <2>2. /\ DOMAIN h = EngFields /\ h.ops = abort_reads(e.ops, d.reads)
        /\ h.sessions = [e.sessions EXCEPT ![d.key] = 0] /\ h.count = e.count - 1
        /\ h.used = e.used - d.rx_bytes
        /\ h.pending = e.pending /\ h.waiters = e.waiters /\ h.accs = e.accs
        /\ h.dropped = e.dropped /\ h.packets = e.packets /\ Aside(e, h)
    BY <1>1, <1>3 DEF EngFields, Aside
  <2>3. h.sess = [e.sess EXCEPT ![s] = t]
    BY <1>1, <1>3, <2>1 DEF EngFields
  <2> QED BY <2>2, <2>3 DEF Put
<1>5. f = [h EXCEPT !.pending = IF d.pending THEN Unlisted(@, s) ELSE @, !.sess[s].pending = FALSE]
  BY DEF remove_session, Unlisted
<1>6. s \in DOMAIN h.sess /\ h.sess[s] = t
  BY <1>1, <1>4 DEF Put
<1>7. Closed(d) = [t EXCEPT !.pending = FALSE]
  BY <1>1 DEF Closed, SessFields
<1> HIDE DEF h, d, t
<1>8. f.sess = Put(e.sess, s, Closed(d))
  <2>1. f.sess = [h.sess EXCEPT ![s] = [t EXCEPT !.pending = FALSE]]
    BY <1>4, <1>5, <1>6 DEF EngFields
  <2> QED BY <1>4, <1>7, <2>1 DEF Put
<1>9. /\ DOMAIN f = EngFields /\ f.ops = h.ops /\ f.sessions = h.sessions /\ f.count = h.count
      /\ f.used = h.used /\ f.pending = (IF d.pending THEN Unlisted(h.pending, s) ELSE h.pending)
      /\ f.waiters = h.waiters /\ f.accs = h.accs /\ f.dropped = h.dropped
      /\ f.packets = h.packets /\ Aside(h, f)
  BY <1>4, <1>5 DEF EngFields, Aside
<1>10. Aside(e, f)
  BY <1>4, <1>9 DEF Aside
<1> QED BY <1>4, <1>8, <1>9, <1>10 DEF d, Removal

\* It does nothing to a closed session.
LEMMA RemoveNot ==
  ASSUME NEW e, NEW s, e.sess[s].closed
  PROVE  remove_session(e, s) = e
BY DEF remove_session

\* c is what is left of the session d.
Ended(d, c) ==
  /\ DOMAIN c = SessFields
  /\ c.reads = <<>> /\ c.closed = TRUE /\ c.rx_bytes = 0 /\ c.rx = <<>>
  /\ c.pending = FALSE /\ c.key = d.key /\ c.timeout = d.timeout
  /\ c.expiry = d.expiry /\ c.gen = d.gen /\ c.last_push = d.last_push
  /\ c.heap_live = d.heap_live

\* The record that remove_session leaves.
LEMMA ClosedIs ==
  ASSUME NEW d, DOMAIN d = SessFields, NEW c, c = Closed(d)
  PROVE  Ended(d, c)
BY DEF Closed, SessFields, Ended

\* After it, the session is closed and the others are as they were.
LEMMA RemoveSess ==
  ASSUME NEW e, Shape(e), NEW s \in Sids(e), ~e.sess[s].closed,
         NEW f, f = remove_session(e, s)
  PROVE  Shape(f) /\ Replaced(e, f, s, Closed(e.sess[s])) /\ Ended(e.sess[s], f.sess[s])
<1>1. Removal(e, s, f)
  BY RemoveIs
<1>2. f.sess = Put(e.sess, s, Closed(e.sess[s])) /\ DOMAIN f = EngFields
  BY <1>1 DEF Removal
<1>3. Replaced(e, f, s, Closed(e.sess[s]))
  BY <1>2, Replacing
<1>4. f.sess[s] = Closed(e.sess[s]) /\ DOMAIN e.sess[s] = SessFields
  BY <1>3 DEF Replaced, Shape
<1>5. Ended(e.sess[s], f.sess[s])
  BY <1>4, ClosedIs
<1>6. DOMAIN f.sess[s] = SessFields /\ f.sess[s].closed \in BOOLEAN /\ f.sess[s].pending \in BOOLEAN
  BY <1>5 DEF Ended
<1>7. Shape(f)
  BY <1>2, <1>3, <1>6, ReplacedShape
<1> QED BY <1>3, <1>5, <1>7

-----------------------------------------------------------------------------
(* How often a handler is in a queue. *)

\* A handler is in a queue of distinct ones once or not at all.
LEMMA RunsIs ==
  ASSUME NEW q, Distinct(q), NEW x
  PROVE  Runs(q, x) = IF x \in ToSet(q) THEN 1 ELSE 0
<1>1. CASE x \in ToSet(q)
  <2>1. PICK i \in DOMAIN q : q[i] = x
    BY <1>1 DEF ToSet
  <2>2. {j \in DOMAIN q : q[j] = x} = {i}
    BY <2>1 DEF Distinct
  <2> QED BY <1>1, <2>2, FS_Singleton DEF Runs
<1>2. CASE x \notin ToSet(q)
  <2>1. {j \in DOMAIN q : q[j] = x} = {}
    BY <1>2 DEF ToSet
  <2> QED BY <1>2, <2>1, FS_EmptySet DEF Runs
<1> QED BY <1>1, <1>2

-----------------------------------------------------------------------------
(***************************************************************************)
(* Accepts.  U are sessions that exist but were not announced yet.         *)
(***************************************************************************)
GivenBy(e) == {e.accs[i].sid : i \in {j \in DOMAIN e.accs : e.accs[j].st = "ok"}}

Listed(e, U) ==
  /\ IsSeq(e.pending) /\ Distinct(e.pending)
  /\ ToSet(e.pending) = Open(e) \ (GivenBy(e) \cup U)
  /\ \A s \in Sids(e) : e.sess[s].pending <=> s \in ToSet(e.pending)

Waiting(e) ==
  /\ IsSeq(e.waiters) /\ Distinct(e.waiters) /\ IsSeq(e.accs)
  /\ ToSet(e.waiters) = {i \in DOMAIN e.accs : e.accs[i].st = "wait"}
  /\ \A i \in DOMAIN e.accs :
       /\ e.accs[i].times = IF e.accs[i].st = "wait" THEN 0 ELSE 1
       /\ e.accs[i].st = "ok" => e.accs[i].sid \in Sids(e)
  /\ \A i, j \in DOMAIN e.accs : i # j /\ e.accs[i].st = "ok" /\ e.accs[j].st = "ok"
                                   => e.accs[i].sid # e.accs[j].sid

Accepts(e, U) ==
  /\ Listed(e, U) /\ Waiting(e)
  /\ e.waiters # <<>> => e.pending = <<>>
  /\ U \subseteq Sids(e) /\ U \cap GivenBy(e) = {}

\* What Accepts looks at.
SameAccepts(e, f) ==
  /\ f.pending = e.pending /\ f.waiters = e.waiters /\ f.accs = e.accs
  /\ Sids(f) = Sids(e)
  /\ \A s \in Sids(e) : f.sess[s].closed = e.sess[s].closed /\ f.sess[s].pending = e.sess[s].pending

\* A step that changes none of it keeps the accepts in order.
LEMMA AcceptsKept ==
  ASSUME NEW e, NEW f, NEW U, Accepts(e, U), SameAccepts(e, f)
  PROVE  Accepts(f, U)
<1>1. Open(f) = Open(e) /\ GivenBy(f) = GivenBy(e)
  BY DEF SameAccepts, Open, GivenBy
<1>2. Listed(f, U)
  BY <1>1 DEF Accepts, SameAccepts, Listed
<1>3. Waiting(f)
  BY DEF Accepts, SameAccepts, Waiting
<1> QED BY <1>1, <1>2, <1>3 DEF Accepts, SameAccepts

\* The timer changes none of it.
LEMMA QuietAccepts ==
  ASSUME NEW e, NEW f, Quiet(e, f)
  PROVE  SameAccepts(e, f)
BY DEF Quiet, Fixed, SameSession, SameAccepts

\* A session that closes leaves the list.
LEMMA AcceptsRemove ==
  ASSUME NEW e, Shape(e), Accepts(e, {}), NEW s \in Sids(e), ~e.sess[s].closed,
         NEW f, f = remove_session(e, s)
  PROVE  Accepts(f, {})
<1>1. Removal(e, s, f)
  BY RemoveIs
<1>2. Replaced(e, f, s, Closed(e.sess[s])) /\ Ended(e.sess[s], f.sess[s])
  BY RemoveSess
<1>3. f.sess[s].closed = TRUE /\ f.sess[s].pending = FALSE
  BY <1>2 DEF Ended
<1>4. GivenBy(f) = GivenBy(e) /\ f.accs = e.accs /\ f.waiters = e.waiters /\ Sids(f) = Sids(e)
  BY <1>1, <1>2 DEF Removal, Replaced, GivenBy
<1>5. Open(f) = Open(e) \ {s}
  BY <1>2, <1>3, <1>4 DEF Open, Replaced
<1>6. /\ IsSeq(f.pending) /\ Distinct(f.pending) /\ ToSet(f.pending) = ToSet(e.pending) \ {s}
  <2>1. IsSeq(e.pending) /\ Distinct(e.pending) /\ (e.sess[s].pending <=> s \in ToSet(e.pending))
    BY DEF Accepts, Listed
  <2>2. CASE e.sess[s].pending
    <3>1. f.pending = Unlisted(e.pending, s)
      BY <1>1, <2>2 DEF Removal
    <3> QED BY <2>1, <2>2, <3>1, UnlistedIs
  <2>3. CASE ~e.sess[s].pending
    <3>1. f.pending = e.pending
      BY <1>1, <2>3 DEF Removal
    <3> QED BY <2>1, <2>3, <3>1
  <2> QED BY <2>2, <2>3
<1>7. Listed(f, {})
  <2>1. ToSet(f.pending) = Open(f) \ (GivenBy(f) \cup {})
    BY <1>4, <1>5, <1>6 DEF Accepts, Listed
  <2>2. ASSUME NEW r \in Sids(f) PROVE f.sess[r].pending <=> r \in ToSet(f.pending)
    <3>1. CASE r = s
      BY <1>3, <1>6, <3>1
    <3>2. CASE r # s
      BY <1>2, <1>4, <1>6, <3>2 DEF Replaced, Accepts, Listed
    <3> QED BY <3>1, <3>2
  <2> QED BY <1>6, <2>1, <2>2 DEF Listed
<1>8. Waiting(f)
  BY <1>4 DEF Accepts, Waiting
<1>9. f.waiters # <<>> => f.pending = <<>>
  <2>1. SUFFICES ASSUME f.waiters # <<>> PROVE f.pending = <<>>
    OBVIOUS
  <2>2. e.pending = <<>>
    BY <1>4, <2>1 DEF Accepts
  <2>3. ToSet(e.pending) = {}
    BY <2>2, SeqEmpty
  <2>4. ~e.sess[s].pending
    BY <2>3 DEF Accepts, Listed
  <2> QED BY <1>1, <2>2, <2>4 DEF Removal
<1> QED BY <1>4, <1>7, <1>8, <1>9 DEF Accepts

\* What post_accept writes.
LEMMA PostAcceptIs ==
  ASSUME NEW e, DOMAIN e = EngFields, NEW i, NEW st, NEW s, i \in DOMAIN e.accs,
         NEW f, f = post_accept(e, i, st, s)
  PROVE  /\ DOMAIN f = EngFields /\ f.sess = e.sess /\ Aside(e, f)
         /\ f.accs = Put(e.accs, i, [st |-> st, sid |-> s, times |-> e.accs[i].times + 1])
         /\ f.pending = e.pending /\ f.waiters = e.waiters
         /\ f.sessions = e.sessions /\ f.count = e.count /\ f.used = e.used
         /\ f.dropped = e.dropped /\ f.packets = e.packets /\ f.ops = e.ops
BY DEF post_accept, EngFields, Put, Aside

\* The members that an accept leaves alone.
AcceptOnly(e, f) ==
  /\ DOMAIN f = EngFields /\ Aside(e, f)
  /\ f.sessions = e.sessions /\ f.count = e.count /\ f.used = e.used
  /\ f.dropped = e.dropped /\ f.packets = e.packets /\ f.ops = e.ops

\* An accept that completes is given the session s.
LEMMA GivenOne ==
  ASSUME NEW e, NEW f, NEW i \in DOMAIN e.accs, NEW s, Waiting(e), Sids(f) = Sids(e),
         e.accs[i].st = "wait", s \in Sids(e), s \notin GivenBy(e),
         f.accs = Put(e.accs, i, [st |-> "ok", sid |-> s, times |-> e.accs[i].times + 1]),
         IsSeq(f.waiters), Distinct(f.waiters), ToSet(f.waiters) = ToSet(e.waiters) \ {i}
  PROVE  Waiting(f) /\ GivenBy(f) = GivenBy(e) \cup {s}
<1> DEFINE a == [st |-> "ok", sid |-> s, times |-> e.accs[i].times + 1]
<1>1. IsSeq(e.accs) /\ f.accs = Put(e.accs, i, a)
  BY DEF Waiting
<1>2. a.st = "ok" /\ a.sid = s /\ a.times = 1
  BY DEF Waiting
<1> HIDE DEF a
<1>3. /\ IsSeq(f.accs) /\ DOMAIN f.accs = DOMAIN e.accs /\ f.accs[i] = a
      /\ \A j \in DOMAIN e.accs : j # i => f.accs[j] = e.accs[j]
  BY <1>1, SeqExcept
<1>4. ToSet(f.waiters) = {j \in DOMAIN f.accs : f.accs[j].st = "wait"}
  <2>1. ToSet(e.waiters) = {j \in DOMAIN e.accs : e.accs[j].st = "wait"}
    BY DEF Waiting
  <2> QED BY <1>2, <1>3, <2>1
<1>5. ASSUME NEW j \in DOMAIN f.accs
      PROVE  /\ f.accs[j].times = IF f.accs[j].st = "wait" THEN 0 ELSE 1
             /\ f.accs[j].st = "ok" => f.accs[j].sid \in Sids(f)
  <2>1. CASE j = i
    BY <1>2, <1>3, <2>1
  <2>2. CASE j # i
    BY <1>3, <2>2 DEF Waiting
  <2> QED BY <2>1, <2>2
<1>6. \A j \in DOMAIN e.accs : e.accs[j].st = "ok" => e.accs[j].sid # s
  BY DEF GivenBy
<1>7. ASSUME NEW j \in DOMAIN f.accs, NEW k \in DOMAIN f.accs, j # k,
             f.accs[j].st = "ok", f.accs[k].st = "ok"
      PROVE  f.accs[j].sid # f.accs[k].sid
  <2>1. CASE j = i
    BY <1>2, <1>3, <1>6, <1>7, <2>1
  <2>2. CASE k = i
    BY <1>2, <1>3, <1>6, <1>7, <2>2
  <2>3. CASE j # i /\ k # i
    BY <1>3, <1>7, <2>3 DEF Waiting
  <2> QED BY <2>1, <2>2, <2>3
<1>8. GivenBy(f) = GivenBy(e) \cup {s}
  <2>1. ASSUME NEW x \in GivenBy(f) PROVE x \in GivenBy(e) \cup {s}
    <3>1. PICK j \in DOMAIN f.accs : f.accs[j].st = "ok" /\ x = f.accs[j].sid
      BY DEF GivenBy
    <3>2. CASE j = i
      BY <1>2, <1>3, <3>1, <3>2
    <3>3. CASE j # i
      BY <1>3, <3>1, <3>3 DEF GivenBy
    <3> QED BY <3>2, <3>3
  <2>2. ASSUME NEW x \in GivenBy(e) PROVE x \in GivenBy(f)
    <3>1. PICK j \in DOMAIN e.accs : e.accs[j].st = "ok" /\ x = e.accs[j].sid
      BY DEF GivenBy
    <3>2. j # i
      BY <3>1
    <3> QED BY <1>3, <3>1, <3>2 DEF GivenBy
  <2>3. s \in GivenBy(f)
    BY <1>2, <1>3 DEF GivenBy
  <2> QED BY <2>1, <2>2, <2>3
<1> QED BY <1>3, <1>4, <1>5, <1>7, <1>8 DEF Waiting

\* An announced session is given to the first waiter or listed.
LEMMA AcceptsAnnounce ==
  ASSUME NEW e, Shape(e), NEW s \in Open(e), Accepts(e, {s}),
         NEW f, f = announce(e, s)
  PROVE  /\ Accepts(f, {}) /\ Shape(f) /\ AcceptOnly(e, f)
         /\ \/ f.sess = e.sess
            \/ f.sess = Put(e.sess, s, [e.sess[s] EXCEPT !.pending = TRUE])
<1>1. DOMAIN e = EngFields /\ s \in Sids(e) /\ ~e.sess[s].closed
  BY DEF Shape, Open
<1>2. s \notin GivenBy(e) /\ s \notin ToSet(e.pending)
  BY DEF Accepts, Listed
<1>3. CASE e.waiters # <<>>
  <2> DEFINE g == [e EXCEPT !.waiters = Tail(@)]
             i == Head(e.waiters)
  <2>1. /\ AcceptOnly(e, g) /\ g.sess = e.sess /\ g.accs = e.accs /\ g.pending = e.pending
        /\ g.waiters = Tail(e.waiters)
    BY <1>1 DEF EngFields, AcceptOnly, Aside
  <2>2. f = post_accept(g, i, "ok", s)
    BY <1>3 DEF announce
  <2>3. IsSeq(e.waiters) /\ Distinct(e.waiters)
    BY DEF Accepts, Waiting
  <2>4. /\ IsSeq(g.waiters) /\ Distinct(g.waiters) /\ ToSet(g.waiters) = ToSet(e.waiters) \ {i}
        /\ i \in ToSet(e.waiters)
    BY <1>3, <2>1, <2>3, FirstLeaves
  <2>5. i \in DOMAIN e.accs /\ e.accs[i].st = "wait"
    BY <2>4 DEF Accepts, Waiting
  <2> HIDE DEF g, i
  <2>6. /\ DOMAIN f = EngFields /\ f.sess = g.sess /\ Aside(g, f)
        /\ f.accs = Put(g.accs, i, [st |-> "ok", sid |-> s, times |-> g.accs[i].times + 1])
        /\ f.pending = g.pending /\ f.waiters = g.waiters
        /\ f.sessions = g.sessions /\ f.count = g.count /\ f.used = g.used
        /\ f.dropped = g.dropped /\ f.packets = g.packets /\ f.ops = g.ops
    BY <2>1, <2>2, <2>5, PostAcceptIs DEF AcceptOnly
  <2>7. AcceptOnly(e, f) /\ f.sess = e.sess /\ f.pending = e.pending /\ Sids(f) = Sids(e)
    BY <2>1, <2>6 DEF AcceptOnly, Aside, Sids
  <2>8. Waiting(f) /\ GivenBy(f) = GivenBy(e) \cup {s}
    <3>1. f.accs = Put(e.accs, i, [st |-> "ok", sid |-> s, times |-> e.accs[i].times + 1])
      BY <2>1, <2>6
    <3>2. Waiting(e)
      BY DEF Accepts
    <3> QED BY <1>1, <1>2, <2>4, <2>5, <2>6, <2>7, <3>1, <3>2, GivenOne
  <2>9. Open(f) = Open(e)
    BY <2>7 DEF Open
  <2>10. Listed(f, {})
    <3>1. ToSet(f.pending) = Open(f) \ (GivenBy(f) \cup {})
      BY <2>7, <2>8, <2>9 DEF Accepts, Listed
    <3> QED BY <2>7, <3>1 DEF Accepts, Listed
  <2>11. f.pending = <<>>
    BY <1>3, <2>7 DEF Accepts
  <2>12. Shape(f)
    BY <2>7 DEF Shape, AcceptOnly
  <2> QED BY <2>7, <2>8, <2>10, <2>11, <2>12 DEF Accepts
<1>4. CASE e.waiters = <<>>
  <2> DEFINE d == [e.sess[s] EXCEPT !.pending = TRUE]
  <2>1. f = [e EXCEPT !.sess[s].pending = TRUE, !.pending = Append(@, s)]
    BY <1>4 DEF announce
  <2>2. s \in DOMAIN e.sess /\ DOMAIN e.sess[s] = SessFields
    BY <1>1 DEF Sids, Shape
  <2>3. /\ AcceptOnly(e, f) /\ f.sess = Put(e.sess, s, d) /\ f.accs = e.accs
        /\ f.waiters = e.waiters /\ f.pending = Add(e.pending, s)
    BY <1>1, <2>1, <2>2 DEF EngFields, AcceptOnly, Aside, Put, Add
  <2>4. d.pending = TRUE /\ d.closed = e.sess[s].closed /\ DOMAIN d = SessFields
    BY <2>2 DEF SessFields
  <2> HIDE DEF d
  <2>5. Replaced(e, f, s, d)
    BY <1>1, <2>3, Replacing
  <2>6. Shape(f)
    <3>1. f.sess[s] = d /\ DOMAIN f = EngFields
      BY <2>3, <2>5 DEF Replaced, AcceptOnly
    <3>2. d.closed \in BOOLEAN /\ d.pending \in BOOLEAN
      BY <1>1, <2>4 DEF Shape
    <3> QED BY <1>1, <2>4, <2>5, <3>1, <3>2, ReplacedShape
  <2>7. Open(f) = Open(e) /\ GivenBy(f) = GivenBy(e) /\ Sids(f) = Sids(e)
    BY <2>3, <2>4, <2>5 DEF Open, GivenBy, Replaced
  <2>8. IsSeq(e.pending) /\ Distinct(e.pending)
    BY DEF Accepts, Listed
  <2>9. /\ IsSeq(f.pending) /\ Len(f.pending) = Len(e.pending) + 1
        /\ \A i \in 1 .. Len(e.pending) : f.pending[i] = e.pending[i]
        /\ f.pending[Len(e.pending) + 1] = s
        /\ ToSet(f.pending) = ToSet(e.pending) \cup {s}
    BY <2>3, <2>8, SeqAppend
  <2>10. Distinct(f.pending)
    <3>1. /\ Len(e.pending) \in Nat /\ DOMAIN e.pending = 1 .. Len(e.pending)
          /\ DOMAIN f.pending = 1 .. Len(e.pending) + 1
      BY <2>8, <2>9, SeqIs
    <3>2. SUFFICES ASSUME NEW i \in DOMAIN f.pending, NEW j \in DOMAIN f.pending,
                          f.pending[i] = f.pending[j]
                   PROVE  i = j
      BY DEF Distinct
    <3>3. i \in DOMAIN e.pending \/ i = Len(e.pending) + 1
      BY ONLY <3>1, i \in DOMAIN f.pending
    <3>4. j \in DOMAIN e.pending \/ j = Len(e.pending) + 1
      BY ONLY <3>1, j \in DOMAIN f.pending
    <3>5. \A k \in DOMAIN e.pending : f.pending[k] = e.pending[k] /\ f.pending[k] # s
      BY <1>2, <2>9, <3>1 DEF ToSet
    <3> QED BY <2>8, <2>9, <3>2, <3>3, <3>4, <3>5 DEF Distinct
  <2>11. Listed(f, {})
    <3>1. ToSet(f.pending) = Open(f) \ (GivenBy(f) \cup {})
      BY <1>2, <2>7, <2>9 DEF Accepts, Listed
    <3>2. ASSUME NEW r \in Sids(f) PROVE f.sess[r].pending <=> r \in ToSet(f.pending)
      <4>1. CASE r = s
        BY <2>4, <2>5, <2>9, <4>1 DEF Replaced
      <4>2. CASE r # s
        BY <2>5, <2>7, <2>9, <4>2 DEF Replaced, Accepts, Listed
      <4> QED BY <4>1, <4>2
    <3> QED BY <2>9, <2>10, <3>1, <3>2 DEF Listed
  <2>12. Waiting(f)
    BY <2>3, <2>7 DEF Accepts, Waiting
  <2> QED BY <1>4, <2>3, <2>6, <2>11, <2>12 DEF Accepts, d
<1> QED BY <1>3, <1>4

-----------------------------------------------------------------------------
(* What the operations of the receive queue write. *)

OpFields == {"sid", "size", "st", "n", "len", "times"}

\* The members that a read or a datagram leaves alone.
ReadOnly(e, f) ==
  /\ DOMAIN f = EngFields /\ Aside(e, f)
  /\ f.sessions = e.sessions /\ f.count = e.count /\ f.packets = e.packets
  /\ f.pending = e.pending /\ f.waiters = e.waiters /\ f.accs = e.accs

\* The members of a session that a read or a datagram leaves alone.
KeptOf(c, d) ==
  /\ DOMAIN d = SessFields
  /\ d.key = c.key /\ d.closed = c.closed /\ d.pending = c.pending /\ d.timeout = c.timeout
  /\ d.expiry = c.expiry /\ d.gen = c.gen /\ d.last_push = c.last_push
  /\ d.heap_live = c.heap_live

\* The read o completed as p.
Posted(o, p, st, n) ==
  /\ DOMAIN p = OpFields /\ p.sid = o.sid /\ p.size = o.size
  /\ p.st = st /\ p.n = n /\ p.times = o.times + 1

PostedAs(o, st, n, len) == [o EXCEPT !.st = st, !.n = n, !.len = len, !.times = @ + 1]

\* The record of a completed read.
LEMMA PostedIs ==
  ASSUME NEW o, DOMAIN o = OpFields, NEW st, NEW n, NEW len, NEW p, p = PostedAs(o, st, n, len)
  PROVE  Posted(o, p, st, n)
BY DEF PostedAs, Posted, OpFields

\* post_read writes that record and nothing else.
LEMMA PostReadIs ==
  ASSUME NEW e, DOMAIN e = EngFields, NEW i, i \in DOMAIN e.ops, DOMAIN e.ops[i] = OpFields,
         NEW st, NEW n, NEW len, NEW f, f = post_read(e, i, st, n, len)
  PROVE  /\ ReadOnly(e, f) /\ f.sess = e.sess /\ f.used = e.used /\ f.dropped = e.dropped
         /\ f.ops = Put(e.ops, i, PostedAs(e.ops[i], st, n, len))
<1>1. f.ops = [e.ops EXCEPT ![i] = PostedAs(e.ops[i], st, n, len)]
  BY DEF post_read, EngFields, PostedAs
<1>2. /\ ReadOnly(e, f) /\ f.sess = e.sess /\ f.used = e.used /\ f.dropped = e.dropped
  BY DEF post_read, EngFields, ReadOnly, Aside
<1> QED BY <1>1, <1>2 DEF Put

\* The first waiting read gets the datagram.
LEMMA HandOverIs ==
  ASSUME NEW e, Shape(e), NEW s \in Sids(e), NEW n, NEW len, NEW i, i = Head(e.sess[s].reads),
         i \in DOMAIN e.ops, DOMAIN e.ops[i] = OpFields,
         NEW f, f = hand_over(e, s, n, len)
  PROVE  /\ ReadOnly(e, f) /\ f.used = e.used /\ f.dropped = e.dropped
         /\ \E p : f.ops = Put(e.ops, i, p) /\ Posted(e.ops[i], p, "ok", n)
         /\ \E d : /\ f.sess = Put(e.sess, s, d) /\ KeptOf(e.sess[s], d)
                   /\ d.rx = e.sess[s].rx /\ d.rx_bytes = e.sess[s].rx_bytes
                   /\ d.reads = Tail(e.sess[s].reads)
<1> DEFINE g == [e EXCEPT !.sess[s].reads = Tail(@)]
           l == Least(len, e.ops[i].size)
           p == PostedAs(e.ops[i], "ok", n, l)
           d == [e.sess[s] EXCEPT !.reads = Tail(@)]
<1>1. DOMAIN e = EngFields /\ DOMAIN e.sess[s] = SessFields /\ s \in DOMAIN e.sess
  BY DEF Shape, Sids
<1>2. f = post_read(g, i, "ok", n, l)
  BY DEF hand_over
<1>3. /\ ReadOnly(e, g) /\ g.used = e.used /\ g.dropped = e.dropped /\ g.ops = e.ops
      /\ g.sess = Put(e.sess, s, d)
  BY <1>1 DEF EngFields, ReadOnly, Aside, Put
<1>4. /\ KeptOf(e.sess[s], d) /\ d.rx = e.sess[s].rx /\ d.rx_bytes = e.sess[s].rx_bytes
      /\ d.reads = Tail(e.sess[s].reads)
  BY <1>1 DEF SessFields, KeptOf
<1>5. Posted(e.ops[i], p, "ok", n)
  BY PostedIs
<1> HIDE DEF g, d, l
<1>6. /\ ReadOnly(g, f) /\ f.sess = g.sess /\ f.used = g.used /\ f.dropped = g.dropped
      /\ f.ops = Put(g.ops, i, PostedAs(g.ops[i], "ok", n, l))
  <2>1. DOMAIN g = EngFields
    BY <1>3 DEF ReadOnly
  <2> QED BY <1>2, <1>3, <2>1, PostReadIs
<1>7. ReadOnly(e, f)
  BY <1>3, <1>6 DEF ReadOnly, Aside
<1>8. f.ops = Put(e.ops, i, p) /\ f.sess = Put(e.sess, s, d)
  BY <1>3, <1>6
<1> HIDE DEF p
<1>9. \E p1 : f.ops = Put(e.ops, i, p1) /\ Posted(e.ops[i], p1, "ok", n)
  BY <1>5, <1>8
<1>10. \E d1 : /\ f.sess = Put(e.sess, s, d1) /\ KeptOf(e.sess[s], d1)
               /\ d1.rx = e.sess[s].rx /\ d1.rx_bytes = e.sess[s].rx_bytes
               /\ d1.reads = Tail(e.sess[s].reads)
  BY <1>4, <1>8
<1> QED BY <1>3, <1>6, <1>7, <1>9, <1>10

\* A datagram that nobody waits for is queued, or dropped.
LEMMA QueueIs ==
  ASSUME NEW e, Shape(e), NEW s \in Sids(e), NEW n, NEW len,
         NEW f, f = queue_datagram(e, s, n, len)
  PROVE  /\ ReadOnly(e, f) /\ f.ops = e.ops
         /\ \/ f.sess = e.sess /\ f.dropped = e.dropped + 1 /\ f.used = e.used
            \/ /\ f.dropped = e.dropped /\ f.used = e.used + len
               /\ ~(e.sess[s].rx_bytes + len > MaxRx) /\ ~(e.used + len > Limit)
               /\ \E d : /\ f.sess = Put(e.sess, s, d) /\ KeptOf(e.sess[s], d)
                         /\ d.rx = Add(e.sess[s].rx, [n |-> n, len |-> len])
                         /\ d.rx_bytes = e.sess[s].rx_bytes + len
                         /\ d.reads = e.sess[s].reads
<1>1. DOMAIN e = EngFields /\ DOMAIN e.sess[s] = SessFields /\ s \in DOMAIN e.sess
  BY DEF Shape, Sids
<1>2. CASE e.sess[s].rx_bytes + len > MaxRx \/ e.used + len > Limit
  <2>1. f = [e EXCEPT !.dropped = @ + 1]
    BY <1>2 DEF queue_datagram
  <2> QED BY <1>1, <2>1 DEF EngFields, ReadOnly, Aside
<1>3. CASE ~(e.sess[s].rx_bytes + len > MaxRx \/ e.used + len > Limit)
  <2> DEFINE m == [n |-> n, len |-> len]
             d == [e.sess[s] EXCEPT !.rx = Append(@, m), !.rx_bytes = @ + len]
  <2>1. f = [e EXCEPT !.sess[s].rx = Append(@, m), !.sess[s].rx_bytes = @ + len, !.used = @ + len]
    BY <1>3 DEF queue_datagram
  <2>2. /\ ReadOnly(e, f) /\ f.ops = e.ops /\ f.dropped = e.dropped /\ f.used = e.used + len
        /\ f.sess = Put(e.sess, s, d)
    BY <1>1, <2>1 DEF EngFields, ReadOnly, Aside, Put
  <2>3. /\ KeptOf(e.sess[s], d) /\ d.rx = Add(e.sess[s].rx, m)
        /\ d.rx_bytes = e.sess[s].rx_bytes + len /\ d.reads = e.sess[s].reads
    BY <1>1 DEF SessFields, KeptOf, Add
  <2> HIDE DEF d
  <2>4. \E d1 : /\ f.sess = Put(e.sess, s, d1) /\ KeptOf(e.sess[s], d1)
                /\ d1.rx = Add(e.sess[s].rx, m)
                /\ d1.rx_bytes = e.sess[s].rx_bytes + len
                /\ d1.reads = e.sess[s].reads
    BY <2>2, <2>3
  <2> QED BY <1>3, <2>2, <2>4
<1> QED BY <1>2, <1>3

\* Sequences of the same length with the same values are the same.
LEMMA SameSeq ==
  ASSUME NEW q, NEW r, IsSeq(q), IsSeq(r), Len(q) = Len(r), \A i \in 1 .. Len(q) : q[i] = r[i]
  PROVE  q = r
<1>1. q = [i \in 1 .. Len(q) |-> q[i]] /\ r = [i \in 1 .. Len(r) |-> r[i]]
  BY SeqIs
<1> QED BY <1>1

\* What is appended and then replaced.
LEMMA PutAdd ==
  ASSUME NEW q, IsSeq(q), NEW x, NEW y
  PROVE  /\ Put(Add(q, x), Len(q) + 1, y) = Add(q, y)
         /\ Len(q) + 1 \in DOMAIN Add(q, x) /\ Add(q, x)[Len(q) + 1] = x
<1> DEFINE k == Len(q) + 1
           a == Add(q, x)
           b == Add(q, y)
           c == Put(a, k, y)
<1>1. Len(q) \in Nat
  BY SeqIs
<1>2. /\ IsSeq(a) /\ Len(a) = k /\ a[k] = x /\ \A i \in 1 .. Len(q) : a[i] = q[i]
  BY SeqAppend
<1>3. /\ IsSeq(b) /\ Len(b) = k /\ b[k] = y /\ \A i \in 1 .. Len(q) : b[i] = q[i]
  BY SeqAppend
<1> HIDE DEF a, b
<1>4. DOMAIN a = 1 .. k /\ k \in 1 .. k
  <2>1. DOMAIN a = 1 .. k
    BY <1>2, SeqIs
  <2> QED BY <1>1, <2>1
<1>5. /\ IsSeq(c) /\ Len(c) = k /\ c[k] = y /\ \A i \in DOMAIN a : i # k => c[i] = a[i]
  BY <1>2, <1>4, SeqExcept
<1> HIDE DEF c
<1>6. ASSUME NEW i \in 1 .. k PROVE c[i] = b[i]
  <2>1. i = k \/ (i # k /\ i \in 1 .. Len(q))
    BY <1>1
  <2> QED BY <1>2, <1>3, <1>4, <1>5, <2>1
<1>7. c = b
  BY <1>3, <1>5, <1>6, SameSeq
<1> QED BY <1>2, <1>4, <1>7 DEF a, b, c

\* A read that was just started, as it is when the call returns.
NewRead(p, s, st, n, times) ==
  DOMAIN p = OpFields /\ p.sid = s /\ p.st = st /\ p.n = n /\ p.times = times

Started(e, f, s, st, n, times) ==
  \E p : f.ops = Add(e.ops, p) /\ NewRead(p, s, st, n, times)

\* The three cases of start_receive: closed, something queued, nothing queued.
LEMMA ReceiveIs ==
  ASSUME NEW e, Shape(e), IsSeq(e.ops), NEW s \in Sids(e), NEW size,
         NEW f, f = start_receive(e, s, size)
  PROVE  /\ ReadOnly(e, f) /\ f.dropped = e.dropped
         /\ e.sess[s].closed =>
              /\ f.sess = e.sess /\ f.used = e.used
              /\ Started(e, f, s, "bad_descriptor", 0, 1)
         /\ ~e.sess[s].closed /\ e.sess[s].rx # <<>> =>
              /\ Started(e, f, s, "ok", Head(e.sess[s].rx).n, 1)
              /\ f.used = e.used - Head(e.sess[s].rx).len
              /\ \E d : /\ f.sess = Put(e.sess, s, d) /\ KeptOf(e.sess[s], d)
                        /\ d.rx = Tail(e.sess[s].rx)
                        /\ d.rx_bytes = e.sess[s].rx_bytes - Head(e.sess[s].rx).len
                        /\ d.reads = e.sess[s].reads
         /\ ~e.sess[s].closed /\ e.sess[s].rx = <<>> =>
              /\ Started(e, f, s, "wait", 0, 0) /\ f.used = e.used
              /\ \E d : /\ f.sess = Put(e.sess, s, d) /\ KeptOf(e.sess[s], d)
                        /\ d.rx = e.sess[s].rx /\ d.rx_bytes = e.sess[s].rx_bytes
                        /\ d.reads = Add(e.sess[s].reads, Len(e.ops) + 1)
<1> DEFINE i == Len(e.ops) + 1
           o == [sid |-> s, size |-> size, st |-> "wait", n |-> 0, len |-> 0, times |-> 0]
           g == [e EXCEPT !.ops = Append(@, o)]
           c == e.sess[s]
           m == Head(c.rx)
<1>1. DOMAIN e = EngFields /\ DOMAIN c = SessFields /\ s \in DOMAIN e.sess
  BY DEF Shape, Sids
<1>2. /\ ReadOnly(e, g) /\ g.used = e.used /\ g.dropped = e.dropped /\ g.sess = e.sess
      /\ g.ops = Add(e.ops, o)
  BY <1>1 DEF EngFields, ReadOnly, Aside, Add
<1>3. /\ DOMAIN o = OpFields /\ o.sid = s /\ o.st = "wait" /\ o.n = 0 /\ o.times = 0
  BY DEF OpFields
<1>4. f = CASE c.closed -> post_read(g, i, "bad_descriptor", 0, 0)
            [] ~c.closed /\ c.rx # <<>> -> udp_pop_queued_datagram(g, s, i)
            [] OTHER -> [g EXCEPT !.sess[s].reads = Append(@, i)]
  BY DEF start_receive
<1> HIDE DEF o, g, i
<1>5. i \in DOMAIN g.ops /\ g.ops[i] = o
  BY <1>2, PutAdd DEF i
<1>6. \A p : Put(g.ops, i, p) = Add(e.ops, p)
  BY <1>2, PutAdd DEF i
<1>7. CASE c.closed
  <2>1. f = post_read(g, i, "bad_descriptor", 0, 0)
    BY <1>4, <1>7
  <2>2. /\ ReadOnly(g, f) /\ f.sess = g.sess /\ f.used = g.used /\ f.dropped = g.dropped
        /\ f.ops = Put(g.ops, i, PostedAs(g.ops[i], "bad_descriptor", 0, 0))
    <3>1. DOMAIN g = EngFields
      BY <1>2 DEF ReadOnly
    <3> QED BY <1>3, <1>5, <2>1, <3>1, PostReadIs
  <2> DEFINE p == PostedAs(o, "bad_descriptor", 0, 0)
  <2>3. f.ops = Add(e.ops, p)
    BY <1>5, <1>6, <2>2
  <2>4. Posted(o, p, "bad_descriptor", 0)
    BY <1>3, PostedIs
  <2>5. NewRead(p, s, "bad_descriptor", 0, 1)
    BY <1>3, <2>4 DEF Posted, NewRead
  <2> HIDE DEF p
  <2>6. Started(e, f, s, "bad_descriptor", 0, 1)
    BY <2>3, <2>5 DEF Started
  <2>7. ReadOnly(e, f)
    BY <1>2, <2>2 DEF ReadOnly, Aside
  <2> QED BY <1>2, <1>7, <2>2, <2>6, <2>7
<1>8. CASE ~c.closed /\ c.rx # <<>>
  <2> DEFINE h == [g EXCEPT !.sess[s].rx = Tail(@), !.sess[s].rx_bytes = @ - m.len,
                            !.used = @ - m.len]
             l == Least(m.len, g.ops[i].size)
             p == PostedAs(o, "ok", m.n, l)
             d == [c EXCEPT !.rx = Tail(@), !.rx_bytes = @ - m.len]
  <2>1. f = post_read(h, i, "ok", m.n, l)
    <3>1. f = udp_pop_queued_datagram(g, s, i)
      BY <1>4, <1>8
    <3> QED BY <1>2, <3>1 DEF udp_pop_queued_datagram
  <2>2. /\ ReadOnly(g, h) /\ h.ops = g.ops /\ h.used = e.used - m.len /\ h.dropped = e.dropped
        /\ h.sess = Put(e.sess, s, d)
    BY <1>1, <1>2 DEF EngFields, ReadOnly, Aside, Put
  <2>3. /\ KeptOf(c, d) /\ d.rx = Tail(c.rx) /\ d.rx_bytes = c.rx_bytes - m.len
        /\ d.reads = c.reads
    BY <1>1 DEF SessFields, KeptOf
  <2> HIDE DEF h, d, l
  <2>4. /\ ReadOnly(h, f) /\ f.sess = h.sess /\ f.used = h.used /\ f.dropped = h.dropped
        /\ f.ops = Put(h.ops, i, PostedAs(h.ops[i], "ok", m.n, l))
    <3>1. DOMAIN h = EngFields
      BY <2>2 DEF ReadOnly
    <3>2. i \in DOMAIN h.ops /\ h.ops[i] = o /\ DOMAIN h.ops[i] = OpFields
      BY <1>3, <1>5, <2>2
    <3> QED BY ONLY <2>1, <3>1, <3>2, PostReadIs
  <2>5. f.ops = Add(e.ops, p)
    BY <1>5, <1>6, <2>2, <2>4
  <2>6. Posted(o, p, "ok", m.n)
    BY <1>3, PostedIs
  <2>7. NewRead(p, s, "ok", m.n, 1)
    BY <1>3, <2>6 DEF Posted, NewRead
  <2> HIDE DEF p
  <2>8. Started(e, f, s, "ok", m.n, 1)
    BY <2>5, <2>7 DEF Started
  <2>9. ReadOnly(e, f)
    BY <1>2, <2>2, <2>4 DEF ReadOnly, Aside
  <2>10. \E d1 : /\ f.sess = Put(e.sess, s, d1) /\ KeptOf(c, d1)
                 /\ d1.rx = Tail(c.rx) /\ d1.rx_bytes = c.rx_bytes - m.len
                 /\ d1.reads = c.reads
    BY <2>2, <2>3, <2>4
  <2> QED BY <1>8, <2>2, <2>4, <2>8, <2>9, <2>10
<1>9. CASE ~c.closed /\ c.rx = <<>>
  <2> DEFINE d == [c EXCEPT !.reads = Append(@, i)]
  <2>1. f = [g EXCEPT !.sess[s].reads = Append(@, i)]
    BY <1>4, <1>9
  <2>2. /\ ReadOnly(g, f) /\ f.ops = g.ops /\ f.used = e.used /\ f.dropped = e.dropped
        /\ f.sess = Put(e.sess, s, d)
    BY <1>1, <1>2, <2>1 DEF EngFields, ReadOnly, Aside, Put
  <2>3. /\ KeptOf(c, d) /\ d.rx = c.rx /\ d.rx_bytes = c.rx_bytes
        /\ d.reads = Add(c.reads, i)
    BY <1>1 DEF SessFields, KeptOf, Add
  <2> HIDE DEF d
  <2>4. NewRead(o, s, "wait", 0, 0)
    BY <1>3 DEF NewRead
  <2>5. Started(e, f, s, "wait", 0, 0)
    BY <1>2, <2>2, <2>4 DEF Started
  <2>6. ReadOnly(e, f)
    BY <1>2, <2>2 DEF ReadOnly, Aside
  <2>7. \E d1 : /\ f.sess = Put(e.sess, s, d1) /\ KeptOf(c, d1)
                /\ d1.rx = c.rx /\ d1.rx_bytes = c.rx_bytes
                /\ d1.reads = Add(c.reads, i)
    BY <2>2, <2>3
  <2> QED BY <1>9, <2>2, <2>5, <2>6, <2>7 DEF i
<1> QED BY <1>7, <1>8, <1>9

-----------------------------------------------------------------------------
(***************************************************************************)
(* Reads.  m is the number of the last datagram that came in.              *)
(***************************************************************************)
Rising(q) == \A i, j \in DOMAIN q : i < j => q[i] < q[j]

Numbered(rx, m) ==
  /\ \A i \in DOMAIN rx : rx[i].n \in Nat /\ rx[i].n <= m
  /\ \A i, j \in DOMAIN rx : i < j => rx[i].n < rx[j].n

\* The queues of a session: nothing waits beside a datagram or when closed.
Queues(d, m) ==
  /\ IsSeq(d.reads) /\ Rising(d.reads)
  /\ IsSeq(d.rx) /\ Numbered(d.rx, m)
  /\ d.reads # <<>> => ~d.closed /\ d.rx = <<>>
  /\ d.closed => d.rx = <<>>

\* The reads of session s: the ones that wait are in its queue, the ones that
\* got a datagram came before them and in order, and what is queued is younger.
Owned(d, ops, s) ==
  ToSet(d.reads) = {i \in DOMAIN ops : ops[i].sid = s /\ ops[i].st = "wait"}

Fresh(d, ops, s, m) ==
  \A i \in DOMAIN ops : ops[i].sid = s /\ ops[i].st = "ok" =>
    ops[i].n <= m /\ \A j \in DOMAIN d.rx : ops[i].n < d.rx[j].n

Ordered(ops, s) ==
  \A i, j \in DOMAIN ops : ops[i].sid = s /\ ops[j].sid = s /\ ops[i].st = "ok" =>
    /\ i < j /\ ops[j].st = "ok" => ops[i].n < ops[j].n
    /\ ops[j].st = "wait" => i < j

ReadOk(o) ==
  DOMAIN o = OpFields /\ o.n \in Nat /\ o.times = IF o.st = "wait" THEN 0 ELSE 1

ReadsOk(ops, s) == \A i \in DOMAIN ops : ops[i].sid = s => ReadOk(ops[i])

SessReads(d, ops, s, m) ==
  Queues(d, m) /\ Owned(d, ops, s) /\ Fresh(d, ops, s, m) /\ Ordered(ops, s) /\ ReadsOk(ops, s)

Reads(e, m) ==
  /\ IsSeq(e.ops) /\ m \in Nat
  /\ \A i \in DOMAIN e.ops : e.ops[i].sid \in Sids(e)
  /\ \A s \in Sids(e) : SessReads(e.sess[s], e.ops, s, m)

\* Only reads of session s were changed or added.
OnlyOf(ops, new, s) ==
  /\ \A i \in DOMAIN new : new[i].sid = s \/ (i \in DOMAIN ops /\ new[i] = ops[i])
  /\ \A i \in DOMAIN ops : i \in DOMAIN new /\ (ops[i].sid # s => new[i] = ops[i])
  /\ \A i \in DOMAIN ops : ops[i].sid = s => new[i].sid = s

\* The queues of a session when more datagrams came.
LEMMA QueuesLater ==
  ASSUME NEW d, NEW m \in Nat, NEW n \in Nat, m <= n, Queues(d, m)
  PROVE  Queues(d, n)
<1>1. \A i \in DOMAIN d.rx : d.rx[i].n \in Nat /\ d.rx[i].n <= n
  BY DEF Queues, Numbered
<1> QED BY <1>1 DEF Queues, Numbered

\* The reads of another session.
LEMMA OtherReads ==
  ASSUME NEW d, NEW ops, NEW new, NEW s, NEW r, r # s, NEW m \in Nat, NEW n \in Nat, m <= n,
         OnlyOf(ops, new, s), SessReads(d, ops, r, m)
  PROVE  SessReads(d, new, r, n)
<1>1. \A i \in DOMAIN new : new[i].sid = r => i \in DOMAIN ops /\ new[i] = ops[i]
  BY DEF OnlyOf
<1>2. \A i \in DOMAIN ops : ops[i].sid = r => i \in DOMAIN new /\ new[i] = ops[i]
  BY DEF OnlyOf
<1>3. Owned(d, new, r)
  BY <1>1, <1>2 DEF SessReads, Owned
<1>4. Fresh(d, new, r, n)
  <2>1. SUFFICES ASSUME NEW i \in DOMAIN new, new[i].sid = r, new[i].st = "ok"
                 PROVE  new[i].n <= n /\ \A j \in DOMAIN d.rx : new[i].n < d.rx[j].n
    BY DEF Fresh
  <2>2. i \in DOMAIN ops /\ new[i] = ops[i]
    BY <1>1, <2>1
  <2>3. ops[i].n <= m /\ \A j \in DOMAIN d.rx : ops[i].n < d.rx[j].n
    BY <2>1, <2>2 DEF SessReads, Fresh
  <2>4. ops[i].n \in Nat
    BY <2>1, <2>2 DEF SessReads, ReadsOk, ReadOk
  <2> QED BY <2>2, <2>3, <2>4
<1>5. Ordered(new, r)
  BY <1>1 DEF SessReads, Ordered
<1>6. ReadsOk(new, r)
  BY <1>1 DEF SessReads, ReadsOk
<1>7. Queues(d, n)
  BY QueuesLater DEF SessReads
<1> QED BY <1>3, <1>4, <1>5, <1>6, <1>7 DEF SessReads

\* A step on one session.
LEMMA ReadsOf ==
  ASSUME NEW e, NEW f, NEW s \in Sids(e), NEW d, NEW m, NEW n \in Nat, m <= n,
         Reads(e, m), Replaced(e, f, s, d), IsSeq(f.ops), OnlyOf(e.ops, f.ops, s),
         SessReads(d, f.ops, s, n)
  PROVE  Reads(f, n)
<1>1. m \in Nat
  BY DEF Reads
<1>2. \A i \in DOMAIN f.ops : f.ops[i].sid \in Sids(f)
  BY DEF Reads, OnlyOf, Replaced
<1>3. ASSUME NEW r \in Sids(f) PROVE SessReads(f.sess[r], f.ops, r, n)
  <2>1. CASE r = s
    BY <2>1 DEF Replaced
  <2>2. CASE r # s
    <3>1. r \in Sids(e) /\ f.sess[r] = e.sess[r]
      BY <2>2 DEF Replaced
    <3>2. SessReads(e.sess[r], e.ops, r, m)
      BY <3>1 DEF Reads
    <3> QED BY <1>1, <2>2, <3>1, <3>2, OtherReads
  <2> QED BY <2>1, <2>2
<1> QED BY <1>2, <1>3 DEF Reads

\* What Reads looks at.
SameReads(e, f) ==
  /\ f.ops = e.ops /\ Sids(f) = Sids(e)
  /\ \A s \in Sids(e) : /\ f.sess[s].closed = e.sess[s].closed
                        /\ f.sess[s].rx = e.sess[s].rx /\ f.sess[s].reads = e.sess[s].reads

\* A step that changes none of it keeps the reads in order.
LEMMA ReadsKept ==
  ASSUME NEW e, NEW f, NEW m, NEW n \in Nat, m <= n, Reads(e, m), SameReads(e, f)
  PROVE  Reads(f, n)
<1>1. m \in Nat
  BY DEF Reads
<1>2. ASSUME NEW s \in Sids(e) PROVE SessReads(f.sess[s], f.ops, s, n)
  <2> DEFINE c == e.sess[s]
             d == f.sess[s]
  <2>1. d.closed = c.closed /\ d.rx = c.rx /\ d.reads = c.reads /\ f.ops = e.ops
    BY DEF SameReads
  <2>2. SessReads(c, e.ops, s, m)
    BY DEF Reads
  <2> HIDE DEF c, d
  <2>3. Queues(c, n)
    BY <1>1, <2>2, QueuesLater DEF SessReads
  <2>4. Queues(d, n)
    BY <2>1, <2>3 DEF Queues
  <2>5. Owned(d, f.ops, s) /\ Ordered(f.ops, s) /\ ReadsOk(f.ops, s)
    BY <2>1, <2>2 DEF SessReads, Owned
  <2>6. Fresh(d, f.ops, s, n)
    <3>1. SUFFICES ASSUME NEW i \in DOMAIN f.ops, f.ops[i].sid = s, f.ops[i].st = "ok"
                   PROVE  f.ops[i].n <= n /\ \A j \in DOMAIN d.rx : f.ops[i].n < d.rx[j].n
      BY DEF Fresh
    <3>2. f.ops[i].n <= m /\ \A j \in DOMAIN d.rx : f.ops[i].n < d.rx[j].n
      BY <2>1, <2>2, <3>1 DEF SessReads, Fresh
    <3>3. f.ops[i].n \in Nat
      BY <2>5, <3>1 DEF ReadsOk, ReadOk
    <3> QED BY <1>1, <3>2, <3>3
  <2>7. SessReads(d, f.ops, s, n)
    BY <2>4, <2>5, <2>6 DEF SessReads
  <2> QED BY <2>7 DEF d
<1> QED BY <1>2 DEF Reads, SameReads

\* The timer changes none of it.
LEMMA QuietReads ==
  ASSUME NEW e, NEW f, Quiet(e, f)
  PROVE  SameReads(e, f)
BY DEF Quiet, Fixed, SameSession, SameReads

\* One read of session s becomes p.
LEMMA OnePut ==
  ASSUME NEW ops, IsSeq(ops), NEW i \in DOMAIN ops, NEW p, NEW s, ops[i].sid = s, p.sid = s,
         NEW new, new = Put(ops, i, p)
  PROVE  /\ IsSeq(new) /\ OnlyOf(ops, new, s) /\ DOMAIN new = DOMAIN ops /\ new[i] = p
         /\ \A j \in DOMAIN ops : j # i => new[j] = ops[j]
<1>1. /\ IsSeq(new) /\ DOMAIN new = DOMAIN ops /\ new[i] = p
      /\ \A j \in DOMAIN ops : j # i => new[j] = ops[j]
  BY SeqExcept
<1>2. OnlyOf(ops, new, s)
  <2>1. ASSUME NEW j \in DOMAIN ops
        PROVE  /\ new[j].sid = s \/ new[j] = ops[j]
               /\ ops[j].sid # s => new[j] = ops[j]
               /\ ops[j].sid = s => new[j].sid = s
    <3>1. CASE j = i
      BY <1>1, <3>1
    <3>2. CASE j # i
      BY <1>1, <3>2
    <3> QED BY <3>1, <3>2
  <2> QED BY <1>1, <2>1 DEF OnlyOf
<1> QED BY <1>1, <1>2

\* A read of session s is added as the k-th.
Grew(ops, new, s, k, p) ==
  /\ IsSeq(new) /\ OnlyOf(ops, new, s) /\ DOMAIN new = DOMAIN ops \cup {k}
  /\ new[k] = p /\ k \in Nat /\ DOMAIN ops \subseteq Nat
  /\ \A j \in DOMAIN ops : new[j] = ops[j] /\ j < k

\* What appending a read gives.
LEMMA OneAdd ==
  ASSUME NEW ops, IsSeq(ops), NEW p, NEW s, p.sid = s, NEW new, new = Add(ops, p)
  PROVE  Grew(ops, new, s, Len(ops) + 1, p)
<1> DEFINE k == Len(ops) + 1
<1>0. k = Len(ops) + 1
  OBVIOUS
<1> HIDE DEF k
<1>1. Len(ops) \in Nat /\ DOMAIN ops = 1 .. Len(ops) /\ k \in Nat
  BY <1>0, SeqIs
<1>2. /\ IsSeq(new) /\ Len(new) = k /\ new[k] = p
      /\ \A j \in 1 .. Len(ops) : new[j] = ops[j]
  BY <1>0, SeqAppend
<1>3. DOMAIN new = 1 .. k
  BY <1>2, SeqIs
<1>4. DOMAIN new = DOMAIN ops \cup {k} /\ \A j \in DOMAIN ops : j < k /\ j \in Nat
  BY ONLY <1>0, <1>1, <1>3
<1>5. \A j \in DOMAIN ops : new[j] = ops[j]
  BY <1>1, <1>2
<1>6. OnlyOf(ops, new, s)
  BY <1>2, <1>4, <1>5 DEF OnlyOf
<1>7. DOMAIN ops \subseteq Nat
  BY <1>4
<1>8. Grew(ops, new, s, k, p)
  BY <1>1, <1>2, <1>4, <1>5, <1>6, <1>7 DEF Grew
<1> QED BY <1>0, <1>8

\* The rest of a rising queue rises, and its head was the least.
LEMMA RisingTail ==
  ASSUME NEW q, IsSeq(q), q # <<>>, Rising(q), \A i \in DOMAIN q : q[i] \in Nat,
         NEW r, r = Tail(q)
  PROVE  /\ IsSeq(r) /\ Rising(r) /\ ToSet(r) = ToSet(q) \ {Head(q)} /\ Head(q) \in ToSet(q)
         /\ \A x \in ToSet(r) : Head(q) < x
<1>1. Distinct(q)
  <2>1. DOMAIN q = 1 .. Len(q) /\ Len(q) \in Nat
    BY SeqIs
  <2>2. SUFFICES ASSUME NEW i \in DOMAIN q, NEW j \in DOMAIN q, q[i] = q[j], i # j PROVE FALSE
    BY DEF Distinct
  <2>3. i < j \/ j < i
    BY ONLY <2>1, <2>2
  <2>4. q[i] < q[j] \/ q[j] < q[i]
    BY <2>3 DEF Rising
  <2> QED BY <2>2, <2>4
<1>2. /\ IsSeq(r) /\ ToSet(r) = ToSet(q) \ {Head(q)} /\ Head(q) \in ToSet(q)
  BY <1>1, FirstLeaves
<1>3. /\ IsSeq(r) /\ Len(r) = Len(q) - 1 /\ Len(q) > 0
      /\ \A i \in 1 .. Len(r) : r[i] = q[i + 1]
      /\ Head(q) = q[1]
  BY SeqTail
<1>4. Len(q) \in Nat /\ DOMAIN q = 1 .. Len(q) /\ Len(r) \in Nat /\ DOMAIN r = 1 .. Len(r)
  BY <1>3, SeqIs
<1>5. \A i \in 1 .. Len(r) : i + 1 \in DOMAIN q /\ 1 < i + 1 /\ i \in Nat
  BY ONLY <1>3, <1>4
<1>6. 1 \in DOMAIN q
  BY <1>3, <1>4
<1>7. Rising(r)
  <2>1. SUFFICES ASSUME NEW i \in 1 .. Len(r), NEW j \in 1 .. Len(r), i < j PROVE r[i] < r[j]
    BY <1>4 DEF Rising
  <2>2. i + 1 < j + 1
    BY <1>5, <2>1
  <2> QED BY <1>3, <1>5, <2>1, <2>2 DEF Rising
<1>8. ASSUME NEW x \in ToSet(r) PROVE Head(q) < x
  <2>1. PICK i \in 1 .. Len(r) : x = r[i]
    BY <1>4 DEF ToSet
  <2> QED BY <1>3, <1>5, <1>6, <2>1 DEF Rising
<1> QED BY <1>2, <1>7, <1>8

\* Reads in the queue are among the operations.
LEMMA WaitingReads ==
  ASSUME NEW d, NEW ops, IsSeq(ops), NEW s, NEW m, SessReads(d, ops, s, m)
  PROVE  /\ \A i \in DOMAIN d.reads : d.reads[i] \in Nat
         /\ \A x \in ToSet(d.reads) : x \in DOMAIN ops /\ ops[x].sid = s /\ ops[x].st = "wait"
<1>1. DOMAIN ops = 1 .. Len(ops) /\ Len(ops) \in Nat
  BY SeqIs
<1>2. \A x \in ToSet(d.reads) : x \in DOMAIN ops /\ ops[x].sid = s /\ ops[x].st = "wait"
  BY DEF SessReads, Owned
<1>3. \A i \in DOMAIN d.reads : d.reads[i] \in ToSet(d.reads)
  BY DEF ToSet
<1> QED BY <1>1, <1>2, <1>3

\* The first waiting read gets a datagram that is younger than all before.
LEMMA SessHanded ==
  ASSUME NEW c, NEW d, NEW ops, IsSeq(ops), NEW s, NEW m \in Nat, NEW n \in Nat, m < n,
         SessReads(c, ops, s, m), c.reads # <<>>, NEW i, i = Head(c.reads),
         NEW p, Posted(ops[i], p, "ok", n), NEW new, new = Put(ops, i, p),
         KeptOf(c, d), d.rx = c.rx, d.reads = Tail(c.reads)
  PROVE  SessReads(d, new, s, n) /\ IsSeq(new) /\ OnlyOf(ops, new, s)
<1>1. /\ \A j \in DOMAIN c.reads : c.reads[j] \in Nat
      /\ \A x \in ToSet(c.reads) : x \in DOMAIN ops /\ ops[x].sid = s /\ ops[x].st = "wait"
  BY WaitingReads
<1>2. IsSeq(c.reads) /\ Rising(c.reads) /\ c.rx = <<>> /\ ~c.closed
  BY DEF SessReads, Queues
<1>3. /\ IsSeq(d.reads) /\ Rising(d.reads) /\ ToSet(d.reads) = ToSet(c.reads) \ {i}
      /\ i \in ToSet(c.reads) /\ \A x \in ToSet(d.reads) : i < x
  BY <1>1, <1>2, RisingTail
<1>4. i \in DOMAIN ops /\ ops[i].sid = s /\ ops[i].st = "wait"
  BY <1>1, <1>3
<1>5. ReadOk(ops[i])
  BY <1>4 DEF SessReads, ReadsOk
<1>6. DOMAIN p = OpFields /\ p.sid = s /\ p.st = "ok" /\ p.n = n /\ p.times = 1
  BY <1>4, <1>5 DEF Posted, ReadOk
<1>7. /\ IsSeq(new) /\ OnlyOf(ops, new, s) /\ DOMAIN new = DOMAIN ops /\ new[i] = p
      /\ \A j \in DOMAIN ops : j # i => new[j] = ops[j]
  BY <1>4, <1>6, OnePut
<1>8. Queues(d, n)
  <2>1. Numbered(d.rx, n) /\ IsSeq(d.rx) /\ d.rx = <<>> /\ d.closed = c.closed
    <3>1. Queues(c, n)
      BY QueuesLater DEF SessReads
    <3> QED BY <1>2, <3>1 DEF Queues, KeptOf
  <2> QED BY <1>2, <1>3, <2>1 DEF Queues
<1>9. Owned(d, new, s)
  <2>1. ToSet(c.reads) = {j \in DOMAIN ops : ops[j].sid = s /\ ops[j].st = "wait"}
    BY DEF SessReads, Owned
  <2>2. ASSUME NEW x PROVE x \in ToSet(d.reads) <=>
                             x \in DOMAIN new /\ new[x].sid = s /\ new[x].st = "wait"
    <3>1. CASE x = i
      BY <1>3, <1>6, <1>7, <3>1
    <3>2. CASE x # i
      BY <1>3, <1>7, <2>1, <3>2
    <3> QED BY <3>1, <3>2
  <2> QED BY <2>2 DEF Owned
<1>10. \A j \in DOMAIN ops : ops[j].sid = s /\ ops[j].st = "ok" => ops[j].n \in Nat /\ ops[j].n <= m
  BY DEF SessReads, Fresh, ReadsOk, ReadOk
<1>11. Fresh(d, new, s, n)
  <2>1. d.rx = <<>> /\ DOMAIN d.rx = {}
    BY <1>2
  <2>2. SUFFICES ASSUME NEW j \in DOMAIN new, new[j].sid = s, new[j].st = "ok"
                 PROVE  new[j].n <= n
    BY <2>1 DEF Fresh
  <2>3. CASE j = i
    BY <1>6, <1>7, <2>3
  <2>4. CASE j # i
    BY <1>7, <1>10, <2>2, <2>4
  <2> QED BY <2>3, <2>4
<1>12. Ordered(new, s)
  <2>1. SUFFICES ASSUME NEW j \in DOMAIN new, NEW k \in DOMAIN new,
                        new[j].sid = s, new[k].sid = s, new[j].st = "ok"
                 PROVE  /\ j < k /\ new[k].st = "ok" => new[j].n < new[k].n
                        /\ new[k].st = "wait" => j < k
    BY DEF Ordered
  <2>2. CASE j # i /\ k # i
    BY <1>7, <2>1, <2>2 DEF SessReads, Ordered
  <2>3. CASE j = i
    <3>0. i \in Nat
      <4>1. DOMAIN ops = 1 .. Len(ops) /\ Len(ops) \in Nat
        BY SeqIs
      <4> QED BY <1>4, <4>1
    <3>1. CASE k = i
      BY <1>6, <1>7, <2>3, <3>0, <3>1
    <3>2. CASE k # i
      <4>1. new[k] = ops[k]
        BY <1>7, <3>2
      <4>2. new[k].st = "ok" => k < i
        BY <1>4, <1>7, <2>1, <4>1 DEF SessReads, Ordered
      <4>3. new[k].st = "wait" => k \in ToSet(d.reads)
        BY <1>7, <1>9, <2>1 DEF Owned
      <4>4. i \in Nat /\ k \in Nat
        <5>1. DOMAIN ops = 1 .. Len(ops) /\ Len(ops) \in Nat
          BY SeqIs
        <5> QED BY <1>4, <1>7, <5>1
      <4> QED BY <1>3, <2>3, <4>2, <4>3, <4>4
    <3> QED BY <3>1, <3>2
  <2>4. CASE j # i /\ k = i
    <3>1. new[j] = ops[j] /\ new[k] = p
      BY <1>7, <2>4
    <3> QED BY <1>6, <1>7, <1>10, <2>1, <3>1
  <2> QED BY <2>2, <2>3, <2>4
<1>13. ReadsOk(new, s)
  <2>1. SUFFICES ASSUME NEW j \in DOMAIN new, new[j].sid = s PROVE ReadOk(new[j])
    BY DEF ReadsOk
  <2>2. CASE j = i
    BY <1>6, <1>7, <2>2 DEF ReadOk
  <2>3. CASE j # i
    BY <1>7, <2>1, <2>3 DEF SessReads, ReadsOk
  <2> QED BY <2>2, <2>3
<1> QED BY <1>7, <1>8, <1>9, <1>11, <1>12, <1>13 DEF SessReads

\* A datagram that nobody waits for is queued behind the others.
LEMMA SessQueued ==
  ASSUME NEW c, NEW d, NEW ops, NEW s, NEW m \in Nat, NEW n \in Nat, m < n,
         SessReads(c, ops, s, m), ~c.closed, c.reads = <<>>, NEW len,
         KeptOf(c, d), d.rx = Add(c.rx, [n |-> n, len |-> len]), d.reads = c.reads
  PROVE  SessReads(d, ops, s, n)
<1> DEFINE x == [n |-> n, len |-> len]
           k == Len(c.rx) + 1
<1>1. x.n = n
  OBVIOUS
<1>2. IsSeq(c.rx) /\ Numbered(c.rx, m)
  BY DEF SessReads, Queues
<1> HIDE DEF x
<1>3. /\ IsSeq(d.rx) /\ Len(d.rx) = k /\ d.rx[k] = x
      /\ \A i \in 1 .. Len(c.rx) : d.rx[i] = c.rx[i]
  <2>1. d.rx = Add(c.rx, x)
    BY DEF x
  <2> QED BY <1>2, <2>1, SeqAppend
<1>4. Len(c.rx) \in Nat /\ DOMAIN c.rx = 1 .. Len(c.rx) /\ DOMAIN d.rx = 1 .. k
  BY <1>2, <1>3, SeqIs
<1>5. \A i \in DOMAIN d.rx : i \in Nat /\ (i = k \/ i \in DOMAIN c.rx) /\ ~(k < i)
  BY ONLY <1>4
<1>6. \A i \in DOMAIN c.rx : d.rx[i].n = c.rx[i].n /\ c.rx[i].n \in Nat /\ c.rx[i].n < n
  BY <1>2, <1>3, <1>4 DEF Numbered
<1> HIDE DEF k
<1>7. Numbered(d.rx, n)
  <2>1. ASSUME NEW i \in DOMAIN d.rx PROVE d.rx[i].n \in Nat /\ d.rx[i].n <= n
    BY <1>1, <1>3, <1>5, <1>6
  <2>2. ASSUME NEW i \in DOMAIN d.rx, NEW j \in DOMAIN d.rx, i < j
        PROVE  d.rx[i].n < d.rx[j].n
    <3>1. i # k
      BY <1>5, <2>2
    <3>2. i \in DOMAIN c.rx
      BY <1>5, <3>1
    <3>3. CASE j = k
      BY <1>1, <1>3, <1>6, <3>2, <3>3
    <3>4. CASE j # k
      BY <1>2, <1>5, <1>6, <2>2, <3>2, <3>4 DEF Numbered
    <3> QED BY <3>3, <3>4
  <2> QED BY <2>1, <2>2 DEF Numbered
<1>8. Queues(d, n)
  BY <1>3, <1>7 DEF SessReads, Queues, KeptOf
<1>9. Owned(d, ops, s)
  BY DEF SessReads, Owned
<1>10. Fresh(d, ops, s, n)
  <2>1. SUFFICES ASSUME NEW i \in DOMAIN ops, ops[i].sid = s, ops[i].st = "ok"
                 PROVE  ops[i].n <= n /\ \A j \in DOMAIN d.rx : ops[i].n < d.rx[j].n
    BY DEF Fresh
  <2>2. ops[i].n <= m /\ ops[i].n \in Nat /\ \A j \in DOMAIN c.rx : ops[i].n < c.rx[j].n
    BY <2>1 DEF SessReads, Fresh, ReadsOk, ReadOk
  <2>3. ASSUME NEW j \in DOMAIN d.rx PROVE ops[i].n < d.rx[j].n
    <3>1. CASE j = k
      BY <1>1, <1>3, <2>2, <3>1
    <3>2. CASE j # k
      BY <1>5, <1>6, <2>2, <3>2
    <3> QED BY <3>1, <3>2
  <2> QED BY <2>2, <2>3
<1> QED BY <1>8, <1>9, <1>10 DEF SessReads

\* A read is refused.
LEMMA SessRefused ==
  ASSUME NEW d, NEW ops, IsSeq(ops), NEW s, NEW m \in Nat, SessReads(d, ops, s, m),
         NEW st, st # "ok", st # "wait", NEW p, NewRead(p, s, st, 0, 1), NEW new, new = Add(ops, p)
  PROVE  SessReads(d, new, s, m) /\ IsSeq(new) /\ OnlyOf(ops, new, s)
<1> DEFINE k == Len(ops) + 1
<1>0. k = Len(ops) + 1
  OBVIOUS
<1> HIDE DEF k
<1>1. DOMAIN p = OpFields /\ p.sid = s /\ p.st = st /\ p.n = 0 /\ p.times = 1
  BY DEF NewRead
<1>a. Grew(ops, new, s, k, p)
  BY <1>0, <1>1, OneAdd
<1>2. /\ IsSeq(new) /\ OnlyOf(ops, new, s) /\ DOMAIN new = DOMAIN ops \cup {k} /\ new[k] = p
      /\ k \in Nat /\ DOMAIN ops \subseteq Nat
      /\ \A j \in DOMAIN ops : new[j] = ops[j] /\ j < k
  BY <1>a DEF Grew
<1>3. \A j \in DOMAIN new : new[j].st = "ok" \/ new[j].st = "wait"
                              => j \in DOMAIN ops /\ new[j] = ops[j]
  BY <1>1, <1>2
<1>4. Owned(d, new, s)
  BY <1>2, <1>3 DEF SessReads, Owned
<1>5. Fresh(d, new, s, m)
  BY <1>3 DEF SessReads, Fresh
<1>6. Ordered(new, s)
  BY <1>3 DEF SessReads, Ordered
<1>7. ReadsOk(new, s)
  <2>1. ReadOk(p)
    BY <1>1 DEF ReadOk
  <2> QED BY <1>2, <2>1 DEF SessReads, ReadsOk
<1> QED BY <1>2, <1>4, <1>5, <1>6, <1>7 DEF SessReads

\* A read waits.
LEMMA SessWaits ==
  ASSUME NEW c, NEW d, NEW ops, IsSeq(ops), NEW s, NEW m \in Nat, SessReads(c, ops, s, m),
         ~c.closed, c.rx = <<>>, NEW p, NewRead(p, s, "wait", 0, 0), NEW new, new = Add(ops, p),
         KeptOf(c, d), d.rx = c.rx, d.reads = Add(c.reads, Len(ops) + 1)
  PROVE  SessReads(d, new, s, m) /\ IsSeq(new) /\ OnlyOf(ops, new, s)
<1> DEFINE k == Len(ops) + 1
<1>0. k = Len(ops) + 1
  OBVIOUS
<1> HIDE DEF k
<1>1. DOMAIN p = OpFields /\ p.sid = s /\ p.st = "wait" /\ p.n = 0 /\ p.times = 0
  BY DEF NewRead
<1>a. Grew(ops, new, s, k, p)
  BY <1>0, <1>1, OneAdd
<1>2. /\ IsSeq(new) /\ OnlyOf(ops, new, s) /\ DOMAIN new = DOMAIN ops \cup {k} /\ new[k] = p
      /\ k \in Nat /\ DOMAIN ops \subseteq Nat
      /\ \A j \in DOMAIN ops : new[j] = ops[j] /\ j < k
  BY <1>a DEF Grew
<1>3. k \notin DOMAIN ops
  BY <1>2
<1>4. d.reads = Add(c.reads, k)
  BY <1>0
<1>5. IsSeq(c.reads) /\ Rising(c.reads) /\ IsSeq(c.rx) /\ Numbered(c.rx, m)
  BY DEF SessReads, Queues
<1>6. /\ IsSeq(d.reads) /\ Len(d.reads) = Len(c.reads) + 1
      /\ \A j \in 1 .. Len(c.reads) : d.reads[j] = c.reads[j]
      /\ d.reads[Len(c.reads) + 1] = k
      /\ ToSet(d.reads) = ToSet(c.reads) \cup {k}
  BY <1>4, <1>5, SeqAppend
<1>7. /\ Len(c.reads) \in Nat /\ DOMAIN c.reads = 1 .. Len(c.reads)
      /\ DOMAIN d.reads = 1 .. Len(c.reads) + 1
  BY <1>5, <1>6, SeqIs
<1>8. \A j \in DOMAIN c.reads : c.reads[j] < k
  <2>1. \A x \in ToSet(c.reads) : x \in DOMAIN ops
    BY WaitingReads
  <2>2. \A j \in DOMAIN c.reads : c.reads[j] \in ToSet(c.reads)
    BY DEF ToSet
  <2> QED BY <1>2, <2>1, <2>2
<1>9. Rising(d.reads)
  <2> DEFINE l == Len(c.reads) + 1
  <2>1. \A i \in DOMAIN d.reads : i \in Nat /\ (i = l \/ i \in DOMAIN c.reads) /\ ~(l < i)
    BY ONLY <1>7
  <2>2. \A i \in DOMAIN c.reads : d.reads[i] = c.reads[i]
    BY <1>6, <1>7
  <2>3. d.reads[l] = k
    BY <1>6
  <2> HIDE DEF l
  <2>4. SUFFICES ASSUME NEW i \in DOMAIN d.reads, NEW j \in DOMAIN d.reads, i < j
                 PROVE  d.reads[i] < d.reads[j]
    BY DEF Rising
  <2>5. i # l /\ i \in DOMAIN c.reads
    BY <2>1, <2>4
  <2>6. CASE j = l
    BY <1>8, <2>2, <2>3, <2>5, <2>6
  <2>7. CASE j # l
    BY <1>5, <2>1, <2>2, <2>4, <2>5, <2>7 DEF Rising
  <2> QED BY <2>6, <2>7
<1>10. Queues(d, m)
  BY <1>5, <1>6, <1>9 DEF Queues, KeptOf
<1>11. Owned(d, new, s)
  <2>1. ToSet(c.reads) = {j \in DOMAIN ops : ops[j].sid = s /\ ops[j].st = "wait"}
    BY DEF SessReads, Owned
  <2>2. ASSUME NEW x PROVE x \in ToSet(d.reads) <=>
                             x \in DOMAIN new /\ new[x].sid = s /\ new[x].st = "wait"
    <3>1. CASE x = k
      BY <1>1, <1>2, <1>6, <3>1
    <3>2. CASE x # k
      BY <1>2, <1>6, <2>1, <3>2
    <3> QED BY <3>1, <3>2
  <2> QED BY <2>2 DEF Owned
<1>12. \A j \in DOMAIN new : new[j].st = "ok" => j \in DOMAIN ops /\ new[j] = ops[j]
  BY <1>1, <1>2
<1>13. Fresh(d, new, s, m)
  BY <1>12 DEF SessReads, Fresh
<1>14. Ordered(new, s)
  <2>1. SUFFICES ASSUME NEW i \in DOMAIN new, NEW j \in DOMAIN new,
                        new[i].sid = s, new[j].sid = s, new[i].st = "ok"
                 PROVE  /\ i < j /\ new[j].st = "ok" => new[i].n < new[j].n
                        /\ new[j].st = "wait" => i < j
    BY DEF Ordered
  <2>2. i \in DOMAIN ops /\ new[i] = ops[i]
    BY <1>12, <2>1
  <2>3. CASE j = k
    BY <1>1, <1>2, <2>2, <2>3
  <2>4. CASE j # k
    <3>1. j \in DOMAIN ops /\ new[j] = ops[j]
      BY <1>2, <2>4
    <3> QED BY <2>1, <2>2, <3>1 DEF SessReads, Ordered
  <2> QED BY <2>3, <2>4
<1>15. ReadsOk(new, s)
  <2>1. ReadOk(p)
    BY <1>1 DEF ReadOk
  <2> QED BY <1>2, <2>1 DEF SessReads, ReadsOk
<1> QED BY <1>2, <1>10, <1>11, <1>13, <1>14, <1>15 DEF SessReads

\* A read takes the oldest datagram of the queue.
LEMMA SessPopped ==
  ASSUME NEW c, NEW d, NEW ops, IsSeq(ops), NEW s, NEW m \in Nat, SessReads(c, ops, s, m),
         c.rx # <<>>, NEW p, NewRead(p, s, "ok", Head(c.rx).n, 1), NEW new, new = Add(ops, p),
         KeptOf(c, d), d.rx = Tail(c.rx), d.reads = c.reads
  PROVE  SessReads(d, new, s, m) /\ IsSeq(new) /\ OnlyOf(ops, new, s)
<1> DEFINE k == Len(ops) + 1
           x == Head(c.rx)
<1>0. k = Len(ops) + 1
  OBVIOUS
<1>1. DOMAIN p = OpFields /\ p.sid = s /\ p.st = "ok" /\ p.n = x.n /\ p.times = 1
  BY DEF NewRead
<1> HIDE DEF k, x
<1>a. Grew(ops, new, s, k, p)
  BY <1>0, <1>1, OneAdd
<1>2. /\ IsSeq(new) /\ OnlyOf(ops, new, s) /\ DOMAIN new = DOMAIN ops \cup {k} /\ new[k] = p
      /\ k \in Nat /\ DOMAIN ops \subseteq Nat
      /\ \A j \in DOMAIN ops : new[j] = ops[j] /\ j < k
  BY <1>a DEF Grew
<1>3. k \notin DOMAIN ops
  BY <1>2
<1>4. IsSeq(c.rx) /\ Numbered(c.rx, m) /\ c.reads = <<>> /\ ~c.closed
  BY DEF SessReads, Queues
<1>5. /\ IsSeq(d.rx) /\ Len(d.rx) = Len(c.rx) - 1 /\ Len(c.rx) > 0
      /\ \A i \in 1 .. Len(d.rx) : d.rx[i] = c.rx[i + 1]
      /\ x = c.rx[1]
  BY <1>4, SeqTail DEF x
<1>6. /\ Len(c.rx) \in Nat /\ DOMAIN c.rx = 1 .. Len(c.rx) /\ Len(d.rx) \in Nat
      /\ DOMAIN d.rx = 1 .. Len(d.rx)
  BY <1>4, <1>5, SeqIs
<1>7. 1 \in DOMAIN c.rx /\ \A i \in DOMAIN d.rx : i + 1 \in DOMAIN c.rx /\ 1 < i + 1 /\ i \in Nat
  BY ONLY <1>5, <1>6
<1>8. \A i \in DOMAIN d.rx : d.rx[i] = c.rx[i + 1]
  BY <1>5, <1>6
<1>9. x.n \in Nat /\ x.n <= m /\ \A i \in DOMAIN d.rx : x.n < d.rx[i].n
  BY <1>4, <1>5, <1>7, <1>8 DEF Numbered
<1>10. Numbered(d.rx, m)
  <2>1. \A i \in DOMAIN d.rx : d.rx[i].n \in Nat /\ d.rx[i].n <= m
    BY <1>4, <1>7, <1>8 DEF Numbered
  <2>2. ASSUME NEW i \in DOMAIN d.rx, NEW j \in DOMAIN d.rx, i < j PROVE d.rx[i].n < d.rx[j].n
    <3>1. i + 1 < j + 1
      BY <1>7, <2>2
    <3> QED BY <1>4, <1>7, <1>8, <3>1 DEF Numbered
  <2> QED BY <2>1, <2>2 DEF Numbered
<1>11. Queues(d, m)
  BY <1>4, <1>5, <1>10 DEF SessReads, Queues, KeptOf
<1>12. ToSet(d.reads) = {}
  BY <1>4, SeqEmpty
<1>13. \A j \in DOMAIN ops : ~(ops[j].sid = s /\ ops[j].st = "wait")
  BY <1>12 DEF SessReads, Owned
<1>14. \A j \in DOMAIN new : ~(new[j].sid = s /\ new[j].st = "wait")
  BY <1>1, <1>2, <1>13
<1>15. Owned(d, new, s)
  BY <1>12, <1>14 DEF Owned
<1>16. \A j \in DOMAIN ops : ops[j].sid = s /\ ops[j].st = "ok" =>
         /\ ops[j].n \in Nat /\ ops[j].n <= m /\ ops[j].n < x.n
         /\ \A i \in DOMAIN d.rx : ops[j].n < d.rx[i].n
  BY <1>5, <1>7, <1>8 DEF SessReads, Fresh, ReadsOk, ReadOk
<1>17. Fresh(d, new, s, m)
  <2>1. SUFFICES ASSUME NEW j \in DOMAIN new, new[j].sid = s, new[j].st = "ok"
                 PROVE  new[j].n <= m /\ \A i \in DOMAIN d.rx : new[j].n < d.rx[i].n
    BY DEF Fresh
  <2>2. CASE j = k
    BY <1>1, <1>2, <1>9, <2>2
  <2>3. CASE j # k
    BY <1>2, <1>16, <2>1, <2>3
  <2> QED BY <2>2, <2>3
<1>18. Ordered(new, s)
  <2>1. SUFFICES ASSUME NEW i \in DOMAIN new, NEW j \in DOMAIN new,
                        new[i].sid = s, new[j].sid = s, new[i].st = "ok",
                        i < j, new[j].st = "ok"
                 PROVE  new[i].n < new[j].n
    BY <1>14 DEF Ordered
  <2>2. i # k
    BY <1>2, <2>1
  <2>3. CASE j = k
    BY <1>1, <1>2, <1>16, <2>1, <2>2, <2>3
  <2>4. CASE j # k
    BY <1>2, <2>1, <2>2, <2>4 DEF SessReads, Ordered
  <2> QED BY <2>3, <2>4
<1>19. ReadsOk(new, s)
  <2>1. ReadOk(p)
    BY <1>1, <1>9 DEF ReadOk
  <2> QED BY <1>2, <2>1 DEF SessReads, ReadsOk
<1> QED BY <1>2, <1>11, <1>15, <1>17, <1>18, <1>19 DEF SessReads

\* A rising queue names nothing twice.
LEMMA RisingDistinct ==
  ASSUME NEW q, IsSeq(q), Rising(q), \A i \in DOMAIN q : q[i] \in Nat
  PROVE  Distinct(q)
<1>1. DOMAIN q = 1 .. Len(q) /\ Len(q) \in Nat
  BY SeqIs
<1>2. SUFFICES ASSUME NEW i \in DOMAIN q, NEW j \in DOMAIN q, q[i] = q[j], i # j PROVE FALSE
  BY DEF Distinct
<1>3. i < j \/ j < i
  BY ONLY <1>1, <1>2
<1>4. q[i] < q[j] \/ q[j] < q[i]
  BY <1>3 DEF Rising
<1> QED BY <1>2, <1>4

\* An aborted read.
LEMMA AbortedIs ==
  ASSUME NEW o, DOMAIN o = OpFields, NEW k, NEW p, p = aborted_read(o, k)
  PROVE  /\ DOMAIN p = OpFields /\ p.sid = o.sid /\ p.st = "aborted" /\ p.n = 0
         /\ p.times = o.times + k
BY DEF aborted_read, OpFields

\* A session that closes: its waiting reads are aborted, once.
LEMMA SessClosed ==
  ASSUME NEW c, NEW d, NEW ops, IsSeq(ops), NEW s, NEW m \in Nat, SessReads(c, ops, s, m),
         NEW new, new = abort_reads(ops, c.reads), Ended(c, d)
  PROVE  SessReads(d, new, s, m) /\ IsSeq(new) /\ OnlyOf(ops, new, s)
<1>1. /\ \A i \in DOMAIN c.reads : c.reads[i] \in Nat
      /\ \A x \in ToSet(c.reads) : x \in DOMAIN ops /\ ops[x].sid = s /\ ops[x].st = "wait"
  BY WaitingReads
<1>2. \A x : Runs(c.reads, x) = IF x \in ToSet(c.reads) THEN 1 ELSE 0
  <2>1. Distinct(c.reads)
    BY <1>1, RisingDistinct DEF SessReads, Queues
  <2> QED BY <2>1, RunsIs
<1>3. DOMAIN new = DOMAIN ops
  BY DEF abort_reads
<1>4. ASSUME NEW i \in DOMAIN ops
      PROVE  /\ i \notin ToSet(c.reads) => new[i] = ops[i]
             /\ i \in ToSet(c.reads) => new[i] = aborted_read(ops[i], 1)
  BY <1>2 DEF abort_reads
<1>5. ASSUME NEW i \in DOMAIN ops, i \in ToSet(c.reads)
      PROVE  new[i].sid = s /\ new[i].st = "aborted" /\ ReadOk(new[i])
  <2>1. ReadOk(ops[i]) /\ ops[i].st = "wait" /\ ops[i].sid = s
    BY <1>1, <1>5 DEF SessReads, ReadsOk
  <2>2. /\ DOMAIN new[i] = OpFields /\ new[i].sid = ops[i].sid /\ new[i].st = "aborted"
        /\ new[i].n = 0 /\ new[i].times = ops[i].times + 1
    BY <1>4, <1>5, <2>1, AbortedIs DEF ReadOk
  <2> QED BY <2>1, <2>2 DEF ReadOk
<1>6. IsSeq(new)
  <2>1. Len(ops) \in Nat /\ DOMAIN ops = 1 .. Len(ops)
    BY SeqIs
  <2>2. DOMAIN new = 1 .. Len(ops) /\ new = [i \in 1 .. Len(ops) |-> new[i]]
    BY <2>1 DEF abort_reads
  <2> QED BY <2>1, <2>2, SeqMade
<1>7. OnlyOf(ops, new, s)
  BY <1>1, <1>3, <1>4, <1>5 DEF OnlyOf
<1>8. \A i \in DOMAIN new : new[i].sid = s => new[i].st # "wait"
  <2>1. \A i \in DOMAIN ops : ops[i].sid = s /\ ops[i].st = "wait" => i \in ToSet(c.reads)
    BY DEF SessReads, Owned
  <2> QED BY <1>3, <1>4, <1>5, <2>1
<1>9. \A i \in DOMAIN new : new[i].st = "ok" => i \in DOMAIN ops /\ new[i] = ops[i]
  BY <1>3, <1>4, <1>5
<1>10. d.reads = <<>> /\ d.rx = <<>> /\ d.closed = TRUE
  BY DEF Ended
<1>11. Queues(d, m)
  <2>1. IsSeq(<<>>) /\ DOMAIN <<>> = {}
    BY SeqEmpty
  <2> QED BY <1>10, <2>1 DEF Queues, Rising, Numbered
<1>12. Owned(d, new, s)
  <2>1. ToSet(d.reads) = {}
    BY <1>10, SeqEmpty
  <2> QED BY <1>8, <2>1 DEF Owned
<1>13. Fresh(d, new, s, m)
  <2>1. DOMAIN d.rx = {}
    BY <1>10
  <2> QED BY <1>9, <2>1 DEF SessReads, Fresh
<1>14. Ordered(new, s)
  BY <1>8, <1>9 DEF SessReads, Ordered
<1>15. ReadsOk(new, s)
  BY <1>3, <1>4, <1>5 DEF SessReads, ReadsOk
<1> QED BY <1>6, <1>7, <1>11, <1>12, <1>13, <1>14, <1>15 DEF SessReads

-----------------------------------------------------------------------------
(***************************************************************************)
(* The operations keep the accepts and the reads in order.                 *)
(***************************************************************************)
Sound(e, U, m) == Shape(e) /\ Accepts(e, U) /\ Reads(e, m)

\* The timer keeps accepts and reads in order.
LEMMA SoundQuiet ==
  ASSUME NEW e, NEW f, NEW U, NEW m, Sound(e, U, m), Quiet(e, f)
  PROVE  Sound(f, U, m)
<1>1. Shape(f)
  BY QuietShape DEF Sound
<1>2. Accepts(f, U)
  BY QuietAccepts, AcceptsKept DEF Sound
<1>3. Reads(f, m)
  <2>1. m \in Nat /\ m <= m
    BY DEF Sound, Reads
  <2> QED BY <2>1, QuietReads, ReadsKept DEF Sound
<1> QED BY <1>1, <1>2, <1>3 DEF Sound

\* What no sends, no timer and no counter changes.
LEMMA SoundSame ==
  ASSUME NEW e, NEW f, NEW U, NEW m, Sound(e, U, m), DOMAIN f = EngFields, f.sess = e.sess,
         f.ops = e.ops, f.pending = e.pending, f.waiters = e.waiters, f.accs = e.accs
  PROVE  Sound(f, U, m)
<1>1. Sids(f) = Sids(e)
  BY DEF Sids
<1>2. Shape(f)
  BY <1>1 DEF Sound, Shape
<1>3. SameAccepts(e, f) /\ SameReads(e, f)
  BY <1>1 DEF SameAccepts, SameReads
<1>4. m \in Nat /\ m <= m
  BY DEF Sound, Reads
<1> QED BY <1>2, <1>3, <1>4, AcceptsKept, ReadsKept DEF Sound

\* So does a datagram that is lost.
LEMMA SoundLater ==
  ASSUME NEW e, NEW U, NEW m, NEW n \in Nat, m <= n, Sound(e, U, m)
  PROVE  Sound(e, U, n)
<1>1. SameReads(e, e)
  BY DEF SameReads
<1> QED BY <1>1, ReadsKept DEF Sound

\* A step on the queues of one session.
LEMMA ReadStep ==
  ASSUME NEW e, Shape(e), NEW s \in Sids(e), NEW d, NEW f, ReadOnly(e, f),
         f.sess = Put(e.sess, s, d), KeptOf(e.sess[s], d)
  PROVE  Shape(f) /\ SameAccepts(e, f) /\ Replaced(e, f, s, d)
<1>1. Replaced(e, f, s, d)
  BY Replacing
<1>2. d.closed = e.sess[s].closed /\ d.pending = e.sess[s].pending /\ DOMAIN d = SessFields
  BY DEF KeptOf
<1>3. f.sess[s] = d /\ DOMAIN f = EngFields /\ Sids(f) = Sids(e)
  BY <1>1 DEF Replaced, ReadOnly
<1>4. Shape(f)
  <2>1. d.closed \in BOOLEAN /\ d.pending \in BOOLEAN
    BY <1>2 DEF Shape
  <2> QED BY <1>1, <1>2, <1>3, <2>1, ReplacedShape
<1>5. \A r \in Sids(e) : f.sess[r].closed = e.sess[r].closed /\ f.sess[r].pending = e.sess[r].pending
  BY <1>1, <1>2 DEF Replaced
<1> QED BY <1>1, <1>3, <1>4, <1>5 DEF SameAccepts, ReadOnly

\* hand_over and queue_datagram.
LEMMA SoundHanded ==
  ASSUME NEW e, NEW U, NEW m, NEW n \in Nat, m < n, Sound(e, U, m), NEW s \in Sids(e), NEW len,
         e.sess[s].reads # <<>>, NEW f, f = hand_over(e, s, n, len)
  PROVE  /\ Sound(f, U, n) /\ ReadOnly(e, f) /\ Sids(f) = Sids(e) /\ f.dropped = e.dropped
         /\ \A r \in Sids(e) : KeptOf(e.sess[r], f.sess[r])
<1> DEFINE c == e.sess[s]
           i == Head(c.reads)
<1>1. SessReads(c, e.ops, s, m) /\ IsSeq(e.ops) /\ m \in Nat /\ Shape(e) /\ Reads(e, m)
  BY DEF Sound, Reads
<1>2. i \in DOMAIN e.ops /\ e.ops[i].sid = s /\ e.ops[i].st = "wait"
  <2>1. IsSeq(c.reads) /\ Len(c.reads) \in Nat /\ DOMAIN c.reads = 1 .. Len(c.reads)
    BY <1>1, SeqIs DEF SessReads, Queues
  <2>2. i = c.reads[1] /\ Len(c.reads) > 0
    BY <2>1, SeqTail
  <2>3. i \in ToSet(c.reads)
    BY <2>1, <2>2 DEF ToSet
  <2> HIDE DEF i
  <2>4. \A x \in ToSet(c.reads) : x \in DOMAIN e.ops /\ e.ops[x].sid = s /\ e.ops[x].st = "wait"
    BY <1>1 DEF SessReads, Owned
  <2> QED BY <2>3, <2>4
<1>3. DOMAIN e.ops[i] = OpFields
  BY <1>1, <1>2 DEF SessReads, ReadsOk, ReadOk
<1>4. /\ ReadOnly(e, f) /\ f.dropped = e.dropped
      /\ \E p : f.ops = Put(e.ops, i, p) /\ Posted(e.ops[i], p, "ok", n)
      /\ \E d : /\ f.sess = Put(e.sess, s, d) /\ KeptOf(e.sess[s], d)
                /\ d.rx = e.sess[s].rx /\ d.rx_bytes = e.sess[s].rx_bytes
                /\ d.reads = Tail(e.sess[s].reads)
  BY <1>1, <1>2, <1>3, HandOverIs
<1>5. PICK p : f.ops = Put(e.ops, i, p) /\ Posted(e.ops[i], p, "ok", n)
  BY <1>4
<1>6. PICK d : /\ f.sess = Put(e.sess, s, d) /\ KeptOf(c, d) /\ d.rx = c.rx
               /\ d.reads = Tail(c.reads)
  BY <1>4
<1>7. Shape(f) /\ SameAccepts(e, f) /\ Replaced(e, f, s, d)
  BY <1>1, <1>4, <1>6, ReadStep
<1>8. SessReads(d, f.ops, s, n) /\ IsSeq(f.ops) /\ OnlyOf(e.ops, f.ops, s)
  BY <1>1, <1>5, <1>6, SessHanded
<1>9. Reads(f, n)
  <2>1. m <= n
    BY <1>1
  <2> QED BY <1>1, <1>7, <1>8, <2>1, ReadsOf
<1>10. ASSUME NEW r \in Sids(e) PROVE KeptOf(e.sess[r], f.sess[r])
  <2>1. CASE r = s
    BY <1>6, <1>7, <2>1 DEF Replaced
  <2>2. CASE r # s
    <3>1. f.sess[r] = e.sess[r] /\ DOMAIN e.sess[r] = SessFields
      BY <1>1, <1>7, <2>2 DEF Replaced, Shape
    <3> QED BY <3>1 DEF KeptOf
  <2> QED BY <2>1, <2>2
<1> QED BY <1>4, <1>7, <1>9, <1>10, AcceptsKept DEF Sound, SameAccepts

\* queue_datagram, when no read waits.
LEMMA SoundQueued ==
  ASSUME NEW e, NEW U, NEW m, NEW n \in Nat, m < n, Sound(e, U, m), NEW s \in Sids(e), NEW len,
         e.sess[s].reads = <<>>, ~e.sess[s].closed, NEW f, f = queue_datagram(e, s, n, len)
  PROVE  /\ Sound(f, U, n) /\ ReadOnly(e, f) /\ Sids(f) = Sids(e)
         /\ f.dropped = e.dropped \/ f.dropped = e.dropped + 1
         /\ \A r \in Sids(e) : KeptOf(e.sess[r], f.sess[r])
<1> DEFINE c == e.sess[s]
           x == [n |-> n, len |-> len]
<1>1. SessReads(c, e.ops, s, m) /\ IsSeq(e.ops) /\ m \in Nat /\ Shape(e) /\ Reads(e, m) /\ m <= n
  BY DEF Sound, Reads
<1> HIDE DEF x
<1>2. /\ ReadOnly(e, f) /\ f.ops = e.ops
      /\ f.dropped = e.dropped \/ f.dropped = e.dropped + 1
      /\ \/ f.sess = e.sess
         \/ \E d : /\ f.sess = Put(e.sess, s, d) /\ KeptOf(e.sess[s], d)
                   /\ d.rx = Add(e.sess[s].rx, x) /\ d.reads = e.sess[s].reads
  BY <1>1, QueueIs DEF x
<1>3. CASE f.sess = e.sess
  <2>1. Sound(f, U, m)
    BY <1>2, <1>3, SoundSame DEF ReadOnly
  <2>2. \A r \in Sids(e) : KeptOf(e.sess[r], f.sess[r])
    BY <1>1, <1>3 DEF Shape, KeptOf
  <2> QED BY <1>1, <1>2, <1>3, <2>1, <2>2, SoundLater DEF Sids
<1>4. CASE \E d : /\ f.sess = Put(e.sess, s, d) /\ KeptOf(e.sess[s], d)
                  /\ d.rx = Add(e.sess[s].rx, x) /\ d.reads = e.sess[s].reads
  <2>1. PICK d : /\ f.sess = Put(e.sess, s, d) /\ KeptOf(c, d)
                 /\ d.rx = Add(c.rx, x) /\ d.reads = c.reads
    BY <1>4
  <2>2. Shape(f) /\ SameAccepts(e, f) /\ Replaced(e, f, s, d)
    BY <1>1, <1>2, <2>1, ReadStep
  <2>3. SessReads(d, f.ops, s, n)
    BY <1>1, <1>2, <2>1, SessQueued DEF x
  <2>4. OnlyOf(e.ops, f.ops, s) /\ IsSeq(f.ops)
    BY <1>1, <1>2 DEF OnlyOf
  <2>5. Reads(f, n)
    BY <1>1, <2>2, <2>3, <2>4, ReadsOf
  <2>6. ASSUME NEW r \in Sids(e) PROVE KeptOf(e.sess[r], f.sess[r])
    <3>1. CASE r = s
      BY <2>1, <2>2, <3>1 DEF Replaced
    <3>2. CASE r # s
      <4>1. f.sess[r] = e.sess[r] /\ DOMAIN e.sess[r] = SessFields
        BY <1>1, <2>2, <3>2 DEF Replaced, Shape
      <4> QED BY <4>1 DEF KeptOf
    <3> QED BY <3>1, <3>2
  <2> QED BY <1>2, <2>2, <2>5, <2>6, AcceptsKept DEF Sound, SameAccepts
<1> QED BY <1>2, <1>3, <1>4

\* deliver_datagram: what happens to the timer, then to the queues.
LEMMA DeliverIs ==
  ASSUME NEW e, NEW s, NEW n, NEW len, NEW f, f = deliver_datagram(e, s, n, len)
  PROVE  \/ e.sess[s].closed /\ f = e
         \/ /\ ~e.sess[s].closed
            /\ \/ /\ refresh_expiry(e, s).sess[s].reads # <<>>
                  /\ f = hand_over(refresh_expiry(e, s), s, n, len)
               \/ /\ refresh_expiry(e, s).sess[s].reads = <<>>
                  /\ f = queue_datagram(refresh_expiry(e, s), s, n, len)
BY DEF deliver_datagram

\* The members that a datagram changes neither by refreshing nor by queueing.
Delivered(e, f) ==
  /\ f.sessions = e.sessions /\ f.count = e.count /\ f.packets = e.packets
  /\ f.pending = e.pending /\ f.waiters = e.waiters /\ f.accs = e.accs
  /\ f.sends = e.sends /\ f.shut = e.shut /\ Sids(f) = Sids(e)
  /\ f.dropped = e.dropped \/ f.dropped = e.dropped + 1
  /\ \A r \in Sids(e) : /\ f.sess[r].closed = e.sess[r].closed /\ f.sess[r].key = e.sess[r].key
                        /\ f.sess[r].timeout = e.sess[r].timeout

\* deliver_datagram keeps accepts and reads in order.
LEMMA SoundDeliver ==
  ASSUME NEW e, NEW U, NEW m, NEW n \in Nat, m < n, Sound(e, U, m), NEW s \in Sids(e), NEW len,
         NEW f, f = deliver_datagram(e, s, n, len)
  PROVE  Sound(f, U, n) /\ Delivered(e, f)
<1> DEFINE g == refresh_expiry(e, s)
<1>1. m \in Nat /\ m <= n /\ Shape(e)
  BY DEF Sound, Reads
<1>2. CASE e.sess[s].closed /\ f = e
  <2>1. Sound(f, U, n)
    BY <1>1, <1>2, SoundLater
  <2> QED BY <1>2, <2>1 DEF Delivered
<1>3. Quiet(e, g)
  BY <1>1, RefreshQuiet
<1>4. ASSUME ~e.sess[s].closed,
             \/ g.sess[s].reads # <<>> /\ f = hand_over(g, s, n, len)
             \/ g.sess[s].reads = <<>> /\ f = queue_datagram(g, s, n, len)
      PROVE  Sound(f, U, n) /\ Delivered(e, f)
  <2> HIDE DEF g
  <2>1. Sound(g, U, m)
    BY <1>3, SoundQuiet
  <2>2. s \in Sids(g) /\ ~g.sess[s].closed
    BY <1>3, <1>4 DEF Quiet, SameSession
  <2>3. /\ Sound(f, U, n) /\ ReadOnly(g, f) /\ Sids(f) = Sids(g)
        /\ f.dropped = g.dropped \/ f.dropped = g.dropped + 1
        /\ \A r \in Sids(g) : KeptOf(g.sess[r], f.sess[r])
    BY <1>4, <2>1, <2>2, SoundHanded, SoundQueued
  <2>4. Delivered(e, f)
    <3>1. /\ f.sessions = e.sessions /\ f.count = e.count /\ f.packets = e.packets
          /\ f.pending = e.pending /\ f.waiters = e.waiters /\ f.accs = e.accs
          /\ f.sends = e.sends /\ f.shut = e.shut /\ Sids(f) = Sids(e)
          /\ f.dropped = e.dropped \/ f.dropped = e.dropped + 1
      BY <1>3, <2>3 DEF Quiet, Fixed, ReadOnly, Aside
    <3>2. ASSUME NEW r \in Sids(e)
          PROVE  /\ f.sess[r].closed = e.sess[r].closed /\ f.sess[r].key = e.sess[r].key
                 /\ f.sess[r].timeout = e.sess[r].timeout
      <4>1. SameSession(e.sess[r], g.sess[r]) /\ KeptOf(g.sess[r], f.sess[r])
        BY <1>3, <2>3 DEF Quiet
      <4> QED BY <4>1 DEF SameSession, KeptOf
    <3> QED BY <3>1, <3>2 DEF Delivered
  <2> QED BY <2>3, <2>4
<1> QED BY <1>2, <1>4, DeliverIs

\* So does remove_session.
LEMMA SoundRemove ==
  ASSUME NEW e, NEW m, Sound(e, {}, m), NEW s \in Sids(e), NEW f, f = remove_session(e, s)
  PROVE  Sound(f, {}, m) /\ Sids(f) = Sids(e)
<1>1. CASE e.sess[s].closed
  BY <1>1, RemoveNot
<1>2. CASE ~e.sess[s].closed
  <2>1. Shape(e) /\ Accepts(e, {}) /\ Reads(e, m) /\ m \in Nat /\ m <= m
    BY DEF Sound, Reads
  <2>2. Removal(e, s, f)
    BY <1>2, <2>1, RemoveIs
  <2>3. Shape(f) /\ Replaced(e, f, s, Closed(e.sess[s])) /\ Ended(e.sess[s], f.sess[s])
    BY <1>2, <2>1, RemoveSess
  <2>4. Accepts(f, {})
    BY <1>2, <2>1, AcceptsRemove
  <2>5. f.ops = abort_reads(e.ops, e.sess[s].reads) /\ f.sess[s] = Closed(e.sess[s])
    BY <2>2, <2>3 DEF Removal, Replaced
  <2>6. SessReads(f.sess[s], f.ops, s, m) /\ IsSeq(f.ops) /\ OnlyOf(e.ops, f.ops, s)
    BY <2>1, <2>3, <2>5, SessClosed DEF Reads
  <2>7. Reads(f, m)
    BY <2>1, <2>3, <2>5, <2>6, ReadsOf
  <2> QED BY <2>3, <2>4, <2>7 DEF Sound, Replaced
<1> QED BY <1>1, <1>2

\* So does start_receive.
LEMMA SoundReceive ==
  ASSUME NEW e, NEW m, Sound(e, {}, m), NEW s \in Sids(e), NEW size,
         NEW f, f = start_receive(e, s, size)
  PROVE  Sound(f, {}, m) /\ ReadOnly(e, f)
<1> DEFINE c == e.sess[s]
           k == Len(e.ops) + 1
           x == Head(c.rx)
<1>1. /\ SessReads(c, e.ops, s, m) /\ IsSeq(e.ops) /\ m \in Nat /\ m <= m /\ Shape(e) /\ Reads(e, m)
      /\ Accepts(e, {})
  BY DEF Sound, Reads
<1>2. /\ ReadOnly(e, f)
      /\ c.closed => f.sess = e.sess /\ Started(e, f, s, "bad_descriptor", 0, 1)
      /\ ~c.closed /\ c.rx # <<>> =>
           /\ Started(e, f, s, "ok", x.n, 1)
           /\ \E d : /\ f.sess = Put(e.sess, s, d) /\ KeptOf(c, d)
                     /\ d.rx = Tail(c.rx) /\ d.reads = c.reads
      /\ ~c.closed /\ c.rx = <<>> =>
           /\ Started(e, f, s, "wait", 0, 0)
           /\ \E d : /\ f.sess = Put(e.sess, s, d) /\ KeptOf(c, d)
                     /\ d.rx = c.rx /\ d.reads = Add(c.reads, k)
  BY <1>1, ReceiveIs
<1>3. ASSUME NEW d, Shape(f), SameAccepts(e, f), Replaced(e, f, s, d),
             SessReads(d, f.ops, s, m), IsSeq(f.ops), OnlyOf(e.ops, f.ops, s)
      PROVE  Sound(f, {}, m)
  <2>1. Reads(f, m)
    BY <1>1, <1>3, ReadsOf
  <2>2. Accepts(f, {})
    BY <1>1, <1>3, AcceptsKept
  <2> QED BY <1>3, <2>1, <2>2 DEF Sound
<1>4. CASE c.closed
  <2>1. PICK p : f.ops = Add(e.ops, p) /\ NewRead(p, s, "bad_descriptor", 0, 1)
    BY <1>2, <1>4 DEF Started
  <2>2. "bad_descriptor" # "ok" /\ "bad_descriptor" # "wait"
    OBVIOUS
  <2>3. SessReads(c, f.ops, s, m) /\ IsSeq(f.ops) /\ OnlyOf(e.ops, f.ops, s)
    BY <1>1, <2>1, <2>2, SessRefused
  <2>4. f.sess = e.sess /\ DOMAIN f = EngFields /\ Sids(f) = Sids(e)
    BY <1>2, <1>4 DEF ReadOnly, Sids
  <2>5. Shape(f)
    BY <1>1, <2>4 DEF Shape
  <2>6. SameAccepts(e, f)
    BY <1>2, <2>4 DEF SameAccepts, ReadOnly
  <2>7. Replaced(e, f, s, c)
    BY <1>1, <2>4 DEF Replaced, Shape
  <2> QED BY <1>2, <1>3, <2>3, <2>5, <2>6, <2>7
<1>5. CASE ~c.closed /\ c.rx # <<>>
  <2>1. PICK p : f.ops = Add(e.ops, p) /\ NewRead(p, s, "ok", x.n, 1)
    BY <1>2, <1>5 DEF Started
  <2>2. PICK d : /\ f.sess = Put(e.sess, s, d) /\ KeptOf(c, d)
                 /\ d.rx = Tail(c.rx) /\ d.reads = c.reads
    BY <1>2, <1>5
  <2>3. SessReads(d, f.ops, s, m) /\ IsSeq(f.ops) /\ OnlyOf(e.ops, f.ops, s)
    BY <1>1, <1>5, <2>1, <2>2, SessPopped
  <2>4. Shape(f) /\ SameAccepts(e, f) /\ Replaced(e, f, s, d)
    BY <1>1, <1>2, <2>2, ReadStep
  <2> QED BY <1>2, <1>3, <2>3, <2>4
<1>6. CASE ~c.closed /\ c.rx = <<>>
  <2>1. PICK p : f.ops = Add(e.ops, p) /\ NewRead(p, s, "wait", 0, 0)
    BY <1>2, <1>6 DEF Started
  <2>2. PICK d : /\ f.sess = Put(e.sess, s, d) /\ KeptOf(c, d)
                 /\ d.rx = c.rx /\ d.reads = Add(c.reads, k)
    BY <1>2, <1>6
  <2>3. SessReads(d, f.ops, s, m) /\ IsSeq(f.ops) /\ OnlyOf(e.ops, f.ops, s)
    BY <1>1, <1>6, <2>1, <2>2, SessWaits
  <2>4. Shape(f) /\ SameAccepts(e, f) /\ Replaced(e, f, s, d)
    BY <1>1, <1>2, <2>2, ReadStep
  <2> QED BY <1>2, <1>3, <2>3, <2>4
<1> QED BY <1>4, <1>5, <1>6

-----------------------------------------------------------------------------
(* A new session. *)

Created(e, k) ==
  [e EXCEPT !.sess = Append(@, new_session(k)), !.sessions[k] = Len(e.sess) + 1, !.count = @ + 1]

\* A session that has just been made.
Blank(d, k) ==
  /\ DOMAIN d = SessFields
  /\ d.key = k /\ d.closed = FALSE /\ d.pending = FALSE /\ d.timeout = IdleTimeout
  /\ d.expiry = now + IdleTimeout /\ d.gen = 0 /\ d.last_push = 0 /\ d.heap_live = FALSE
  /\ d.rx = <<>> /\ d.rx_bytes = 0 /\ d.reads = <<>>

\* What new_session makes.
LEMMA BlankIs ==
  ASSUME NEW k, NEW d, d = new_session(k)
  PROVE  Blank(d, k)
BY DEF Blank, new_session, SessFields

\* The session s is new, the others are as they were.
Joined(e, c, s, k) ==
  /\ Sids(c) = Sids(e) \cup {s} /\ s \notin Sids(e) /\ s \in Nat /\ s # 0
  /\ IsSeq(c.sess) /\ Blank(c.sess[s], k)
  /\ \A r \in Sids(e) : c.sess[r] = e.sess[r]

\* It is in the table, and nothing else was changed.
Entered(e, c, s, k) ==
  /\ DOMAIN c = EngFields /\ Aside(e, c)
  /\ c.sessions = [e.sessions EXCEPT ![k] = s] /\ c.count = e.count + 1
  /\ c.packets = e.packets /\ c.pending = e.pending /\ c.waiters = e.waiters
  /\ c.accs = e.accs /\ c.ops = e.ops /\ c.used = e.used /\ c.dropped = e.dropped

\* What create_session has written before it delivers the datagram.
LEMMA CreatedIs ==
  ASSUME NEW e, Shape(e), NEW k, NEW c, c = Created(e, k), NEW s, s = Len(e.sess) + 1
  PROVE  Joined(e, c, s, k) /\ Entered(e, c, s, k)
<1> DEFINE d == new_session(k)
           q == e.sess
           r == c.sess
<1>1. /\ DOMAIN c = EngFields /\ Aside(e, c)
      /\ c.sessions = [e.sessions EXCEPT ![k] = s] /\ c.count = e.count + 1
      /\ c.packets = e.packets /\ c.pending = e.pending /\ c.waiters = e.waiters
      /\ c.accs = e.accs /\ c.ops = e.ops /\ c.used = e.used /\ c.dropped = e.dropped
      /\ r = Add(q, d)
  BY DEF Shape, Created, EngFields, Aside, Add
<1>2. Blank(d, k) /\ IsSeq(q)
  BY BlankIs DEF Shape
<1> HIDE DEF d
<1>3. /\ IsSeq(r) /\ Len(r) = Len(q) + 1
      /\ \A i \in 1 .. Len(q) : r[i] = q[i]
      /\ r[Len(q) + 1] = d
  <2> HIDE DEF q, r
  <2> QED BY <1>1, <1>2, SeqAppend
<1>4. Len(q) \in Nat /\ DOMAIN q = 1 .. Len(q) /\ DOMAIN r = 1 .. Len(r)
  BY <1>2, <1>3, SeqIs
<1>5. Sids(c) = Sids(e) \cup {s} /\ s \notin Sids(e) /\ s \in Nat /\ s # 0
  <2>1. DOMAIN r = DOMAIN q \cup {s} /\ s \notin DOMAIN q /\ s \in Nat /\ s # 0
    <3>1. s = Len(q) + 1
      OBVIOUS
    <3> HIDE DEF q, r
    <3> QED BY ONLY <1>3, <1>4, <3>1
  <2> QED BY <2>1 DEF Sids
<1>6. \A i \in Sids(e) : c.sess[i] = e.sess[i]
  BY <1>3, <1>4 DEF Sids
<1>7. Blank(c.sess[s], k)
  BY <1>2, <1>3
<1> QED BY <1>1, <1>3, <1>5, <1>6, <1>7 DEF Joined, Entered

\* A new session has no reads, and is not announced yet.
LEMMA SoundCreated ==
  ASSUME NEW e, NEW m, Sound(e, {}, m), NEW c, NEW k, NEW s, Joined(e, c, s, k),
         DOMAIN c = EngFields, c.ops = e.ops, c.pending = e.pending, c.waiters = e.waiters,
         c.accs = e.accs
  PROVE  Sound(c, {s}, m) /\ s \in Open(c)
<1>1. Shape(e) /\ Accepts(e, {}) /\ Reads(e, m) /\ m \in Nat
  BY DEF Sound, Reads
<1>2. DOMAIN c.sess[s] = SessFields /\ c.sess[s].closed = FALSE /\ c.sess[s].pending = FALSE
  BY DEF Joined, Blank
<1>3. Shape(c)
  <2>1. ASSUME NEW r \in Sids(c)
        PROVE  DOMAIN c.sess[r] = SessFields /\ c.sess[r].closed \in BOOLEAN
               /\ c.sess[r].pending \in BOOLEAN
    <3>1. CASE r = s
      BY <1>2, <3>1
    <3>2. CASE r # s
      BY <1>1, <3>2 DEF Joined, Shape
    <3> QED BY <3>1, <3>2
  <2> QED BY <2>1 DEF Shape, Joined
<1>4. GivenBy(c) = GivenBy(e) /\ GivenBy(e) \subseteq Sids(e)
  BY <1>1 DEF GivenBy, Accepts, Waiting
<1>5. Open(c) = Open(e) \cup {s} /\ s \notin Open(e)
  BY <1>2 DEF Open, Joined
<1>6. Listed(c, {s})
  <2>1. ToSet(c.pending) = Open(c) \ (GivenBy(c) \cup {s})
    BY <1>1, <1>4, <1>5 DEF Accepts, Listed
  <2>2. ASSUME NEW r \in Sids(c) PROVE c.sess[r].pending <=> r \in ToSet(c.pending)
    <3>1. CASE r = s
      BY <1>2, <2>1, <3>1
    <3>2. CASE r # s
      BY <1>1, <3>2 DEF Joined, Accepts, Listed
    <3> QED BY <3>1, <3>2
  <2> QED BY <1>1, <2>1, <2>2 DEF Accepts, Listed
<1>7. Waiting(c)
  BY <1>1 DEF Accepts, Waiting, Joined
<1>8. Accepts(c, {s})
  BY <1>1, <1>4, <1>6, <1>7 DEF Accepts, Joined
<1>9. Reads(c, m)
  <2>1. \A i \in DOMAIN c.ops : c.ops[i].sid \in Sids(e) /\ c.ops[i].sid \in Sids(c)
    BY <1>1 DEF Reads, Joined
  <2>2. ASSUME NEW r \in Sids(c) PROVE SessReads(c.sess[r], c.ops, r, m)
    <3>1. CASE r # s
      BY <1>1, <3>1 DEF Reads, Joined
    <3>2. CASE r = s
      <4>1. \A i \in DOMAIN c.ops : c.ops[i].sid # s
        BY <2>1 DEF Joined
      <4>2. c.sess[s].rx = <<>> /\ c.sess[s].reads = <<>>
        BY DEF Joined, Blank
      <4>3. IsSeq(<<>>) /\ DOMAIN <<>> = {} /\ ToSet(<<>>) = {}
        BY SeqEmpty
      <4>4. Queues(c.sess[s], m)
        BY <4>2, <4>3 DEF Queues, Rising, Numbered
      <4>5. Owned(c.sess[s], c.ops, s) /\ Fresh(c.sess[s], c.ops, s, m)
            /\ Ordered(c.ops, s) /\ ReadsOk(c.ops, s)
        BY <4>1, <4>2, <4>3 DEF Owned, Fresh, Ordered, ReadsOk
      <4> QED BY <3>2, <4>4, <4>5 DEF SessReads
    <3> QED BY <3>1, <3>2
  <2> QED BY <1>1, <2>1, <2>2 DEF Reads
<1> QED BY <1>3, <1>5, <1>8, <1>9 DEF Sound

\* What an accept leaves alone in the sessions.
SamePast(e, f) ==
  /\ Sids(f) = Sids(e)
  /\ \A r \in Sids(e) :
       /\ f.sess[r].closed = e.sess[r].closed /\ f.sess[r].key = e.sess[r].key
       /\ f.sess[r].timeout = e.sess[r].timeout /\ f.sess[r].expiry = e.sess[r].expiry
       /\ f.sess[r].gen = e.sess[r].gen /\ f.sess[r].last_push = e.sess[r].last_push
       /\ f.sess[r].heap_live = e.sess[r].heap_live /\ f.sess[r].rx = e.sess[r].rx
       /\ f.sess[r].reads = e.sess[r].reads /\ f.sess[r].rx_bytes = e.sess[r].rx_bytes

\* announce leaves the reads alone.
LEMMA SoundAnnounce ==
  ASSUME NEW e, NEW m, NEW s \in Open(e), Sound(e, {s}, m), NEW f, f = announce(e, s)
  PROVE  Sound(f, {}, m) /\ AcceptOnly(e, f) /\ SamePast(e, f)
<1> DEFINE d == [e.sess[s] EXCEPT !.pending = TRUE]
<1>1. Shape(e) /\ Accepts(e, {s}) /\ Reads(e, m) /\ m \in Nat /\ m <= m /\ s \in Sids(e)
  BY DEF Sound, Reads, Open
<1>2. /\ Accepts(f, {}) /\ Shape(f) /\ AcceptOnly(e, f)
      /\ f.sess = e.sess \/ f.sess = Put(e.sess, s, d)
  BY <1>1, AcceptsAnnounce
<1>3. DOMAIN e.sess[s] = SessFields
  BY <1>1 DEF Shape
<1>4. /\ Sids(f) = Sids(e)
      /\ \A r \in Sids(e) :
           /\ f.sess[r].closed = e.sess[r].closed /\ f.sess[r].key = e.sess[r].key
           /\ f.sess[r].timeout = e.sess[r].timeout /\ f.sess[r].expiry = e.sess[r].expiry
           /\ f.sess[r].gen = e.sess[r].gen /\ f.sess[r].last_push = e.sess[r].last_push
           /\ f.sess[r].heap_live = e.sess[r].heap_live /\ f.sess[r].rx = e.sess[r].rx
           /\ f.sess[r].reads = e.sess[r].reads /\ f.sess[r].rx_bytes = e.sess[r].rx_bytes
  <2>1. CASE f.sess = e.sess
    BY <2>1 DEF Sids
  <2>2. CASE f.sess = Put(e.sess, s, d)
    <3>1. /\ d.closed = e.sess[s].closed /\ d.key = e.sess[s].key
          /\ d.timeout = e.sess[s].timeout /\ d.expiry = e.sess[s].expiry
          /\ d.gen = e.sess[s].gen /\ d.last_push = e.sess[s].last_push
          /\ d.heap_live = e.sess[s].heap_live /\ d.rx = e.sess[s].rx
          /\ d.reads = e.sess[s].reads /\ d.rx_bytes = e.sess[s].rx_bytes
      BY <1>3 DEF SessFields
    <3> HIDE DEF d
    <3>2. Replaced(e, f, s, d)
      BY <1>1, <2>2, Replacing
    <3>3. ASSUME NEW r \in Sids(e)
          PROVE  /\ f.sess[r].closed = e.sess[r].closed /\ f.sess[r].key = e.sess[r].key
                 /\ f.sess[r].timeout = e.sess[r].timeout /\ f.sess[r].expiry = e.sess[r].expiry
                 /\ f.sess[r].gen = e.sess[r].gen /\ f.sess[r].last_push = e.sess[r].last_push
                 /\ f.sess[r].heap_live = e.sess[r].heap_live /\ f.sess[r].rx = e.sess[r].rx
                 /\ f.sess[r].reads = e.sess[r].reads /\ f.sess[r].rx_bytes = e.sess[r].rx_bytes
      <4>1. CASE r = s
        BY <3>1, <3>2, <4>1 DEF Replaced
      <4>2. CASE r # s
        BY <3>2, <4>2 DEF Replaced
      <4> QED BY <4>1, <4>2
    <3> QED BY <3>2, <3>3 DEF Replaced
  <2> QED BY <1>2, <2>1, <2>2
<1>5. SameReads(e, f)
  BY <1>2, <1>4 DEF SameReads, AcceptOnly
<1>6. Reads(f, m)
  BY <1>1, <1>5, ReadsKept
<1>7. SamePast(e, f)
  BY <1>4 DEF SamePast
<1> QED BY <1>2, <1>6, <1>7 DEF Sound

-----------------------------------------------------------------------------
(* The session table, its counter and the two limits. *)

Table(e) ==
  /\ DOMAIN e.sessions = Keys
  /\ \A k \in Keys : e.sessions[k] = 0 \/
       (e.sessions[k] \in Open(e) /\ e.sess[e.sessions[k]].key = k)
  /\ \A s \in Open(e) : e.sess[s].key \in Keys /\ e.sessions[e.sess[s].key] = s
  /\ 0 \notin Sids(e) /\ IsFiniteSet(Open(e)) /\ e.count = Cardinality(Open(e))
  /\ e.count <= MaxFlows

\* A step that changes none of it keeps the table.
LEMMA TableKept ==
  ASSUME NEW e, NEW f, Table(e), f.sessions = e.sessions, f.count = e.count, Sids(f) = Sids(e),
         \A s \in Sids(e) : f.sess[s].closed = e.sess[s].closed /\ f.sess[s].key = e.sess[s].key
  PROVE  Table(f)
<1>1. Open(f) = Open(e) /\ \A s \in Open(e) : f.sess[s].key = e.sess[s].key
  BY DEF Open
<1> QED BY <1>1 DEF Table

\* A session that closes leaves the table and the count.
LEMMA TableRemove ==
  ASSUME NEW e, Shape(e), Table(e), NEW s \in Sids(e), NEW f, f = remove_session(e, s)
  PROVE  Table(f)
<1>1. CASE e.sess[s].closed
  BY <1>1, RemoveNot
<1>2. CASE ~e.sess[s].closed
  <2> DEFINE k == e.sess[s].key
  <2>1. Removal(e, s, f)
    BY <1>2, RemoveIs
  <2>2. Replaced(e, f, s, Closed(e.sess[s])) /\ Ended(e.sess[s], f.sess[s])
    BY <1>2, RemoveSess
  <2>3. f.sess[s].closed = TRUE /\ Sids(f) = Sids(e)
    BY <2>2 DEF Ended, Replaced
  <2>4. s \in Open(e) /\ k \in Keys /\ e.sessions[k] = s
    BY <1>2 DEF Open, Table
  <2>5. Open(f) = Open(e) \ {s} /\ \A r \in Open(f) : r # s /\ f.sess[r] = e.sess[r]
    BY <2>2, <2>3 DEF Open, Replaced
  <2>6. f.sessions = [e.sessions EXCEPT ![k] = 0] /\ f.count = e.count - 1
    BY <2>1 DEF Removal
  <2> HIDE DEF k
  <2>7. /\ DOMAIN f.sessions = Keys /\ f.sessions[k] = 0
        /\ \A j \in Keys : j # k => f.sessions[j] = e.sessions[j]
    BY <2>4, <2>6 DEF Table
  <2>8. ASSUME NEW j \in Keys
        PROVE  f.sessions[j] = 0 \/
                 (f.sessions[j] \in Open(f) /\ f.sess[f.sessions[j]].key = j)
    <3>1. CASE j = k
      BY <2>7, <3>1
    <3>2. CASE j # k
      <4>1. f.sessions[j] = e.sessions[j]
        BY <2>7, <3>2
      <4>2. CASE e.sessions[j] = 0
        BY <4>1, <4>2
      <4>3. CASE e.sessions[j] # 0
        <5>1. e.sessions[j] \in Open(e) /\ e.sess[e.sessions[j]].key = j
          BY <4>3 DEF Table
        <5>2. e.sessions[j] # s
          BY <3>2, <5>1 DEF k
        <5> QED BY <2>5, <4>1, <5>1, <5>2
      <4> QED BY <4>2, <4>3
    <3> QED BY <3>1, <3>2
  <2>9. ASSUME NEW r \in Open(f) PROVE f.sess[r].key \in Keys /\ f.sessions[f.sess[r].key] = r
    <3>1. r \in Open(e) /\ r # s /\ f.sess[r] = e.sess[r]
      BY <2>5
    <3>2. e.sess[r].key \in Keys /\ e.sessions[e.sess[r].key] = r
      BY <3>1 DEF Table
    <3>3. e.sess[r].key # k
      BY <2>4, <3>1, <3>2
    <3> QED BY <2>7, <3>1, <3>2, <3>3
  <2>10. IsFiniteSet(Open(f)) /\ Cardinality(Open(f)) = Cardinality(Open(e)) - 1
    <3>1. IsFiniteSet(Open(e))
      BY DEF Table
    <3> QED BY <2>4, <2>5, <3>1, FS_RemoveElement
  <2>11. f.count = Cardinality(Open(f)) /\ f.count <= MaxFlows
    <3>1. e.count = Cardinality(Open(e)) /\ e.count <= MaxFlows
      BY DEF Table
    <3>2. Cardinality(Open(e)) \in Nat /\ MaxFlows \in Nat
      BY UdpAssumption, FS_CardinalityType DEF Table
    <3> QED BY <2>6, <2>10, <3>1, <3>2
  <2> QED BY <2>3, <2>7, <2>8, <2>9, <2>10, <2>11 DEF Table
<1> QED BY <1>1, <1>2

\* The keys in the table are as many as the open sessions.
LEMMA TableSize ==
  ASSUME NEW e, Table(e)
  PROVE  Cardinality({k \in Keys : e.sessions[k] # 0}) = e.count
<1> DEFINE P == Open(e)
           Q == {k \in Keys : e.sessions[k] # 0}
           g == [s \in P |-> e.sess[s].key]
<1>1. \A s \in P : e.sess[s].key \in Keys /\ e.sessions[e.sess[s].key] = s /\ s # 0
  BY DEF Table, Open
<1>2. g \in [P -> Q]
  BY <1>1
<1>3. \A i, j \in P : g[i] = g[j] => i = j
  BY <1>1
<1>4. \A k \in Q : \E i \in P : g[i] = k
  <2>1. SUFFICES ASSUME NEW k \in Q PROVE \E i \in P : g[i] = k
    OBVIOUS
  <2>2. e.sessions[k] \in P /\ e.sess[e.sessions[k]].key = k
    BY DEF Table
  <2> QED BY <2>2
<1>5. IsFiniteSet(P) /\ e.count = Cardinality(P)
  BY DEF Table
<1> HIDE DEF P, Q, g
<1>6. Cardinality(Q) = Cardinality(P)
  BY <1>2, <1>3, <1>4, <1>5, OneToOne
<1> QED BY <1>5, <1>6 DEF Q

\* A new session enters them, when there is room.
LEMMA TableCreated ==
  ASSUME NEW e, Table(e), NEW k \in Keys, e.sessions[k] = 0, NEW c, NEW s, Joined(e, c, s, k),
         c.sessions = [e.sessions EXCEPT ![k] = s], c.count = e.count + 1,
         ~(Cardinality({j \in Keys : e.sessions[j] # 0}) >= MaxFlows)
  PROVE  Table(c)
<1>1. /\ DOMAIN c.sessions = Keys /\ c.sessions[k] = s
      /\ \A j \in Keys : j # k => c.sessions[j] = e.sessions[j]
  BY DEF Table
<1>2. c.sess[s].closed = FALSE /\ c.sess[s].key = k
  BY DEF Joined, Blank
<1>3. Open(c) = Open(e) \cup {s} /\ s \notin Open(e) /\ \A r \in Open(e) : c.sess[r] = e.sess[r]
  BY <1>2 DEF Open, Joined
<1>4. ASSUME NEW j \in Keys
      PROVE  c.sessions[j] = 0 \/ (c.sessions[j] \in Open(c) /\ c.sess[c.sessions[j]].key = j)
  <2>1. CASE j = k
    BY <1>1, <1>2, <1>3, <2>1
  <2>2. CASE j # k
    BY <1>1, <1>3, <2>2 DEF Table
  <2> QED BY <2>1, <2>2
<1>5. ASSUME NEW r \in Open(c) PROVE c.sess[r].key \in Keys /\ c.sessions[c.sess[r].key] = r
  <2>1. CASE r = s
    BY <1>1, <1>2, <2>1
  <2>2. CASE r # s
    <3>1. r \in Open(e) /\ c.sess[r] = e.sess[r]
      BY <1>3, <2>2
    <3>2. e.sess[r].key \in Keys /\ e.sessions[e.sess[r].key] = r /\ r # 0
      BY <3>1 DEF Table, Open
    <3>3. e.sess[r].key # k
      BY <3>2
    <3> QED BY <1>1, <3>1, <3>2, <3>3
  <2> QED BY <2>1, <2>2
<1>6. IsFiniteSet(Open(e)) /\ e.count = Cardinality(Open(e)) /\ e.count \in Nat
  BY FS_CardinalityType DEF Table
<1>7. IsFiniteSet(Open(c)) /\ Cardinality(Open(c)) = e.count + 1
  BY <1>3, <1>6, FS_AddElement
<1>8. c.count <= MaxFlows
  <2>1. ~(e.count >= MaxFlows) /\ MaxFlows \in Nat
    BY TableSize, UdpAssumption
  <2> QED BY <1>6, <2>1
<1>9. 0 \notin Sids(c)
  BY DEF Table, Joined
<1> QED BY <1>1, <1>4, <1>5, <1>7, <1>8, <1>9 DEF Table

-----------------------------------------------------------------------------
(***************************************************************************)
(* The loops.  Each one's recursive function exists: it is built up one    *)
(* round at a time.  kind tells which loop it is.                          *)
(***************************************************************************)
Round(kind, x, n, q) ==
  CASE kind = "remove" -> remove_session(x, n)
    [] kind = "sum" -> x + q[n]
    [] kind = "refresh" -> refresh_expiry(x, q[n])
    [] OTHER -> pop_due(x)

\* g[n] is what the loop has made of b after n rounds, of m.
RunsOf(kind, b, q, g, m) ==
  /\ DOMAIN g = 0 .. m /\ g = [n \in 0 .. m |-> g[n]] /\ g[0] = b
  /\ \A n \in 1 .. m : g[n] = Round(kind, g[n - 1], n, q)

\* The rounds of a loop, one after another.
LEMMA LoopExists ==
  ASSUME NEW kind, NEW b, NEW q, NEW L \in Nat
  PROVE  \E g : RunsOf(kind, b, q, g, L)
<1> DEFINE S == {m \in Nat : \E g : RunsOf(kind, b, q, g, m)}
<1>1. 0 \in S
  <2> DEFINE g == [n \in 0 .. 0 |-> b]
  <2>1. RunsOf(kind, b, q, g, 0)
    BY DEF RunsOf
  <2> QED BY <2>1
<1>2. ASSUME NEW m \in Nat, m \in S PROVE m + 1 \in S
  <2>1. PICK f : RunsOf(kind, b, q, f, m)
    BY <1>2
  <2> DEFINE x == Round(kind, f[m], m + 1, q)
  <2> DEFINE g == [n \in 0 .. m + 1 |-> IF n = m + 1 THEN x ELSE f[n]]
  <2> HIDE DEF x
  <2>2. DOMAIN g = 0 .. m + 1 /\ g = [n \in 0 .. m + 1 |-> g[n]] /\ g[m + 1] = x
    OBVIOUS
  <2>3. \A n \in 0 .. m : g[n] = f[n]
    OBVIOUS
  <2> HIDE DEF g
  <2>4. g[0] = b
    BY <2>1, <2>3 DEF RunsOf
  <2>5. ASSUME NEW n \in 1 .. m + 1 PROVE g[n] = Round(kind, g[n - 1], n, q)
    <3>1. CASE n = m + 1
      <4>1. n - 1 = m /\ g[m] = f[m]
        BY <3>1, <2>3
      <4> QED BY <3>1, <4>1, <2>2 DEF x
    <3>2. CASE n \in 1 .. m
      <4>1. g[n] = f[n] /\ n - 1 \in 0 .. m
        BY <3>2, <2>3
      <4>2. g[n - 1] = f[n - 1]
        BY <4>1, <2>3
      <4>3. f[n] = Round(kind, f[n - 1], n, q)
        BY <2>1, <3>2 DEF RunsOf
      <4> QED BY <4>1, <4>2, <4>3
    <3> QED BY <3>1, <3>2
  <2>6. RunsOf(kind, b, q, g, m + 1)
    BY <2>2, <2>4, <2>5 DEF RunsOf
  <2> QED BY <2>6
<1>3. Nat \subseteq S
  <2> HIDE DEF S
  <2> QED BY <1>1, <1>2, NatBySet
<1> QED BY <1>3

-----------------------------------------------------------------------------
(* Sums. *)

\* What is added up.
Numbers(w) == IsSeq(w) /\ \A i \in 1 .. Len(w) : w[i] \in Nat

\* g has the sums so far.
Ledger(w, g) ==
  g[0] = 0 /\ \A n \in 1 .. Len(w) : g[n] = g[n - 1] + w[n]

\* Total is the last of them.
LEMMA TotalIs ==
  ASSUME NEW w, Len(w) \in Nat
  PROVE  \E g : Ledger(w, g) /\ Total(w) = g[Len(w)]
<1> DEFINE L == Len(w)
           Is(g) == g = [n \in 0 .. L |-> IF n = 0 THEN 0 ELSE g[n - 1] + w[n]]
           h == CHOOSE g : Is(g)
<1>1. PICK g : RunsOf("sum", 0, w, g, L)
  BY LoopExists
<1>2. \A n \in 0 .. L : g[n] = IF n = 0 THEN 0 ELSE g[n - 1] + w[n]
  <2>1. L \in Nat /\ g[0] = 0
    BY <1>1 DEF RunsOf
  <2> HIDE DEF L
  <2>2. \A n \in 1 .. L : g[n] = g[n - 1] + w[n]
    BY <1>1 DEF RunsOf, Round
  <2>3. \A n \in 0 .. L : n = 0 \/ n \in 1 .. L
    BY <2>1
  <2> QED BY <2>1, <2>2, <2>3
<1>3. Is(g)
  BY <1>1, <1>2 DEF RunsOf
<1>4. Is(h)
  <2> HIDE DEF Is
  <2> QED BY <1>3
<1>5. Total(w) = h[L]
  BY DEF Total
<1> HIDE DEF h
<1>6. h[0] = 0 /\ \A n \in 1 .. L : h[n] = h[n - 1] + w[n]
  <2>1. L \in Nat
    OBVIOUS
  <2> HIDE DEF L
  <2>2. \A n \in 0 .. L : h[n] = IF n = 0 THEN 0 ELSE h[n - 1] + w[n]
    BY <1>4
  <2>3. 0 \in 0 .. L /\ \A n \in 1 .. L : n \in 0 .. L /\ n # 0
    BY <2>1
  <2> QED BY <2>2, <2>3
<1>7. Ledger(w, h)
  BY <1>6 DEF Ledger
<1> QED BY <1>5, <1>7

\* There is one ledger, and its sums are numbers.
LEMMA LedgerOne ==
  ASSUME NEW w, Numbers(w), NEW g, NEW h, Ledger(w, g), Ledger(w, h)
  PROVE  \A n \in 0 .. Len(w) : g[n] \in Nat /\ g[n] = h[n]
<1> DEFINE L == Len(w)
           S == {n \in Nat : n <= L => g[n] \in Nat /\ g[n] = h[n]}
<1>1. L \in Nat /\ \A i \in 1 .. L : w[i] \in Nat
  BY SeqIs DEF Numbers
<1>2. /\ g[0] = 0 /\ \A n \in 1 .. L : g[n] = g[n - 1] + w[n]
      /\ h[0] = 0 /\ \A n \in 1 .. L : h[n] = h[n - 1] + w[n]
  BY DEF Ledger
<1> HIDE DEF L
<1>3. 0 \in S
  BY <1>2
<1>4. ASSUME NEW n \in Nat, n \in S PROVE n + 1 \in S
  <2> SUFFICES ASSUME n + 1 <= L PROVE g[n + 1] \in Nat /\ g[n + 1] = h[n + 1]
    OBVIOUS
  <2>1. n <= L /\ n + 1 \in 1 .. L /\ (n + 1) - 1 = n
    BY <1>1
  <2>2. g[n] \in Nat /\ g[n] = h[n]
    BY <1>4, <2>1
  <2>3. g[n + 1] = g[n] + w[n + 1] /\ h[n + 1] = h[n] + w[n + 1] /\ w[n + 1] \in Nat
    BY <1>1, <1>2, <2>1
  <2> QED BY <2>2, <2>3
<1>5. Nat \subseteq S
  <2> HIDE DEF S
  <2> QED BY <1>3, <1>4, NatBySet
<1>6. \A n \in 0 .. L : n \in Nat /\ n <= L
  BY <1>1
<1> QED BY <1>5, <1>6 DEF L

\* So a total can be found with any ledger.
LEMMA TotalBy ==
  ASSUME NEW w, Numbers(w), NEW g, Ledger(w, g)
  PROVE  Total(w) = g[Len(w)] /\ Total(w) \in Nat
<1>1. Len(w) \in Nat
  BY SeqIs DEF Numbers
<1>2. PICK h : Ledger(w, h) /\ Total(w) = h[Len(w)]
  BY <1>1, TotalIs
<1>3. Len(w) \in 0 .. Len(w)
  BY <1>1
<1>4. \A n \in 0 .. Len(w) : g[n] \in Nat /\ g[n] = h[n]
  BY <1>2, LedgerOne
<1> QED BY <1>2, <1>3, <1>4

\* A total is a number.
LEMMA TotalNat ==
  ASSUME NEW w, Numbers(w)
  PROVE  Total(w) \in Nat
<1>1. Len(w) \in Nat
  BY SeqIs DEF Numbers
<1>2. PICK g : Ledger(w, g)
  BY <1>1, TotalIs
<1> QED BY <1>2, TotalBy

\* One number is replaced.
LEMMA TotalPut ==
  ASSUME NEW w, Numbers(w), NEW i \in 1 .. Len(w), NEW x \in Nat, NEW r, r = Put(w, i, x)
  PROVE  Numbers(r) /\ Total(r) = Total(w) - w[i] + x /\ Total(w) \in Nat /\ Total(r) \in Nat
<1> DEFINE L == Len(w)
<1>1. L \in Nat /\ DOMAIN w = 1 .. L /\ IsSeq(w) /\ \A j \in 1 .. L : w[j] \in Nat
  BY SeqIs DEF Numbers
<1>2. IsSeq(r) /\ Len(r) = L /\ r[i] = x /\ \A j \in 1 .. L : j # i => r[j] = w[j]
  BY <1>1, SeqExcept
<1>3. Numbers(r)
  BY <1>1, <1>2 DEF Numbers
<1>4. PICK g : Ledger(w, g) /\ Total(w) = g[L]
  BY <1>1, TotalIs
<1>5. \A n \in 0 .. L : g[n] \in Nat
  BY <1>4, LedgerOne
<1>6. g[0] = 0 /\ \A n \in 1 .. L : g[n] = g[n - 1] + w[n]
  BY <1>4 DEF Ledger
<1>7. i \in 1 .. L /\ w[i] \in Nat
  BY <1>1
<1> HIDE DEF L
<1> DEFINE h == [n \in 0 .. L |-> IF n < i THEN g[n] ELSE g[n] - w[i] + x]
<1>8. Ledger(r, h)
  <2>1. h[0] = 0
    <3>1. 0 \in 0 .. L /\ 0 < i
      BY <1>1, <1>7
    <3> QED BY <1>6, <3>1
  <2>2. ASSUME NEW n \in 1 .. L PROVE h[n] = h[n - 1] + r[n]
    <3>1. n \in 0 .. L /\ n - 1 \in 0 .. L /\ g[n] = g[n - 1] + w[n] /\ n \in Nat /\ n > 0
      BY <1>1, <1>6
    <3>2. g[n] \in Nat /\ g[n - 1] \in Nat /\ w[n] \in Nat
      BY <1>1, <1>5, <3>1
    <3>3. h[n] = (IF n < i THEN g[n] ELSE g[n] - w[i] + x)
          /\ h[n - 1] = (IF n - 1 < i THEN g[n - 1] ELSE g[n - 1] - w[i] + x)
      BY <3>1
    <3> HIDE DEF h
    <3>4. CASE n < i
      BY <1>2, <1>7, <3>1, <3>2, <3>3, <3>4
    <3>5. CASE n = i
      BY <1>2, <1>7, <3>1, <3>2, <3>3, <3>5
    <3>6. CASE n > i
      <4>1. ~(n < i) /\ ~(n - 1 < i) /\ n # i
        BY <1>7, <3>1, <3>6
      <4>2. r[n] = w[n]
        BY <1>2, <4>1
      <4> QED BY ONLY <1>7, <3>1, <3>2, <3>3, <4>1, <4>2, x \in Nat
    <3> QED BY <1>7, <3>1, <3>4, <3>5, <3>6
  <2> QED BY <1>2, <2>1, <2>2 DEF Ledger
<1>9. h[L] = g[L] - w[i] + x
  <2>1. L \in 0 .. L /\ ~(L < i)
    BY <1>1, <1>7
  <2> QED BY <2>1
<1> HIDE DEF h
<1>10. Total(r) = h[L] /\ Total(r) \in Nat
  BY <1>2, <1>3, <1>8, TotalBy
<1>11. Total(w) \in Nat
  <2>1. L \in 0 .. L
    BY <1>1
  <2> QED BY <1>4, <1>5, <2>1
<1> QED BY <1>3, <1>4, <1>9, <1>10, <1>11

\* One number is added at the end.
LEMMA TotalAdd ==
  ASSUME NEW w, Numbers(w), NEW x \in Nat, NEW r, r = Add(w, x)
  PROVE  Numbers(r) /\ Total(r) = Total(w) + x /\ Total(w) \in Nat
<1> DEFINE L == Len(w)
<1>1. L \in Nat /\ IsSeq(w) /\ \A j \in 1 .. L : w[j] \in Nat
  BY SeqIs DEF Numbers
<1>2. IsSeq(r) /\ Len(r) = L + 1 /\ r[L + 1] = x /\ \A j \in 1 .. L : r[j] = w[j]
  BY <1>1, SeqAppend
<1>3. PICK g : Ledger(w, g) /\ Total(w) = g[L]
  BY <1>1, TotalIs
<1>4. \A n \in 0 .. L : g[n] \in Nat
  BY <1>3, LedgerOne
<1>5. g[0] = 0 /\ \A n \in 1 .. L : g[n] = g[n - 1] + w[n]
  BY <1>3 DEF Ledger
<1> HIDE DEF L
<1>6. \A n \in 1 .. L + 1 : n \in 1 .. L \/ n = L + 1
  BY <1>1
<1>7. Numbers(r)
  BY <1>1, <1>2, <1>6 DEF Numbers
<1> DEFINE h == [n \in 0 .. L + 1 |-> IF n <= L THEN g[n] ELSE g[L] + x]
<1>8. \A n \in 0 .. L : h[n] = g[n]
  <2>1. \A n \in 0 .. L : n \in 0 .. L + 1 /\ n <= L
    BY <1>1
  <2> QED BY <2>1
<1>9. h[L + 1] = g[L] + x
  <2>1. L + 1 \in 0 .. L + 1 /\ ~(L + 1 <= L)
    BY <1>1
  <2> QED BY <2>1
<1> HIDE DEF h
<1>10. Ledger(r, h)
  <2>1. 0 \in 0 .. L /\ L \in 0 .. L /\ (L + 1) - 1 = L
    BY <1>1
  <2>2. \A n \in 1 .. L : n \in 0 .. L /\ n - 1 \in 0 .. L
    BY <1>1
  <2>3. h[0] = 0
    BY <1>5, <1>8, <2>1
  <2>4. ASSUME NEW n \in 1 .. L PROVE h[n] = h[n - 1] + r[n]
    BY <1>2, <1>5, <1>8, <2>2
  <2>5. h[L + 1] = h[(L + 1) - 1] + r[L + 1]
    BY <1>2, <1>8, <1>9, <2>1
  <2>6. \A n \in 1 .. Len(r) : h[n] = h[n - 1] + r[n]
    BY <1>2, <1>6, <2>4, <2>5
  <2> QED BY <2>3, <2>6 DEF Ledger
<1>11. Total(r) = h[L + 1]
  BY <1>2, <1>7, <1>10, TotalBy
<1>12. Total(w) \in Nat
  <2>1. L \in 0 .. L
    BY <1>1
  <2> QED BY <1>3, <1>4, <2>1
<1> QED BY <1>3, <1>7, <1>9, <1>11, <1>12

\* The first number is taken away.
LEMMA TotalTail ==
  ASSUME NEW w, Numbers(w), w # <<>>, NEW r, r = Tail(w)
  PROVE  /\ Numbers(r) /\ Total(r) = Total(w) - w[1] /\ Total(w) \in Nat /\ Total(r) \in Nat
         /\ w[1] \in Nat
<1> DEFINE L == Len(w)
<1>1. L \in Nat /\ IsSeq(w) /\ \A j \in 1 .. L : w[j] \in Nat
  BY SeqIs DEF Numbers
<1>2. IsSeq(r) /\ Len(r) = L - 1 /\ L > 0 /\ \A j \in 1 .. L - 1 : r[j] = w[j + 1]
  BY <1>1, SeqTail
<1>3. PICK g : Ledger(w, g) /\ Total(w) = g[L]
  BY <1>1, TotalIs
<1>4. \A n \in 0 .. L : g[n] \in Nat
  BY <1>3, LedgerOne
<1>5. g[0] = 0 /\ \A n \in 1 .. L : g[n] = g[n - 1] + w[n]
  BY <1>3 DEF Ledger
<1> HIDE DEF L
<1>6. Numbers(r)
  <2>1. \A n \in 1 .. L - 1 : n + 1 \in 1 .. L
    BY <1>1, <1>2
  <2> QED BY <1>1, <1>2, <2>1 DEF Numbers
<1>7. w[1] \in Nat /\ g[1] = w[1]
  <2>1. 1 \in 1 .. L /\ 1 - 1 = 0
    BY <1>1, <1>2
  <2>2. w[1] \in Nat /\ g[1] = g[0] + w[1]
    BY <1>1, <1>5, <2>1
  <2> QED BY <1>5, <2>2
<1> DEFINE h == [n \in 0 .. L - 1 |-> g[n + 1] - w[1]]
<1>8. Ledger(r, h)
  <2>1. h[0] = 0
    <3>1. 0 \in 0 .. L - 1 /\ 0 + 1 = 1
      BY <1>1, <1>2
    <3> QED BY <1>7, <3>1
  <2>2. ASSUME NEW n \in 1 .. L - 1 PROVE h[n] = h[n - 1] + r[n]
    <3>1. /\ n \in 0 .. L - 1 /\ n - 1 \in 0 .. L - 1 /\ (n - 1) + 1 = n
          /\ n + 1 \in 1 .. L /\ (n + 1) - 1 = n /\ n \in 0 .. L /\ n + 1 \in 0 .. L
      BY <1>1, <1>2
    <3>2. g[n + 1] = g[n] + w[n + 1] /\ g[n] \in Nat /\ g[n + 1] \in Nat /\ w[n + 1] \in Nat
      BY <1>1, <1>4, <1>5, <3>1
    <3>3. h[n] = g[n + 1] - w[1] /\ h[n - 1] = g[n] - w[1] /\ r[n] = w[n + 1]
      BY <1>2, <3>1
    <3> HIDE DEF h
    <3> QED BY ONLY <1>7, <3>2, <3>3
  <2> QED BY <1>2, <2>1, <2>2 DEF Ledger
<1>9. h[L - 1] = g[L] - w[1]
  <2>1. L - 1 \in 0 .. L - 1 /\ (L - 1) + 1 = L
    BY <1>1, <1>2
  <2> QED BY <2>1
<1> HIDE DEF h
<1>10. Total(r) = h[L - 1] /\ Total(r) \in Nat
  BY <1>2, <1>6, <1>8, TotalBy
<1>11. Total(w) \in Nat
  <2>1. L \in 0 .. L
    BY <1>1
  <2> QED BY <1>3, <1>4, <2>1
<1> QED BY <1>3, <1>6, <1>7, <1>9, <1>10, <1>11

\* Nothing adds up to nothing.
LEMMA TotalEmpty ==
  Numbers(<<>>) /\ Total(<<>>) = 0
<1>1. IsSeq(<<>>) /\ Len(<<>>) = 0
  BY SeqEmpty
<1>2. Numbers(<<>>)
  BY <1>1 DEF Numbers
<1>3. PICK g : Ledger(<<>>, g) /\ Total(<<>>) = g[Len(<<>>)]
  BY <1>1, TotalIs
<1> QED BY <1>1, <1>2, <1>3 DEF Ledger

-----------------------------------------------------------------------------
(***************************************************************************)
(* The accounts: the budget is what the queues hold, and while no session  *)
(* has gone every one of the m datagrams is queued, read or dropped.       *)
(***************************************************************************)
Lens(d) == [i \in DOMAIN d.rx |-> d.rx[i].len]
Got(ops, s) == {i \in DOMAIN ops : ops[i].sid = s /\ ops[i].st = "ok"}
Share(d, ops, s) == Len(d.rx) + Cardinality(Got(ops, s))

Sizes(e) == [s \in Sids(e) |-> e.sess[s].rx_bytes]
Shares(e) == [s \in Sids(e) |-> Share(e.sess[s], e.ops, s)]

Purse(d) ==
  IsSeq(d.rx) /\ Numbers(Lens(d)) /\ d.rx_bytes \in Nat /\ d.rx_bytes = Total(Lens(d))

Books(e, m) ==
  /\ e.used \in Nat /\ e.used <= Limit /\ e.dropped \in Nat /\ e.dropped <= m
  /\ \A s \in Sids(e) : Purse(e.sess[s])
  /\ e.used = Total(Sizes(e))
  /\ Open(e) = Sids(e) => m = e.dropped + Total(Shares(e))

\* A function on the sessions is a sequence.
LEMMA SidsSeq ==
  ASSUME NEW e, IsSeq(e.sess), NEW w, DOMAIN w = Sids(e), w = [s \in Sids(e) |-> w[s]]
  PROVE  IsSeq(w) /\ Len(w) = Len(e.sess) /\ Sids(e) = 1 .. Len(w)
<1>1. Len(e.sess) \in Nat /\ Sids(e) = 1 .. Len(e.sess)
  BY SeqIs DEF Sids
<1> QED BY <1>1, SeqMade

\* The reads that got a datagram are finitely many.
LEMMA GotIs ==
  ASSUME NEW ops, IsSeq(ops), NEW s
  PROVE  IsFiniteSet(Got(ops, s)) /\ Cardinality(Got(ops, s)) \in Nat
<1>1. IsFiniteSet(DOMAIN ops)
  <2>1. Len(ops) \in Nat /\ DOMAIN ops = 1 .. Len(ops)
    BY SeqIs
  <2> QED BY <2>1, FS_Interval
<1>2. Got(ops, s) \subseteq DOMAIN ops
  BY DEF Got
<1>3. IsFiniteSet(Got(ops, s))
  BY <1>1, <1>2, FS_Subset
<1> QED BY <1>3, FS_CardinalityType

\* A session's part of the datagrams is a number.
LEMMA ShareIs ==
  ASSUME NEW d, IsSeq(d.rx), NEW ops, IsSeq(ops), NEW s
  PROVE  Share(d, ops, s) \in Nat
<1>1. Len(d.rx) \in Nat
  BY SeqIs
<1>2. Cardinality(Got(ops, s)) \in Nat
  BY GotIs
<1> QED BY <1>1, <1>2 DEF Share

\* What is added up.
LEMMA BooksAre ==
  ASSUME NEW e, IsSeq(e.sess), IsSeq(e.ops), \A s \in Sids(e) : Purse(e.sess[s])
  PROVE  /\ Numbers(Sizes(e)) /\ Sids(e) = 1 .. Len(Sizes(e)) /\ DOMAIN Sizes(e) = Sids(e)
         /\ Numbers(Shares(e)) /\ Sids(e) = 1 .. Len(Shares(e)) /\ DOMAIN Shares(e) = Sids(e)
         /\ \A s \in Sids(e) : /\ Sizes(e)[s] = e.sess[s].rx_bytes
                               /\ Shares(e)[s] = Share(e.sess[s], e.ops, s)
<1>1. \A s \in Sids(e) : e.sess[s].rx_bytes \in Nat /\ IsSeq(e.sess[s].rx)
  BY DEF Purse
<1>2. \A s \in Sids(e) : Share(e.sess[s], e.ops, s) \in Nat
  BY <1>1, ShareIs
<1>3. /\ DOMAIN Sizes(e) = Sids(e) /\ Sizes(e) = [s \in Sids(e) |-> Sizes(e)[s]]
      /\ \A s \in Sids(e) : Sizes(e)[s] = e.sess[s].rx_bytes
  BY DEF Sizes
<1>4. /\ DOMAIN Shares(e) = Sids(e) /\ Shares(e) = [s \in Sids(e) |-> Shares(e)[s]]
      /\ \A s \in Sids(e) : Shares(e)[s] = Share(e.sess[s], e.ops, s)
  BY DEF Shares
<1>5. IsSeq(Sizes(e)) /\ Sids(e) = 1 .. Len(Sizes(e))
  BY <1>3, SidsSeq
<1>6. IsSeq(Shares(e)) /\ Sids(e) = 1 .. Len(Shares(e))
  BY <1>4, SidsSeq
<1>7. Numbers(Sizes(e))
  BY <1>1, <1>3, <1>5 DEF Numbers
<1>8. Numbers(Shares(e))
  BY <1>2, <1>4, <1>6 DEF Numbers
<1> QED BY <1>3, <1>4, <1>5, <1>6, <1>7, <1>8

\* What Books looks at, the count of lost datagrams apart.
SameBooks(e, f) ==
  /\ f.used = e.used /\ f.ops = e.ops /\ Sids(f) = Sids(e)
  /\ \A s \in Sids(e) : /\ f.sess[s].closed = e.sess[s].closed
                        /\ f.sess[s].rx = e.sess[s].rx /\ f.sess[s].rx_bytes = e.sess[s].rx_bytes

\* A step that changes none of it, or that loses k datagrams.
LEMMA BooksKept ==
  ASSUME NEW e, NEW f, NEW m \in Nat, NEW k \in Nat, Books(e, m), IsSeq(e.sess), IsSeq(e.ops),
         SameBooks(e, f), f.dropped = e.dropped + k
  PROVE  Books(f, m + k)
<1>1. Open(f) = Open(e)
  BY DEF SameBooks, Open
<1>2. Sizes(f) = Sizes(e)
  BY DEF SameBooks, Sizes
<1>3. Shares(f) = Shares(e)
  BY DEF SameBooks, Shares, Share
<1>4. \A s \in Sids(f) : Purse(f.sess[s])
  <2> TAKE s \in Sids(f)
  <2>1. s \in Sids(e) /\ Purse(e.sess[s])
    BY DEF Books, SameBooks
  <2>2. f.sess[s].rx = e.sess[s].rx /\ f.sess[s].rx_bytes = e.sess[s].rx_bytes
    BY <2>1 DEF SameBooks
  <2>3. Lens(f.sess[s]) = Lens(e.sess[s])
    BY <2>2 DEF Lens
  <2> QED BY <2>1, <2>2, <2>3 DEF Purse
<1>5. f.used = e.used /\ Sids(f) = Sids(e)
  BY DEF SameBooks
<1>6. /\ e.used \in Nat /\ e.used <= Limit /\ e.dropped \in Nat /\ e.dropped <= m
      /\ e.used = Total(Sizes(e))
  BY DEF Books
<1>7. f.dropped \in Nat /\ f.dropped <= m + k
  BY <1>6
<1>8. Open(f) = Sids(f) => m + k = f.dropped + Total(Shares(f))
  <2> SUFFICES ASSUME Open(f) = Sids(f) PROVE m + k = f.dropped + Total(Shares(f))
    OBVIOUS
  <2>1. m = e.dropped + Total(Shares(e))
    BY <1>1, <1>5 DEF Books
  <2> DEFINE T == Total(Shares(e))
  <2>2. Total(Shares(f)) = T /\ m = e.dropped + T
    BY <1>3, <2>1
  <2>3. T \in Nat
    <3>1. Numbers(Shares(e))
      BY BooksAre DEF Books
    <3> QED BY <3>1, TotalNat
  <2> HIDE DEF T
  <2> QED BY <1>6, <2>2, <2>3
<1> QED BY <1>2, <1>4, <1>5, <1>6, <1>7, <1>8 DEF Books

\* One session of the accounts changes.
LEMMA BooksOne ==
  ASSUME NEW e, NEW f, NEW s \in Sids(e), NEW d, NEW m \in Nat, NEW n \in Nat, Books(e, m),
         IsSeq(e.sess), IsSeq(e.ops), IsSeq(f.ops), Replaced(e, f, s, d), Purse(d),
         OnlyOf(e.ops, f.ops, s), f.used = e.used - e.sess[s].rx_bytes + d.rx_bytes,
         f.used <= Limit, f.dropped \in Nat, f.dropped <= n,
         ~d.closed => /\ ~e.sess[s].closed
                      /\ n + e.dropped + Share(e.sess[s], e.ops, s)
                           = m + f.dropped + Share(d, f.ops, s)
  PROVE  Books(f, n)
<1>1. /\ IsSeq(f.sess) /\ Sids(f) = Sids(e) /\ f.sess[s] = d
      /\ \A r \in Sids(e) : r # s => f.sess[r] = e.sess[r]
  BY DEF Replaced
<1>2. \A r \in Sids(e) : Purse(e.sess[r])
  BY DEF Books
<1>3. \A r \in Sids(f) : Purse(f.sess[r])
  BY <1>1, <1>2
<1> DEFINE x == Share(d, f.ops, s)
<1>4. \A r \in Sids(e) : r # s => Share(f.sess[r], f.ops, r) = Share(e.sess[r], e.ops, r)
  <2> TAKE r \in Sids(e)
  <2> HAVE r # s
  <2>1. Got(f.ops, r) = Got(e.ops, r)
    BY DEF Got, OnlyOf
  <2> QED BY <1>1, <2>1 DEF Share
<1>5. Sizes(f) = Put(Sizes(e), s, d.rx_bytes)
  BY <1>1 DEF Sizes, Put
<1>6. Shares(f) = Put(Shares(e), s, x)
  BY <1>1, <1>4 DEF Shares, Put
<1>7. /\ Numbers(Sizes(e)) /\ s \in 1 .. Len(Sizes(e)) /\ Sizes(e)[s] = e.sess[s].rx_bytes
      /\ Numbers(Shares(e)) /\ s \in 1 .. Len(Shares(e))
      /\ Shares(e)[s] = Share(e.sess[s], e.ops, s)
  BY <1>2, BooksAre
<1>8. x \in Nat /\ d.rx_bytes \in Nat /\ Share(e.sess[s], e.ops, s) \in Nat
  <2>1. IsSeq(d.rx) /\ d.rx_bytes \in Nat /\ IsSeq(e.sess[s].rx)
    BY <1>2 DEF Purse
  <2> QED BY <2>1, ShareIs
<1> HIDE DEF x
<1>9. Total(Sizes(f)) = Total(Sizes(e)) - e.sess[s].rx_bytes + d.rx_bytes /\ Total(Sizes(f)) \in Nat
  <2> DEFINE w == Sizes(e)
             v == Sizes(f)
             y == d.rx_bytes
  <2>1. Numbers(w) /\ s \in 1 .. Len(w) /\ y \in Nat /\ v = Put(w, s, y) /\ w[s] = e.sess[s].rx_bytes
    BY <1>5, <1>7, <1>8
  <2> HIDE DEF w, v, y
  <2>2. Total(v) = Total(w) - w[s] + y /\ Total(v) \in Nat
    BY ONLY <2>1, TotalPut
  <2> QED BY ONLY <2>1, <2>2 DEF w, v, y
<1>10. /\ Total(Shares(f)) = Total(Shares(e)) - Share(e.sess[s], e.ops, s) + x
       /\ Total(Shares(f)) \in Nat /\ Total(Shares(e)) \in Nat
  <2> DEFINE w == Shares(e)
             v == Shares(f)
  <2>1. Numbers(w) /\ s \in 1 .. Len(w) /\ v = Put(w, s, x) /\ w[s] = Share(e.sess[s], e.ops, s)
    BY <1>6, <1>7
  <2> HIDE DEF w, v
  <2>2. Total(v) = Total(w) - w[s] + x /\ Total(v) \in Nat /\ Total(w) \in Nat
    BY ONLY <1>8, <2>1, TotalPut
  <2> QED BY ONLY <2>1, <2>2 DEF w, v
<1>11. f.used = Total(Sizes(f))
  BY <1>9 DEF Books
<1>12. ASSUME Open(f) = Sids(f) PROVE n = f.dropped + Total(Shares(f))
  <2>1. ~d.closed
    BY <1>1, <1>12 DEF Open
  <2>2. \A r \in Sids(e) : ~e.sess[r].closed
    <3> TAKE r \in Sids(e)
    <3>1. ~f.sess[r].closed
      BY <1>1, <1>12 DEF Open
    <3> QED BY <1>1, <2>1, <3>1
  <2>3. Open(e) = Sids(e)
    BY <2>2 DEF Open
  <2>4. m = e.dropped + Total(Shares(e)) /\ e.dropped \in Nat
    BY <2>3 DEF Books
  <2>5. n + e.dropped + Share(e.sess[s], e.ops, s) = m + f.dropped + x
    BY <2>1 DEF x
  <2> DEFINE T == Total(Shares(e))
             W == Total(Shares(f))
             y == Share(e.sess[s], e.ops, s)
  <2>6. /\ m = e.dropped + T /\ e.dropped \in Nat /\ n + e.dropped + y = m + f.dropped + x
        /\ W = T - y + x /\ T \in Nat /\ W \in Nat /\ x \in Nat /\ y \in Nat
    BY <1>8, <1>10, <2>4, <2>5
  <2> HIDE DEF T, W, y
  <2>7. n = f.dropped + W
    BY ONLY <2>6, n \in Nat, m \in Nat, f.dropped \in Nat
  <2> QED BY <2>7 DEF W
<1> QED BY <1>3, <1>9, <1>11, <1>12 DEF Books

\* The lengths of an empty queue, and of one that is longer or shorter by one.
LEMMA PurseEmpty ==
  ASSUME NEW d, d.rx = <<>>, d.rx_bytes = 0
  PROVE  Purse(d)
<1>1. IsSeq(d.rx) /\ DOMAIN d.rx = {}
  BY SeqEmpty
<1>2. Lens(d) = <<>>
  BY <1>1 DEF Lens
<1> QED BY <1>1, <1>2, TotalEmpty DEF Purse

\* A datagram is queued.
LEMMA PurseAdd ==
  ASSUME NEW c, Purse(c), NEW d, NEW g, g.len \in Nat, d.rx = Add(c.rx, g),
         d.rx_bytes = c.rx_bytes + g.len
  PROVE  Purse(d) /\ Len(d.rx) = Len(c.rx) + 1 /\ Len(c.rx) \in Nat
<1>1. IsSeq(c.rx) /\ Numbers(Lens(c)) /\ c.rx_bytes \in Nat /\ c.rx_bytes = Total(Lens(c))
  BY DEF Purse
<1>2. /\ IsSeq(d.rx) /\ Len(d.rx) = Len(c.rx) + 1 /\ d.rx[Len(c.rx) + 1] = g
      /\ \A i \in 1 .. Len(c.rx) : d.rx[i] = c.rx[i]
  BY <1>1, SeqAppend
<1>3. /\ Len(c.rx) \in Nat /\ DOMAIN c.rx = 1 .. Len(c.rx)
      /\ DOMAIN d.rx = 1 .. Len(d.rx)
  BY <1>1, <1>2, SeqIs
<1> DEFINE L == Len(c.rx)
           w == Lens(c)
           r == Add(Lens(c), g.len)
<1>4. IsSeq(w) /\ DOMAIN w = 1 .. L /\ \A i \in 1 .. L : w[i] = c.rx[i].len
  BY <1>1, <1>3 DEF Lens, Numbers
<1>5. Len(w) = L
  <2>1. DOMAIN w = 1 .. Len(w) /\ Len(w) \in Nat
    BY <1>4, SeqIs
  <2> QED BY ONLY <1>3, <1>4, <2>1
<1>6. IsSeq(r) /\ Len(r) = L + 1 /\ r[L + 1] = g.len /\ \A i \in 1 .. L : r[i] = w[i]
  BY <1>4, <1>5, SeqAppend
<1>7. \A i \in 1 .. L + 1 : i \in 1 .. L \/ i = L + 1
  BY <1>3
<1>8. \A i \in 1 .. L + 1 : r[i] = d.rx[i].len
  BY <1>2, <1>4, <1>6, <1>7
<1>9. Lens(d) = r
  <2>1. Lens(d) = [i \in 1 .. L + 1 |-> d.rx[i].len]
    BY <1>2, <1>3 DEF Lens
  <2>2. r = [i \in 1 .. L + 1 |-> r[i]]
    BY <1>6, SeqIs
  <2> HIDE DEF r, L
  <2> QED BY <1>8, <2>1, <2>2
<1>10. Numbers(r) /\ Total(r) = Total(w) + g.len
  BY <1>1, TotalAdd
<1> HIDE DEF r, w
<1>11. Total(w) = c.rx_bytes
  BY <1>1 DEF w
<1> QED BY <1>1, <1>2, <1>3, <1>9, <1>10, <1>11 DEF Purse

\* The oldest datagram leaves the queue.
LEMMA PurseTail ==
  ASSUME NEW c, Purse(c), c.rx # <<>>, NEW d, d.rx = Tail(c.rx),
         d.rx_bytes = c.rx_bytes - Head(c.rx).len
  PROVE  /\ Purse(d) /\ Len(d.rx) = Len(c.rx) - 1 /\ Len(c.rx) \in Nat
         /\ Head(c.rx).len \in Nat
<1>1. IsSeq(c.rx) /\ Numbers(Lens(c)) /\ c.rx_bytes \in Nat /\ c.rx_bytes = Total(Lens(c))
  BY DEF Purse
<1>2. /\ IsSeq(d.rx) /\ Len(d.rx) = Len(c.rx) - 1 /\ Len(c.rx) > 0 /\ Head(c.rx) = c.rx[1]
      /\ \A i \in 1 .. Len(d.rx) : d.rx[i] = c.rx[i + 1]
  BY <1>1, SeqTail
<1>3. /\ Len(c.rx) \in Nat /\ DOMAIN c.rx = 1 .. Len(c.rx)
      /\ DOMAIN d.rx = 1 .. Len(d.rx)
  BY <1>1, <1>2, SeqIs
<1> DEFINE L == Len(c.rx)
           w == Lens(c)
           r == Tail(Lens(c))
<1>4. IsSeq(w) /\ DOMAIN w = 1 .. L /\ \A i \in 1 .. L : w[i] = c.rx[i].len
  BY <1>1, <1>3 DEF Lens, Numbers
<1>5. Len(w) = L /\ w # <<>>
  <2>1. DOMAIN w = 1 .. Len(w) /\ Len(w) \in Nat
    BY <1>4, SeqIs
  <2>2. Len(w) = L
    BY ONLY <1>3, <1>4, <2>1
  <2>3. Len(<<>>) = 0
    BY SeqEmpty
  <2> QED BY <1>2, <1>3, <2>2, <2>3
<1>6. IsSeq(r) /\ Len(r) = L - 1 /\ \A i \in 1 .. L - 1 : r[i] = w[i + 1]
  <2>1. IsSeq(w) /\ w # <<>> /\ r = Tail(w) /\ Len(w) = L
    BY <1>4, <1>5
  <2> HIDE DEF w, r, L
  <2>2. IsSeq(r) /\ Len(r) = Len(w) - 1 /\ \A i \in 1 .. Len(r) : r[i] = w[i + 1]
    BY ONLY <2>1, SeqTail
  <2> QED BY ONLY <2>1, <2>2
<1>7. \A i \in 1 .. L - 1 : r[i] = d.rx[i].len
  <2>1. \A i \in 1 .. L - 1 : i + 1 \in 1 .. L
    BY <1>3
  <2> QED BY <1>2, <1>4, <1>6, <2>1
<1>8. Lens(d) = r
  <2>1. Lens(d) = [i \in 1 .. L - 1 |-> d.rx[i].len]
    BY <1>2, <1>3 DEF Lens
  <2>2. r = [i \in 1 .. L - 1 |-> r[i]]
    BY <1>6, SeqIs
  <2> HIDE DEF r, L
  <2> QED BY <1>7, <2>1, <2>2
<1>9. /\ Numbers(r) /\ Total(r) = Total(w) - w[1] /\ Total(w) \in Nat /\ Total(r) \in Nat
      /\ w[1] \in Nat
  BY <1>1, <1>5, TotalTail
<1>10. w[1] = Head(c.rx).len
  <2>1. 1 \in 1 .. L
    BY <1>2, <1>3
  <2> QED BY <1>2, <1>4, <2>1
<1> HIDE DEF r, w
<1>11. Total(w) = c.rx_bytes
  BY <1>1 DEF w
<1> QED BY <1>1, <1>2, <1>3, <1>8, <1>9, <1>10, <1>11 DEF Purse

\* A read of the session s gets a datagram.
LEMMA GotPut ==
  ASSUME NEW ops, IsSeq(ops), NEW i \in DOMAIN ops, NEW p, NEW s, ops[i].sid = s,
         ops[i].st # "ok", p.sid = s, p.st = "ok", NEW new, new = Put(ops, i, p)
  PROVE  Cardinality(Got(new, s)) = Cardinality(Got(ops, s)) + 1
<1>1. DOMAIN new = DOMAIN ops /\ new[i] = p /\ \A j \in DOMAIN ops : j # i => new[j] = ops[j]
  BY OnePut
<1>2. Got(new, s) = Got(ops, s) \cup {i} /\ i \notin Got(ops, s)
  BY <1>1 DEF Got
<1>3. IsFiniteSet(Got(ops, s))
  BY GotIs
<1> QED BY <1>2, <1>3, FS_AddElement

\* A read joins, with a datagram or without.
LEMMA GotAdd ==
  ASSUME NEW ops, IsSeq(ops), NEW p, NEW s, p.sid = s, NEW new, new = Add(ops, p)
  PROVE  /\ p.st = "ok" => Cardinality(Got(new, s)) = Cardinality(Got(ops, s)) + 1
         /\ p.st # "ok" => Got(new, s) = Got(ops, s)
<1> DEFINE k == Len(ops) + 1
<1>1. Grew(ops, new, s, k, p)
  BY OneAdd
<1> HIDE DEF k
<1>2. /\ DOMAIN new = DOMAIN ops \cup {k} /\ new[k] = p /\ k \in Nat /\ DOMAIN ops \subseteq Nat
      /\ \A j \in DOMAIN ops : new[j] = ops[j] /\ j < k
  BY <1>1 DEF Grew
<1>3. k \notin DOMAIN ops
  BY <1>2
<1>4. IsFiniteSet(Got(ops, s)) /\ k \notin Got(ops, s)
  BY <1>3, GotIs DEF Got
<1>5. p.st = "ok" => Got(new, s) = Got(ops, s) \cup {k}
  BY <1>2 DEF Got
<1>6. p.st # "ok" => Got(new, s) = Got(ops, s)
  BY <1>2 DEF Got
<1> QED BY <1>4, <1>5, <1>6, FS_AddElement

\* What Books needs of a session's record.
LEMMA PurseSame ==
  ASSUME NEW c, Purse(c), NEW d, d.rx = c.rx, d.rx_bytes = c.rx_bytes
  PROVE  Purse(d)
BY DEF Purse, Lens

\* hand_over: the datagram is read.
LEMMA BooksHanded ==
  ASSUME NEW e, NEW U, NEW m \in Nat, Sound(e, U, m), Books(e, m), NEW s \in Sids(e), NEW len,
         e.sess[s].reads # <<>>, NEW f, f = hand_over(e, s, m + 1, len)
  PROVE  Books(f, m + 1)
<1> DEFINE c == e.sess[s]
           i == Head(c.reads)
<1>1. /\ SessReads(c, e.ops, s, m) /\ IsSeq(e.ops) /\ Shape(e) /\ IsSeq(e.sess)
      /\ Purse(c) /\ e.used \in Nat /\ e.used <= Limit /\ e.dropped \in Nat /\ e.dropped <= m
  BY DEF Sound, Reads, Shape, Books
<1>2. i \in DOMAIN e.ops /\ e.ops[i].sid = s /\ e.ops[i].st = "wait"
  <2>1. IsSeq(c.reads) /\ Len(c.reads) \in Nat /\ DOMAIN c.reads = 1 .. Len(c.reads)
    BY <1>1, SeqIs DEF SessReads, Queues
  <2>2. i = c.reads[1] /\ Len(c.reads) > 0
    BY <2>1, SeqTail
  <2>3. i \in ToSet(c.reads)
    BY <2>1, <2>2 DEF ToSet
  <2> HIDE DEF i
  <2>4. \A x \in ToSet(c.reads) : x \in DOMAIN e.ops /\ e.ops[x].sid = s /\ e.ops[x].st = "wait"
    BY <1>1 DEF SessReads, Owned
  <2> QED BY <2>3, <2>4
<1>3. DOMAIN e.ops[i] = OpFields
  BY <1>1, <1>2 DEF SessReads, ReadsOk, ReadOk
<1>4. /\ f.used = e.used /\ f.dropped = e.dropped
      /\ \E p : f.ops = Put(e.ops, i, p) /\ Posted(e.ops[i], p, "ok", m + 1)
      /\ \E d : /\ f.sess = Put(e.sess, s, d) /\ KeptOf(e.sess[s], d)
                /\ d.rx = e.sess[s].rx /\ d.rx_bytes = e.sess[s].rx_bytes
  BY <1>1, <1>2, <1>3, HandOverIs
<1>5. PICK p : f.ops = Put(e.ops, i, p) /\ Posted(e.ops[i], p, "ok", m + 1)
  BY <1>4
<1>6. PICK d : /\ f.sess = Put(e.sess, s, d) /\ KeptOf(c, d) /\ d.rx = c.rx /\ d.rx_bytes = c.rx_bytes
  BY <1>4
<1> HIDE DEF c, i
<1>7. Replaced(e, f, s, d)
  BY <1>1, <1>6, Replacing
<1>8. Purse(d) /\ d.closed = c.closed /\ Len(c.rx) \in Nat /\ c.rx_bytes \in Nat
  BY <1>1, <1>6, PurseSame, SeqIs DEF KeptOf, Purse
<1>9. p.sid = s /\ p.st = "ok" /\ e.ops[i].st # "ok"
  BY <1>2, <1>5 DEF Posted
<1>10. IsSeq(f.ops) /\ OnlyOf(e.ops, f.ops, s)
  BY <1>1, <1>2, <1>5, <1>9, OnePut
<1>11. Cardinality(Got(f.ops, s)) = Cardinality(Got(e.ops, s)) + 1 /\ Cardinality(Got(e.ops, s)) \in Nat
  BY <1>1, <1>2, <1>5, <1>9, GotPut, GotIs
<1>12. Share(d, f.ops, s) = Share(c, e.ops, s) + 1 /\ Share(c, e.ops, s) \in Nat
  BY <1>6, <1>8, <1>11 DEF Share
<1>13. f.used = e.used - c.rx_bytes + d.rx_bytes /\ f.used <= Limit
  BY <1>1, <1>4, <1>6, <1>8
<1>14. /\ m + 1 \in Nat /\ f.dropped \in Nat /\ f.dropped <= m + 1
       /\ (m + 1) + e.dropped + Share(c, e.ops, s) = m + f.dropped + Share(d, f.ops, s)
  BY <1>1, <1>4, <1>12
<1> QED BY <1>1, <1>7, <1>8, <1>10, <1>13, <1>14, BooksOne DEF c

\* queue_datagram: it is queued, or dropped.
LEMMA BooksQueued ==
  ASSUME NEW e, NEW U, NEW m \in Nat, Sound(e, U, m), Books(e, m), NEW s \in Sids(e),
         NEW len \in Nat, NEW f, f = queue_datagram(e, s, m + 1, len)
  PROVE  Books(f, m + 1)
<1> DEFINE c == e.sess[s]
           x == [n |-> m + 1, len |-> len]
<1>1. /\ IsSeq(e.ops) /\ Shape(e) /\ IsSeq(e.sess)
      /\ Purse(c) /\ e.used \in Nat /\ e.used <= Limit /\ e.dropped \in Nat /\ e.dropped <= m
  BY DEF Sound, Reads, Shape, Books
<1>2. x.len = len
  OBVIOUS
<1> HIDE DEF x
<1>3. /\ f.ops = e.ops
      /\ \/ f.sess = e.sess /\ f.dropped = e.dropped + 1 /\ f.used = e.used
         \/ /\ f.dropped = e.dropped /\ f.used = e.used + len /\ ~(e.used + len > Limit)
            /\ \E d : /\ f.sess = Put(e.sess, s, d) /\ KeptOf(c, d)
                      /\ d.rx = Add(c.rx, x) /\ d.rx_bytes = c.rx_bytes + len
  BY <1>1, QueueIs DEF x
<1>4. CASE f.sess = e.sess /\ f.dropped = e.dropped + 1 /\ f.used = e.used
  <2>1. SameBooks(e, f)
    BY <1>3, <1>4 DEF SameBooks, Sids
  <2> QED BY <1>1, <1>4, <2>1, BooksKept
<1>5. CASE /\ f.dropped = e.dropped /\ f.used = e.used + len /\ ~(e.used + len > Limit)
           /\ \E d : /\ f.sess = Put(e.sess, s, d) /\ KeptOf(c, d)
                     /\ d.rx = Add(c.rx, x) /\ d.rx_bytes = c.rx_bytes + len
  <2>1. PICK d : /\ f.sess = Put(e.sess, s, d) /\ KeptOf(c, d)
                 /\ d.rx = Add(c.rx, x) /\ d.rx_bytes = c.rx_bytes + len
    BY <1>5
  <2> HIDE DEF c
  <2>2. Replaced(e, f, s, d) /\ d.closed = c.closed
    BY <1>1, <2>1, Replacing DEF KeptOf
  <2>3. Purse(d) /\ Len(d.rx) = Len(c.rx) + 1 /\ Len(c.rx) \in Nat
    BY <1>1, <1>2, <2>1, PurseAdd
  <2>4. c.rx_bytes \in Nat /\ Limit \in Nat
    BY <1>1, UdpAssumption DEF Purse
  <2>5. f.used = e.used - c.rx_bytes + d.rx_bytes /\ f.used <= Limit
    BY <1>1, <1>5, <2>1, <2>4
  <2>6. OnlyOf(e.ops, f.ops, s) /\ IsSeq(f.ops)
    BY <1>1, <1>3 DEF OnlyOf
  <2>7. Cardinality(Got(e.ops, s)) \in Nat
    BY <1>1, GotIs
  <2>8. Share(d, f.ops, s) = Share(c, e.ops, s) + 1 /\ Share(c, e.ops, s) \in Nat
    <3> DEFINE g == Cardinality(Got(e.ops, s))
    <3>1. Share(c, e.ops, s) = Len(c.rx) + g /\ Share(d, f.ops, s) = Len(d.rx) + g
      BY <1>3 DEF Share
    <3>2. g \in Nat
      BY <2>7
    <3> HIDE DEF g
    <3> QED BY ONLY <2>3, <3>1, <3>2
  <2>9. /\ m + 1 \in Nat /\ f.dropped \in Nat /\ f.dropped <= m + 1
        /\ (m + 1) + e.dropped + Share(c, e.ops, s) = m + f.dropped + Share(d, f.ops, s)
    BY <1>1, <1>5, <2>8
  <2> QED BY <1>1, <2>2, <2>3, <2>5, <2>6, <2>9, BooksOne DEF c
<1> QED BY <1>3, <1>4, <1>5

\* deliver_datagram to an open session.
LEMMA BooksDeliver ==
  ASSUME NEW e, NEW U, NEW m \in Nat, Sound(e, U, m), Books(e, m), NEW s \in Sids(e),
         ~e.sess[s].closed, NEW len \in Nat, NEW f, f = deliver_datagram(e, s, m + 1, len)
  PROVE  Books(f, m + 1)
<1> DEFINE g == refresh_expiry(e, s)
<1>1. Shape(e) /\ IsSeq(e.sess) /\ IsSeq(e.ops) /\ e.dropped \in Nat
  BY DEF Sound, Reads, Shape, Books
<1>2. Quiet(e, g)
  BY <1>1, RefreshQuiet
<1>3. \/ g.sess[s].reads # <<>> /\ f = hand_over(g, s, m + 1, len)
      \/ g.sess[s].reads = <<>> /\ f = queue_datagram(g, s, m + 1, len)
  BY DeliverIs
<1> HIDE DEF g
<1>4. Sound(g, U, m)
  BY <1>2, SoundQuiet
<1>5. SameBooks(e, g) /\ g.dropped = e.dropped
  BY <1>2 DEF SameBooks, Quiet, Fixed, SameSession
<1>6. Books(g, m)
  <2>1. g.dropped = e.dropped + 0 /\ m + 0 = m
    BY <1>1, <1>5
  <2>2. Books(g, m + 0)
    BY <1>1, <1>5, <2>1, BooksKept
  <2> QED BY <2>1, <2>2
<1>7. s \in Sids(g)
  BY <1>2 DEF Quiet
<1> QED BY <1>3, <1>4, <1>6, <1>7, BooksHanded, BooksQueued

\* remove_session: the budget of the session is given back.
LEMMA BooksRemove ==
  ASSUME NEW e, NEW U, NEW m \in Nat, Sound(e, U, m), Books(e, m), NEW s \in Sids(e),
         NEW f, f = remove_session(e, s)
  PROVE  Books(f, m)
<1>1. CASE e.sess[s].closed
  BY <1>1, RemoveNot
<1>2. CASE ~e.sess[s].closed
  <2> DEFINE c == e.sess[s]
             d == f.sess[s]
  <2>1. /\ IsSeq(e.ops) /\ Shape(e) /\ IsSeq(e.sess) /\ SessReads(c, e.ops, s, m)
        /\ Purse(c) /\ e.used \in Nat /\ e.used <= Limit /\ e.dropped \in Nat /\ e.dropped <= m
        /\ e.used = Total(Sizes(e)) /\ \A r \in Sids(e) : Purse(e.sess[r])
    BY DEF Sound, Reads, Shape, Books
  <2>2. Removal(e, s, f)
    BY <1>2, <2>1, RemoveIs
  <2>3. Replaced(e, f, s, d) /\ Ended(c, d)
    BY <1>2, <2>1, RemoveSess DEF Replaced
  <2>4. /\ f.ops = abort_reads(e.ops, c.reads) /\ f.used = e.used - c.rx_bytes
        /\ f.dropped = e.dropped
    BY <2>2 DEF Removal
  <2> HIDE DEF c, d
  <2>5. IsSeq(f.ops) /\ OnlyOf(e.ops, f.ops, s)
    BY <2>1, <2>3, <2>4, SessClosed
  <2>6. Purse(d) /\ d.closed /\ d.rx_bytes = 0
    BY <2>3, PurseEmpty DEF Ended
  <2>7. c.rx_bytes \in Nat /\ Limit \in Nat
    BY <2>1, UdpAssumption DEF Purse
  <2>8. f.used = e.used - c.rx_bytes + d.rx_bytes /\ f.used <= Limit
    BY <2>1, <2>4, <2>6, <2>7
  <2> QED BY <2>1, <2>3, <2>4, <2>5, <2>6, <2>8, BooksOne DEF c
<1> QED BY <1>1, <1>2

\* start_receive: a queued datagram is read, and its budget given back.
LEMMA BooksReceive ==
  ASSUME NEW e, NEW U, NEW m \in Nat, Sound(e, U, m), Books(e, m), NEW s \in Sids(e), NEW size,
         NEW f, f = start_receive(e, s, size)
  PROVE  Books(f, m)
<1> DEFINE c == e.sess[s]
           x == Head(c.rx)
<1>1. /\ IsSeq(e.ops) /\ Shape(e) /\ IsSeq(e.sess)
      /\ Purse(c) /\ e.used \in Nat /\ e.used <= Limit /\ e.dropped \in Nat /\ e.dropped <= m
  BY DEF Sound, Reads, Shape, Books
<1>2. /\ f.dropped = e.dropped
      /\ c.closed => f.sess = e.sess /\ f.used = e.used /\ Started(e, f, s, "bad_descriptor", 0, 1)
      /\ ~c.closed /\ c.rx # <<>> =>
           /\ Started(e, f, s, "ok", x.n, 1) /\ f.used = e.used - x.len
           /\ \E d : /\ f.sess = Put(e.sess, s, d) /\ KeptOf(c, d)
                     /\ d.rx = Tail(c.rx) /\ d.rx_bytes = c.rx_bytes - x.len
      /\ ~c.closed /\ c.rx = <<>> =>
           /\ Started(e, f, s, "wait", 0, 0) /\ f.used = e.used
           /\ \E d : /\ f.sess = Put(e.sess, s, d) /\ KeptOf(c, d)
                     /\ d.rx = c.rx /\ d.rx_bytes = c.rx_bytes
  BY <1>1, ReceiveIs
<1>3. c.rx_bytes \in Nat /\ Limit \in Nat /\ Len(c.rx) \in Nat
  BY <1>1, UdpAssumption, SeqIs DEF Purse
<1>4. ASSUME NEW p, f.ops = Add(e.ops, p), p.sid = s
      PROVE  /\ IsSeq(f.ops) /\ OnlyOf(e.ops, f.ops, s)
             /\ Cardinality(Got(e.ops, s)) \in Nat
             /\ p.st = "ok" => Cardinality(Got(f.ops, s)) = Cardinality(Got(e.ops, s)) + 1
             /\ p.st # "ok" => Got(f.ops, s) = Got(e.ops, s)
  <2>1. IsSeq(f.ops) /\ OnlyOf(e.ops, f.ops, s)
    <3>1. Grew(e.ops, f.ops, s, Len(e.ops) + 1, p)
      BY <1>1, <1>4, OneAdd
    <3> QED BY ONLY <3>1 DEF Grew
  <2> QED BY <1>1, <1>4, <2>1, GotAdd, GotIs
<1>5. CASE c.closed
  <2>1. PICK p : f.ops = Add(e.ops, p) /\ NewRead(p, s, "bad_descriptor", 0, 1)
    BY <1>2, <1>5 DEF Started
  <2>2. IsSeq(f.ops) /\ OnlyOf(e.ops, f.ops, s)
    BY <1>4, <2>1 DEF NewRead
  <2>3. Replaced(e, f, s, c)
    BY <1>1, <1>2, <1>5 DEF Replaced, Sids
  <2>4. f.used = e.used - c.rx_bytes + c.rx_bytes /\ f.used <= Limit
    BY <1>1, <1>2, <1>3, <1>5
  <2> QED BY <1>1, <1>2, <1>5, <2>2, <2>3, <2>4, BooksOne
<1>6. CASE ~c.closed /\ c.rx # <<>>
  <2>1. PICK p : f.ops = Add(e.ops, p) /\ NewRead(p, s, "ok", x.n, 1)
    BY <1>2, <1>6 DEF Started
  <2>2. PICK d : /\ f.sess = Put(e.sess, s, d) /\ KeptOf(c, d)
                 /\ d.rx = Tail(c.rx) /\ d.rx_bytes = c.rx_bytes - x.len
    BY <1>2, <1>6
  <2>3. f.used = e.used - x.len
    BY <1>2, <1>6
  <2>4. /\ Purse(d) /\ Len(d.rx) = Len(c.rx) - 1 /\ x.len \in Nat
    BY <1>1, <1>6, <2>2, PurseTail
  <2>5. /\ IsSeq(f.ops) /\ OnlyOf(e.ops, f.ops, s) /\ Cardinality(Got(e.ops, s)) \in Nat
        /\ Cardinality(Got(f.ops, s)) = Cardinality(Got(e.ops, s)) + 1
    BY <1>4, <2>1 DEF NewRead
  <2>6. Replaced(e, f, s, d) /\ d.closed = c.closed
    BY <1>1, <2>2, Replacing DEF KeptOf
  <2> HIDE DEF c, x
  <2>7. f.used = e.used - c.rx_bytes + d.rx_bytes /\ f.used <= Limit
    BY <1>1, <1>3, <2>2, <2>3, <2>4
  <2>8. Share(d, f.ops, s) = Share(c, e.ops, s)
    BY <1>3, <2>4, <2>5 DEF Share
  <2>9. m + e.dropped + Share(c, e.ops, s) = m + f.dropped + Share(d, f.ops, s)
    BY <1>2, <2>8
  <2> QED BY <1>1, <1>2, <2>4, <2>5, <2>6, <2>7, <2>9, BooksOne DEF c
<1>7. CASE ~c.closed /\ c.rx = <<>>
  <2>1. PICK p : f.ops = Add(e.ops, p) /\ NewRead(p, s, "wait", 0, 0)
    BY <1>2, <1>7 DEF Started
  <2>2. PICK d : /\ f.sess = Put(e.sess, s, d) /\ KeptOf(c, d)
                 /\ d.rx = c.rx /\ d.rx_bytes = c.rx_bytes
    BY <1>2, <1>7
  <2>3. f.used = e.used
    BY <1>2, <1>7
  <2>4. IsSeq(f.ops) /\ OnlyOf(e.ops, f.ops, s) /\ Got(f.ops, s) = Got(e.ops, s)
    BY <1>4, <2>1 DEF NewRead
  <2>5. Replaced(e, f, s, d) /\ d.closed = c.closed
    BY <1>1, <2>2, Replacing DEF KeptOf
  <2>6. Purse(d)
    BY <1>1, <2>2, PurseSame
  <2> HIDE DEF c, x
  <2>7. f.used = e.used - c.rx_bytes + d.rx_bytes /\ f.used <= Limit
    BY <1>1, <1>3, <2>2, <2>3
  <2>8. Share(d, f.ops, s) = Share(c, e.ops, s)
    BY <2>2, <2>4 DEF Share
  <2>9. m + e.dropped + Share(c, e.ops, s) = m + f.dropped + Share(d, f.ops, s)
    BY <1>2, <2>8
  <2> QED BY <1>1, <1>2, <2>4, <2>5, <2>6, <2>7, <2>9, BooksOne DEF c
<1> QED BY <1>5, <1>6, <1>7

\* A session that has just been made has nothing yet.
LEMMA BooksCreated ==
  ASSUME NEW e, NEW m \in Nat, Sound(e, {}, m), Books(e, m), NEW k, NEW c, c = Created(e, k)
  PROVE  Books(c, m)
<1> DEFINE s == Len(e.sess) + 1
<1>1. /\ IsSeq(e.ops) /\ Shape(e) /\ IsSeq(e.sess) /\ Len(e.sess) \in Nat
      /\ Sids(e) = 1 .. Len(e.sess)
      /\ e.used \in Nat /\ e.used <= Limit /\ e.dropped \in Nat /\ e.dropped <= m
      /\ e.used = Total(Sizes(e)) /\ \A r \in Sids(e) : Purse(e.sess[r])
      /\ \A i \in DOMAIN e.ops : e.ops[i].sid \in Sids(e)
  BY SeqIs DEF Sound, Reads, Shape, Books, Sids
<1>2. Joined(e, c, s, k) /\ Entered(e, c, s, k)
  BY <1>1, CreatedIs
<1> HIDE DEF s
<1>3. /\ Sids(c) = Sids(e) \cup {s} /\ s \notin Sids(e) /\ IsSeq(c.sess)
      /\ c.sess[s].rx = <<>> /\ c.sess[s].rx_bytes = 0 /\ c.sess[s].closed = FALSE
      /\ \A r \in Sids(e) : c.sess[r] = e.sess[r]
      /\ c.ops = e.ops /\ c.used = e.used /\ c.dropped = e.dropped
  BY <1>2 DEF Joined, Entered, Blank
<1>4. Got(e.ops, s) = {}
  BY <1>1, <1>3 DEF Got
<1>5. Share(c.sess[s], c.ops, s) = 0
  <2>1. Len(<<>>) = 0 /\ Cardinality({}) = 0
    BY SeqEmpty, FS_EmptySet
  <2> QED BY <1>3, <1>4, <2>1 DEF Share
<1>6. \A r \in Sids(c) : Purse(c.sess[r])
  BY <1>1, <1>3, PurseEmpty
<1>7. /\ Numbers(Sizes(e)) /\ Sids(e) = 1 .. Len(Sizes(e)) /\ DOMAIN Sizes(e) = Sids(e)
      /\ Numbers(Shares(e)) /\ Sids(e) = 1 .. Len(Shares(e)) /\ DOMAIN Shares(e) = Sids(e)
      /\ \A r \in Sids(e) : /\ Sizes(e)[r] = e.sess[r].rx_bytes
                            /\ Shares(e)[r] = Share(e.sess[r], e.ops, r)
  BY <1>1, BooksAre
<1>8. /\ Numbers(Sizes(c)) /\ DOMAIN Sizes(c) = Sids(c)
      /\ Numbers(Shares(c)) /\ DOMAIN Shares(c) = Sids(c)
      /\ \A r \in Sids(c) : /\ Sizes(c)[r] = c.sess[r].rx_bytes
                            /\ Shares(c)[r] = Share(c.sess[r], c.ops, r)
  BY <1>1, <1>3, <1>6, BooksAre
<1>9. ASSUME NEW w, NEW v, Numbers(w), Numbers(v), DOMAIN w = Sids(e), DOMAIN v = Sids(c),
             \A r \in Sids(e) : v[r] = w[r], v[s] = 0
      PROVE  v = Add(w, 0) /\ Total(v) = Total(w)
  <2>1. IsSeq(w) /\ IsSeq(v)
    BY <1>9 DEF Numbers
  <2>2. /\ Len(w) \in Nat /\ Sids(e) = 1 .. Len(w) /\ Len(v) \in Nat /\ Sids(c) = 1 .. Len(v)
    BY <1>9, <2>1, SeqIs
  <2>3. Len(w) = Len(e.sess)
    BY ONLY <1>1, <2>2
  <2>4. s = Len(w) + 1
    BY <2>3 DEF s
  <2>5. Len(v) = Len(w) + 1
    <3>1. 1 .. Len(v) = 1 .. Len(w) \cup {Len(w) + 1}
      BY <1>3, <2>2, <2>4
    <3>2. 1 .. Len(w) \cup {Len(w) + 1} = 1 .. Len(w) + 1
      BY ONLY Len(w) \in Nat, <2>2
    <3>3. 1 .. Len(v) = 1 .. Len(w) + 1
      BY ONLY <3>1, <3>2
    <3> QED BY ONLY <2>2, <3>3
  <2> DEFINE u == Add(w, 0)
  <2>6. IsSeq(u) /\ Len(u) = Len(w) + 1 /\ u[Len(w) + 1] = 0 /\ \A i \in 1 .. Len(w) : u[i] = w[i]
    BY <2>1, SeqAppend
  <2>7. Total(u) = Total(w) + 0 /\ Total(w) \in Nat
    BY <1>9, TotalAdd
  <2> HIDE DEF u
  <2>8. \A i \in 1 .. Len(v) : i \in 1 .. Len(w) \/ i = Len(w) + 1
    BY <2>2, <2>5
  <2>9. \A i \in 1 .. Len(v) : v[i] = u[i]
    BY <1>9, <2>2, <2>4, <2>6, <2>8
  <2>10. v = u
    BY <2>1, <2>5, <2>6, <2>9, SameSeq
  <2> QED BY <2>7, <2>10 DEF u
<1>10. Total(Sizes(c)) = Total(Sizes(e))
  <2>1. Sizes(c)[s] = 0 /\ \A r \in Sids(e) : Sizes(c)[r] = Sizes(e)[r]
    BY <1>3, <1>7, <1>8
  <2> QED BY <1>7, <1>8, <1>9, <2>1
<1>11. Total(Shares(c)) = Total(Shares(e))
  <2>1. Shares(c)[s] = 0 /\ \A r \in Sids(e) : Shares(c)[r] = Shares(e)[r]
    BY <1>3, <1>5, <1>7, <1>8
  <2> QED BY <1>7, <1>8, <1>9, <2>1
<1>12. Open(c) = Sids(c) => Open(e) = Sids(e)
  BY <1>3 DEF Open
<1>13. Open(c) = Sids(c) => m = c.dropped + Total(Shares(c))
  BY <1>3, <1>11, <1>12 DEF Books
<1> QED BY <1>1, <1>3, <1>6, <1>10, <1>13 DEF Books

\* A step that the accounts do not look at.
LEMMA BooksStay ==
  ASSUME NEW e, NEW f, NEW U, NEW m, Sound(e, U, m), Books(e, m), SameBooks(e, f),
         f.dropped = e.dropped
  PROVE  Books(f, m)
<1>1. m \in Nat /\ IsSeq(e.sess) /\ IsSeq(e.ops) /\ e.dropped \in Nat
  BY DEF Sound, Shape, Reads, Books
<1>2. f.dropped = e.dropped + 0 /\ m + 0 = m
  BY <1>1
<1>3. Books(f, m + 0)
  BY <1>1, <1>2, BooksKept
<1> QED BY <1>2, <1>3

\* The timer is such a step.
LEMMA QuietBooks ==
  ASSUME NEW e, NEW f, Quiet(e, f)
  PROVE  SameBooks(e, f) /\ f.dropped = e.dropped
BY DEF SameBooks, Quiet, Fixed, SameSession

\* So is an accept.
LEMMA PastBooks ==
  ASSUME NEW e, NEW f, AcceptOnly(e, f), SamePast(e, f)
  PROVE  SameBooks(e, f) /\ f.dropped = e.dropped
BY DEF SameBooks, AcceptOnly, SamePast

-----------------------------------------------------------------------------
(* Whole engines: accepts, reads, table, limits and accounts. *)

Whole(e, U, m) ==
  Sound(e, U, m) /\ Table(e) /\ Len(e.pending) <= MaxPending /\ Books(e, m)

\* The timer keeps an engine whole.
LEMMA WholeQuiet ==
  ASSUME NEW e, NEW f, NEW U, NEW m, Whole(e, U, m), Quiet(e, f)
  PROVE  Whole(f, U, m)
<1>1. Sound(f, U, m)
  BY SoundQuiet DEF Whole
<1>2. /\ f.sessions = e.sessions /\ f.count = e.count /\ Sids(f) = Sids(e) /\ f.pending = e.pending
      /\ \A s \in Sids(e) : f.sess[s].closed = e.sess[s].closed /\ f.sess[s].key = e.sess[s].key
  BY DEF Quiet, Fixed, SameSession
<1>3. Table(f)
  BY <1>2, TableKept DEF Whole
<1>4. Books(f, m)
  BY QuietBooks, BooksStay DEF Whole
<1> QED BY <1>1, <1>2, <1>3, <1>4 DEF Whole

\* So does a step on the members that are not looked at.
LEMMA WholeSame ==
  ASSUME NEW e, NEW f, NEW U, NEW m, Whole(e, U, m), DOMAIN f = EngFields, f.sess = e.sess,
         f.ops = e.ops, f.pending = e.pending, f.waiters = e.waiters, f.accs = e.accs,
         f.sessions = e.sessions, f.count = e.count, f.used = e.used, f.dropped = e.dropped
  PROVE  Whole(f, U, m)
<1>1. Sound(f, U, m)
  BY SoundSame DEF Whole
<1>2. Table(f)
  BY TableKept DEF Whole, Sids
<1>3. SameBooks(e, f)
  BY DEF SameBooks, Sids
<1>4. Books(f, m)
  BY <1>3, BooksStay DEF Whole
<1> QED BY <1>1, <1>2, <1>4 DEF Whole

\* So does remove_session.
LEMMA WholeRemove ==
  ASSUME NEW e, NEW m, Whole(e, {}, m), NEW s \in Sids(e), NEW f, f = remove_session(e, s)
  PROVE  Whole(f, {}, m) /\ Sids(f) = Sids(e)
<1>1. Sound(f, {}, m) /\ Sids(f) = Sids(e)
  BY SoundRemove DEF Whole
<1>2. Table(f)
  BY TableRemove DEF Whole, Sound
<1>3. Len(f.pending) <= MaxPending
  <2>1. CASE e.sess[s].closed
    BY <2>1, RemoveNot DEF Whole
  <2>2. CASE ~e.sess[s].closed
    <3>0. Removal(e, s, f)
      BY <2>2, RemoveIs DEF Whole, Sound
    <3>1. f.pending = IF e.sess[s].pending THEN Unlisted(e.pending, s) ELSE e.pending
      BY <3>0 DEF Removal
    <3>2. IsSeq(e.pending) /\ Distinct(e.pending) /\ (e.sess[s].pending <=> s \in ToSet(e.pending))
      BY DEF Whole, Sound, Accepts, Listed
    <3>3. CASE ~e.sess[s].pending
      BY <3>1, <3>3 DEF Whole
    <3>4. CASE e.sess[s].pending
      <4>1. Len(f.pending) = Len(e.pending) - 1
        BY <3>1, <3>2, <3>4, UnlistedIs
      <4>2. Len(e.pending) \in Nat /\ MaxPending \in Nat /\ Len(e.pending) <= MaxPending
        BY <3>2, SeqIs, UdpAssumption DEF Whole
      <4> QED BY <4>1, <4>2
    <3> QED BY <3>3, <3>4
  <2> QED BY <2>1, <2>2
<1>4. Books(f, m)
  <2>1. m \in Nat
    BY DEF Whole, Sound, Reads
  <2> QED BY <2>1, BooksRemove DEF Whole
<1> QED BY <1>1, <1>2, <1>3, <1>4 DEF Whole

\* So does deliver_datagram, to an open session.
LEMMA WholeDeliver ==
  ASSUME NEW e, NEW U, NEW m, NEW n, n = m + 1, Whole(e, U, m), NEW s \in Sids(e),
         ~e.sess[s].closed, NEW len \in Nat, NEW f, f = deliver_datagram(e, s, n, len)
  PROVE  Whole(f, U, n) /\ Delivered(e, f)
<1>0. m \in Nat /\ n \in Nat /\ m < n
  BY DEF Whole, Sound, Reads
<1>1. Sound(f, U, n) /\ Delivered(e, f)
  BY <1>0, SoundDeliver DEF Whole
<1>2. Table(f)
  BY <1>1, TableKept DEF Whole, Delivered
<1>3. Books(f, n)
  BY <1>0, BooksDeliver DEF Whole
<1> QED BY <1>1, <1>2, <1>3 DEF Whole, Delivered

\* So does start_receive.
LEMMA WholeReceive ==
  ASSUME NEW e, NEW m, Whole(e, {}, m), NEW s \in Sids(e), NEW size,
         NEW f, f = start_receive(e, s, size)
  PROVE  Whole(f, {}, m) /\ ReadOnly(e, f) /\ f.dropped = e.dropped /\ Sids(f) = Sids(e)
<1>1. Sound(f, {}, m) /\ ReadOnly(e, f)
  BY SoundReceive DEF Whole
<1>2. Shape(e) /\ IsSeq(e.ops)
  BY DEF Whole, Sound, Reads
<1>3. /\ f.dropped = e.dropped
      /\ f.sess = e.sess \/ \E d : f.sess = Put(e.sess, s, d) /\ KeptOf(e.sess[s], d)
  <2>1. /\ f.dropped = e.dropped
        /\ e.sess[s].closed => f.sess = e.sess
        /\ ~e.sess[s].closed /\ e.sess[s].rx # <<>> =>
             \E d : f.sess = Put(e.sess, s, d) /\ KeptOf(e.sess[s], d)
        /\ ~e.sess[s].closed /\ e.sess[s].rx = <<>> =>
             \E d : f.sess = Put(e.sess, s, d) /\ KeptOf(e.sess[s], d)
    BY <1>2, ReceiveIs
  <2> QED BY <2>1
<1>4. /\ Sids(f) = Sids(e)
      /\ \A r \in Sids(e) : f.sess[r].closed = e.sess[r].closed /\ f.sess[r].key = e.sess[r].key
  <2>1. CASE f.sess = e.sess
    BY <2>1 DEF Sids
  <2>2. CASE \E d : f.sess = Put(e.sess, s, d) /\ KeptOf(e.sess[s], d)
    <3>1. PICK d : f.sess = Put(e.sess, s, d) /\ KeptOf(e.sess[s], d)
      BY <2>2
    <3>2. Replaced(e, f, s, d)
      BY <1>2, <3>1, Replacing
    <3> QED BY <3>1, <3>2 DEF Replaced, KeptOf
  <2> QED BY <1>3, <2>1, <2>2
<1>5. Table(f) /\ f.pending = e.pending
  BY <1>1, <1>4, TableKept DEF Whole, ReadOnly
<1>6. Books(f, m)
  <2>1. m \in Nat
    BY DEF Whole, Sound, Reads
  <2> QED BY <2>1, BooksReceive DEF Whole
<1> QED BY <1>1, <1>3, <1>4, <1>5, <1>6 DEF Whole

\* What the packets of a send depend on is kept: the sends and the endpoints.
Served(e, f) ==
  /\ f.sends = e.sends /\ Sids(e) \subseteq Sids(f)
  /\ \A r \in Sids(e) : f.sess[r].key = e.sess[r].key

\* Two such steps make one.
LEMMA ServedTrans ==
  ASSUME NEW e, NEW f, NEW g, Served(e, f), Served(f, g)
  PROVE  Served(e, g)
BY DEF Served

\* create_session, when there is room.
LEMMA WholeCreate ==
  ASSUME NEW e, NEW m, NEW n, n = m + 1, Whole(e, {}, m), NEW k \in Keys, e.sessions[k] = 0,
         ~no_room(e), NEW len \in Nat, NEW f, f = create_session(e, k, n, len)
  PROVE  /\ Whole(f, {}, n) /\ f.packets = e.packets /\ Served(e, f)
         /\ f.dropped = e.dropped \/ f.dropped = e.dropped + 1
<1> DEFINE s == Len(e.sess) + 1
           c == Created(e, k)
           g == deliver_datagram(c, s, n, len)
           h == refresh_expiry(g, s)
<1>1. f = announce(h, s)
  BY DEF create_session, Created
<1>2. /\ Shape(e) /\ Sound(e, {}, m) /\ Table(e) /\ s = Len(e.sess) + 1
      /\ Len(e.pending) <= MaxPending /\ m \in Nat
  BY DEF Whole, Sound, Reads
<1>18. Books(c, m)
  BY <1>2, BooksCreated DEF Whole
<1>3. /\ Joined(e, c, s, k) /\ DOMAIN c = EngFields /\ c.sends = e.sends
      /\ c.sessions = [e.sessions EXCEPT ![k] = s] /\ c.count = e.count + 1
      /\ c.packets = e.packets /\ c.pending = e.pending /\ c.waiters = e.waiters
      /\ c.accs = e.accs /\ c.ops = e.ops /\ c.dropped = e.dropped
  <2>1. c = Created(e, k)
    OBVIOUS
  <2> HIDE DEF c, s
  <2>2. Joined(e, c, s, k) /\ Entered(e, c, s, k)
    BY <1>2, <2>1, CreatedIs
  <2> QED BY <2>2 DEF Entered, Aside
<1> HIDE DEF c, s
<1>4. Sound(c, {s}, m) /\ s \in Open(c)
  BY <1>2, <1>3, SoundCreated
<1>5. Table(c)
  <2>1. ~(Cardinality({j \in Keys : e.sessions[j] # 0}) >= MaxFlows)
    BY DEF no_room
  <2> QED BY <1>2, <1>3, <2>1, TableCreated
<1>6. Whole(c, {s}, m)
  BY <1>2, <1>3, <1>4, <1>5, <1>18 DEF Whole
<1>7. s \in Sids(c) /\ ~c.sess[s].closed
  BY <1>4 DEF Open
<1>8. Whole(g, {s}, n) /\ Delivered(c, g)
  BY <1>6, <1>7, WholeDeliver
<1> HIDE DEF g
<1>9. s \in Sids(g)
  BY <1>7, <1>8 DEF Delivered
<1>10. Quiet(g, h)
  BY <1>8, <1>9, RefreshQuiet DEF Whole, Sound
<1> HIDE DEF h
<1>11. Whole(h, {s}, n)
  BY <1>8, <1>10, WholeQuiet
<1>12. s \in Open(h)
  BY <1>4, <1>7, <1>8, <1>9, <1>10 DEF Open, Delivered, Quiet, SameSession
<1>17. Sound(f, {}, n) /\ AcceptOnly(h, f) /\ SamePast(h, f)
  BY <1>1, <1>11, <1>12, SoundAnnounce DEF Whole
<1>13. /\ Sound(f, {}, n) /\ AcceptOnly(h, f) /\ Sids(f) = Sids(h)
       /\ \A r \in Sids(h) : f.sess[r].closed = h.sess[r].closed /\ f.sess[r].key = h.sess[r].key
  BY <1>17 DEF SamePast
<1>14. Table(f)
  BY <1>11, <1>13, TableKept DEF Whole, AcceptOnly
<1>15. /\ h.pending = e.pending /\ h.waiters = e.waiters /\ h.packets = e.packets
       /\ h.dropped = e.dropped \/ h.dropped = e.dropped + 1
  BY <1>3, <1>8, <1>10 DEF Delivered, Quiet, Fixed
<1>16. Len(f.pending) <= MaxPending
  <2>1. IsSeq(h.pending) /\ Len(h.pending) \in Nat /\ MaxPending \in Nat
    BY <1>11, SeqIs, UdpAssumption DEF Whole, Sound, Accepts, Listed
  <2>2. CASE h.waiters # <<>>
    <3>1. f.pending = h.pending
      <4> DEFINE b == [h EXCEPT !.waiters = Tail(@)]
      <4>1. f = post_accept(b, Head(h.waiters), "ok", s)
        BY <1>1, <2>2 DEF announce
      <4>2. DOMAIN b = EngFields /\ b.pending = h.pending
        BY <1>11 DEF EngFields, Whole, Sound, Shape
      <4> HIDE DEF b
      <4> QED BY <4>1, <4>2 DEF post_accept, EngFields
    <3> QED BY <1>11, <3>1 DEF Whole
  <2>3. CASE h.waiters = <<>>
    <3>1. f.pending = Add(h.pending, s)
      BY <1>1, <1>11, <2>3 DEF announce, EngFields, Whole, Sound, Shape, Add
    <3>2. Len(f.pending) = Len(h.pending) + 1
      BY <2>1, <3>1, SeqAppend
    <3>3. ~(Len(h.pending) >= MaxPending)
      BY <1>15, <2>3 DEF no_room
    <3> QED BY <2>1, <3>2, <3>3
  <2> QED BY <2>2, <2>3
<1>19. Books(f, n)
  BY <1>11, <1>17, PastBooks, BooksStay DEF Whole
<1>20. Served(e, f)
  <2>1. Served(e, c)
    BY <1>3 DEF Joined, Served
  <2>2. Served(c, g)
    BY <1>8 DEF Delivered, Served
  <2>3. Served(g, h)
    BY <1>10 DEF Quiet, Fixed, SameSession, Served
  <2>4. Served(h, f)
    BY <1>17 DEF AcceptOnly, Aside, SamePast, Served
  <2> QED BY <2>1, <2>2, <2>3, <2>4, ServedTrans
<1> QED BY <1>13, <1>14, <1>15, <1>16, <1>19, <1>20 DEF Whole, AcceptOnly

\* on_packet: the table never names a closed session, so that clearing the
\* entry changes nothing.
LEMMA WholeCleared ==
  ASSUME NEW e, NEW m, Whole(e, {}, m), NEW k \in Keys, e.sessions[k] = 0,
         NEW t, t = [e EXCEPT !.sessions[k] = 0]
  PROVE  /\ Whole(t, {}, m) /\ t.sessions[k] = 0 /\ t.packets = e.packets
         /\ t.dropped = e.dropped /\ Served(e, t)
<1>1. DOMAIN e = EngFields /\ Table(e) /\ DOMAIN e.sessions = Keys
  BY DEF Whole, Sound, Shape, Table
<1>2. /\ DOMAIN t = EngFields /\ t.sess = e.sess /\ t.ops = e.ops /\ t.pending = e.pending
      /\ t.waiters = e.waiters /\ t.accs = e.accs /\ t.count = e.count
      /\ t.packets = e.packets /\ t.dropped = e.dropped /\ t.used = e.used
      /\ t.sends = e.sends
      /\ t.sessions = [e.sessions EXCEPT ![k] = 0]
  BY <1>1 DEF EngFields
<1>3. DOMAIN t.sessions = Keys /\ \A j \in Keys : t.sessions[j] = e.sessions[j]
  BY <1>1, <1>2
<1>4. Sound(t, {}, m)
  BY <1>2, SoundSame DEF Whole
<1>5. Sids(t) = Sids(e) /\ Open(t) = Open(e)
  BY <1>2 DEF Open, Sids
<1>6. Table(t)
  BY <1>1, <1>2, <1>3, <1>5 DEF Table
<1>7. SameBooks(e, t)
  BY <1>2, <1>5 DEF SameBooks
<1>8. Books(t, m)
  BY <1>2, <1>7, BooksStay DEF Whole
<1>9. Served(e, t)
  BY <1>2, <1>5 DEF Served
<1> QED BY <1>2, <1>3, <1>4, <1>6, <1>8, <1>9 DEF Whole

\* A datagram that is lost is counted.
LEMMA WholeDropped ==
  ASSUME NEW e, NEW m, NEW n, n = m + 1, Whole(e, {}, m), NEW b, b = [e EXCEPT !.dropped = @ + 1]
  PROVE  /\ Whole(b, {}, n) /\ b.packets = e.packets /\ b.dropped = e.dropped + 1
         /\ Served(e, b)
<1>1. DOMAIN e = EngFields /\ m \in Nat /\ n \in Nat /\ m <= n /\ IsSeq(e.sess) /\ IsSeq(e.ops)
  BY DEF Whole, Sound, Shape, Reads
<1>2. /\ DOMAIN b = EngFields /\ b.sess = e.sess /\ b.ops = e.ops /\ b.pending = e.pending
      /\ b.waiters = e.waiters /\ b.accs = e.accs /\ b.sessions = e.sessions
      /\ b.count = e.count /\ b.packets = e.packets /\ b.dropped = e.dropped + 1
      /\ b.used = e.used /\ b.sends = e.sends
  BY <1>1 DEF EngFields
<1>3. Sound(b, {}, m)
  BY <1>2, SoundSame DEF Whole
<1>4. Sound(b, {}, n)
  BY <1>1, <1>3, SoundLater
<1>5. Table(b)
  BY <1>2, TableKept DEF Whole, Sids
<1>6. SameBooks(e, b)
  BY <1>2 DEF SameBooks, Sids
<1>7. Books(b, n)
  BY <1>1, <1>2, <1>6, BooksKept DEF Whole
<1>8. Served(e, b)
  BY <1>2 DEF Served, Sids
<1> QED BY <1>2, <1>4, <1>5, <1>7, <1>8 DEF Whole

\* on_packet keeps an engine whole.
LEMMA WholePacket ==
  ASSUME NEW e, NEW m, NEW n, n = m + 1, Whole(e, {}, m), NEW k \in Keys, NEW len \in Nat,
         NEW valid, valid \in BOOLEAN, NEW f, f = on_packet(e, k, n, len, valid)
  PROVE  /\ Whole(f, {}, n) /\ f.packets = e.packets /\ Served(e, f)
         /\ f.dropped = e.dropped \/ f.dropped = e.dropped + 1
<1> DEFINE s == e.sessions[k]
           there == s # 0 /\ ~e.sess[s].closed
           t == [e EXCEPT !.sessions[k] = 0]
<1>1. Table(e)
  BY DEF Whole
<1>2. f = CASE ~valid -> [e EXCEPT !.dropped = @ + 1]
            [] valid /\ there -> deliver_datagram(e, s, n, len)
            [] valid /\ ~there /\ no_room(t) -> [t EXCEPT !.dropped = @ + 1]
            [] OTHER -> create_session(t, k, n, len)
  BY DEF on_packet
<1>3. ~there => s = 0
  BY <1>1 DEF Table, Open
<1>4. s = 0 => /\ Whole(t, {}, m) /\ t.sessions[k] = 0 /\ t.packets = e.packets
               /\ t.dropped = e.dropped /\ Served(e, t)
  BY WholeCleared
<1> HIDE DEF t
<1>5. CASE ~valid
  BY <1>2, <1>5, WholeDropped
<1>6. CASE valid /\ there
  <2>1. f = deliver_datagram(e, s, n, len)
    BY <1>2, <1>6
  <2>2. s \in Sids(e) /\ ~e.sess[s].closed
    BY <1>1, <1>6 DEF Table, Open
  <2> QED BY <2>1, <2>2, WholeDeliver DEF Delivered, Served
<1>7. CASE valid /\ ~there /\ no_room(t)
  <2>1. f = [t EXCEPT !.dropped = @ + 1]
    BY <1>2, <1>7
  <2>2. /\ Whole(t, {}, m) /\ t.packets = e.packets /\ t.dropped = e.dropped
        /\ Served(e, t)
    BY <1>3, <1>4, <1>7
  <2>3. /\ Whole(f, {}, n) /\ f.packets = t.packets /\ f.dropped = t.dropped + 1
        /\ Served(t, f)
    BY <2>1, <2>2, WholeDropped
  <2> QED BY <2>2, <2>3, ServedTrans
<1>8. CASE valid /\ ~there /\ ~no_room(t)
  <2>1. f = create_session(t, k, n, len)
    BY <1>2, <1>8
  <2>2. /\ Whole(t, {}, m) /\ t.sessions[k] = 0 /\ t.packets = e.packets
        /\ t.dropped = e.dropped /\ ~no_room(t) /\ Served(e, t)
    BY <1>3, <1>4, <1>8
  <2>3. /\ Whole(f, {}, n) /\ f.packets = t.packets /\ Served(t, f)
        /\ f.dropped = t.dropped \/ f.dropped = t.dropped + 1
    BY <2>1, <2>2, WholeCreate
  <2> QED BY <2>2, <2>3, ServedTrans
<1> QED BY <1>5, <1>6, <1>7, <1>8

-----------------------------------------------------------------------------
(* async_accept and cancel_accepts. *)

\* An accept joins, waiting or with a session.
LEMMA WaitingAdd ==
  ASSUME NEW e, NEW f, Waiting(e), Sids(f) = Sids(e), NEW a, f.accs = Add(e.accs, a),
         NEW k, k = Len(e.accs) + 1,
         \/ /\ a.st = "wait" /\ a.times = 0 /\ f.waiters = Add(e.waiters, k)
         \/ /\ a.st = "ok" /\ a.times = 1 /\ a.sid \in Sids(e) /\ a.sid \notin GivenBy(e)
            /\ f.waiters = e.waiters
  PROVE  /\ Waiting(f)
         /\ a.st = "wait" => GivenBy(f) = GivenBy(e)
         /\ a.st = "ok" => GivenBy(f) = GivenBy(e) \cup {a.sid}
<1>1. /\ IsSeq(e.accs) /\ IsSeq(e.waiters) /\ Distinct(e.waiters)
      /\ ToSet(e.waiters) = {i \in DOMAIN e.accs : e.accs[i].st = "wait"}
  BY DEF Waiting
<1>2. Len(e.accs) \in Nat /\ DOMAIN e.accs = 1 .. Len(e.accs) /\ k \in Nat
  BY <1>1, SeqIs
<1>3. /\ IsSeq(f.accs) /\ Len(f.accs) = k /\ f.accs[k] = a
      /\ \A i \in 1 .. Len(e.accs) : f.accs[i] = e.accs[i]
  <2> DEFINE q == e.accs
             r == f.accs
  <2>1. IsSeq(q) /\ r = Add(q, a) /\ k = Len(q) + 1
    BY <1>1
  <2> HIDE DEF q, r
  <2>2. /\ IsSeq(r) /\ Len(r) = k /\ r[k] = a /\ \A i \in 1 .. Len(q) : r[i] = q[i]
    BY <2>1, SeqAppend
  <2> QED BY <2>2 DEF q, r
<1>4. DOMAIN f.accs = 1 .. k
  BY <1>3, SeqIs
<1>5. DOMAIN f.accs = DOMAIN e.accs \cup {k} /\ k \notin DOMAIN e.accs
  BY ONLY <1>2, <1>4, k = Len(e.accs) + 1
<1>6. \A i \in DOMAIN e.accs : f.accs[i] = e.accs[i]
  BY <1>2, <1>3
<1>7. ToSet(f.waiters) = {i \in DOMAIN f.accs : f.accs[i].st = "wait"}
      /\ IsSeq(f.waiters) /\ Distinct(f.waiters)
  <2>1. CASE a.st = "wait" /\ f.waiters = Add(e.waiters, k)
    <3>1. /\ IsSeq(f.waiters) /\ Len(f.waiters) = Len(e.waiters) + 1
          /\ \A i \in 1 .. Len(e.waiters) : f.waiters[i] = e.waiters[i]
          /\ f.waiters[Len(e.waiters) + 1] = k
          /\ ToSet(f.waiters) = ToSet(e.waiters) \cup {k}
      BY <1>1, <2>1, SeqAppend
    <3>2. k \notin ToSet(e.waiters)
      BY <1>1, <1>5
    <3>3. Distinct(f.waiters)
      BY <1>1, <3>1, <3>2, DistinctAdd
    <3> QED BY <1>1, <1>3, <1>5, <1>6, <2>1, <3>1, <3>3
  <2>2. CASE a.st = "ok" /\ f.waiters = e.waiters
    BY <1>1, <1>3, <1>5, <1>6, <2>2
  <2> QED BY <2>1, <2>2
<1>8. ASSUME NEW i \in DOMAIN f.accs
      PROVE  /\ f.accs[i].times = IF f.accs[i].st = "wait" THEN 0 ELSE 1
             /\ f.accs[i].st = "ok" => f.accs[i].sid \in Sids(f)
  <2>1. CASE i = k
    BY <1>3, <2>1
  <2>2. CASE i # k
    BY <1>5, <1>6, <2>2 DEF Waiting
  <2> QED BY <2>1, <2>2
<1>9. \A i \in DOMAIN e.accs : e.accs[i].st = "ok" => e.accs[i].sid \in GivenBy(e)
  BY DEF GivenBy
<1>10. ASSUME NEW i \in DOMAIN f.accs, NEW j \in DOMAIN f.accs, i # j,
              f.accs[i].st = "ok", f.accs[j].st = "ok"
       PROVE  f.accs[i].sid # f.accs[j].sid
  <2>1. CASE i = k
    BY <1>3, <1>5, <1>6, <1>9, <1>10, <2>1
  <2>2. CASE j = k
    BY <1>3, <1>5, <1>6, <1>9, <1>10, <2>2
  <2>3. CASE i # k /\ j # k
    BY <1>5, <1>6, <1>10, <2>3 DEF Waiting
  <2> QED BY <2>1, <2>2, <2>3
<1>11. Waiting(f)
  BY <1>3, <1>7, <1>8, <1>10 DEF Waiting
<1>12. ASSUME NEW x
       PROVE  x \in GivenBy(f) <=> x \in GivenBy(e) \/ (a.st = "ok" /\ x = a.sid)
  <2>1. x \in GivenBy(f) <=> \E i \in DOMAIN f.accs : f.accs[i].st = "ok" /\ x = f.accs[i].sid
    BY DEF GivenBy
  <2>2. x \in GivenBy(e) <=> \E i \in DOMAIN e.accs : e.accs[i].st = "ok" /\ x = e.accs[i].sid
    BY DEF GivenBy
  <2> QED BY <1>3, <1>5, <1>6, <2>1, <2>2
<1> QED BY <1>11, <1>12

\* The queue without its first.
LEMMA FirstIs ==
  ASSUME NEW q, IsSeq(q), Distinct(q), q # <<>>, NEW r, r = From(q, 1)
  PROVE  /\ IsSeq(r) /\ Distinct(r) /\ ToSet(r) = ToSet(q) \ {q[1]} /\ q[1] \in ToSet(q)
         /\ Len(r) = Len(q) - 1 /\ Len(q) \in Nat /\ Len(q) > 0
<1>1. Len(q) \in Nat /\ Len(q) # 0 /\ DOMAIN q = 1 .. Len(q)
  BY SeqIs, SeqMembers
<1>2. /\ IsSeq(r) /\ Len(r) = Len(q) - 1
      /\ \A i \in 1 .. Len(r) : r[i] = q[i + 1]
  <2>1. 1 \in 1 .. Len(q)
    BY <1>1
  <2> QED BY <2>1, SeqFrom
<1>3. Len(r) \in Nat /\ DOMAIN r = 1 .. Len(r)
  BY <1>2, SeqIs
<1>4. \A i \in 1 .. Len(r) : i + 1 \in DOMAIN q /\ i + 1 # 1
  BY ONLY <1>1, <1>2, <1>3
<1>5. 1 \in DOMAIN q
  BY <1>1
<1>6. Distinct(r)
  <2>1. SUFFICES ASSUME NEW i \in 1 .. Len(r), NEW j \in 1 .. Len(r), r[i] = r[j] PROVE i = j
    BY <1>3 DEF Distinct
  <2>2. i + 1 = j + 1
    BY <1>2, <1>4, <2>1 DEF Distinct
  <2> QED BY ONLY <1>3, <2>2, i \in 1 .. Len(r), j \in 1 .. Len(r)
<1>7. ToSet(r) = ToSet(q) \ {q[1]}
  <2>1. ASSUME NEW x \in ToSet(r) PROVE x \in ToSet(q) /\ x # q[1]
    <3>1. PICK i \in 1 .. Len(r) : x = r[i]
      BY <1>3 DEF ToSet
    <3>2. x = q[i + 1] /\ i + 1 \in DOMAIN q /\ i + 1 # 1
      BY <1>2, <1>4, <3>1
    <3> QED BY <1>5, <3>2 DEF ToSet, Distinct
  <2>2. ASSUME NEW x \in ToSet(q), x # q[1] PROVE x \in ToSet(r)
    <3>1. PICK i \in 1 .. Len(q) : x = q[i]
      BY <1>1 DEF ToSet
    <3>2. i # 1
      BY <2>2, <3>1
    <3>3. i - 1 \in 1 .. Len(r) /\ (i - 1) + 1 = i
      BY ONLY <1>1, <1>2, <1>3, <3>2, i \in 1 .. Len(q)
    <3>4. r[i - 1] = x
      BY <1>2, <3>1, <3>3
    <3> QED BY <1>3, <3>3, <3>4 DEF ToSet
  <2> QED BY <2>1, <2>2
<1>8. q[1] \in ToSet(q)
  BY <1>5 DEF ToSet
<1>9. Len(q) > 0
  BY ONLY <1>1
<1> QED BY ONLY <1>1, <1>2, <1>6, <1>7, <1>8, <1>9

\* The first place of a queue.
LEMMA FirstOf ==
  ASSUME NEW q, IsSeq(q), q # <<>>
  PROVE  Min(DOMAIN q) = 1
<1>1. Len(q) \in Nat /\ Len(q) # 0 /\ DOMAIN q = 1 .. Len(q)
  BY SeqIs, SeqMembers
<1>2. 1 \in DOMAIN q /\ \A y \in DOMAIN q : 1 <= y
  BY <1>1
<1>3. \A x \in DOMAIN q : (\A y \in DOMAIN q : x <= y) => x = 1
  BY <1>1, <1>2
<1> QED BY <1>2, <1>3 DEF Min

\* async_accept, when nothing in the list is closed.
LEMMA AcceptIs ==
  ASSUME NEW e, Shape(e), Accepts(e, {}), NEW f, f = async_accept(e)
  PROVE  /\ AcceptOnly(e, f)
         /\ e.pending = <<>> =>
              /\ f.pending = <<>> /\ f.sess = e.sess
              /\ f.waiters = Add(e.waiters, Len(e.accs) + 1)
              /\ f.accs = Add(e.accs, [st |-> "wait", sid |-> 0, times |-> 0])
         /\ e.pending # <<>> =>
              /\ f.pending = From(e.pending, 1) /\ f.waiters = e.waiters
              /\ f.sess = Put(e.sess, e.pending[1], [e.sess[e.pending[1]] EXCEPT !.pending = FALSE])
              /\ f.accs = Add(e.accs, [st |-> "ok", sid |-> e.pending[1], times |-> 1])
<1> DEFINE i == Len(e.accs) + 1
           o == [st |-> "wait", sid |-> 0, times |-> 0]
           g == [e EXCEPT !.accs = Append(@, o)]
           fresh == {j \in DOMAIN g.pending : ~g.sess[g.pending[j]].closed}
           x == e.pending[1]
<1>1. DOMAIN e = EngFields /\ IsSeq(e.pending) /\ IsSeq(e.accs)
  BY DEF Shape, Accepts, Listed, Waiting
<1>2. /\ AcceptOnly(e, g) /\ g.sess = e.sess /\ g.pending = e.pending /\ g.waiters = e.waiters
      /\ g.accs = Add(e.accs, o)
  BY <1>1 DEF EngFields, AcceptOnly, Aside, Add
<1>3. o.times = 0
  OBVIOUS
<1>5. f = IF fresh = {} THEN [g EXCEPT !.pending = <<>>, !.waiters = Append(@, i)]
          ELSE post_accept([g EXCEPT !.pending = SubSeq(@, Min(fresh) + 1, Len(@)),
                                     !.sess[g.pending[Min(fresh)]].pending = FALSE],
                           i, "ok", g.pending[Min(fresh)])
  BY DEF async_accept
<1> HIDE DEF g, o, i
<1>4. i \in DOMAIN g.accs /\ g.accs[i] = o /\ \A p : Put(g.accs, i, p) = Add(e.accs, p)
  BY <1>1, <1>2, PutAdd DEF i
<1>6. fresh = DOMAIN e.pending
  <2>1. \A j \in DOMAIN e.pending : e.pending[j] \in Open(e)
    BY DEF Accepts, Listed, ToSet
  <2> QED BY <1>2, <2>1 DEF Open
<1> HIDE DEF fresh
<1>7. Len(e.pending) \in Nat /\ DOMAIN e.pending = 1 .. Len(e.pending)
      /\ (e.pending = <<>> <=> Len(e.pending) = 0)
  BY <1>1, SeqIs, SeqMembers
<1>8. CASE e.pending = <<>>
  <2>1. fresh = {}
    BY <1>6, <1>7, <1>8
  <2>2. f = [g EXCEPT !.pending = <<>>, !.waiters = Append(@, i)]
    BY <1>5, <2>1
  <2>3. /\ AcceptOnly(g, f) /\ f.pending = <<>> /\ f.sess = g.sess /\ f.accs = g.accs
        /\ f.waiters = Add(g.waiters, i)
    BY <1>2, <2>2 DEF EngFields, AcceptOnly, Aside, Add
  <2>4. AcceptOnly(e, f)
    BY <1>2, <2>3 DEF AcceptOnly, Aside
  <2> QED BY <1>2, <1>8, <2>3, <2>4 DEF o, i
<1>9. CASE e.pending # <<>>
  <2> DEFINE h == [g EXCEPT !.pending = SubSeq(@, 1 + 1, Len(@)), !.sess[x].pending = FALSE]
             d == [e.sess[x] EXCEPT !.pending = FALSE]
             p == [st |-> "ok", sid |-> x, times |-> 1]
  <2>1. Min(fresh) = 1
    BY <1>1, <1>6, <1>9, FirstOf
  <2>2. fresh # {}
    BY <1>6, <1>7, <1>9
  <2>3. f = post_accept(h, i, "ok", x)
    BY <1>2, <1>5, <2>1, <2>2
  <2>4. x \in Sids(e)
    BY <1>7, <1>9 DEF Accepts, Listed, ToSet, Open
  <2>5. /\ AcceptOnly(g, h) /\ h.waiters = g.waiters /\ h.accs = g.accs
        /\ h.pending = From(g.pending, 1) /\ h.sess = Put(e.sess, x, d)
    BY <1>2, <2>4 DEF EngFields, AcceptOnly, Aside, From, Put, Sids
  <2> HIDE DEF h, d
  <2>6. /\ AcceptOnly(h, f) /\ f.sess = h.sess /\ f.pending = h.pending /\ f.waiters = h.waiters
        /\ f.accs = Put(h.accs, i, [st |-> "ok", sid |-> x, times |-> h.accs[i].times + 1])
    <3>1. DOMAIN h = EngFields /\ i \in DOMAIN h.accs
      BY <1>4, <2>5 DEF AcceptOnly
    <3>2. /\ DOMAIN f = EngFields /\ f.sess = h.sess /\ Aside(h, f)
          /\ f.accs = Put(h.accs, i, [st |-> "ok", sid |-> x, times |-> h.accs[i].times + 1])
          /\ f.pending = h.pending /\ f.waiters = h.waiters
          /\ f.sessions = h.sessions /\ f.count = h.count /\ f.used = h.used
          /\ f.dropped = h.dropped /\ f.packets = h.packets /\ f.ops = h.ops
      BY <2>3, <3>1, PostAcceptIs
    <3> QED BY <3>2 DEF AcceptOnly
  <2>7. h.accs[i].times + 1 = 1
    BY <1>3, <1>4, <2>5
  <2>8. f.accs = Put(g.accs, i, p)
    BY <2>5, <2>6, <2>7
  <2>9. f.accs = Add(e.accs, p)
    BY <1>4, <2>8
  <2>10. AcceptOnly(e, f)
    BY <1>2, <2>5, <2>6 DEF AcceptOnly, Aside
  <2> QED BY <1>2, <1>9, <2>5, <2>6, <2>9, <2>10 DEF d
<1> QED BY <1>8, <1>9

\* async_accept keeps an engine whole.
LEMMA WholeAccept ==
  ASSUME NEW e, NEW m, Whole(e, {}, m), NEW f, f = async_accept(e)
  PROVE  Whole(f, {}, m) /\ AcceptOnly(e, f) /\ SamePast(e, f)
<1> DEFINE k == Len(e.accs) + 1
           x == e.pending[1]
           w == [st |-> "wait", sid |-> 0, times |-> 0]
           p == [st |-> "ok", sid |-> x, times |-> 1]
           d == [e.sess[x] EXCEPT !.pending = FALSE]
<1>1. /\ Shape(e) /\ Accepts(e, {}) /\ Reads(e, m) /\ Table(e) /\ m \in Nat /\ m <= m
      /\ Waiting(e) /\ Listed(e, {}) /\ IsSeq(e.pending) /\ Distinct(e.pending)
  BY DEF Whole, Sound, Reads, Accepts, Listed
<1>2. /\ AcceptOnly(e, f)
      /\ e.pending = <<>> =>
           /\ f.pending = <<>> /\ f.sess = e.sess
           /\ f.waiters = Add(e.waiters, k) /\ f.accs = Add(e.accs, w)
      /\ e.pending # <<>> =>
           /\ f.pending = From(e.pending, 1) /\ f.waiters = e.waiters
           /\ f.sess = Put(e.sess, x, d) /\ f.accs = Add(e.accs, p)
  BY <1>1, AcceptIs
<1>3. /\ w.st = "wait" /\ w.times = 0 /\ p.st = "ok" /\ p.times = 1 /\ p.sid = x
      /\ k = Len(e.accs) + 1
  OBVIOUS
<1> HIDE DEF w, p, k
<1>4. CASE e.pending = <<>>
  <2>1. /\ f.pending = <<>> /\ f.sess = e.sess /\ Sids(f) = Sids(e)
        /\ f.waiters = Add(e.waiters, k) /\ f.accs = Add(e.accs, w)
    BY <1>2, <1>4 DEF Sids
  <2>2. Waiting(f) /\ GivenBy(f) = GivenBy(e)
    BY <1>1, <1>3, <2>1, WaitingAdd
  <2>3. Shape(f) /\ SamePast(e, f)
    BY <1>1, <1>2, <2>1 DEF Shape, AcceptOnly, SamePast
  <2>4. Open(f) = Open(e)
    BY <2>1 DEF Open
  <2>5. Listed(f, {})
    BY <1>1, <1>4, <2>1, <2>2, <2>4 DEF Listed
  <2>6. Accepts(f, {})
    BY <2>1, <2>2, <2>5 DEF Accepts
  <2>7. SameReads(e, f)
    BY <1>2, <2>1 DEF SameReads, AcceptOnly
  <2>8. Reads(f, m)
    BY <1>1, <2>7, ReadsKept
  <2>9. Table(f)
    BY <1>1, <1>2, <2>1, TableKept DEF AcceptOnly
  <2>10. Books(f, m)
    BY <1>2, <2>3, PastBooks, BooksStay DEF Whole
  <2> QED BY <1>2, <1>4, <2>1, <2>3, <2>6, <2>8, <2>9, <2>10 DEF Whole, Sound
<1>5. CASE e.pending # <<>>
  <2>1. /\ f.pending = From(e.pending, 1) /\ f.waiters = e.waiters
        /\ f.sess = Put(e.sess, x, d) /\ f.accs = Add(e.accs, p)
    BY <1>2, <1>5
  <2>2. /\ IsSeq(f.pending) /\ Distinct(f.pending) /\ ToSet(f.pending) = ToSet(e.pending) \ {x}
        /\ x \in ToSet(e.pending) /\ Len(f.pending) = Len(e.pending) - 1 /\ Len(e.pending) \in Nat
    BY <1>1, <1>5, <2>1, FirstIs
  <2>3. x \in Open(e) /\ x \in Sids(e) /\ x \notin GivenBy(e)
    BY <1>1, <2>2 DEF Listed, Open
  <2>4. DOMAIN e.sess[x] = SessFields
    BY <1>1, <2>3 DEF Shape
  <2>5. /\ DOMAIN d = SessFields /\ d.pending = FALSE
        /\ d.closed = e.sess[x].closed /\ d.key = e.sess[x].key
        /\ d.timeout = e.sess[x].timeout /\ d.expiry = e.sess[x].expiry
        /\ d.gen = e.sess[x].gen /\ d.last_push = e.sess[x].last_push
        /\ d.heap_live = e.sess[x].heap_live /\ d.rx = e.sess[x].rx
        /\ d.reads = e.sess[x].reads /\ d.rx_bytes = e.sess[x].rx_bytes
    BY <2>4 DEF SessFields
  <2> HIDE DEF d, x
  <2>6. Replaced(e, f, x, d)
    BY <1>1, <2>1, <2>3, Replacing
  <2>7. SamePast(e, f)
    <3>1. ASSUME NEW r \in Sids(e)
          PROVE  /\ f.sess[r].closed = e.sess[r].closed /\ f.sess[r].key = e.sess[r].key
                 /\ f.sess[r].timeout = e.sess[r].timeout /\ f.sess[r].expiry = e.sess[r].expiry
                 /\ f.sess[r].gen = e.sess[r].gen /\ f.sess[r].last_push = e.sess[r].last_push
                 /\ f.sess[r].heap_live = e.sess[r].heap_live /\ f.sess[r].rx = e.sess[r].rx
                 /\ f.sess[r].reads = e.sess[r].reads /\ f.sess[r].rx_bytes = e.sess[r].rx_bytes
      <4>1. CASE r = x
        BY <2>5, <2>6, <4>1 DEF Replaced
      <4>2. CASE r # x
        BY <2>6, <4>2 DEF Replaced
      <4> QED BY <4>1, <4>2
    <3> QED BY <2>6, <3>1 DEF SamePast, Replaced
  <2>8. Sids(f) = Sids(e) /\ Open(f) = Open(e)
    BY <2>7 DEF SamePast, Open
  <2>9. Waiting(f) /\ GivenBy(f) = GivenBy(e) \cup {x}
    BY <1>1, <1>3, <2>1, <2>3, <2>8, WaitingAdd
  <2>10. Shape(f)
    <3>1. f.sess[x] = d /\ DOMAIN f = EngFields
      BY <1>2, <2>6 DEF Replaced, AcceptOnly
    <3>2. d.closed \in BOOLEAN /\ d.pending \in BOOLEAN
      BY <1>1, <2>3, <2>5 DEF Shape
    <3> QED BY <1>1, <2>3, <2>5, <2>6, <3>1, <3>2, ReplacedShape
  <2>11. Listed(f, {})
    <3>1. ToSet(f.pending) = Open(f) \ (GivenBy(f) \cup {})
      BY <1>1, <2>2, <2>8, <2>9 DEF Listed
    <3>2. ASSUME NEW r \in Sids(f) PROVE f.sess[r].pending <=> r \in ToSet(f.pending)
      <4>1. CASE r = x
        BY <2>2, <2>5, <2>6, <4>1 DEF Replaced
      <4>2. CASE r # x
        BY <1>1, <2>2, <2>6, <2>8, <4>2 DEF Replaced, Listed
      <4> QED BY <4>1, <4>2
    <3> QED BY <2>2, <3>1, <3>2 DEF Listed
  <2>12. f.waiters = <<>>
    BY <1>1, <1>5, <2>1 DEF Accepts
  <2>13. Accepts(f, {})
    BY <2>9, <2>11, <2>12 DEF Accepts
  <2>14. SameReads(e, f)
    BY <1>2, <2>7 DEF SameReads, AcceptOnly, SamePast
  <2>15. Reads(f, m)
    BY <1>1, <2>14, ReadsKept
  <2>16. Table(f)
    BY <1>1, <1>2, <2>7, TableKept DEF AcceptOnly, SamePast
  <2>17. Len(f.pending) <= MaxPending
    <3>1. Len(e.pending) <= MaxPending /\ MaxPending \in Nat
      BY UdpAssumption DEF Whole
    <3>2. Len(f.pending) = Len(e.pending) - 1 /\ Len(e.pending) \in Nat
      BY <2>2
    <3> QED BY ONLY <3>1, <3>2
  <2>18. Books(f, m)
    BY <1>2, <2>7, PastBooks, BooksStay DEF Whole
  <2> QED BY <1>2, <2>7, <2>10, <2>13, <2>15, <2>16, <2>17, <2>18 DEF Whole, Sound
<1> QED BY <1>4, <1>5

\* cancel_accepts: every waiting accept is aborted, once.
LEMMA CancelIs ==
  ASSUME NEW e, DOMAIN e = EngFields, NEW f, f = cancel_accepts(e)
  PROVE  /\ AcceptOnly(e, f) /\ f.sess = e.sess /\ f.pending = e.pending /\ f.waiters = <<>>
         /\ f.accs = abort_accepts(e.accs, e.waiters)
BY DEF cancel_accepts, AcceptOnly, Aside, EngFields

\* No accept waits any more, and what was given stays given.
LEMMA WaitingCancelled ==
  ASSUME NEW e, NEW f, Waiting(e), Sids(f) = Sids(e), f.waiters = <<>>,
         f.accs = abort_accepts(e.accs, e.waiters)
  PROVE  Waiting(f) /\ GivenBy(f) = GivenBy(e)
<1>1. /\ IsSeq(e.accs) /\ Distinct(e.waiters)
      /\ ToSet(e.waiters) = {i \in DOMAIN e.accs : e.accs[i].st = "wait"}
  BY DEF Waiting
<1>2. \A x : Runs(e.waiters, x) = IF x \in ToSet(e.waiters) THEN 1 ELSE 0
  BY <1>1, RunsIs
<1>3. DOMAIN f.accs = DOMAIN e.accs
  BY DEF abort_accepts
<1>4. ASSUME NEW i \in DOMAIN e.accs
      PROVE  /\ e.accs[i].st # "wait" => f.accs[i] = e.accs[i]
             /\ e.accs[i].st = "wait" => f.accs[i].st = "aborted" /\ f.accs[i].times = 1
  <2>1. f.accs[i] = IF Runs(e.waiters, i) = 0 THEN e.accs[i]
                    ELSE aborted_accept(e.accs[i], Runs(e.waiters, i))
    BY DEF abort_accepts
  <2>2. CASE e.accs[i].st # "wait"
    <3>1. Runs(e.waiters, i) = 0
      BY <1>1, <1>2, <2>2
    <3> QED BY <2>1, <2>2, <3>1
  <2>3. CASE e.accs[i].st = "wait"
    <3>1. Runs(e.waiters, i) = 1
      BY <1>1, <1>2, <2>3
    <3>2. e.accs[i].times = 0
      BY <2>3 DEF Waiting
    <3> QED BY <2>1, <2>3, <3>1, <3>2 DEF aborted_accept
  <2> QED BY <2>2, <2>3
<1>5. IsSeq(f.accs)
  <2>1. Len(e.accs) \in Nat /\ DOMAIN e.accs = 1 .. Len(e.accs)
    BY <1>1, SeqIs
  <2>2. DOMAIN f.accs = 1 .. Len(e.accs) /\ f.accs = [i \in 1 .. Len(e.accs) |-> f.accs[i]]
    BY <2>1 DEF abort_accepts
  <2> QED BY <2>1, <2>2, SeqMade
<1>6. \A i \in DOMAIN f.accs : f.accs[i].st # "wait"
  BY <1>3, <1>4
<1>7. \A i \in DOMAIN f.accs : f.accs[i].st = "ok" => f.accs[i] = e.accs[i]
  BY <1>3, <1>4
<1>8. \A i \in DOMAIN e.accs : e.accs[i].st = "ok" => f.accs[i] = e.accs[i]
  BY <1>4
<1>9. IsSeq(f.waiters) /\ Distinct(f.waiters) /\ ToSet(f.waiters) = {}
  BY SeqEmpty DEF Distinct
<1>10. \A i \in DOMAIN f.accs : f.accs[i].times = 1
  BY <1>3, <1>4 DEF Waiting
<1>11. Waiting(f)
  <2>1. \A i \in DOMAIN f.accs : f.accs[i].st = "ok" => f.accs[i].sid \in Sids(f)
    BY <1>3, <1>7 DEF Waiting
  <2>2. \A i, j \in DOMAIN f.accs : i # j /\ f.accs[i].st = "ok" /\ f.accs[j].st = "ok"
                                      => f.accs[i].sid # f.accs[j].sid
    BY <1>3, <1>7 DEF Waiting
  <2> QED BY <1>5, <1>6, <1>9, <1>10, <2>1, <2>2 DEF Waiting
<1>12. GivenBy(f) = GivenBy(e)
  BY <1>3, <1>7, <1>8 DEF GivenBy
<1> QED BY <1>11, <1>12

\* cancel_accepts keeps an engine whole.
LEMMA WholeCancel ==
  ASSUME NEW e, NEW m, Whole(e, {}, m), NEW f, f = cancel_accepts(e)
  PROVE  Whole(f, {}, m) /\ AcceptOnly(e, f) /\ f.sess = e.sess /\ f.pending = e.pending
<1>1. /\ Shape(e) /\ Accepts(e, {}) /\ Reads(e, m) /\ Table(e) /\ m \in Nat /\ m <= m
      /\ Waiting(e) /\ Listed(e, {}) /\ DOMAIN e = EngFields
  BY DEF Whole, Sound, Reads, Accepts, Shape
<1>2. /\ AcceptOnly(e, f) /\ f.sess = e.sess /\ f.pending = e.pending /\ f.waiters = <<>>
      /\ f.accs = abort_accepts(e.accs, e.waiters)
  BY <1>1, CancelIs
<1>3. Sids(f) = Sids(e) /\ Open(f) = Open(e)
  BY <1>2 DEF Sids, Open
<1>4. Waiting(f) /\ GivenBy(f) = GivenBy(e)
  BY <1>1, <1>2, <1>3, WaitingCancelled
<1>5. Listed(f, {})
  BY <1>1, <1>2, <1>3, <1>4 DEF Listed
<1>6. Accepts(f, {})
  BY <1>2, <1>4, <1>5 DEF Accepts
<1>7. Shape(f)
  BY <1>1, <1>2, <1>3 DEF Shape, AcceptOnly
<1>8. Reads(f, m)
  <2>1. SameReads(e, f)
    BY <1>2, <1>3 DEF SameReads, AcceptOnly
  <2> QED BY <1>1, <2>1, ReadsKept
<1>9. Table(f)
  BY <1>1, <1>2, <1>3, TableKept DEF AcceptOnly
<1>10. Books(f, m)
  <2>1. SameBooks(e, f) /\ f.dropped = e.dropped
    BY <1>2, <1>3 DEF SameBooks, AcceptOnly
  <2> QED BY <2>1, BooksStay DEF Whole
<1> QED BY <1>2, <1>6, <1>7, <1>8, <1>9, <1>10 DEF Whole, Sound

-----------------------------------------------------------------------------
(***************************************************************************)
(* The idle timer.  t is the time, a says when a session was last used, X  *)
(* are the sessions that are about to be pushed.                           *)
(***************************************************************************)
Longest == Max({IdleTimeout, OtherTimeout})

\* The constants of the timer.
LEMMA LongestIs ==
  /\ Longest \in Nat /\ IdleTimeout \in Nat /\ OtherTimeout \in Nat /\ IdleTimeout <= Longest
  /\ OtherTimeout <= Longest /\ PushInterval \in Nat /\ PushInterval > 0 /\ Late \in Nat
<1>1. /\ IdleTimeout \in Nat /\ OtherTimeout \in Nat /\ PushInterval \in Nat
      /\ PushInterval > 0 /\ Late \in Nat
  BY UdpAssumption
<1> DEFINE S == {IdleTimeout, OtherTimeout}
<1>2. \E x \in S : \A y \in S : x >= y
  BY <1>1
<1>3. Longest \in S /\ \A y \in S : Longest >= y
  BY <1>2 DEF Longest, Max
<1> QED BY <1>1, <1>3

\* A set of numbers has a least one.
LEMMA NatLeast ==
  ASSUME NEW S, S \subseteq Nat, S # {}
  PROVE  /\ Min(S) \in S /\ Min(S) \in Nat
         /\ \A y \in S : Min(S) <= y
<1> DEFINE R == OpToRel(<, Nat)
<1>1. IsWellFoundedOn(R, Nat)
  BY NatLessThanWellFounded
<1>2. PICK x \in S : \A y \in S : ~(<<y, x>> \in R)
  <2> HIDE DEF R
  <2> QED BY <1>1, WFMin, Zenon
<1>3. \A y \in S : ~(y < x)
  BY <1>2 DEF R, OpToRel
<1>4. \A y \in S : x <= y
  BY <1>3
<1> QED BY <1>4 DEF Min

Entries(e) == [at : Nat, gen : Nat, sid : Sids(e)]

\* Every entry is of a session, and of no later generation than its own.
HeapOk(e) ==
  /\ e.heap \subseteq Entries(e) /\ IsFiniteSet(e.heap)
  /\ \A x \in e.heap : x.gen <= e.sess[x.sid].gen
  /\ \A x, y \in e.heap : x.sid = y.sid /\ x.gen = y.gen => x = y

SessClock(d, t) ==
  /\ d.timeout \in {IdleTimeout, OtherTimeout} /\ d.expiry \in Nat /\ d.gen \in Nat
  /\ d.last_push \in Nat /\ d.last_push <= t /\ d.heap_live \in BOOLEAN

\* When the entries of a session that are in the heap were pushed.
PushTimes(H, d, s, p) ==
  /\ \A x \in H : x.sid = s =>
       /\ x.at <= p[x.gen] + Longest
       /\ x.gen = d.gen => p[x.gen] = d.last_push
       /\ x.gen # d.gen => p[x.gen] + PushInterval <= d.last_push
  /\ \A x, y \in H : x.sid = s /\ y.sid = s /\ x.gen < y.gen
                       => p[x.gen] + PushInterval <= p[y.gen]

Pushes(H, d, s) == \E p \in [Nat -> Nat] : PushTimes(H, d, s, p)

\* An open session has its valid entry, unless it is about to be pushed.
EntryOk(H, d, s, X) ==
  /\ s \in X => ~d.heap_live /\ \A x \in H : x.sid = s => x.gen # d.gen
  /\ s \notin X => d.heap_live /\ \E x \in H : x.sid = s /\ x.gen = d.gen

\* The time at is a timeout after t, of the session's own or of the first one.
Within(d, at, t) == at <= t + d.timeout \/ at <= t + IdleTimeout

\* The expiry is never early; it is late only when the entry was pushed again,
\* which was within a timeout of the last use.
Used(H, d, s, u, t, X) ==
  /\ u \in Nat /\ u <= t /\ u + d.timeout <= d.expiry
  /\ s \in X => t <= u + d.timeout
  /\ \A x \in H : x.sid = s /\ x.gen = d.gen =>
       /\ d.expiry <= u + d.timeout \/ x.at = d.expiry
       /\ Within(d, x.at, d.last_push)
       /\ x.at <= u + 2 * d.timeout \/ x.at <= u + IdleTimeout

SessTimed(H, d, s, u, t, X) ==
  /\ SessClock(d, t) /\ Pushes(H, d, s)
  /\ ~d.closed => EntryOk(H, d, s, X) /\ Used(H, d, s, u, t, X)

\* The waits of the timer: the last one is the one it waits for.
TimerOk(e) ==
  /\ e.wait_gen \in Nat /\ e.target \in Nat /\ e.waiting \in BOOLEAN
  /\ e.waits \subseteq [gen : Nat, at : Nat, st : {"armed", "fired", "aborted"}]
  /\ \A w \in e.waits : w.gen <= e.wait_gen
  /\ \A w, v \in e.waits : w.gen = v.gen => w = v
  /\ e.waiting => \E w \in e.waits : w.gen = e.wait_gen /\ w.at = e.target /\ w.st # "aborted"

Clock(e, a, t, X) ==
  /\ HeapOk(e) /\ TimerOk(e) /\ t \in Nat
  /\ \A x \in e.heap : t <= x.at + Late
  /\ \A s \in Sids(e) : SessTimed(e.heap, e.sess[s], s, a[s], t, X)

\* The timer waits for the first entry, or for something earlier.
Armed(e) == \A x \in e.heap : e.waiting /\ e.target <= x.at

\* The same session, as far as the timer is concerned.
SameClock(c, d) ==
  /\ d.closed = c.closed /\ d.timeout = c.timeout /\ d.expiry = c.expiry /\ d.gen = c.gen
  /\ d.last_push = c.last_push /\ d.heap_live = c.heap_live

\* A session whose valid entry stays, when others may leave the heap.
LEMMA SessFewer ==
  ASSUME NEW H, NEW K, NEW c, NEW d, NEW s, NEW u, NEW t, NEW X, NEW Y,
         SessTimed(H, c, s, u, t, X), SameClock(c, d),
         \A x \in K : x.sid = s => x \in H,
         \A x \in H : x.sid = s /\ x.gen = c.gen => x \in K,
         s \in X <=> s \in Y
  PROVE  SessTimed(K, d, s, u, t, Y)
<1>1. SessClock(d, t)
  BY DEF SessTimed, SessClock, SameClock
<1>2. Pushes(K, d, s)
  <2>1. PICK p \in [Nat -> Nat] : PushTimes(H, c, s, p)
    BY DEF SessTimed, Pushes
  <2>2. PushTimes(K, d, s, p)
    BY <2>1 DEF PushTimes, SameClock
  <2> QED BY <2>2 DEF Pushes
<1>3. ASSUME ~d.closed PROVE EntryOk(K, d, s, Y) /\ Used(K, d, s, u, t, Y)
  <2>1. EntryOk(H, c, s, X) /\ Used(H, c, s, u, t, X)
    BY <1>3 DEF SessTimed, SameClock
  <2>2. EntryOk(K, d, s, Y)
    <3>1. ASSUME s \in Y PROVE ~d.heap_live /\ \A x \in K : x.sid = s => x.gen # d.gen
      BY <2>1, <3>1 DEF EntryOk, SameClock
    <3>2. ASSUME s \notin Y PROVE d.heap_live /\ \E x \in K : x.sid = s /\ x.gen = d.gen
      BY <2>1, <3>2 DEF EntryOk, SameClock
    <3> QED BY <3>1, <3>2 DEF EntryOk
  <2>3. Used(K, d, s, u, t, Y)
    BY <2>1 DEF Used, Within, SameClock
  <2> QED BY <2>2, <2>3
<1> QED BY <1>1, <1>2, <1>3 DEF SessTimed

\* The session c, closed.
GoneClock(c, d) ==
  /\ d.closed = TRUE /\ d.timeout = c.timeout /\ d.expiry = c.expiry /\ d.gen = c.gen
  /\ d.last_push = c.last_push /\ d.heap_live = c.heap_live

\* No entry of session s is new.
NoneNew(K, H, s) == \A x \in K : x.sid = s => x \in H

\* A session that is closed needs no entry.
LEMMA SessGone ==
  ASSUME NEW H, NEW K, NEW c, NEW d, NEW s, NEW u, NEW t, NEW X,
         SessTimed(H, c, s, u, t, X), GoneClock(c, d), NoneNew(K, H, s)
  PROVE  \A v, Y : SessTimed(K, d, s, v, t, Y)
<1>1. SessClock(d, t)
  BY DEF SessTimed, SessClock, GoneClock
<1>2. PICK p \in [Nat -> Nat] : PushTimes(H, c, s, p)
  BY DEF SessTimed, Pushes
<1>3. PushTimes(K, d, s, p)
  BY <1>2 DEF PushTimes, GoneClock, NoneNew
<1> QED BY <1>1, <1>3 DEF SessTimed, Pushes, GoneClock

\* Entries may leave the heap.
LEMMA HeapFewer ==
  ASSUME NEW e, NEW f, HeapOk(e), Sids(f) = Sids(e), f.heap \subseteq e.heap,
         \A s \in Sids(e) : f.sess[s].gen = e.sess[s].gen
  PROVE  HeapOk(f)
<1>1. IsFiniteSet(f.heap)
  BY FS_Subset DEF HeapOk
<1>2. Entries(f) = Entries(e)
  BY DEF Entries
<1>3. \A x \in e.heap : x.sid \in Sids(e)
  BY DEF HeapOk, Entries
<1>4. \A x \in f.heap : x.gen <= f.sess[x.sid].gen
  BY <1>3 DEF HeapOk
<1> QED BY <1>1, <1>2, <1>4 DEF HeapOk

\* Entries leave the heap, none of them valid, and nothing else is changed.
LEMMA ClockFewer ==
  ASSUME NEW e, NEW f, NEW a, NEW t, NEW X, Clock(e, a, t, X), TimerOk(f), Sids(f) = Sids(e),
         f.heap \subseteq e.heap, \A s \in Sids(e) : SameClock(e.sess[s], f.sess[s]),
         \A x \in e.heap : LiveEntry(e, x) => x \in f.heap
  PROVE  Clock(f, a, t, X)
<1>1. HeapOk(f)
  BY HeapFewer DEF Clock, SameClock
<1>2. \A x \in f.heap : t <= x.at + Late
  BY DEF Clock
<1>3. ASSUME NEW s \in Sids(e) PROVE SessTimed(f.heap, f.sess[s], s, a[s], t, X)
  <2>1. SessTimed(e.heap, e.sess[s], s, a[s], t, X) /\ SameClock(e.sess[s], f.sess[s])
    BY DEF Clock
  <2>2. CASE e.sess[s].closed = TRUE
    <3>1. GoneClock(e.sess[s], f.sess[s])
      BY <2>1, <2>2 DEF SameClock, GoneClock
    <3>2. NoneNew(f.heap, e.heap, s)
      BY DEF NoneNew
    <3> QED BY <2>1, <3>1, <3>2, SessGone
  <2>3. CASE ~e.sess[s].closed
    <3>1. \A x \in e.heap : x.sid = s /\ x.gen = e.sess[s].gen => x \in f.heap
      BY <2>3 DEF LiveEntry
    <3> QED BY <2>1, <3>1, SessFewer
  <2>4. CASE ~(e.sess[s].closed = TRUE) /\ e.sess[s].closed
    BY <2>4
  <2> QED BY <2>2, <2>3, <2>4
<1> QED BY <1>1, <1>2, <1>3 DEF Clock

\* A new wait: the others are cancelled, and it is the one to wait for.
LEMMA TimerWaits ==
  ASSUME NEW e, NEW f, TimerOk(e), NEW t \in Nat, f.waiting = TRUE, f.target = t,
         f.wait_gen = e.wait_gen + 1,
         f.waits = cancel_waits(e.waits) \cup {[gen |-> e.wait_gen + 1, at |-> t, st |-> "armed"]}
  PROVE  TimerOk(f)
<1> DEFINE n == [gen |-> e.wait_gen + 1, at |-> t, st |-> "armed"]
<1> DEFINE W == [gen : Nat, at : Nat, st : {"armed", "fired", "aborted"}]
<1> DEFINE C(w) == IF w.st = "armed" THEN [w EXCEPT !.st = "aborted"] ELSE w
<1>1. e.wait_gen \in Nat /\ e.wait_gen + 1 \in Nat
  BY DEF TimerOk
<1>2. n \in W /\ n.gen = e.wait_gen + 1 /\ n.at = t /\ n.st = "armed"
  BY <1>1
<1>3. cancel_waits(e.waits) = {C(w) : w \in e.waits}
  BY DEF cancel_waits
<1>4. \A w \in W : C(w) \in W /\ C(w).gen = w.gen
  OBVIOUS
<1>5. \A w \in e.waits : w \in W /\ w.gen <= e.wait_gen
  BY DEF TimerOk
<1> HIDE DEF n, W, C
<1>6. \A v \in f.waits : v = n \/ \E w \in e.waits : v = C(w)
  BY <1>3 DEF n
<1>7. \A v \in f.waits : v \in W /\ v.gen <= e.wait_gen + 1
  <2> TAKE v \in f.waits
  <2>1. CASE v = n
    BY <2>1, <1>2, <1>1
  <2>2. CASE \E w \in e.waits : v = C(w)
    <3>1. PICK w \in e.waits : v = C(w)
      BY <2>2
    <3>2. v \in W /\ v.gen = w.gen /\ w.gen <= e.wait_gen /\ w.gen \in Nat
      BY <3>1, <1>4, <1>5 DEF W
    <3> QED BY <3>2, <1>1
  <2> QED BY <2>1, <2>2, <1>6
<1>8. \A v \in f.waits : v = n \/ (v.gen <= e.wait_gen /\ v.gen \in Nat)
  <2> TAKE v \in f.waits
  <2>1. CASE v = n
    BY <2>1
  <2>2. CASE \E w \in e.waits : v = C(w)
    BY <2>2, <1>4, <1>5 DEF W
  <2> QED BY <2>1, <2>2, <1>6
<1>9. ASSUME NEW v \in f.waits, NEW w \in f.waits, v.gen = w.gen PROVE v = w
  <2>1. CASE v = n \/ w = n
    BY <2>1, <1>8, <1>2, <1>1, <1>9
  <2>2. CASE v # n /\ w # n
    <3>1. PICK x \in e.waits, y \in e.waits : v = C(x) /\ w = C(y)
      BY <2>2, <1>6
    <3>2. x.gen = y.gen
      BY <3>1, <1>4, <1>5, <1>9
    <3>3. x = y
      BY <3>2 DEF TimerOk
    <3> QED BY <3>1, <3>3
  <2> QED BY <2>1, <2>2
<1>10. n \in f.waits
  BY DEF n
<1>11. \E w \in f.waits : w.gen = f.wait_gen /\ w.at = f.target /\ w.st # "aborted"
  BY <1>10, <1>2
<1>12. f.waits \subseteq W
  BY <1>7
<1>13. f.wait_gen \in Nat /\ f.target \in Nat /\ f.waiting \in BOOLEAN
  BY <1>1
<1>14. \A w \in f.waits : w.gen <= f.wait_gen
  BY <1>7
<1>15. \A w, v \in f.waits : w.gen = v.gen => w = v
  BY <1>9
<1> QED BY <1>11, <1>12, <1>13, <1>14, <1>15 DEF TimerOk, W

\* arm_expiry_timer sets the timer for the first entry of the heap, or leaves
\* it at something earlier.
LEMMA ArmClock ==
  ASSUME NEW e, DOMAIN e = EngFields, NEW a, NEW t, NEW X, Clock(e, a, t, X),
         NEW f, f = arm_expiry_timer(e)
  PROVE  Clock(f, a, t, X) /\ Armed(f)
<1>1. HeapOk(e) /\ TimerOk(e)
  BY DEF Clock
<1>2. Sids(f) = Sids(e) /\ \A s \in Sids(e) : SameClock(e.sess[s], f.sess[s])
  BY ArmIs DEF Sids, SameClock
<1> DEFINE T == {x.at : x \in Live(e)}
<1>3. T \subseteq Nat /\ \A x \in e.heap : x.at \in Nat
  BY <1>1 DEF HeapOk, Entries, Live
<1>4. Live(e) # {} => /\ FirstLive(e) \in Nat /\ \A x \in Live(e) : FirstLive(e) <= x.at
  <2> SUFFICES ASSUME Live(e) # {} PROVE FirstLive(e) \in Nat /\ \A x \in Live(e) : FirstLive(e) <= x.at
    OBVIOUS
  <2>1. T # {} /\ FirstLive(e) = Min(T)
    BY DEF FirstLive
  <2> QED BY <2>1, <1>3, NatLeast
<1>5. \A x \in e.heap : LiveEntry(e, x) <=> x \in Live(e)
  BY DEF Live
<1>6. CASE Live(e) = {}
  <2>1. f.heap = {} /\ TimerOk(f)
    <3>1. /\ f.heap = {} /\ f.waiting = e.waiting /\ f.target = e.target
          /\ f.wait_gen = e.wait_gen /\ f.waits = e.waits
      BY <1>6, ArmIs
    <3> QED BY <1>1, <3>1 DEF TimerOk
  <2>2. Clock(f, a, t, X)
    BY <2>1, <1>2, <1>5, <1>6, ClockFewer
  <2> QED BY <2>1, <2>2 DEF Armed
<1>7. CASE Live(e) # {} /\ e.waiting /\ FirstLive(e) >= e.target
  <2>1. f.heap = Swept(e) /\ f.waiting = e.waiting /\ f.target = e.target /\ TimerOk(f)
    <3>1. /\ f.heap = Swept(e) /\ f.waiting = e.waiting /\ f.target = e.target
          /\ f.wait_gen = e.wait_gen /\ f.waits = e.waits
      BY <1>7, ArmIs
    <3> QED BY <1>1, <3>1 DEF TimerOk
  <2>2. Clock(f, a, t, X)
    BY <2>1, <1>2, <1>5, ClockFewer DEF Swept
  <2>3. \A x \in f.heap : FirstLive(e) <= x.at
    BY <2>1, <1>3, <1>4, <1>7 DEF Swept
  <2>4. e.target \in Nat
    BY <1>1 DEF TimerOk
  <2> QED BY <2>1, <2>2, <2>3, <2>4, <1>3, <1>4, <1>7 DEF Armed, Swept
<1>8. CASE Live(e) # {} /\ ~(e.waiting /\ FirstLive(e) >= e.target)
  <2>1. f.heap = Swept(e) /\ f.waiting = TRUE /\ f.target = FirstLive(e)
    BY <1>8, ArmIs
  <2>2. TimerOk(f)
    <3>1. /\ f.waiting = TRUE /\ f.target = FirstLive(e) /\ f.wait_gen = e.wait_gen + 1
          /\ f.waits = cancel_waits(e.waits) \cup
                          {[gen |-> e.wait_gen + 1, at |-> FirstLive(e), st |-> "armed"]}
      BY <1>8, ArmIs
    <3>2. TimerOk(e) /\ FirstLive(e) \in Nat
      BY <1>1, <1>4, <1>8
    <3> QED BY ONLY <3>1, <3>2, TimerWaits
  <2>3. Clock(f, a, t, X)
    BY <2>1, <2>2, <1>2, <1>5, ClockFewer DEF Swept
  <2>4. \A x \in f.heap : FirstLive(e) <= x.at
    BY <2>1, <1>3, <1>4, <1>8 DEF Swept
  <2> QED BY <2>1, <2>3, <2>4 DEF Armed
<1> QED BY <1>6, <1>7, <1>8

\* The session s was given another expiry, counted from now, and perhaps
\* another timeout.
Retimed(e, f, s) ==
  /\ f.heap = e.heap /\ f.waiting = e.waiting /\ f.target = e.target
  /\ f.wait_gen = e.wait_gen /\ f.waits = e.waits /\ Sids(f) = Sids(e)
  /\ \A r \in Sids(e) : r # s => SameClock(e.sess[r], f.sess[r])
  /\ f.sess[s].closed = e.sess[s].closed /\ f.sess[s].gen = e.sess[s].gen
  /\ f.sess[s].last_push = e.sess[s].last_push /\ f.sess[s].heap_live = e.sess[s].heap_live
  /\ f.sess[s].timeout \in {IdleTimeout, OtherTimeout}
  /\ f.sess[s].timeout \in {e.sess[s].timeout, OtherTimeout}
  /\ f.sess[s].expiry = now + f.sess[s].timeout

\* The session s was used now, or is found by the timer.
Later(a, b, S, s, X) ==
  /\ \A r \in S : r # s => b[r] = a[r]
  /\ b[s] = now \/ (b[s] = a[s] /\ s \in X)

\* The throttle: the session keeps its entry.
LEMMA RetimedClock ==
  ASSUME NEW e, NEW f, NEW a, NEW b, NEW X, Clock(e, a, now, X), NEW s \in Sids(e),
         ~e.sess[s].closed, e.sess[s].heap_live, Retimed(e, f, s), Later(a, b, Sids(e), s, X)
  PROVE  Clock(f, b, now, X \ {s})
<1>1. now \in Nat /\ HeapOk(e) /\ TimerOk(e) /\ \A x \in e.heap : now <= x.at + Late
  BY DEF Clock
<1>2. SessTimed(e.heap, e.sess[s], s, a[s], now, X)
  BY DEF Clock
<1>3. s \notin X /\ b[s] = now
  BY <1>2 DEF SessTimed, EntryOk, Later
<1>4. TimerOk(f)
  BY <1>1 DEF TimerOk, Retimed
<1>5. \A r \in Sids(e) : f.sess[r].gen = e.sess[r].gen
  BY DEF Retimed, SameClock
<1>6. HeapOk(f)
  BY <1>1, <1>5, HeapFewer DEF Retimed
<1> DEFINE d == f.sess[s]
<1>7. SessTimed(e.heap, d, s, now, now, X \ {s})
  <2>1. SessClock(e.sess[s], now) /\ Pushes(e.heap, e.sess[s], s) /\ EntryOk(e.heap, e.sess[s], s, X)
    BY <1>2 DEF SessTimed
  <2>2. /\ d.gen = e.sess[s].gen /\ d.last_push = e.sess[s].last_push
        /\ d.heap_live = e.sess[s].heap_live /\ d.timeout \in {IdleTimeout, OtherTimeout}
        /\ d.expiry = now + d.timeout
    BY DEF Retimed
  <2>3. d.timeout \in Nat /\ d.timeout <= Longest /\ Longest \in Nat
    BY <2>2, LongestIs
  <2> HIDE DEF d
  <2>4. d.expiry \in Nat /\ d.expiry <= now + Longest /\ now + d.timeout <= d.expiry
    BY <2>2, <2>3, <1>1
  <2>5. SessClock(d, now)
    BY <2>1, <2>2, <2>4 DEF SessClock
  <2>6. Pushes(e.heap, d, s)
    BY <2>1, <2>2 DEF Pushes, PushTimes
  <2>7. EntryOk(e.heap, d, s, X \ {s})
    BY <2>1, <2>2, <1>3 DEF EntryOk
  <2>8. ASSUME NEW x \in e.heap, x.sid = s, x.gen = d.gen
        PROVE  Within(d, x.at, d.last_push) /\ (x.at <= now + 2 * d.timeout \/ x.at <= now + IdleTimeout)
    <3>1. Used(e.heap, e.sess[s], s, a[s], now, X)
      BY <1>2 DEF SessTimed
    <3>2. Within(e.sess[s], x.at, e.sess[s].last_push)
      BY <2>2, <2>8, <3>1 DEF Used
    <3>3. e.sess[s].timeout \in {IdleTimeout, OtherTimeout} /\ d.timeout \in {e.sess[s].timeout, OtherTimeout}
      BY <2>1 DEF SessClock, Retimed, d
    <3>4. Within(d, x.at, d.last_push)
      BY <2>2, <3>2, <3>3 DEF Within
    <3>5. d.last_push \in Nat /\ d.last_push <= now /\ x.at \in Nat
      BY <2>5, <2>8, <1>1 DEF SessClock, HeapOk, Entries
    <3>6. IdleTimeout \in Nat
      BY LongestIs
    <3>7. x.at <= now + 2 * d.timeout \/ x.at <= now + IdleTimeout
      BY ONLY <3>4, <3>5, <3>6, <2>3, <1>1 DEF Within
    <3> QED BY <3>4, <3>7
  <2>9. Used(e.heap, d, s, now, now, X \ {s})
    <3>1. now \in Nat /\ now <= now /\ d.expiry <= now + d.timeout
      BY <1>1, <2>2, <2>3
    <3> QED BY <2>4, <2>8, <3>1 DEF Used
  <2> QED BY <2>5, <2>6, <2>7, <2>9 DEF SessTimed
<1>8. ASSUME NEW r \in Sids(e), r # s PROVE SessTimed(e.heap, f.sess[r], r, b[r], now, X \ {s})
  <2>1. SessTimed(e.heap, e.sess[r], r, b[r], now, X) /\ SameClock(e.sess[r], f.sess[r])
    BY <1>8 DEF Clock, Later, Retimed
  <2>2. r \in X <=> r \in X \ {s}
    BY <1>8
  <2> QED BY <2>1, <2>2, SessFewer
<1>9. \A r \in Sids(e) : SessTimed(e.heap, f.sess[r], r, b[r], now, X \ {s})
  BY <1>3, <1>7, <1>8
<1>10. f.heap = e.heap /\ Sids(f) = Sids(e)
  BY DEF Retimed
<1> QED BY <1>1, <1>4, <1>6, <1>9, <1>10 DEF Clock

\* A push: the session has a new valid entry, and the old one is old enough.
LEMMA PushTimed ==
  ASSUME NEW H, NEW K, NEW c, NEW d, NEW s, NEW u, NEW v, NEW X, now \in Nat,
         SessTimed(H, c, s, u, now, X), ~c.closed,
         ~(c.heap_live /\ now - c.last_push < PushInterval),
         \A x \in H : x.sid = s => x.gen \in Nat /\ x.gen <= c.gen,
         NEW y, K = H \cup {y}, y.at = d.expiry, y.gen = d.gen, y.sid = s,
         d.gen = c.gen + 1, d.heap_live = TRUE, d.last_push = now,
         d.timeout \in {IdleTimeout, OtherTimeout}, d.expiry = now + d.timeout,
         v = now \/ (v = u /\ s \in X /\ d.timeout = c.timeout)
  PROVE  SessTimed(K, d, s, v, now, X \ {s})
<1>1. SessClock(c, now) /\ Pushes(H, c, s) /\ EntryOk(H, c, s, X) /\ Used(H, c, s, u, now, X)
  BY DEF SessTimed
<1>2. c.gen \in Nat /\ c.last_push \in Nat /\ c.last_push <= now
  BY <1>1 DEF SessClock
<1>3. /\ d.timeout \in Nat /\ d.timeout <= Longest /\ Longest \in Nat
      /\ PushInterval \in Nat /\ PushInterval > 0
  BY LongestIs
<1>4. d.expiry \in Nat /\ d.expiry <= now + Longest /\ now + d.timeout <= d.expiry /\ d.gen \in Nat
  BY <1>2, <1>3
<1>5. SessClock(d, now)
  <2>1. d.last_push \in Nat /\ d.last_push <= now
    OBVIOUS
  <2>2. d.heap_live \in BOOLEAN
    BY Zenon
  <2> QED BY <1>4, <2>1, <2>2 DEF SessClock
<1>6. \A x \in H : x.sid = s => x.gen # d.gen
  BY <1>2
<1>7. Pushes(K, d, s)
  <2>1. PICK p \in [Nat -> Nat] : PushTimes(H, c, s, p)
    BY <1>1 DEF Pushes
  <2> DEFINE q == [p EXCEPT ![d.gen] = now]
  <2>2. q \in [Nat -> Nat] /\ q[d.gen] = now /\ \A g \in Nat : g # d.gen => q[g] = p[g]
    BY <1>4
  <2>3. ASSUME NEW x \in H, x.sid = s
        PROVE  /\ q[x.gen] = p[x.gen] /\ x.at <= q[x.gen] + Longest
               /\ q[x.gen] + PushInterval <= now
    <3>1. x.gen \in Nat /\ x.gen # d.gen
      BY <1>6, <2>3
    <3>2. q[x.gen] = p[x.gen] /\ p[x.gen] \in Nat
      BY <3>1, <2>2
    <3>3. x.at <= p[x.gen] + Longest
      BY <2>1, <2>3 DEF PushTimes
    <3>4. CASE x.gen = c.gen
      <4>1. p[x.gen] = c.last_push
        BY <2>1, <2>3, <3>4 DEF PushTimes
      <4>2. c.heap_live
        BY <1>1, <2>3, <3>4 DEF EntryOk
      <4>3. c.last_push + PushInterval <= now
        BY <4>2, <1>2, <1>3
      <4> QED BY <3>2, <3>3, <4>1, <4>3
    <3>5. CASE x.gen # c.gen
      <4>1. p[x.gen] + PushInterval <= c.last_push
        BY <2>1, <2>3, <3>5 DEF PushTimes
      <4>2. p[x.gen] + PushInterval <= now
        BY <4>1, <1>2, <1>3, <3>2
      <4> QED BY <3>2, <3>3, <4>2
    <3> QED BY <3>4, <3>5
  <2> HIDE DEF q
  <2>4. ASSUME NEW x \in K, x.sid = s
        PROVE  /\ x.at <= q[x.gen] + Longest
               /\ x.gen = d.gen => q[x.gen] = d.last_push
               /\ x.gen # d.gen => q[x.gen] + PushInterval <= d.last_push
    <3>1. CASE x = y
      BY <3>1, <2>2, <1>4
    <3>2. CASE x \in H
      BY <3>2, <2>3, <2>4, <1>6
    <3> QED BY <3>1, <3>2
  <2>5. ASSUME NEW x \in K, NEW z \in K, x.sid = s, z.sid = s, x.gen < z.gen
        PROVE  q[x.gen] + PushInterval <= q[z.gen]
    <3>1. CASE x = y
      <4>1. z \in H
        BY <3>1, <2>5, <1>4
      <4>2. z.gen \in Nat /\ z.gen <= c.gen
        BY <4>1, <2>5
      <4>3. x.gen = c.gen + 1
        BY <3>1
      <4> QED BY <4>2, <4>3, <2>5, <1>2
    <3>2. CASE x \in H /\ z = y
      BY <3>2, <2>2, <2>3, <2>5
    <3>3. CASE x \in H /\ z \in H
      <4>1. p[x.gen] + PushInterval <= p[z.gen]
        BY <3>3, <2>1, <2>5 DEF PushTimes
      <4>2. q[x.gen] = p[x.gen] /\ q[z.gen] = p[z.gen]
        BY <3>3, <2>3, <2>5
      <4> QED BY <4>1, <4>2
    <3> QED BY <3>1, <3>2, <3>3
  <2>6. PushTimes(K, d, s, q)
    BY <2>4, <2>5 DEF PushTimes
  <2> QED BY <2>2, <2>6 DEF Pushes
<1>8. EntryOk(K, d, s, X \ {s})
  BY DEF EntryOk
<1>9. Used(K, d, s, v, now, X \ {s})
  <2>1. \A x \in K : x.sid = s /\ x.gen = d.gen => x.at = d.expiry
    BY <1>6
  <2>2. v \in Nat /\ v <= now /\ now <= v + d.timeout
    <3>1. CASE v = now
      BY <3>1, <1>3
    <3>2. CASE v = u /\ s \in X /\ d.timeout = c.timeout
      BY <3>2, <1>1 DEF Used
    <3> QED BY <3>1, <3>2
  <2>3. v + d.timeout <= d.expiry /\ d.expiry <= v + 2 * d.timeout
    BY <2>2, <1>3
  <2>4. \A x \in K : x.sid = s /\ x.gen = d.gen =>
          /\ x.at = d.expiry /\ Within(d, x.at, d.last_push) /\ x.at <= v + 2 * d.timeout
    <3>1. Within(d, d.expiry, d.last_push)
      BY <1>3 DEF Within
    <3> QED BY <2>1, <2>3, <3>1
  <2> QED BY <2>2, <2>3, <2>4 DEF Used
<1> QED BY <1>5, <1>7, <1>8, <1>9 DEF SessTimed

\* refresh_expiry pushes the session.
LEMMA PushedClock ==
  ASSUME NEW e, NEW r, NEW f, NEW a, NEW b, NEW X, Clock(e, a, now, X), NEW s \in Sids(e),
         ~e.sess[s].closed, ~(e.sess[s].heap_live /\ now - e.sess[s].last_push < PushInterval),
         Retimed(e, r, s), Later(a, b, Sids(e), s, X), Shape(r), f = Pushed(r, s),
         b[s] = now \/ r.sess[s].timeout = e.sess[s].timeout
  PROVE  Clock(f, b, now, X \ {s})
<1>1. now \in Nat /\ HeapOk(e) /\ TimerOk(e) /\ \A x \in e.heap : now <= x.at + Late
  BY DEF Clock
<1>2. SessTimed(e.heap, e.sess[s], s, a[s], now, X)
  BY DEF Clock
<1>3. s \in Sids(r) /\ Sids(r) = Sids(e) /\ r.heap = e.heap
  BY DEF Retimed
<1> DEFINE y == Entry(r, s)
           d == f.sess[s]
<1>21. Quiet(r, f) /\ PushDone(r, s, f)
  BY <1>3, PushedIs
<1>4. /\ f.heap = r.heap \cup {y} /\ Quiet(r, f)
      /\ f.waiting = r.waiting /\ f.target = r.target /\ f.wait_gen = r.wait_gen
      /\ f.waits = r.waits
      /\ d.gen = r.sess[s].gen + 1 /\ d.heap_live = TRUE
      /\ d.last_push = now /\ d.expiry = r.sess[s].expiry
      /\ \A i \in Sids(r) : i # s => f.sess[i] = r.sess[i]
  BY <1>21 DEF PushDone
<1>5. y.at = r.sess[s].expiry /\ y.gen = r.sess[s].gen + 1 /\ y.sid = s
      /\ y = [at |-> r.sess[s].expiry, gen |-> r.sess[s].gen + 1, sid |-> s]
  BY DEF Entry
<1>6. Sids(f) = Sids(e) /\ d.timeout = r.sess[s].timeout /\ d.closed = r.sess[s].closed
  BY <1>3, <1>4 DEF Quiet, SameSession
<1>7. /\ r.sess[s].gen = e.sess[s].gen /\ r.sess[s].timeout \in {IdleTimeout, OtherTimeout}
      /\ r.sess[s].expiry = now + r.sess[s].timeout
  BY DEF Retimed
<1>8. TimerOk(f)
  BY <1>1, <1>4 DEF TimerOk, Retimed
<1>9. \A x \in e.heap : /\ x \in Entries(e) /\ x.gen \in Nat /\ x.at \in Nat
                        /\ x.gen <= e.sess[x.sid].gen /\ x.sid \in Sids(e)
  BY <1>1 DEF HeapOk, Entries
<1>10. e.sess[s].gen \in Nat /\ r.sess[s].timeout \in Nat
  BY <1>2, <1>7, LongestIs DEF SessTimed, SessClock
<1> HIDE DEF y, d
<1>11. y \in Entries(e) /\ y.at \in Nat /\ now <= y.at + Late
  <2>1. y.at = now + r.sess[s].timeout
    BY <1>5, <1>7
  <2>2. r.sess[s].expiry \in Nat /\ r.sess[s].gen + 1 \in Nat
    BY <1>1, <1>7, <1>10
  <2>3. y \in Entries(e)
    BY <1>5, <2>2 DEF Entries
  <2>4. now <= y.at + Late
    BY <2>1, <1>1, <1>10, LongestIs
  <2> QED BY <2>2, <2>3, <2>4, <1>5
<1>12. HeapOk(f)
  <2>1. Entries(f) = Entries(e)
    BY <1>6 DEF Entries
  <2>2. f.heap \subseteq Entries(f)
    BY <1>3, <1>4, <1>9, <1>11, <2>1
  <2>3. IsFiniteSet(f.heap)
    BY <1>1, <1>3, <1>4, FS_AddElement DEF HeapOk
  <2>4. \A i \in Sids(e) : i # s => f.sess[i].gen = e.sess[i].gen
    BY <1>3, <1>4 DEF Retimed, SameClock
  <2>5. d.gen = e.sess[s].gen + 1
    BY <1>4, <1>7
  <2>6. \A x \in e.heap : x.gen <= f.sess[x.sid].gen
    <3> TAKE x \in e.heap
    <3>1. CASE x.sid = s
      BY <3>1, <2>5, <1>9, <1>10 DEF d
    <3>2. CASE x.sid # s
      BY <3>2, <2>4, <1>9
    <3> QED BY <3>1, <3>2
  <2>7. y.gen <= f.sess[y.sid].gen
    BY <1>4, <1>5, <1>7, <1>10 DEF d
  <2>8. \A x \in f.heap : x.gen <= f.sess[x.sid].gen
    BY <2>6, <2>7, <1>3, <1>4
  <2>9. \A x \in e.heap : x.sid = s => x.gen # y.gen
    <3>1. \A x \in e.heap : x.sid = s => x.gen <= e.sess[s].gen /\ x.gen \in Nat
      BY <1>9
    <3> QED BY <3>1, <1>5, <1>7, <1>10
  <2>10. \A x, z \in e.heap : x.sid = z.sid /\ x.gen = z.gen => x = z
    BY <1>1 DEF HeapOk
  <2>11. \A x, z \in f.heap : x.sid = z.sid /\ x.gen = z.gen => x = z
    BY <2>9, <2>10, <1>3, <1>4, <1>5
  <2> QED BY <2>2, <2>3, <2>8, <2>11 DEF HeapOk
<1>13. \A x \in f.heap : now <= x.at + Late
  BY <1>1, <1>3, <1>4, <1>11
<1>14. SessTimed(f.heap, d, s, b[s], now, X \ {s})
  <2>1. \A x \in e.heap : x.sid = s => x.gen \in Nat /\ x.gen <= e.sess[s].gen
    BY <1>9
  <2>2. b[s] = now \/ (b[s] = a[s] /\ s \in X /\ d.timeout = e.sess[s].timeout)
    BY <1>6 DEF Later
  <2>3. f.heap = e.heap \cup {y} /\ y.at = d.expiry /\ y.gen = d.gen /\ y.sid = s
    BY <1>3, <1>4, <1>5
  <2>4. d.gen = e.sess[s].gen + 1 /\ d.heap_live = TRUE /\ d.last_push = now
    BY <1>4, <1>7
  <2>5. d.timeout \in {IdleTimeout, OtherTimeout} /\ d.expiry = now + d.timeout
    BY <1>4, <1>6, <1>7
  <2> QED BY <1>1, <1>2, <2>1, <2>2, <2>3, <2>4, <2>5, PushTimed
<1>15. ASSUME NEW i \in Sids(e), i # s PROVE SessTimed(f.heap, f.sess[i], i, b[i], now, X \ {s})
  <2>1. SessTimed(e.heap, e.sess[i], i, b[i], now, X) /\ SameClock(e.sess[i], r.sess[i])
    BY <1>15 DEF Clock, Later, Retimed
  <2>2. SameClock(e.sess[i], f.sess[i])
    BY <2>1, <1>3, <1>4, <1>15
  <2>3. i \in X <=> i \in X \ {s}
    BY <1>15
  <2>4. /\ \A x \in f.heap : x.sid = i => x \in e.heap
        /\ \A x \in e.heap : x.sid = i /\ x.gen = e.sess[i].gen => x \in f.heap
    BY <1>3, <1>4, <1>5, <1>15
  <2> QED BY <2>1, <2>2, <2>3, <2>4, SessFewer
<1>16. \A i \in Sids(e) : SessTimed(f.heap, f.sess[i], i, b[i], now, X \ {s})
  BY <1>14, <1>15 DEF d
<1> QED BY <1>1, <1>6, <1>8, <1>12, <1>13, <1>16 DEF Clock

\* The engine e with another timeout of session s.
Reset(e, f, s) ==
  /\ f.heap = e.heap /\ f.waiting = e.waiting /\ f.target = e.target
  /\ f.wait_gen = e.wait_gen /\ f.waits = e.waits /\ Sids(f) = Sids(e)
  /\ \A r \in Sids(e) : r # s => SameClock(e.sess[r], f.sess[r])
  /\ f.sess[s].closed = e.sess[s].closed /\ f.sess[s].gen = e.sess[s].gen
  /\ f.sess[s].last_push = e.sess[s].last_push /\ f.sess[s].heap_live = e.sess[s].heap_live
  /\ f.sess[s].timeout \in {IdleTimeout, OtherTimeout}
  /\ f.sess[s].timeout \in {e.sess[s].timeout, OtherTimeout}

\* refresh_expiry, of a session whose timeout may just have been set.
LEMMA RefreshReset ==
  ASSUME NEW e, NEW g, NEW a, NEW b, NEW X, Clock(e, a, now, X), NEW s \in Sids(e),
         ~e.sess[s].closed, Reset(e, g, s), Later(a, b, Sids(e), s, X), Shape(g),
         b[s] = now \/ g.sess[s].timeout = e.sess[s].timeout,
         NEW f, f = refresh_expiry(g, s)
  PROVE  Clock(f, b, now, X \ {s}) /\ (Armed(e) => Armed(f))
<1>1. s \in Sids(g) /\ ~g.sess[s].closed /\ g.sess[s].heap_live = e.sess[s].heap_live
      /\ g.sess[s].last_push = e.sess[s].last_push
  BY DEF Reset
<1> DEFINE r == Renewed(g, s)
<1>2. /\ Quiet(g, r) /\ r.heap = g.heap
      /\ r.waiting = g.waiting /\ r.target = g.target /\ r.wait_gen = g.wait_gen
      /\ r.waits = g.waits
      /\ r.sess[s].gen = g.sess[s].gen /\ r.sess[s].heap_live = g.sess[s].heap_live
      /\ r.sess[s].last_push = g.sess[s].last_push
      /\ r.sess[s].expiry = now + g.sess[s].timeout
      /\ \A i \in Sids(g) : i # s => r.sess[i] = g.sess[i]
  BY <1>1, RenewedIs
<1> HIDE DEF r
<1>3. Shape(r)
  BY <1>2, QuietShape
<1>4. /\ Sids(r) = Sids(g) /\ r.sess[s].timeout = g.sess[s].timeout
      /\ r.sess[s].closed = g.sess[s].closed
  BY <1>1, <1>2 DEF Quiet, SameSession
<1>5. Retimed(e, r, s)
  BY <1>2, <1>4 DEF Retimed, Reset
<1>6. CASE /\ g.sess[s].heap_live /\ now - g.sess[s].last_push < PushInterval
           /\ f = r
  <2>1. Clock(f, b, now, X \ {s})
    BY <1>1, <1>5, <1>6, RetimedClock
  <2>2. Armed(e) => Armed(f)
    BY <1>5, <1>6 DEF Armed, Retimed
  <2> QED BY <2>1, <2>2
<1>7. CASE /\ ~(g.sess[s].heap_live /\ now - g.sess[s].last_push < PushInterval)
           /\ f = arm_expiry_timer(Pushed(r, s))
  <2> DEFINE p == Pushed(r, s)
  <2>1. ~(e.sess[s].heap_live /\ now - e.sess[s].last_push < PushInterval)
    BY <1>1, <1>7
  <2>2. Clock(p, b, now, X \ {s})
    <3>1. b[s] = now \/ r.sess[s].timeout = e.sess[s].timeout
      BY <1>4
    <3> QED BY <2>1, <3>1, <1>3, <1>5, PushedClock
  <2>21. Quiet(r, p)
    BY <1>1, <1>3, <1>4, PushedIs
  <2>3. DOMAIN p = EngFields
    BY <2>21 DEF Quiet, Fixed
  <2> HIDE DEF p
  <2>4. f = arm_expiry_timer(p)
    BY <1>7 DEF p
  <2> QED BY <2>2, <2>3, <2>4, ArmClock
<1> QED BY <1>1, <1>6, <1>7, RefreshIs DEF r

\* refresh_expiry, of a session that is open or not.
LEMMA RefreshClock ==
  ASSUME NEW e, NEW a, NEW b, NEW X, Clock(e, a, now, X), NEW s \in Sids(e),
         Later(a, b, Sids(e), s, X), Shape(e), NEW f, f = refresh_expiry(e, s)
  PROVE  Clock(f, b, now, X \ {s}) /\ (Armed(e) => Armed(f))
<1>1. CASE ~e.sess[s].closed
  <2>1. SessTimed(e.heap, e.sess[s], s, a[s], now, X)
    BY DEF Clock
  <2>2. e.sess[s].timeout \in {IdleTimeout, OtherTimeout}
    BY <2>1 DEF SessTimed, SessClock
  <2>3. Reset(e, e, s)
    BY <2>2 DEF Reset, SameClock
  <2> QED BY <1>1, <2>3, RefreshReset
<1>2. CASE e.sess[s].closed
  <2>1. f = e
    BY <1>2, RefreshIs
  <2>2. ASSUME NEW r \in Sids(e) PROVE SessTimed(e.heap, e.sess[r], r, b[r], now, X \ {s})
    <3>1. SessTimed(e.heap, e.sess[r], r, a[r], now, X)
      BY DEF Clock
    <3>2. CASE r = s
      BY <3>1, <3>2, <1>2 DEF SessTimed
    <3>3. CASE r # s
      <4>1. a[r] = b[r] /\ (r \in X <=> r \in X \ {s})
        BY <3>3 DEF Later
      <4>2. SameClock(e.sess[r], e.sess[r])
        BY DEF SameClock
      <4> QED BY <3>1, <4>1, <4>2, SessFewer
    <3> QED BY <3>2, <3>3
  <2> QED BY <2>1, <2>2 DEF Clock
<1> QED BY <1>1, <1>2

-----------------------------------------------------------------------------
(* The operations keep the idle timer in order. *)

\* Nothing that the timer looks at was changed.
Still(e, f) ==
  /\ f.heap = e.heap /\ f.waiting = e.waiting /\ f.target = e.target
  /\ f.wait_gen = e.wait_gen /\ f.waits = e.waits /\ Sids(f) = Sids(e)
  /\ \A r \in Sids(e) : SameClock(e.sess[r], f.sess[r])

\* It keeps the timer in order.
LEMMA ClockStill ==
  ASSUME NEW e, NEW f, NEW a, NEW b, NEW t, NEW X, Clock(e, a, t, X), Still(e, f),
         \A s \in Sids(e) : b[s] = a[s]
  PROVE  Clock(f, b, t, X) /\ (Armed(e) => Armed(f))
<1>1. TimerOk(f)
  BY DEF Clock, TimerOk, Still
<1>2. Clock(f, a, t, X)
  BY <1>1, ClockFewer DEF Still
<1>3. Clock(f, b, t, X)
  BY <1>2 DEF Clock, Still
<1> QED BY <1>3 DEF Still, Armed

\* Two such steps make one.
LEMMA StillTrans ==
  ASSUME NEW e, NEW f, NEW g, Still(e, f), Still(f, g)
  PROVE  Still(e, g)
BY DEF Still, SameClock

\* Steps that write neither the timer nor the timing of a session.
LEMMA StillSame ==
  ASSUME NEW e, NEW f, Aside(e, f), f.sess = e.sess
  PROVE  Still(e, f)
BY DEF Still, SameClock, Aside, Sids

\* A step on the queues of sessions.
LEMMA StillKept ==
  ASSUME NEW e, NEW f, Aside(e, f), Sids(f) = Sids(e),
         \A r \in Sids(e) : KeptOf(e.sess[r], f.sess[r])
  PROVE  Still(e, f)
BY DEF Still, SameClock, Aside, KeptOf

\* A step of an accept.
LEMMA StillPast ==
  ASSUME NEW e, NEW f, Aside(e, f), SamePast(e, f)
  PROVE  Still(e, f)
BY DEF Still, SameClock, Aside, SamePast

\* remove_session: what the session leaves in the heap is stale.
LEMMA RemoveClock ==
  ASSUME NEW e, Shape(e), NEW a, NEW t, NEW X, Clock(e, a, t, X), NEW s \in Sids(e),
         NEW f, f = remove_session(e, s)
  PROVE  Clock(f, a, t, X) /\ (Armed(e) => Armed(f))
<1>1. CASE e.sess[s].closed
  BY <1>1, RemoveNot
<1>2. CASE ~e.sess[s].closed
  <2>1. Removal(e, s, f) /\ Replaced(e, f, s, Closed(e.sess[s])) /\ Ended(e.sess[s], f.sess[s])
    BY <1>2, RemoveIs, RemoveSess
  <2>2. Aside(e, f)
    BY <2>1 DEF Removal
  <2>3. f.heap = e.heap /\ TimerOk(f) /\ (Armed(e) => Armed(f))
    BY <2>2 DEF Aside, Clock, TimerOk, Armed
  <2>4. Sids(f) = Sids(e) /\ \A r \in Sids(e) : r # s => f.sess[r] = e.sess[r]
    BY <2>1 DEF Replaced
  <2>5. GoneClock(e.sess[s], f.sess[s])
    BY <2>1 DEF Ended, GoneClock
  <2>6. HeapOk(f)
    <3>1. \A r \in Sids(e) : f.sess[r].gen = e.sess[r].gen
      BY <2>4, <2>5 DEF GoneClock
    <3> QED BY <2>3, <2>4, <3>1, HeapFewer DEF Clock
  <2>7. SessTimed(f.heap, f.sess[s], s, a[s], t, X)
    <3>1. SessTimed(e.heap, e.sess[s], s, a[s], t, X) /\ NoneNew(f.heap, e.heap, s)
      BY <2>3 DEF Clock, NoneNew
    <3> QED BY <3>1, <2>5, SessGone
  <2>8. \A r \in Sids(e) : SessTimed(f.heap, f.sess[r], r, a[r], t, X)
    BY <2>3, <2>4, <2>7 DEF Clock
  <2> QED BY <2>3, <2>4, <2>6, <2>8 DEF Clock
<1> QED BY <1>1, <1>2

\* deliver_datagram counts as use of the session.
LEMMA DeliverClock ==
  ASSUME NEW e, NEW U, NEW m, NEW n \in Nat, m < n, Sound(e, U, m), NEW s \in Sids(e), NEW len,
         NEW a, NEW b, NEW X, Clock(e, a, now, X), Later(a, b, Sids(e), s, X),
         NEW f, f = deliver_datagram(e, s, n, len)
  PROVE  Clock(f, b, now, X \ {s}) /\ (Armed(e) => Armed(f))
<1> DEFINE r == refresh_expiry(e, s)
<1>1. Shape(e)
  BY DEF Sound
<1>2. Clock(r, b, now, X \ {s}) /\ (Armed(e) => Armed(r)) /\ Quiet(e, r)
  BY <1>1, RefreshClock, RefreshQuiet
<1>3. CASE e.sess[s].closed /\ f = e
  <2>1. r = e
    BY <1>3, RefreshIs
  <2> QED BY <1>2, <1>3, <2>1
<1>4. Sound(r, U, m) /\ s \in Sids(r) /\ Sids(r) = Sids(e) /\ r.sess[s].closed = e.sess[s].closed
  BY <1>2, SoundQuiet DEF Quiet, SameSession
<1> HIDE DEF r
<1>5. ASSUME Still(r, f) PROVE Clock(f, b, now, X \ {s}) /\ (Armed(e) => Armed(f))
  BY <1>2, <1>5, ClockStill
<1>6. CASE r.sess[s].reads # <<>> /\ f = hand_over(r, s, n, len)
  <2>1. /\ ReadOnly(r, f) /\ Sids(f) = Sids(r)
        /\ \A i \in Sids(r) : KeptOf(r.sess[i], f.sess[i])
    BY <1>4, <1>6, SoundHanded
  <2>2. Still(r, f)
    BY <2>1, StillKept DEF ReadOnly
  <2> QED BY <2>2, <1>5
<1>7. CASE ~e.sess[s].closed /\ r.sess[s].reads = <<>> /\ f = queue_datagram(r, s, n, len)
  <2>1. /\ ReadOnly(r, f) /\ Sids(f) = Sids(r)
        /\ \A i \in Sids(r) : KeptOf(r.sess[i], f.sess[i])
    BY <1>4, <1>7, SoundQueued
  <2>2. Still(r, f)
    BY <2>1, StillKept DEF ReadOnly
  <2> QED BY <2>2, <1>5
<1> QED BY <1>3, <1>6, <1>7, DeliverIs DEF r

\* start_receive does not.
LEMMA ReceiveClock ==
  ASSUME NEW e, NEW m, Whole(e, {}, m), NEW s \in Sids(e), NEW size,
         NEW f, f = start_receive(e, s, size)
  PROVE  Still(e, f)
<1>1. Shape(e) /\ IsSeq(e.ops)
  BY DEF Whole, Sound, Reads
<1>2. ReadOnly(e, f)
  BY <1>1, ReceiveIs
<1>3. Aside(e, f)
  BY <1>2 DEF ReadOnly
<1>4. CASE f.sess = e.sess
  BY <1>3, <1>4, StillSame
<1>5. ASSUME NEW d, f.sess = Put(e.sess, s, d), KeptOf(e.sess[s], d) PROVE Still(e, f)
  <2>1. Replaced(e, f, s, d)
    BY <1>1, <1>5, Replacing
  <2>2. \A r \in Sids(e) : DOMAIN e.sess[r] = SessFields
    BY <1>1 DEF Shape
  <2>3. \A r \in Sids(e) : KeptOf(e.sess[r], f.sess[r])
    BY <1>5, <2>1, <2>2 DEF Replaced, KeptOf
  <2> QED BY <1>3, <2>1, <2>3, StillKept DEF Replaced
<1>6. \/ f.sess = e.sess
      \/ \E d : f.sess = Put(e.sess, s, d) /\ KeptOf(e.sess[s], d)
  <2>1. CASE e.sess[s].closed
    BY <1>1, <2>1, ReceiveIs
  <2>2. CASE ~e.sess[s].closed /\ e.sess[s].rx # <<>>
    BY <1>1, <2>2, ReceiveIs
  <2>3. CASE ~e.sess[s].closed /\ e.sess[s].rx = <<>>
    BY <1>1, <2>3, ReceiveIs
  <2> QED BY <2>1, <2>2, <2>3
<1> QED BY <1>4, <1>5, <1>6

\* A session that has just been made has no entry yet.
LEMMA JoinedClock ==
  ASSUME NEW e, NEW c, NEW a, NEW b, NEW s, NEW k, Clock(e, a, now, {}), Joined(e, c, s, k),
         Aside(e, c), \A r \in Sids(e) : b[r] = a[r], b[s] = now
  PROVE  Clock(c, b, now, {s}) /\ (Armed(e) => Armed(c))
<1>1. now \in Nat /\ HeapOk(e) /\ TimerOk(e) /\ \A x \in e.heap : now <= x.at + Late
  BY DEF Clock
<1>2. /\ c.heap = e.heap /\ TimerOk(c) /\ (Armed(e) => Armed(c))
  BY <1>1 DEF Aside, TimerOk, Armed
<1>3. /\ Sids(c) = Sids(e) \cup {s} /\ s \notin Sids(e)
      /\ \A r \in Sids(e) : c.sess[r] = e.sess[r]
  BY DEF Joined
<1>4. \A x \in e.heap : x \in Entries(e) /\ x.sid \in Sids(e) /\ x.sid # s
  BY <1>1, <1>3 DEF HeapOk, Entries
<1>5. HeapOk(c)
  <2>1. Entries(e) \subseteq Entries(c)
    BY <1>3 DEF Entries
  <2>2. \A x \in c.heap : x.gen <= c.sess[x.sid].gen
    BY <1>1, <1>2, <1>3, <1>4 DEF HeapOk
  <2> QED BY <1>1, <1>2, <2>1, <2>2 DEF HeapOk
<1> DEFINE d == c.sess[s]
<1>6. SessTimed(c.heap, d, s, now, now, {s})
  <2>1. /\ d.timeout = IdleTimeout /\ d.expiry = now + IdleTimeout /\ d.gen = 0
        /\ d.last_push = 0 /\ d.heap_live = FALSE
    BY DEF Joined, Blank
  <2> HIDE DEF d
  <2>2. IdleTimeout \in Nat /\ IdleTimeout <= Longest /\ Longest \in Nat
    BY LongestIs
  <2>3. d.timeout \in {IdleTimeout, OtherTimeout} /\ d.expiry \in Nat /\ d.gen \in Nat
        /\ d.last_push \in Nat /\ d.last_push <= now
    BY <1>1, <2>1, <2>2
  <2>4. d.heap_live \in BOOLEAN
    BY <2>1, Zenon
  <2>5. SessClock(d, now)
    BY <2>3, <2>4 DEF SessClock
  <2>6. Pushes(c.heap, d, s)
    <3> DEFINE p == [i \in Nat |-> 0]
    <3>1. p \in [Nat -> Nat]
      OBVIOUS
    <3>2. PushTimes(c.heap, d, s, p)
      BY <1>2, <1>4 DEF PushTimes
    <3> QED BY <3>1, <3>2 DEF Pushes
  <2>7. EntryOk(c.heap, d, s, {s})
    BY <1>2, <1>4, <2>1 DEF EntryOk
  <2>8. Used(c.heap, d, s, now, now, {s})
    <3>1. now + d.timeout <= d.expiry /\ now <= now + d.timeout
      BY <1>1, <2>1, <2>2
    <3>2. \A x \in c.heap : x.sid # s
      BY <1>2, <1>4
    <3> QED BY <1>1, <3>1, <3>2 DEF Used
  <2> QED BY <2>5, <2>6, <2>7, <2>8 DEF SessTimed
<1>7. ASSUME NEW r \in Sids(e) PROVE SessTimed(c.heap, c.sess[r], r, b[r], now, {s})
  <2>1. SessTimed(e.heap, e.sess[r], r, b[r], now, {})
    BY DEF Clock
  <2>2. SameClock(e.sess[r], c.sess[r]) /\ (r \in {} <=> r \in {s})
    BY <1>3 DEF SameClock
  <2> QED BY <1>2, <2>1, <2>2, SessFewer
<1>8. \A r \in Sids(c) : SessTimed(c.heap, c.sess[r], r, b[r], now, {s})
  BY <1>3, <1>6, <1>7
<1> QED BY <1>1, <1>2, <1>5, <1>8 DEF Clock

\* create_session: the new session is pushed.
LEMMA CreateClock ==
  ASSUME NEW e, NEW m, NEW n \in Nat, m < n, Sound(e, {}, m), NEW k, NEW len,
         NEW f, f = create_session(e, k, n, len),
         NEW a, NEW b, Clock(e, a, now, {}), Armed(e),
         \A r \in Sids(f) : b[r] = IF r \in Sids(e) THEN a[r] ELSE now
  PROVE  Clock(f, b, now, {}) /\ Armed(f)
<1> DEFINE s == Len(e.sess) + 1
           c == Created(e, k)
           g == deliver_datagram(c, s, n, len)
           h == refresh_expiry(g, s)
<1>1. f = announce(h, s)
  BY DEF create_session, Created
<1>2. Shape(e) /\ s = Len(e.sess) + 1
  BY DEF Sound
<1>3. /\ Joined(e, c, s, k) /\ DOMAIN c = EngFields /\ Aside(e, c)
      /\ c.pending = e.pending /\ c.waiters = e.waiters
      /\ c.accs = e.accs /\ c.ops = e.ops
  <2>1. c = Created(e, k)
    OBVIOUS
  <2> HIDE DEF c, s
  <2>2. Joined(e, c, s, k) /\ Entered(e, c, s, k)
    BY <1>2, <2>1, CreatedIs
  <2> QED BY <2>2 DEF Entered
<1> HIDE DEF c, s
<1>4. Sound(c, {s}, m) /\ s \in Open(c)
  BY <1>3, SoundCreated
<1>5. s \in Sids(c)
  BY <1>4 DEF Open
<1>6. Sound(g, {s}, n) /\ Delivered(c, g)
  BY <1>4, <1>5, SoundDeliver
<1>7. s \in Sids(g) /\ Sids(g) = Sids(c)
  BY <1>5, <1>6 DEF Delivered
<1>8. Quiet(g, h) /\ Shape(g)
  <2> HIDE DEF g
  <2> QED BY <1>6, <1>7, RefreshQuiet DEF Sound
<1>9. Sound(h, {s}, n) /\ Sids(h) = Sids(g)
  <2> HIDE DEF g, h
  <2> QED BY <1>6, <1>8, SoundQuiet DEF Quiet
<1>10. s \in Open(h)
  <2> HIDE DEF g, h
  <2> QED BY <1>4, <1>5, <1>6, <1>7, <1>8 DEF Open, Delivered, Quiet, SameSession
<1>11. /\ AcceptOnly(h, f) /\ SamePast(h, f)
  <2> HIDE DEF h
  <2> QED BY <1>1, <1>9, <1>10, SoundAnnounce
<1>12. Sids(f) = Sids(e) \cup {s} /\ s \notin Sids(e)
  <2> HIDE DEF g, h
  <2> QED BY <1>3, <1>7, <1>9, <1>11 DEF SamePast, Joined
<1>13. b[s] = now /\ \A r \in Sids(e) : b[r] = a[r]
  BY <1>12
<1>14. Clock(c, b, now, {s}) /\ Armed(c)
  BY <1>3, <1>13, JoinedClock
<1>15. Clock(g, b, now, {}) /\ Armed(g)
  <2>1. Later(b, b, Sids(c), s, {s})
    BY <1>13 DEF Later
  <2>2. Clock(g, b, now, {s} \ {s}) /\ Armed(g)
    BY <1>4, <1>5, <1>14, <2>1, DeliverClock
  <2>3. {s} \ {s} = {}
    OBVIOUS
  <2> QED BY <2>2, <2>3
<1> HIDE DEF g
<1>16. Clock(h, b, now, {}) /\ Armed(h)
  <2>1. Later(b, b, Sids(g), s, {})
    BY <1>13 DEF Later
  <2>2. Clock(h, b, now, {} \ {s}) /\ Armed(h)
    BY <1>7, <1>8, <1>15, <2>1, RefreshClock
  <2>3. {} \ {s} = {}
    OBVIOUS
  <2> QED BY <2>2, <2>3
<1> HIDE DEF h
<1>17. Still(h, f)
  BY <1>11, StillPast DEF AcceptOnly
<1> QED BY <1>16, <1>17, ClockStill

\* on_packet: a datagram counts as use of its session.
LEMMA PacketClock ==
  ASSUME NEW e, NEW m, NEW n \in Nat, m < n, Whole(e, {}, m), NEW k \in Keys, NEW len, NEW valid,
         valid \in BOOLEAN, NEW f, f = on_packet(e, k, n, len, valid),
         NEW a, NEW b, Clock(e, a, now, {}), Armed(e),
         valid /\ e.sessions[k] # 0 => Later(a, b, Sids(e), e.sessions[k], {}),
         ~(valid /\ e.sessions[k] # 0) =>
           \A r \in Sids(f) : b[r] = IF r \in Sids(e) THEN a[r] ELSE now
  PROVE  Clock(f, b, now, {}) /\ Armed(f)
<1> DEFINE s == e.sessions[k]
           there == s # 0 /\ ~e.sess[s].closed
           t == [e EXCEPT !.sessions[k] = 0]
<1>1. Table(e) /\ Sound(e, {}, m) /\ DOMAIN e = EngFields
  BY DEF Whole, Sound, Shape
<1>2. f = CASE ~valid -> [e EXCEPT !.dropped = @ + 1]
            [] valid /\ there -> deliver_datagram(e, s, n, len)
            [] valid /\ ~there /\ no_room(t) -> [t EXCEPT !.dropped = @ + 1]
            [] OTHER -> create_session(t, k, n, len)
  BY DEF on_packet
<1>3. ~there => s = 0
  BY <1>1 DEF Table, Open
<1>4. DOMAIN t = EngFields /\ t.sess = e.sess /\ Aside(e, t)
  BY <1>1 DEF EngFields, Aside
<1>5. Still(e, t)
  BY <1>4, StillSame
<1>6. s = 0 => Whole(t, {}, m)
  BY WholeCleared
<1> HIDE DEF t
<1>7. ASSUME NEW g, Still(e, g), f = [g EXCEPT !.dropped = @ + 1], DOMAIN g = EngFields,
             ~(valid /\ e.sessions[k] # 0)
      PROVE  Clock(f, b, now, {}) /\ Armed(f)
  <2>1. f.sess = g.sess /\ Aside(g, f)
    BY <1>7 DEF EngFields, Aside
  <2>2. Still(e, f)
    BY <1>7, <2>1, StillSame, StillTrans
  <2>3. Sids(f) = Sids(e)
    BY <2>2 DEF Still
  <2>4. \A r \in Sids(e) : b[r] = a[r]
    BY <1>7, <2>3
  <2> QED BY <2>2, <2>4, ClockStill
<1>8. CASE ~valid
  <2>1. f = [e EXCEPT !.dropped = @ + 1]
    BY <1>2, <1>8
  <2>2. Still(e, e)
    BY DEF Still, SameClock
  <2> QED BY <1>1, <1>7, <1>8, <2>1, <2>2
<1>9. CASE valid /\ there
  <2>1. f = deliver_datagram(e, s, n, len)
    BY <1>2, <1>9
  <2>2. s \in Sids(e)
    BY <1>1, <1>9 DEF Table, Open
  <2>3. Later(a, b, Sids(e), s, {})
    BY <1>9
  <2> HIDE DEF s
  <2>4. Clock(f, b, now, {} \ {s}) /\ Armed(f)
    BY <1>1, <2>1, <2>2, <2>3, DeliverClock
  <2>5. {} \ {s} = {}
    OBVIOUS
  <2> QED BY <2>4, <2>5
<1>10. CASE valid /\ ~there /\ no_room(t)
  <2>1. f = [t EXCEPT !.dropped = @ + 1]
    BY <1>2, <1>10
  <2> QED BY <1>3, <1>4, <1>5, <1>7, <1>10, <2>1
<1>11. CASE valid /\ ~there /\ ~no_room(t)
  <2>1. f = create_session(t, k, n, len)
    BY <1>2, <1>11
  <2>2. Sound(t, {}, m)
    BY <1>3, <1>6, <1>11 DEF Whole
  <2>3. Clock(t, a, now, {}) /\ Armed(t) /\ Sids(t) = Sids(e)
    BY <1>5, ClockStill DEF Still
  <2>4. \A r \in Sids(f) : b[r] = IF r \in Sids(t) THEN a[r] ELSE now
    BY <1>3, <1>11, <2>3
  <2> QED BY <2>1, <2>2, <2>3, <2>4, CreateClock
<1> QED BY <1>8, <1>9, <1>10, <1>11

-----------------------------------------------------------------------------
(* Sends and timeouts. *)

\* Only the sends were changed.
SendOnly(e, f) ==
  /\ DOMAIN f = EngFields /\ f.sess = e.sess /\ f.sessions = e.sessions /\ f.count = e.count
  /\ f.pending = e.pending /\ f.waiters = e.waiters /\ f.accs = e.accs /\ f.ops = e.ops
  /\ f.heap = e.heap /\ f.waiting = e.waiting /\ f.target = e.target
  /\ f.wait_gen = e.wait_gen /\ f.waits = e.waits /\ f.shut = e.shut
  /\ f.packets = e.packets /\ f.dropped = e.dropped /\ f.used = e.used

\* Two such steps make one.
LEMMA SendOnlyTrans ==
  ASSUME NEW e, NEW f, NEW g, SendOnly(e, f), SendOnly(f, g)
  PROVE  SendOnly(e, g)
BY DEF SendOnly

\* They keep an engine whole and its timer as it was.
LEMMA WholeSent ==
  ASSUME NEW e, NEW f, NEW U, NEW m, Whole(e, U, m), SendOnly(e, f)
  PROVE  Whole(f, U, m) /\ Still(e, f)
<1>1. Whole(f, U, m)
  BY WholeSame DEF SendOnly
<1>2. Still(e, f)
  BY DEF SendOnly, Still, SameClock, Sids
<1> QED BY <1>1, <1>2

\* post_send is such a step.
LEMMA PostSendOnly ==
  ASSUME NEW e, DOMAIN e = EngFields, NEW i, NEW st, NEW f, f = post_send(e, i, st)
  PROVE  SendOnly(e, f)
BY DEF post_send, SendOnly, EngFields

\* on_frag is such a step.
LEMMA FragOnly ==
  ASSUME NEW e, DOMAIN e = EngFields, NEW i, NEW j, NEW ok, NEW f, f = on_frag(e, i, j, ok)
  PROVE  SendOnly(e, f)
<1> DEFINE g == [e EXCEPT !.sends[i].pkts[j].st = IF ok THEN "written" ELSE "failed",
                          !.sends[i].err = @ \/ ~ok,
                          !.sends[i].pending = @ - 1]
<1>1. SendOnly(e, g)
  BY DEF SendOnly, EngFields
<1>2. DOMAIN g = EngFields
  BY <1>1 DEF SendOnly
<1>3. \/ f = g
      \/ \E st : f = post_send(g, i, st)
  BY DEF on_frag
<1> HIDE DEF g
<1>4. CASE f = g
  BY <1>1, <1>4
<1>5. CASE \E st : f = post_send(g, i, st)
  BY <1>1, <1>2, <1>5, PostSendOnly, SendOnlyTrans
<1> QED BY <1>3, <1>4, <1>5

\* start_send: the session is refreshed unless the send is refused.
LEMMA SendIs ==
  ASSUME NEW e, Shape(e), NEW s \in Sids(e), NEW v6, NEW total, NEW f, f = start_send(e, s, v6, total)
  PROVE  /\ send_error(e, s, v6, total) # "none" => SendOnly(e, f)
         /\ send_error(e, s, v6, total) = "none" =>
              \E g : SendOnly(e, g) /\ SendOnly(refresh_expiry(g, s), f)
<1> DEFINE i == Len(e.sends) + 1
           n == UdpHdr + total
           g == [e EXCEPT !.sends = Append(@, [sid |-> s, total |-> total, st |-> "wait",
                       pkts |-> <<>>, pending |-> 0, err |-> FALSE, times |-> 0])]
           r == refresh_expiry(g, s)
           error == send_error(e, s, v6, total)
           large == oversized(v6, total)
           pkts == IF large THEN udp_write_ipv4_fragments(left.mtu, n) ELSE udp_send_single(n)
<1>1. f = CASE error # "none" -> post_send(g, i, error)
            [] error = "none" /\ large /\ FragMax(left.mtu) < UdpHdr ->
                 post_send(r, i, "message_size")
            [] OTHER -> [r EXCEPT !.sends[i].pkts = pkts, !.sends[i].pending = Len(pkts)]
  BY DEF start_send
<1>2. DOMAIN e = EngFields
  BY DEF Shape
<1>3. SendOnly(e, g)
  BY <1>2 DEF SendOnly, EngFields
<1> HIDE DEF g
<1>4. Shape(g) /\ Sids(g) = Sids(e)
  BY <1>3 DEF SendOnly, Shape, Sids
<1>5. Quiet(g, r)
  BY <1>4, RefreshQuiet
<1>6. DOMAIN r = EngFields
  BY <1>5 DEF Quiet, Fixed
<1> HIDE DEF r, i, pkts, error, large
<1>7. CASE error # "none"
  <2>1. f = post_send(g, i, error)
    BY <1>1, <1>7
  <2>2. DOMAIN g = EngFields
    BY <1>3 DEF SendOnly
  <2>3. SendOnly(g, f)
    BY <2>1, <2>2, PostSendOnly
  <2> QED BY <1>3, <1>7, <2>3, SendOnlyTrans DEF error
<1>8. CASE error = "none" /\ large /\ FragMax(left.mtu) < UdpHdr
  <2>1. f = post_send(r, i, "message_size")
    BY <1>1, <1>8
  <2>2. SendOnly(r, f)
    BY <1>6, <2>1, PostSendOnly
  <2> QED BY <1>3, <1>8, <2>2 DEF error, r
<1>9. CASE error = "none" /\ ~(large /\ FragMax(left.mtu) < UdpHdr)
  <2>1. f = [r EXCEPT !.sends[i].pkts = pkts, !.sends[i].pending = Len(pkts)]
    BY <1>1, <1>9
  <2>2. SendOnly(r, f)
    BY <1>6, <2>1 DEF SendOnly, EngFields
  <2> QED BY <1>3, <1>9, <2>2 DEF error, r
<1> QED BY <1>7, <1>8, <1>9

\* start_send keeps an engine whole and its timer in order.
LEMMA SendWhole ==
  ASSUME NEW e, NEW m, Whole(e, {}, m), NEW s \in Sids(e), NEW v6, NEW total,
         NEW f, f = start_send(e, s, v6, total),
         NEW a, NEW b, Clock(e, a, now, {}), Armed(e),
         send_error(e, s, v6, total) # "none" => b = a,
         send_error(e, s, v6, total) = "none" => Later(a, b, Sids(e), s, {})
  PROVE  /\ Whole(f, {}, m) /\ Clock(f, b, now, {}) /\ Armed(f)
         /\ f.packets = e.packets /\ f.dropped = e.dropped /\ Sids(f) = Sids(e)
<1>1. Shape(e)
  BY DEF Whole, Sound
<1>2. CASE send_error(e, s, v6, total) # "none"
  <2>1. SendOnly(e, f)
    BY <1>1, <1>2, SendIs
  <2>2. Whole(f, {}, m) /\ Still(e, f)
    BY <2>1, WholeSent
  <2>3. Clock(f, b, now, {}) /\ Armed(f)
    BY <1>2, <2>2, ClockStill
  <2> QED BY <2>1, <2>2, <2>3 DEF SendOnly, Sids
<1>3. CASE send_error(e, s, v6, total) = "none"
  <2>1. PICK g : SendOnly(e, g) /\ SendOnly(refresh_expiry(g, s), f)
    BY <1>1, <1>3, SendIs
  <2> DEFINE r == refresh_expiry(g, s)
  <2>2. Whole(g, {}, m) /\ Still(e, g)
    BY <2>1, WholeSent
  <2>3. Clock(g, a, now, {}) /\ Armed(g) /\ Sids(g) = Sids(e) /\ Shape(g)
    BY <2>2, ClockStill DEF Still, Whole, Sound
  <2>4. Quiet(g, r)
    BY <2>3, RefreshQuiet
  <2>5. Clock(r, b, now, {} \ {s}) /\ Armed(r)
    BY <1>3, <2>3, RefreshClock
  <2> HIDE DEF r
  <2>6. Whole(r, {}, m) /\ SendOnly(r, f)
    BY <2>1, <2>2, <2>4, WholeQuiet DEF r
  <2>7. Whole(f, {}, m) /\ Still(r, f)
    BY <2>6, WholeSent
  <2>8. {} \ {s} = {}
    OBVIOUS
  <2>9. Clock(f, b, now, {}) /\ Armed(f)
    BY <2>5, <2>7, <2>8, ClockStill
  <2>10. f.packets = e.packets /\ f.dropped = e.dropped
    BY <2>1, <2>4, <2>6 DEF SendOnly, Quiet, Fixed
  <2>11. Sids(f) = Sids(e)
    BY <2>3, <2>4, <2>7 DEF Still, Quiet
  <2> QED BY <2>7, <2>9, <2>10, <2>11
<1> QED BY <1>2, <1>3

\* set_idle_timeout: the session gets another timeout and is refreshed.
LEMMA TimeoutWhole ==
  ASSUME NEW e, NEW m, Whole(e, {}, m), NEW s \in Sids(e), ~e.sess[s].closed,
         NEW g, g = [e EXCEPT !.sess[s].timeout = OtherTimeout], NEW f, f = refresh_expiry(g, s),
         NEW a, NEW b, Clock(e, a, now, {}), Armed(e), Later(a, b, Sids(e), s, {})
  PROVE  /\ Whole(f, {}, m) /\ Clock(f, b, now, {}) /\ Armed(f)
         /\ f.packets = e.packets /\ f.dropped = e.dropped /\ Sids(f) = Sids(e)
<1> DEFINE d == [e.sess[s] EXCEPT !.timeout = OtherTimeout]
<1>1. /\ Shape(e) /\ DOMAIN e = EngFields /\ DOMAIN e.sess[s] = SessFields /\ s \in DOMAIN e.sess
      /\ Accepts(e, {}) /\ Reads(e, m) /\ m \in Nat /\ m <= m /\ Table(e)
  BY DEF Whole, Sound, Shape, Sids, Reads
<1>2. /\ g.sess = Put(e.sess, s, d) /\ DOMAIN g = EngFields /\ Aside(e, g)
      /\ g.ops = e.ops /\ g.pending = e.pending /\ g.waiters = e.waiters /\ g.accs = e.accs
      /\ g.sessions = e.sessions /\ g.count = e.count
      /\ g.packets = e.packets /\ g.dropped = e.dropped /\ g.used = e.used
  BY <1>1 DEF EngFields, Put, Aside
<1>3. /\ DOMAIN d = SessFields /\ d.timeout = OtherTimeout
      /\ d.closed = e.sess[s].closed /\ d.pending = e.sess[s].pending /\ d.key = e.sess[s].key
      /\ d.gen = e.sess[s].gen /\ d.last_push = e.sess[s].last_push
      /\ d.heap_live = e.sess[s].heap_live /\ d.rx = e.sess[s].rx /\ d.reads = e.sess[s].reads
      /\ d.rx_bytes = e.sess[s].rx_bytes
  BY <1>1 DEF SessFields
<1> HIDE DEF d
<1>4. Replaced(e, g, s, d)
  BY <1>1, <1>2, Replacing
<1>5. Sids(g) = Sids(e) /\ g.sess[s] = d /\ \A r \in Sids(e) : r # s => g.sess[r] = e.sess[r]
  BY <1>4 DEF Replaced
<1>6. Shape(g)
  <2>1. DOMAIN g.sess[s] = SessFields /\ g.sess[s].closed \in BOOLEAN /\ g.sess[s].pending \in BOOLEAN
    BY <1>1, <1>3, <1>5 DEF Shape
  <2> QED BY <1>1, <1>2, <1>4, <2>1, ReplacedShape
<1>7. \A r \in Sids(e) : /\ g.sess[r].closed = e.sess[r].closed
                         /\ g.sess[r].pending = e.sess[r].pending
                         /\ g.sess[r].key = e.sess[r].key
                         /\ g.sess[r].rx = e.sess[r].rx /\ g.sess[r].reads = e.sess[r].reads
                         /\ g.sess[r].rx_bytes = e.sess[r].rx_bytes
  BY <1>3, <1>5
<1>20. Books(g, m)
  <2>1. SameBooks(e, g)
    BY <1>2, <1>5, <1>7 DEF SameBooks
  <2> QED BY <1>2, <2>1, BooksStay DEF Whole
<1>8. Accepts(g, {})
  <2>1. SameAccepts(e, g)
    BY <1>2, <1>5, <1>7 DEF SameAccepts
  <2> QED BY <1>1, <2>1, AcceptsKept
<1>9. Reads(g, m)
  <2>1. SameReads(e, g)
    BY <1>2, <1>5, <1>7 DEF SameReads
  <2> QED BY <1>1, <2>1, ReadsKept
<1>10. Table(g)
  <2>1. \A r \in Sids(e) : g.sess[r].closed = e.sess[r].closed /\ g.sess[r].key = e.sess[r].key
    BY <1>7
  <2>2. Table(e) /\ g.sessions = e.sessions /\ g.count = e.count /\ Sids(g) = Sids(e)
    BY <1>1, <1>2, <1>5
  <2> QED BY ONLY <2>1, <2>2, TableKept
<1>11. Whole(g, {}, m)
  BY <1>2, <1>6, <1>8, <1>9, <1>10, <1>20 DEF Whole, Sound
<1>12. Reset(e, g, s)
  <2>1. \A r \in Sids(e) : r # s => SameClock(e.sess[r], g.sess[r])
    BY <1>5 DEF SameClock
  <2> QED BY <1>2, <1>3, <1>5, <2>1 DEF Reset, Aside
<1>13. Clock(f, b, now, {} \ {s}) /\ Armed(f)
  <2>1. b[s] = now
    BY DEF Later
  <2> QED BY <1>6, <1>12, <2>1, RefreshReset
<1>14. Quiet(g, f)
  BY <1>5, <1>6, RefreshQuiet
<1>15. Whole(f, {}, m)
  BY <1>11, <1>14, WholeQuiet
<1>16. {} \ {s} = {}
  OBVIOUS
<1>17. Clock(f, b, now, {})
  BY <1>13, <1>16
<1>18. f.packets = e.packets /\ f.dropped = e.dropped /\ Sids(f) = Sids(e)
  BY <1>2, <1>5, <1>14 DEF Quiet, Fixed
<1> QED BY <1>13, <1>15, <1>17, <1>18

-----------------------------------------------------------------------------
(* The loops of close_all and on_expiry_timer. *)

\* The loop of close_all over the sessions.
LEMMA RemoveLoop ==
  ASSUME NEW e, Len(e.sess) \in Nat
  PROVE  \E g : /\ g[0] = e /\ remove_all(e) = g[Len(e.sess)]
                /\ \A n \in 1 .. Len(e.sess) : g[n] = remove_session(g[n - 1], n)
<1> DEFINE L == Len(e.sess)
           Is(g) == g = [n \in 0 .. L |-> IF n = 0 THEN e ELSE remove_session(g[n - 1], n)]
           h == CHOOSE g : Is(g)
<1>1. PICK g : RunsOf("remove", e, <<>>, g, L)
  BY LoopExists
<1>2. \A n \in 0 .. L : g[n] = IF n = 0 THEN e ELSE remove_session(g[n - 1], n)
  <2>1. L \in Nat /\ g[0] = e
    BY <1>1 DEF RunsOf
  <2> HIDE DEF L
  <2>2. \A n \in 1 .. L : g[n] = remove_session(g[n - 1], n)
    BY <1>1 DEF RunsOf, Round
  <2>3. \A n \in 0 .. L : n = 0 \/ n \in 1 .. L
    BY <2>1
  <2> QED BY <2>1, <2>2, <2>3
<1>3. Is(g)
  BY <1>1, <1>2 DEF RunsOf
<1>4. Is(h)
  <2> HIDE DEF Is
  <2> QED BY <1>3
<1>5. remove_all(e) = h[L]
  BY DEF remove_all
<1> HIDE DEF h
<1>6. h[0] = e /\ \A n \in 1 .. L : h[n] = remove_session(h[n - 1], n)
  <2>1. L \in Nat
    OBVIOUS
  <2> HIDE DEF L
  <2>2. \A n \in 0 .. L : h[n] = IF n = 0 THEN e ELSE remove_session(h[n - 1], n)
    BY <1>4
  <2>3. 0 \in 0 .. L /\ \A n \in 1 .. L : n \in 0 .. L /\ n # 0
    BY <2>1
  <2> QED BY <2>2, <2>3
<1> QED BY <1>5, <1>6

\* The loop of on_expiry_timer over the sessions that were used.
LEMMA RefreshLoop ==
  ASSUME NEW e, NEW q, Len(q) \in Nat
  PROVE  \E g : /\ g[0] = e /\ refresh_all(e, q) = g[Len(q)]
                /\ \A n \in 1 .. Len(q) : g[n] = refresh_expiry(g[n - 1], q[n])
<1> DEFINE L == Len(q)
           Is(g) == g = [n \in 0 .. L |-> IF n = 0 THEN e ELSE refresh_expiry(g[n - 1], q[n])]
           h == CHOOSE g : Is(g)
<1>1. PICK g : RunsOf("refresh", e, q, g, L)
  BY LoopExists
<1>2. \A n \in 0 .. L : g[n] = IF n = 0 THEN e ELSE refresh_expiry(g[n - 1], q[n])
  <2>1. L \in Nat /\ g[0] = e
    BY <1>1 DEF RunsOf
  <2> HIDE DEF L
  <2>2. \A n \in 1 .. L : g[n] = refresh_expiry(g[n - 1], q[n])
    BY <1>1 DEF RunsOf, Round
  <2>3. \A n \in 0 .. L : n = 0 \/ n \in 1 .. L
    BY <2>1
  <2> QED BY <2>1, <2>2, <2>3
<1>3. Is(g)
  BY <1>1, <1>2 DEF RunsOf
<1>4. Is(h)
  <2> HIDE DEF Is
  <2> QED BY <1>3
<1>5. refresh_all(e, q) = h[L]
  BY DEF refresh_all
<1> HIDE DEF h
<1>6. h[0] = e /\ \A n \in 1 .. L : h[n] = refresh_expiry(h[n - 1], q[n])
  <2>1. L \in Nat
    OBVIOUS
  <2> HIDE DEF L
  <2>2. \A n \in 0 .. L : h[n] = IF n = 0 THEN e ELSE refresh_expiry(h[n - 1], q[n])
    BY <1>4
  <2>3. 0 \in 0 .. L /\ \A n \in 1 .. L : n \in 0 .. L /\ n # 0
    BY <2>1
  <2> QED BY <2>2, <2>3
<1> QED BY <1>5, <1>6

\* The loop of on_expiry_timer over the heap.
LEMMA PopLoop ==
  ASSUME NEW e, Cardinality(Due(e)) \in Nat
  PROVE  \E g : /\ g[0] = [eng |-> e, extended |-> <<>>]
                /\ pop_all_due(e) = g[Cardinality(Due(e))]
                /\ \A n \in 1 .. Cardinality(Due(e)) : g[n] = pop_due(g[n - 1])
<1> DEFINE L == Cardinality(Due(e))
           b == [eng |-> e, extended |-> <<>>]
           Is(g) == g = [n \in 0 .. L |-> IF n = 0 THEN b ELSE pop_due(g[n - 1])]
           h == CHOOSE g : Is(g)
<1>1. PICK g : RunsOf("pop", b, <<>>, g, L)
  <2> HIDE DEF b, L
  <2>1. L \in Nat
    BY DEF L
  <2> QED BY <2>1, LoopExists
<1>2. \A n \in 0 .. L : g[n] = IF n = 0 THEN b ELSE pop_due(g[n - 1])
  <2> HIDE DEF b
  <2>1. L \in Nat /\ g[0] = b
    BY <1>1 DEF RunsOf
  <2> HIDE DEF L
  <2>2. \A n \in 1 .. L : g[n] = pop_due(g[n - 1])
    BY <1>1 DEF RunsOf, Round
  <2>3. \A n \in 0 .. L : n = 0 \/ n \in 1 .. L
    BY <2>1
  <2> QED BY <2>1, <2>2, <2>3
<1>3. Is(g)
  <2> HIDE DEF b
  <2> QED BY <1>1, <1>2 DEF RunsOf
<1>4. Is(h)
  <2> HIDE DEF Is
  <2> QED BY <1>3
<1>5. pop_all_due(e) = h[L]
  BY DEF pop_all_due
<1> HIDE DEF h
<1>6. h[0] = b /\ \A n \in 1 .. L : h[n] = pop_due(h[n - 1])
  <2>1. L \in Nat
    OBVIOUS
  <2> HIDE DEF L, b
  <2>2. \A n \in 0 .. L : h[n] = IF n = 0 THEN b ELSE pop_due(h[n - 1])
    BY <1>4
  <2>3. 0 \in 0 .. L /\ \A n \in 1 .. L : n \in 0 .. L /\ n # 0
    BY <2>1
  <2> QED BY <2>2, <2>3
<1> QED BY <1>5, <1>6

\* What closing and refreshing sessions leaves alone.
Onward(e, f) ==
  /\ f.packets = e.packets /\ f.dropped = e.dropped /\ f.sends = e.sends /\ f.shut = e.shut
  /\ f.accs = e.accs /\ Sids(f) = Sids(e)
  /\ \A r \in Sids(e) : /\ f.sess[r].key = e.sess[r].key /\ f.sess[r].timeout = e.sess[r].timeout
                        /\ e.sess[r].closed => f.sess[r].closed

\* Nothing was changed.
LEMMA OnwardSelf ==
  ASSUME NEW e
  PROVE  Onward(e, e)
BY DEF Onward

\* Two such steps make one.
LEMMA OnwardTrans ==
  ASSUME NEW e, NEW f, NEW g, Onward(e, f), Onward(f, g)
  PROVE  Onward(e, g)
BY DEF Onward

\* The timer leaves it alone.
LEMMA OnwardQuiet ==
  ASSUME NEW e, NEW f, Quiet(e, f)
  PROVE  Onward(e, f)
BY DEF Onward, Quiet, Fixed, SameSession

\* remove_session leaves it alone, and closes one session only.
LEMMA OnwardRemove ==
  ASSUME NEW e, Shape(e), NEW s \in Sids(e), NEW f, f = remove_session(e, s)
  PROVE  /\ Onward(e, f) /\ f.sess[s].closed
         /\ \A r \in Sids(e) : r # s => f.sess[r].closed = e.sess[r].closed
<1>1. CASE e.sess[s].closed
  BY <1>1, RemoveNot, OnwardSelf
<1>2. CASE ~e.sess[s].closed
  <2>1. Removal(e, s, f) /\ Replaced(e, f, s, Closed(e.sess[s])) /\ Ended(e.sess[s], f.sess[s])
    BY <1>2, RemoveIs, RemoveSess
  <2>2. Sids(f) = Sids(e) /\ \A r \in Sids(e) : r # s => f.sess[r] = e.sess[r]
    BY <2>1 DEF Replaced
  <2>3. /\ f.packets = e.packets /\ f.dropped = e.dropped /\ f.sends = e.sends /\ f.shut = e.shut
        /\ f.accs = e.accs
    BY <2>1 DEF Removal, Aside
  <2>4. /\ f.sess[s].closed = TRUE /\ f.sess[s].key = e.sess[s].key
        /\ f.sess[s].timeout = e.sess[s].timeout
    BY <2>1 DEF Ended
  <2>5. f.sess[s].closed
    BY <2>4
  <2>6. \A r \in Sids(e) : /\ f.sess[r].key = e.sess[r].key /\ f.sess[r].timeout = e.sess[r].timeout
                           /\ e.sess[r].closed => f.sess[r].closed
    BY <2>2, <2>4, <2>5
  <2> QED BY <2>2, <2>3, <2>5, <2>6 DEF Onward
<1> QED BY <1>1, <1>2

\* remove_all closes every session.
LEMMA RemoveAllWhole ==
  ASSUME NEW e, NEW m, Whole(e, {}, m), NEW a, NEW t, Clock(e, a, t, {}),
         NEW f, f = remove_all(e)
  PROVE  /\ Whole(f, {}, m) /\ Clock(f, a, t, {}) /\ Onward(e, f)
         /\ \A s \in Sids(e) : f.sess[s].closed
<1> DEFINE L == Len(e.sess)
<1>1. Shape(e) /\ L \in Nat /\ Sids(e) = 1 .. L
  BY SeqIs DEF Whole, Sound, Shape, Sids
<1>2. PICK g : /\ g[0] = e /\ f = g[L]
               /\ \A n \in 1 .. L : g[n] = remove_session(g[n - 1], n)
  BY <1>1, RemoveLoop
<1> HIDE DEF L
<1> DEFINE P(x, n) == /\ Whole(x, {}, m) /\ Clock(x, a, t, {}) /\ Onward(e, x)
                      /\ \A s \in 1 .. n : x.sess[s].closed
           S == {n \in Nat : n <= L => P(g[n], n)}
<1>3. 0 \in S
  BY <1>2, OnwardSelf
<1>4. ASSUME NEW n \in Nat, n \in S PROVE n + 1 \in S
  <2> SUFFICES ASSUME n + 1 <= L PROVE P(g[n + 1], n + 1)
    OBVIOUS
  <2> DEFINE x == g[n]
             y == g[n + 1]
  <2>1. /\ Whole(x, {}, m) /\ Clock(x, a, t, {}) /\ Onward(e, x)
        /\ \A s \in 1 .. n : x.sess[s].closed
    BY <1>1, <1>4
  <2>2. y = remove_session(x, n + 1)
    <3>1. n + 1 \in 1 .. L /\ (n + 1) - 1 = n
      BY <1>1
    <3> QED BY <1>2, <3>1
  <2>3. n + 1 \in Sids(x) /\ Sids(x) = 1 .. L
    BY <1>1, <2>1 DEF Onward
  <2> HIDE DEF x, y
  <2>4. Whole(y, {}, m)
    BY <2>1, <2>2, <2>3, WholeRemove
  <2>5. Shape(x)
    BY <2>1 DEF Whole, Sound
  <2>6. Clock(y, a, t, {})
    BY <2>1, <2>2, <2>3, <2>5, RemoveClock
  <2>7. Onward(x, y) /\ y.sess[n + 1].closed
    BY <2>2, <2>3, <2>5, OnwardRemove
  <2>8. Onward(e, y)
    BY <2>1, <2>7, OnwardTrans
  <2>9. \A s \in 1 .. n + 1 : y.sess[s].closed
    <3> TAKE s \in 1 .. n + 1
    <3>1. CASE s = n + 1
      BY <3>1, <2>7
    <3>2. CASE s \in 1 .. n
      <4>1. s \in Sids(x) /\ x.sess[s].closed
        BY <3>2, <2>1, <2>3, <1>1
      <4> QED BY <4>1, <2>7 DEF Onward
    <3> QED BY <3>1, <3>2
  <2> QED BY <2>4, <2>6, <2>8, <2>9 DEF y
<1>5. Nat \subseteq S
  <2> HIDE DEF S
  <2> QED BY <1>3, <1>4, NatBySet
<1>6. P(g[L], L)
  BY <1>1, <1>5
<1> QED BY <1>1, <1>2, <1>6

\* Cancelling the timer.
LEMMA TimerCancelled ==
  ASSUME NEW e, NEW f, TimerOk(e), f.waiting = FALSE, f.target = e.target, f.wait_gen = e.wait_gen,
         f.waits = cancel_waits(e.waits)
  PROVE  TimerOk(f)
<1> DEFINE W == [gen : Nat, at : Nat, st : {"armed", "fired", "aborted"}]
<1> DEFINE C(w) == IF w.st = "armed" THEN [w EXCEPT !.st = "aborted"] ELSE w
<1>1. f.waits = {C(w) : w \in e.waits}
  BY DEF cancel_waits
<1>2. \A w \in W : C(w) \in W /\ C(w).gen = w.gen
  OBVIOUS
<1>3. \A w \in e.waits : w \in W /\ w.gen <= e.wait_gen
  BY DEF TimerOk
<1> HIDE DEF W, C
<1>4. \A v \in f.waits : v \in W /\ v.gen <= e.wait_gen
  BY <1>1, <1>2, <1>3
<1>5. ASSUME NEW v \in f.waits, NEW w \in f.waits, v.gen = w.gen PROVE v = w
  <2>1. PICK x \in e.waits, y \in e.waits : v = C(x) /\ w = C(y)
    BY <1>1
  <2>2. x.gen = y.gen
    BY <2>1, <1>2, <1>3, <1>5
  <2>3. x = y
    BY <2>2 DEF TimerOk
  <2> QED BY <2>1, <2>3
<1>6. e.wait_gen \in Nat /\ e.target \in Nat
  BY DEF TimerOk
<1>7. f.waits \subseteq W
  BY <1>4
<1> QED BY <1>4, <1>5, <1>6, <1>7 DEF TimerOk, W

\* close_all: no session is open, no accept waits, and the heap is empty.
LEMMA CloseAllWhole ==
  ASSUME NEW e, NEW m, Whole(e, {}, m), NEW a, NEW t, Clock(e, a, t, {}), NEW f, f = close_all(e)
  PROVE  /\ Whole(f, {}, m) /\ Clock(f, a, t, {}) /\ Armed(f)
         /\ f.packets = e.packets /\ f.dropped = e.dropped /\ f.sends = e.sends
         /\ Sids(f) = Sids(e) /\ DOMAIN f = EngFields
         /\ \A s \in Sids(e) : f.sess[s].closed /\ f.sess[s].key = e.sess[s].key
<1> DEFINE c == [e EXCEPT !.waits = cancel_waits(@), !.waiting = FALSE]
           r == remove_all(c)
           p == [r EXCEPT !.pending = <<>>]
           k == cancel_accepts(p)
<1>1. DOMAIN e = EngFields
  BY DEF Whole, Sound, Shape
<1>2. /\ DOMAIN c = EngFields /\ c.sess = e.sess /\ c.ops = e.ops /\ c.pending = e.pending
      /\ c.waiters = e.waiters /\ c.accs = e.accs /\ c.sessions = e.sessions
      /\ c.count = e.count /\ c.packets = e.packets /\ c.dropped = e.dropped /\ c.used = e.used
      /\ c.sends = e.sends /\ c.heap = e.heap /\ c.waiting = FALSE /\ c.target = e.target
      /\ c.wait_gen = e.wait_gen /\ c.waits = cancel_waits(e.waits)
  BY <1>1 DEF EngFields
<1>3. f = [k EXCEPT !.heap = {}]
  BY DEF close_all
<1> HIDE DEF c
<1>4. Whole(c, {}, m)
  BY <1>2, WholeSame
<1>5. Clock(c, a, t, {})
  <2>1. TimerOk(c)
    BY <1>2, TimerCancelled DEF Clock
  <2>2. Sids(c) = Sids(e) /\ \A s \in Sids(e) : SameClock(e.sess[s], c.sess[s])
    BY <1>2 DEF Sids, SameClock
  <2> QED BY <1>2, <2>1, <2>2, ClockFewer
<1>6. /\ Whole(r, {}, m) /\ Clock(r, a, t, {}) /\ Onward(c, r)
      /\ \A s \in Sids(c) : r.sess[s].closed
  BY <1>4, <1>5, RemoveAllWhole
<1> HIDE DEF r
<1>7. Sids(c) = Sids(e) /\ Sids(r) = Sids(e)
  BY <1>2, <1>6 DEF Sids, Onward
<1>8. Open(r) = {}
  BY <1>6, <1>7 DEF Open
<1>9. DOMAIN r = EngFields /\ r.pending = <<>>
  <2>1. Shape(r) /\ IsSeq(r.pending) /\ ToSet(r.pending) = {}
    BY <1>6, <1>8 DEF Whole, Sound, Accepts, Listed
  <2>2. Len(r.pending) \in Nat /\ ~(\E i \in 1 .. Len(r.pending) : TRUE)
    BY <2>1, SeqMembers, SeqIs
  <2>3. Len(r.pending) = 0
    BY <2>2
  <2> QED BY <2>1, <2>3, SeqMembers DEF Shape
<1>10. /\ DOMAIN p = EngFields /\ p.sess = r.sess /\ p.ops = r.ops /\ p.pending = r.pending
       /\ p.waiters = r.waiters /\ p.accs = r.accs /\ p.sessions = r.sessions
       /\ p.count = r.count /\ p.packets = r.packets /\ p.dropped = r.dropped
       /\ p.used = r.used /\ Aside(r, p)
  BY <1>9 DEF EngFields, Aside
<1> HIDE DEF p
<1>11. Whole(p, {}, m)
  BY <1>6, <1>10, WholeSame
<1>12. Whole(k, {}, m) /\ AcceptOnly(p, k) /\ k.sess = p.sess
  BY <1>11, WholeCancel
<1> HIDE DEF k
<1>13. DOMAIN k = EngFields
  BY <1>12 DEF AcceptOnly
<1>14. /\ DOMAIN f = EngFields /\ f.sess = k.sess /\ f.ops = k.ops /\ f.pending = k.pending
       /\ f.waiters = k.waiters /\ f.accs = k.accs /\ f.sessions = k.sessions
       /\ f.count = k.count /\ f.packets = k.packets /\ f.dropped = k.dropped /\ f.used = k.used
       /\ f.sends = k.sends /\ f.heap = {} /\ f.waiting = k.waiting /\ f.target = k.target
       /\ f.wait_gen = k.wait_gen /\ f.waits = k.waits
  BY <1>3, <1>13 DEF EngFields
<1>15. Whole(f, {}, m)
  BY <1>12, <1>14, WholeSame
<1>16. /\ f.waiting = r.waiting /\ f.target = r.target /\ f.wait_gen = r.wait_gen
       /\ f.waits = r.waits /\ f.sess = r.sess /\ f.sends = r.sends
       /\ f.packets = r.packets /\ f.dropped = r.dropped
  BY <1>10, <1>12, <1>14 DEF AcceptOnly, Aside
<1>17. Clock(f, a, t, {})
  <2>1. TimerOk(f)
    BY <1>6, <1>16 DEF Clock, TimerOk
  <2>2. Sids(f) = Sids(r) /\ \A s \in Sids(r) : SameClock(r.sess[s], f.sess[s])
    BY <1>16 DEF Sids, SameClock
  <2>3. \A x \in r.heap : x.sid \in Sids(r)
    BY <1>6 DEF Clock, HeapOk, Entries
  <2>4. \A x \in r.heap : ~LiveEntry(r, x)
    BY <1>6, <1>7, <2>3 DEF LiveEntry
  <2>5. f.heap \subseteq r.heap
    BY <1>14
  <2> QED BY <1>6, <2>1, <2>2, <2>4, <2>5, ClockFewer
<1>18. Armed(f)
  BY <1>14 DEF Armed
<1>19. /\ f.packets = e.packets /\ f.dropped = e.dropped /\ f.sends = e.sends
       /\ Sids(f) = Sids(e) /\ \A s \in Sids(e) : f.sess[s].closed /\ f.sess[s].key = e.sess[s].key
  BY <1>2, <1>6, <1>7, <1>16 DEF Onward, Sids
<1> QED BY <1>14, <1>15, <1>17, <1>18, <1>19

-----------------------------------------------------------------------------
(* on_expiry_timer. *)

\* The entry x left the heap, and only its session s was changed.
Popped(e, f, x, s, X, Y) ==
  /\ x \in e.heap /\ s = x.sid /\ f.heap = e.heap \ {x} /\ TimerOk(f) /\ Sids(f) = Sids(e)
  /\ \A r \in Sids(e) : r # s => SameClock(e.sess[r], f.sess[r]) /\ (r \in X <=> r \in Y)
  /\ f.sess[s].gen = e.sess[s].gen

\* The top of the heap leaves it: what its session needs is shown apart.
LEMMA PopRest ==
  ASSUME NEW e, NEW f, NEW a, NEW t, NEW X, NEW Y, Clock(e, a, t, X), NEW x, NEW s,
         Popped(e, f, x, s, X, Y), SessTimed(f.heap, f.sess[s], s, a[s], t, Y)
  PROVE  Clock(f, a, t, Y)
<1>6. /\ x \in e.heap /\ s = x.sid /\ f.heap = e.heap \ {x} /\ TimerOk(f) /\ Sids(f) = Sids(e)
      /\ \A r \in Sids(e) : r # s => SameClock(e.sess[r], f.sess[r]) /\ (r \in X <=> r \in Y)
      /\ f.sess[s].gen = e.sess[s].gen
  BY DEF Popped
<1>1. \A r \in Sids(e) : f.sess[r].gen = e.sess[r].gen
  BY <1>6 DEF SameClock
<1>2. HeapOk(f)
  BY <1>6, <1>1, HeapFewer DEF Clock
<1>3. ASSUME NEW r \in Sids(e), r # s PROVE SessTimed(f.heap, f.sess[r], r, a[r], t, Y)
  <2>1. /\ SessTimed(e.heap, e.sess[r], r, a[r], t, X) /\ SameClock(e.sess[r], f.sess[r])
        /\ r \in X <=> r \in Y
    BY <1>6, <1>3 DEF Clock
  <2>2. /\ \A z \in f.heap : z.sid = r => z \in e.heap
        /\ \A z \in e.heap : z.sid = r /\ z.gen = e.sess[r].gen => z \in f.heap
    BY <1>6, <1>3
  <2> QED BY <2>1, <2>2, SessFewer
<1>4. \A r \in Sids(f) : SessTimed(f.heap, f.sess[r], r, a[r], t, Y)
  BY <1>6, <1>3
<1>5. t \in Nat /\ \A z \in f.heap : t <= z.at + Late
  BY <1>6 DEF Clock
<1> QED BY <1>6, <1>2, <1>4, <1>5 DEF Clock

\* The entry x is the valid one of the session c, which was found in use.
FoundUsed(H, c, s, x) ==
  /\ ~c.closed /\ x \in H /\ x.sid = s /\ x.gen = c.gen /\ x.at \in Nat /\ x.at <= now
  /\ ~(c.expiry <= now) /\ \A z \in H : z.sid = s /\ z.gen = c.gen => z = x

\* It has no entry any more.
Unpushed(c, d) ==
  /\ d.closed = c.closed /\ d.timeout = c.timeout /\ d.expiry = c.expiry /\ d.gen = c.gen
  /\ d.last_push = c.last_push /\ d.heap_live = FALSE

\* The session was used meanwhile: it is about to be pushed again.  Its entry
\* is older than its expiry, so that it was used less than a timeout ago.
LEMMA PopExtended ==
  ASSUME NEW H, NEW K, NEW c, NEW d, NEW s, NEW u, NEW X, NEW Y, now \in Nat,
         SessTimed(H, c, s, u, now, X), NEW x, FoundUsed(H, c, s, x), K = H \ {x}, s \in Y,
         Unpushed(c, d)
  PROVE  SessTimed(K, d, s, u, now, Y) /\ s \notin X
<1> USE DEF FoundUsed, Unpushed
<1>1. SessClock(c, now) /\ Pushes(H, c, s) /\ EntryOk(H, c, s, X) /\ Used(H, c, s, u, now, X)
  BY DEF SessTimed
<1>2. s \notin X
  BY <1>1 DEF EntryOk
<1>3. c.expiry \in Nat /\ c.timeout \in Nat
  BY <1>1, LongestIs DEF SessClock
<1>4. c.expiry <= u + c.timeout /\ u \in Nat
  <2>1. x.at # c.expiry
    BY <1>3
  <2> QED BY <1>1, <2>1 DEF Used
<1>5. now <= u + d.timeout
  BY <1>3, <1>4
<1>6. SessClock(d, now)
  <2>1. d.heap_live \in BOOLEAN
    BY Zenon
  <2> QED BY <1>1, <2>1 DEF SessClock
<1>7. Pushes(K, d, s)
  <2>1. PICK p \in [Nat -> Nat] : PushTimes(H, c, s, p)
    BY <1>1 DEF Pushes
  <2>2. PushTimes(K, d, s, p)
    BY <2>1 DEF PushTimes
  <2> QED BY <2>2 DEF Pushes
<1>8. EntryOk(K, d, s, Y)
  BY DEF EntryOk
<1>9. Used(K, d, s, u, now, Y)
  <2>1. \A z \in K : ~(z.sid = s /\ z.gen = d.gen)
    OBVIOUS
  <2> QED BY <1>1, <1>5, <2>1 DEF Used
<1> QED BY <1>2, <1>6, <1>7, <1>8, <1>9 DEF SessTimed

\* The entry on top of the heap is the first that is due.
LEMMA TopDue ==
  ASSUME NEW e, HeapOk(e), Due(e) # {}
  PROVE  Top(Due(e)) \in Due(e)
<1> DEFINE D == Due(e)
           T == {x.at : x \in D}
<1>1. T \subseteq Nat /\ T # {}
  BY DEF HeapOk, Entries, Due
<1>2. Min(T) \in T /\ \A y \in T : Min(T) <= y
  BY <1>1, NatLeast
<1>3. PICK x \in D : x.at = Min(T)
  BY <1>2
<1>4. \A y \in D : x.at <= y.at
  BY <1>2, <1>3
<1> HIDE DEF D
<1> QED BY <1>4 DEF Top, D

\* What pop_due does with the top.
PopDone(e, q, x, p, y) ==
  /\ DOMAIN y = {"eng", "extended"}
  /\ ~LiveEntry(e, x) => y.eng = p /\ y.extended = q
  /\ LiveEntry(e, x) /\ e.sess[x.sid].expiry <= now =>
       y.eng = remove_session(p, x.sid) /\ y.extended = q
  /\ LiveEntry(e, x) /\ ~(e.sess[x.sid].expiry <= now) =>
       /\ y.eng = [p EXCEPT !.sess[x.sid].heap_live = FALSE]
       /\ y.extended = Add(q, x.sid)

\* Its three cases: a stale entry, a session past its expiry, one in use.
LEMMA PopIs ==
  ASSUME NEW r, DOMAIN r = {"eng", "extended"}, NEW y, y = pop_due(r)
  PROVE  PopDone(r.eng, r.extended, Top(Due(r.eng)),
                 [r.eng EXCEPT !.heap = @ \ {Top(Due(r.eng))}], y)
BY DEF pop_due, Add, PopDone

\* One round of the loop.
Popping(e, q, a, m) ==
  /\ Whole(e, {}, m) /\ Clock(e, a, now, ToSet(q))
  /\ IsSeq(q) /\ Distinct(q) /\ ToSet(q) \subseteq Sids(e)

\* A session that the timer closed was not used for its timeout.
Idle(e, f, a) ==
  \A s \in Sids(e) : f.sess[s].closed /\ ~e.sess[s].closed => a[s] + e.sess[s].timeout <= now

\* One entry that was due leaves the heap, and its session closes only when idle.
LEMMA PopStep ==
  ASSUME NEW r, DOMAIN r = {"eng", "extended"}, NEW e, e = r.eng, NEW q, q = r.extended,
         NEW a, NEW m, Popping(e, q, a, m), Due(e) # {}, NEW y, y = pop_due(r)
  PROVE  /\ DOMAIN y = {"eng", "extended"} /\ Popping(y.eng, y.extended, a, m)
         /\ Onward(e, y.eng) /\ Idle(e, y.eng, a)
         /\ \E x \in Due(e) : Due(y.eng) = Due(e) \ {x}
<1> DEFINE x == Top(Due(e))
           p == [e EXCEPT !.heap = @ \ {x}]
           f == y.eng
<1>1. /\ Whole(e, {}, m) /\ Clock(e, a, now, ToSet(q)) /\ IsSeq(q) /\ Distinct(q)
      /\ ToSet(q) \subseteq Sids(e) /\ Shape(e) /\ DOMAIN e = EngFields
      /\ HeapOk(e) /\ TimerOk(e) /\ now \in Nat
  BY DEF Popping, Whole, Sound, Shape, Clock
<1>2. x \in Due(e)
  BY <1>1, TopDue
<1>3. x \in e.heap /\ x.at <= now /\ x.at \in Nat /\ x.sid \in Sids(e)
  BY <1>1, <1>2 DEF Due, HeapOk, Entries
<1>4. /\ DOMAIN p = EngFields /\ p.heap = e.heap \ {x} /\ p.sess = e.sess /\ p.ops = e.ops
      /\ p.pending = e.pending /\ p.waiters = e.waiters /\ p.accs = e.accs
      /\ p.sessions = e.sessions /\ p.count = e.count /\ p.packets = e.packets
      /\ p.dropped = e.dropped /\ p.sends = e.sends /\ p.shut = e.shut /\ p.used = e.used
      /\ p.waiting = e.waiting /\ p.target = e.target /\ p.wait_gen = e.wait_gen
      /\ p.waits = e.waits
  BY <1>1 DEF EngFields
<1>5. /\ DOMAIN y = {"eng", "extended"}
      /\ ~LiveEntry(e, x) => y.eng = p /\ y.extended = q
      /\ LiveEntry(e, x) /\ e.sess[x.sid].expiry <= now =>
           y.eng = remove_session(p, x.sid) /\ y.extended = q
      /\ LiveEntry(e, x) /\ ~(e.sess[x.sid].expiry <= now) =>
           /\ y.eng = [p EXCEPT !.sess[x.sid].heap_live = FALSE]
           /\ y.extended = Add(q, x.sid)
  <2>1. PopDone(r.eng, r.extended, Top(Due(r.eng)),
                [r.eng EXCEPT !.heap = @ \ {Top(Due(r.eng))}], y)
    BY PopIs
  <2>2. PopDone(e, q, x, p, y)
    BY ONLY <2>1, e = r.eng, q = r.extended
  <2> HIDE DEF x, p
  <2> QED BY <2>2 DEF PopDone
<1> HIDE DEF x, p
<1> DEFINE s == x.sid
<1>6. Whole(p, {}, m) /\ Shape(p) /\ Sids(p) = Sids(e)
  BY <1>1, <1>4, WholeSame DEF Whole, Sound, Sids
<1>7. Onward(e, p)
  BY <1>4 DEF Onward, Sids
<1>8. ASSUME f.heap = p.heap PROVE \E z \in Due(e) : Due(f) = Due(e) \ {z}
  BY <1>2, <1>4, <1>8 DEF Due
<1>9. CASE ~LiveEntry(e, x)
  <2>1. f = p /\ y.extended = q
    BY <1>5, <1>9
  <2>2. TimerOk(p) /\ \A i \in Sids(e) : SameClock(e.sess[i], p.sess[i])
    BY <1>1, <1>4 DEF TimerOk, SameClock
  <2>3. \A z \in e.heap : LiveEntry(e, z) => z \in p.heap
    BY <1>4, <1>9
  <2>4. p.heap \subseteq e.heap
    BY <1>4
  <2>5. Clock(p, a, now, ToSet(q))
    BY <1>1, <1>6, <2>2, <2>3, <2>4, ClockFewer
  <2>6. Popping(f, y.extended, a, m)
    BY <1>1, <1>6, <2>1, <2>5 DEF Popping
  <2>7. Idle(e, f, a)
    BY <1>4, <2>1 DEF Idle
  <2> QED BY <1>5, <1>7, <1>8, <2>1, <2>6, <2>7
<1>10. LiveEntry(e, x) => /\ ~e.sess[s].closed /\ e.sess[s].gen = x.gen
                          /\ SessTimed(e.heap, e.sess[s], s, a[s], now, ToSet(q))
  BY <1>1, <1>3 DEF LiveEntry, Clock
<1> HIDE DEF s
<1>11. s \in Sids(e) /\ s \in Sids(p) /\ s = x.sid
  BY <1>3, <1>6 DEF s
<1>12. CASE LiveEntry(e, x) /\ e.sess[s].expiry <= now
  <2>1. f = remove_session(p, s) /\ y.extended = q
    BY <1>5, <1>12 DEF s
  <2>2. ~p.sess[s].closed
    BY <1>4, <1>10, <1>12
  <2>3. Whole(f, {}, m)
    BY <1>6, <1>11, <2>1, WholeRemove
  <2>4. Removal(p, s, f) /\ Replaced(p, f, s, Closed(p.sess[s])) /\ Ended(p.sess[s], f.sess[s])
    BY <1>6, <1>11, <2>1, <2>2, RemoveIs, RemoveSess
  <2>5. Sids(f) = Sids(e) /\ \A i \in Sids(e) : i # s => f.sess[i] = e.sess[i]
    BY <1>4, <1>6, <2>4 DEF Replaced
  <2>6. GoneClock(e.sess[s], f.sess[s])
    BY <1>4, <2>4 DEF Ended, GoneClock
  <2>7. Aside(p, f)
    BY <2>4 DEF Removal
  <2>8. TimerOk(f) /\ f.heap = e.heap \ {x}
    BY <1>1, <1>4, <2>7 DEF TimerOk, Aside
  <2>9. SessTimed(f.heap, f.sess[s], s, a[s], now, ToSet(q))
    <3>1. NoneNew(f.heap, e.heap, s)
      BY <2>8 DEF NoneNew
    <3> QED BY <1>10, <1>12, <2>6, <3>1, SessGone
  <2>10. Clock(f, a, now, ToSet(q))
    <3>1. \A i \in Sids(e) : i # s => SameClock(e.sess[i], f.sess[i])
      BY <2>5 DEF SameClock
    <3>2. f.sess[s].gen = e.sess[s].gen
      BY <2>6 DEF GoneClock
    <3>3. Popped(e, f, x, s, ToSet(q), ToSet(q))
      BY <1>3, <1>11, <2>5, <2>8, <3>1, <3>2 DEF Popped
    <3> QED BY <1>1, <2>9, <3>3, PopRest
  <2>11. Popping(f, y.extended, a, m)
    BY <1>1, <2>1, <2>3, <2>5, <2>10 DEF Popping
  <2>12. Onward(p, f)
    BY <1>6, <1>11, <2>1, OnwardRemove
  <2>13. Idle(e, f, a)
    <3>1. Used(e.heap, e.sess[s], s, a[s], now, ToSet(q)) /\ SessClock(e.sess[s], now)
      BY <1>10, <1>12 DEF SessTimed
    <3>2. /\ a[s] \in Nat /\ a[s] + e.sess[s].timeout <= e.sess[s].expiry
          /\ e.sess[s].expiry \in Nat /\ e.sess[s].timeout \in Nat
      BY <3>1, LongestIs DEF Used, SessClock
    <3>3. a[s] + e.sess[s].timeout <= now
      BY <1>1, <1>12, <3>2
    <3> QED BY <2>5, <3>3 DEF Idle
  <2>14. f.heap = p.heap
    BY <1>4, <2>8
  <2> QED BY <1>5, <1>7, <1>8, <2>11, <2>12, <2>13, <2>14, OnwardTrans
<1>13. CASE LiveEntry(e, x) /\ ~(e.sess[s].expiry <= now)
  <2> DEFINE c == e.sess[s]
             d == [c EXCEPT !.heap_live = FALSE]
  <2>1. f = [p EXCEPT !.sess[s].heap_live = FALSE] /\ y.extended = Add(q, s)
    BY <1>5, <1>13 DEF s
  <2>2. DOMAIN c = SessFields /\ s \in DOMAIN p.sess /\ c = p.sess[s]
    BY <1>1, <1>4, <1>11 DEF Shape, Sids
  <2>3. f.sess = Put(p.sess, s, d) /\ Fixed(p, f) /\ f.heap = p.heap /\ f.waiting = p.waiting
        /\ f.target = p.target /\ f.wait_gen = p.wait_gen /\ f.waits = p.waits
    BY <1>4, <2>1, <2>2 DEF EngFields, Put, Fixed
  <2>4. /\ SameSession(c, d) /\ d.heap_live = FALSE /\ d.expiry = c.expiry /\ d.gen = c.gen
        /\ d.last_push = c.last_push /\ d.closed = c.closed /\ d.timeout = c.timeout
    BY <2>2 DEF SameSession, SessFields
  <2> HIDE DEF d
  <2>5. Quiet(p, f) /\ Replaced(p, f, s, d)
    BY <1>6, <1>11, <2>2, <2>3, <2>4, OneSession
  <2>6. Whole(f, {}, m)
    BY <1>6, <2>5, WholeQuiet
  <2>7. Sids(f) = Sids(e) /\ f.sess[s] = d /\ \A i \in Sids(e) : i # s => f.sess[i] = e.sess[i]
    BY <1>4, <1>6, <2>5 DEF Replaced
  <2>8. \A z \in e.heap : z.sid = s /\ z.gen = c.gen => z = x
    <3>1. x.sid = s /\ x.gen = c.gen
      BY <1>10, <1>11, <1>13
    <3> QED BY <1>1, <1>3, <3>1 DEF HeapOk
  <2> DEFINE Y == ToSet(y.extended)
  <2>9. IsSeq(y.extended) /\ Y = ToSet(q) \cup {s}
    <3> HIDE DEF f
    <3> QED BY <1>1, <2>1, SeqAppend
  <2>10. SessTimed(f.heap, d, s, a[s], now, Y) /\ s \notin ToSet(q)
    <3>1. f.heap = e.heap \ {x} /\ s \in Y
      BY <1>4, <2>3, <2>9
    <3>2. ~c.closed /\ x.sid = s /\ x.gen = c.gen /\ SessTimed(e.heap, c, s, a[s], now, ToSet(q))
      BY <1>10, <1>11, <1>13
    <3>3. ~(c.expiry <= now)
      BY <1>13
    <3>4. FoundUsed(e.heap, c, s, x) /\ Unpushed(c, d)
      BY <1>3, <2>4, <2>8, <3>2, <3>3 DEF FoundUsed, Unpushed
    <3> HIDE DEF c, Y, f
    <3> QED BY <1>1, <3>1, <3>2, <3>4, PopExtended
  <2>11. Clock(f, a, now, Y)
    <3>1. \A i \in Sids(e) : i # s => SameClock(e.sess[i], f.sess[i]) /\ (i \in ToSet(q) <=> i \in Y)
      BY <2>7, <2>9 DEF SameClock
    <3>2. f.sess[s].gen = e.sess[s].gen /\ SessTimed(f.heap, f.sess[s], s, a[s], now, Y)
      BY <2>4, <2>7, <2>10
    <3>3. TimerOk(f) /\ f.heap = e.heap \ {x}
      BY <1>1, <1>4, <2>3 DEF TimerOk
    <3>4. Popped(e, f, x, s, ToSet(q), Y)
      BY <1>3, <1>11, <2>7, <3>1, <3>2, <3>3 DEF Popped
    <3> HIDE DEF Y, f
    <3> QED BY <1>1, <3>2, <3>4, PopRest
  <2>12. Distinct(y.extended)
    BY <1>1, <2>1, <2>10, DistinctAdd
  <2>13. Popping(f, y.extended, a, m)
    BY <1>1, <1>11, <2>6, <2>7, <2>9, <2>11, <2>12 DEF Popping
  <2>14. Onward(e, f)
    BY <1>7, <2>5, OnwardQuiet, OnwardTrans
  <2>15. Idle(e, f, a)
    BY <2>4, <2>7 DEF Idle
  <2> QED BY <1>5, <1>8, <2>3, <2>13, <2>14, <2>15
<1> QED BY <1>9, <1>12, <1>13

\* Two such steps make one.
LEMMA IdleTrans ==
  ASSUME NEW e, NEW f, NEW g, NEW a, Onward(e, f), Idle(e, f, a), Idle(f, g, a)
  PROVE  Idle(e, g, a)
BY DEF Onward, Idle

\* What the loop has done when k entries are still due.
PopState(r, e, a, m, k) ==
  /\ DOMAIN r = {"eng", "extended"} /\ Popping(r.eng, r.extended, a, m)
  /\ Onward(e, r.eng) /\ Idle(e, r.eng, a)
  /\ IsFiniteSet(Due(r.eng)) /\ Cardinality(Due(r.eng)) = k

\* One round of it.
LEMMA PopOne ==
  ASSUME NEW r, NEW e, NEW a, NEW m, NEW k \in Nat, k > 0, PopState(r, e, a, m, k),
         NEW y, y = pop_due(r)
  PROVE  PopState(y, e, a, m, k - 1)
<1> DEFINE d == r.eng
           q == r.extended
<1>1. /\ DOMAIN r = {"eng", "extended"} /\ Popping(d, q, a, m) /\ Onward(e, d) /\ Idle(e, d, a)
      /\ IsFiniteSet(Due(d)) /\ Cardinality(Due(d)) = k
  BY DEF PopState
<1>2. Due(d) # {}
  BY <1>1, FS_EmptySet
<1>3. d = r.eng /\ q = r.extended
  OBVIOUS
<1> HIDE DEF d, q
<1>4. /\ DOMAIN y = {"eng", "extended"} /\ Popping(y.eng, y.extended, a, m)
      /\ Onward(d, y.eng) /\ Idle(d, y.eng, a)
      /\ \E x \in Due(d) : Due(y.eng) = Due(d) \ {x}
  BY <1>1, <1>2, <1>3, PopStep
<1>5. PICK x \in Due(d) : Due(y.eng) = Due(d) \ {x}
  BY <1>4
<1>6. IsFiniteSet(Due(y.eng)) /\ Cardinality(Due(y.eng)) = k - 1
  BY <1>1, <1>5, FS_RemoveElement
<1>7. Onward(e, y.eng)
  BY <1>1, <1>4, OnwardTrans
<1>8. Idle(e, y.eng, a)
  BY <1>1, <1>4, IdleTrans
<1> QED BY <1>4, <1>6, <1>7, <1>8 DEF PopState

\* The loop: afterwards nothing is due, and the sessions in use are noted.
LEMMA PopAll ==
  ASSUME NEW e, NEW a, NEW m, Whole(e, {}, m), Clock(e, a, now, {}), NEW r, r = pop_all_due(e)
  PROVE  Popping(r.eng, r.extended, a, m) /\ Onward(e, r.eng) /\ Idle(e, r.eng, a)
<1> DEFINE L == Cardinality(Due(e))
<1>1. IsFiniteSet(Due(e)) /\ L \in Nat
  <2>1. IsFiniteSet(e.heap) /\ Due(e) \subseteq e.heap
    BY DEF Clock, HeapOk, Due
  <2> QED BY <2>1, FS_Subset, FS_CardinalityType
<1>2. PICK g : /\ g[0] = [eng |-> e, extended |-> <<>>] /\ r = g[L]
               /\ \A n \in 1 .. L : g[n] = pop_due(g[n - 1])
  BY <1>1, PopLoop
<1>3. Popping(e, <<>>, a, m) /\ Onward(e, e) /\ Idle(e, e, a)
  <2>1. IsSeq(<<>>) /\ Distinct(<<>>) /\ ToSet(<<>>) = {}
    BY SeqEmpty DEF Distinct
  <2> QED BY <2>1, OnwardSelf DEF Popping, Idle
<1>4. PopState(g[0], e, a, m, L)
  <2>1. g[0].eng = e /\ g[0].extended = <<>> /\ DOMAIN g[0] = {"eng", "extended"}
    BY <1>2
  <2> QED BY <1>1, <1>3, <2>1 DEF PopState
<1> HIDE DEF L
<1> DEFINE S == {n \in Nat : n <= L => PopState(g[n], e, a, m, L - n)}
<1>5. 0 \in S
  <2>1. L - 0 = L
    BY <1>1
  <2> QED BY <1>4, <2>1
<1>6. ASSUME NEW n \in Nat, n \in S PROVE n + 1 \in S
  <2> SUFFICES ASSUME n + 1 <= L PROVE PopState(g[n + 1], e, a, m, L - (n + 1))
    OBVIOUS
  <2>1. n <= L /\ L - n \in Nat /\ L - n > 0 /\ (L - n) - 1 = L - (n + 1)
        /\ n + 1 \in 1 .. L /\ (n + 1) - 1 = n
    BY <1>1
  <2>2. PopState(g[n], e, a, m, L - n)
    BY <1>6, <2>1
  <2>3. g[n + 1] = pop_due(g[n])
    BY <1>2, <2>1
  <2>4. PopState(g[n + 1], e, a, m, (L - n) - 1)
    <3> HIDE DEF S
    <3> QED BY <2>1, <2>2, <2>3, PopOne
  <2> QED BY <2>1, <2>4
<1>7. Nat \subseteq S
  <2> HIDE DEF S
  <2> QED BY <1>5, <1>6, NatBySet
<1>8. PopState(g[L], e, a, m, L - L)
  BY <1>1, <1>7
<1> QED BY <1>2, <1>8 DEF PopState

\* The sessions in q after the n-th.
After(q, n) == {q[i] : i \in n + 1 .. Len(q)}

\* They are fewer by one after each round.
LEMMA AfterIs ==
  ASSUME NEW q, IsSeq(q), Distinct(q)
  PROVE  /\ After(q, 0) = ToSet(q) /\ After(q, Len(q)) = {}
         /\ \A n \in Nat : n + 1 <= Len(q) =>
              /\ q[n + 1] \in After(q, n) /\ q[n + 1] \in ToSet(q)
              /\ After(q, n + 1) = After(q, n) \ {q[n + 1]}
<1>1. Len(q) \in Nat /\ DOMAIN q = 1 .. Len(q)
  BY SeqIs
<1>2. \A x : x \in ToSet(q) <=> \E i \in 1 .. Len(q) : q[i] = x
  BY SeqMembers
<1> DEFINE L == Len(q)
<1>3. \A n, x : x \in After(q, n) <=> \E i \in n + 1 .. L : q[i] = x
  BY DEF After
<1>4. L \in Nat /\ DOMAIN q = 1 .. L
  BY <1>1
<1>5. \A i, j \in 1 .. L : q[i] = q[j] => i = j
  BY <1>4 DEF Distinct
<1>6. \A x : x \in ToSet(q) <=> \E i \in 1 .. L : q[i] = x
  BY <1>2
<1> HIDE DEF L
<1>7. After(q, 0) = ToSet(q)
  <2>1. 0 + 1 .. L = 1 .. L
    BY <1>4
  <2>2. \A x : x \in After(q, 0) <=> \E i \in 1 .. L : q[i] = x
    BY <1>3, <2>1, Zenon
  <2>3. ASSUME NEW x PROVE x \in After(q, 0) <=> x \in ToSet(q)
    BY <1>6, <2>2, Zenon
  <2> QED BY <2>3, Zenon
<1>8. After(q, L) = {}
  <2>1. L + 1 .. L = {}
    BY <1>4
  <2> QED BY <1>3, <2>1
<1>9. ASSUME NEW n \in Nat, n + 1 <= L
      PROVE  /\ q[n + 1] \in After(q, n) /\ q[n + 1] \in ToSet(q)
             /\ After(q, n + 1) = After(q, n) \ {q[n + 1]}
  <2>1. n + 1 \in n + 1 .. L /\ n + 1 \in 1 .. L
    BY <1>4, <1>9
  <2>2. \A i : i \in (n + 1) + 1 .. L <=> i \in n + 1 .. L /\ i # n + 1
    BY <1>4
  <2>3. \A i \in n + 1 .. L : i \in 1 .. L
    BY <1>4
  <2>4. ASSUME NEW x PROVE x \in After(q, n + 1) <=> x \in After(q, n) \ {q[n + 1]}
    <3>1. ASSUME x \in After(q, n + 1) PROVE x \in After(q, n) \ {q[n + 1]}
      <4>1. PICK i \in (n + 1) + 1 .. L : q[i] = x
        BY <1>3, <3>1
      <4>2. i \in n + 1 .. L /\ i # n + 1 /\ i \in 1 .. L
        BY <2>2, <2>3, <4>1
      <4> QED BY ONLY <1>3, <1>5, <2>1, <4>1, <4>2
    <3>2. ASSUME x \in After(q, n) \ {q[n + 1]} PROVE x \in After(q, n + 1)
      <4>1. PICK i \in n + 1 .. L : q[i] = x
        BY <1>3, <3>2
      <4>2. i # n + 1
        BY <4>1, <3>2
      <4> QED BY <1>3, <2>2, <4>1, <4>2
    <3> QED BY <3>1, <3>2
  <2> QED BY <1>3, <1>6, <2>1, <2>4
<1> QED BY <1>7, <1>8, <1>9 DEF L

\* What the loop has done while X are still to be pushed.
Refreshed(e, f, a, m, X) ==
  Whole(f, {}, m) /\ Clock(f, a, now, X) /\ Quiet(e, f)

\* The sessions that were noted are pushed again.
LEMMA RefreshAll ==
  ASSUME NEW e, NEW q, NEW a, NEW m, Popping(e, q, a, m), NEW f, f = refresh_all(e, q)
  PROVE  Whole(f, {}, m) /\ Clock(f, a, now, {}) /\ Quiet(e, f)
<1> DEFINE L == Len(q)
<1>1. /\ Whole(e, {}, m) /\ Clock(e, a, now, ToSet(q))
      /\ IsSeq(q) /\ Distinct(q) /\ ToSet(q) \subseteq Sids(e)
  BY DEF Popping
<1>2. L \in Nat
  BY <1>1, SeqIs
<1>3. PICK g : /\ g[0] = e /\ f = g[L]
               /\ \A n \in 1 .. L : g[n] = refresh_expiry(g[n - 1], q[n])
  BY <1>2, RefreshLoop
<1>4. /\ After(q, 0) = ToSet(q) /\ After(q, L) = {}
      /\ \A n \in Nat : n + 1 <= L =>
           /\ q[n + 1] \in After(q, n) /\ q[n + 1] \in ToSet(q)
           /\ After(q, n + 1) = After(q, n) \ {q[n + 1]}
  BY <1>1, AfterIs
<1> HIDE DEF L
<1> DEFINE S == {n \in Nat : n <= L => Refreshed(e, g[n], a, m, After(q, n))}
<1>5. 0 \in S
  <2>1. Shape(e)
    BY <1>1 DEF Whole, Sound
  <2>2. Refreshed(e, g[0], a, m, After(q, 0))
    BY <1>1, <1>3, <1>4, <2>1, QuietSelf DEF Refreshed
  <2> QED BY <2>2
<1>6. ASSUME NEW n \in Nat, n \in S PROVE n + 1 \in S
  <2> SUFFICES ASSUME n + 1 <= L PROVE Refreshed(e, g[n + 1], a, m, After(q, n + 1))
    OBVIOUS
  <2> DEFINE x == g[n]
             y == g[n + 1]
             s == q[n + 1]
             X == After(q, n)
  <2>1. n <= L /\ n + 1 \in 1 .. L /\ (n + 1) - 1 = n
    BY <1>2
  <2>2. Whole(x, {}, m) /\ Clock(x, a, now, X) /\ Quiet(e, x)
    BY <1>6, <2>1 DEF Refreshed
  <2>3. y = refresh_expiry(x, s)
    BY <1>3, <2>1
  <2>4. s \in X /\ s \in ToSet(q) /\ After(q, n + 1) = X \ {s}
    BY <1>4
  <2> HIDE DEF S, x, y, s, X
  <2>5. s \in Sids(x) /\ Shape(x)
    BY <1>1, <2>2, <2>4 DEF Quiet, Whole, Sound
  <2>6. Quiet(x, y)
    BY <2>3, <2>5, RefreshQuiet
  <2>7. Later(a, a, Sids(x), s, X)
    BY <2>4 DEF Later
  <2>8. Clock(y, a, now, X \ {s})
    BY <2>2, <2>3, <2>5, <2>7, RefreshClock
  <2>9. Whole(y, {}, m)
    BY <2>2, <2>6, WholeQuiet
  <2>10. Quiet(e, y)
    BY <2>2, <2>6, QuietTrans
  <2> QED BY <2>4, <2>8, <2>9, <2>10 DEF Refreshed, y
<1>7. Nat \subseteq S
  <2> HIDE DEF S
  <2> QED BY <1>5, <1>6, NatBySet
<1>8. Refreshed(e, g[L], a, m, After(q, L))
  BY <1>2, <1>7
<1> QED BY <1>3, <1>4, <1>8 DEF Refreshed

\* on_expiry_timer, on the engine that no longer waits.
LEMMA ExpiryWhole ==
  ASSUME NEW e, NEW ec, ec \in BOOLEAN, NEW f, f = [e EXCEPT !.waiting = FALSE],
         NEW a, NEW m, Whole(f, {}, m), Clock(f, a, now, {}), NEW g, g = on_expiry_timer(e, ec)
  PROVE  Whole(g, {}, m) /\ Clock(g, a, now, {}) /\ Armed(g) /\ Onward(f, g) /\ Idle(f, g, a)
<1> DEFINE r == pop_all_due(f)
           h == refresh_all(r.eng, r.extended)
           p == IF ec THEN f ELSE h
<1>1. g = arm_expiry_timer(p)
  BY DEF on_expiry_timer
<1>2. Popping(r.eng, r.extended, a, m) /\ Onward(f, r.eng) /\ Idle(f, r.eng, a)
  <2> HIDE DEF r
  <2>1. r = pop_all_due(f)
    BY DEF r
  <2> QED BY <2>1, PopAll
<1>3. Whole(h, {}, m) /\ Clock(h, a, now, {}) /\ Quiet(r.eng, h)
  <2>1. h = refresh_all(r.eng, r.extended)
    OBVIOUS
  <2> HIDE DEF r, h
  <2> QED BY <1>2, <2>1, RefreshAll
<1> HIDE DEF r, h
<1>4. Onward(f, h) /\ Idle(f, h, a)
  <2>1. Onward(r.eng, h)
    BY <1>3, OnwardQuiet
  <2>2. \A s \in Sids(r.eng) : h.sess[s].closed = r.eng.sess[s].closed
    BY <1>3 DEF Quiet, SameSession
  <2>3. Idle(f, h, a)
    BY <1>2, <2>2 DEF Idle, Onward
  <2> QED BY <1>2, <2>1, <2>3, OnwardTrans
<1>5. Whole(p, {}, m) /\ Clock(p, a, now, {}) /\ Onward(f, p) /\ Idle(f, p, a)
  <2>1. CASE ec
    <3>1. p = f
      BY <2>1
    <3>2. Onward(f, f) /\ Idle(f, f, a)
      BY OnwardSelf DEF Idle
    <3> HIDE DEF p
    <3> QED BY <3>1, <3>2
  <2>2. CASE ~ec
    <3>1. p = h
      BY <2>2
    <3> HIDE DEF p
    <3> QED BY <3>1, <1>3, <1>4
  <2> QED BY <2>1, <2>2
<1> HIDE DEF p
<1>6. Shape(p) /\ DOMAIN p = EngFields
  BY <1>5 DEF Whole, Sound, Shape
<1>7. Quiet(p, g)
  BY <1>1, <1>6, ArmQuiet
<1>8. Clock(g, a, now, {}) /\ Armed(g)
  BY <1>1, <1>5, <1>6, ArmClock
<1>9. Whole(g, {}, m)
  BY <1>5, <1>7, WholeQuiet
<1>10. Onward(f, g)
  BY <1>5, <1>7, OnwardQuiet, OnwardTrans
<1>11. Idle(f, g, a)
  <2>1. \A s \in Sids(p) : g.sess[s].closed = p.sess[s].closed
    BY <1>7 DEF Quiet, SameSession
  <2> QED BY <1>5, <2>1 DEF Idle, Onward
<1> QED BY <1>8, <1>9, <1>10, <1>11

\* The callback of a wait leaves the set of waits.
LEMMA CallbackRuns ==
  ASSUME NEW e, NEW a, NEW m, Whole(e, {}, m), Clock(e, a, now, {}), Armed(e),
         NEW w \in e.waits, w.st # "armed", NEW p, p = [e EXCEPT !.waits = @ \ {w}],
         NEW g, g = IF w.gen # e.wait_gen THEN p ELSE on_expiry_timer(p, w.st = "aborted")
  PROVE  Whole(g, {}, m) /\ Clock(g, a, now, {}) /\ Armed(g) /\ Onward(e, g) /\ Idle(e, g, a)
<1>1. DOMAIN e = EngFields /\ TimerOk(e)
  BY DEF Whole, Sound, Shape, Clock
<1>2. DOMAIN p = EngFields /\ p.sess = e.sess /\ p.heap = e.heap /\ p.waiting = e.waiting
      /\ p.target = e.target /\ p.wait_gen = e.wait_gen /\ p.waits = e.waits \ {w}
      /\ p.ops = e.ops /\ p.pending = e.pending /\ p.waiters = e.waiters /\ p.accs = e.accs
      /\ p.sessions = e.sessions /\ p.count = e.count /\ p.packets = e.packets
      /\ p.dropped = e.dropped /\ p.sends = e.sends /\ p.shut = e.shut /\ p.used = e.used
  BY <1>1 DEF EngFields
<1>3. CASE w.gen # e.wait_gen
  <2>1. g = p
    BY <1>3
  <2>2. Whole(p, {}, m)
    BY <1>2, WholeSame
  <2>3. TimerOk(p)
    BY <1>1, <1>2, <1>3 DEF TimerOk
  <2>4. Sids(p) = Sids(e) /\ \A s \in Sids(e) : SameClock(e.sess[s], p.sess[s])
    BY <1>2 DEF Sids, SameClock
  <2>5. Clock(p, a, now, {})
    <3>1. p.heap \subseteq e.heap /\ \A x \in e.heap : LiveEntry(e, x) => x \in p.heap
      BY <1>2
    <3> QED BY <2>3, <2>4, <3>1, ClockFewer
  <2>6. Armed(p) /\ Onward(e, p) /\ Idle(e, p, a)
    BY <1>2, <2>4 DEF Armed, Onward, Idle
  <2> QED BY <2>1, <2>2, <2>5, <2>6
<1>4. CASE w.gen = e.wait_gen
  <2> DEFINE f == [p EXCEPT !.waiting = FALSE]
             ec == w.st = "aborted"
  <2>1. g = on_expiry_timer(p, ec) /\ ec \in BOOLEAN
    BY <1>4
  <2>2. DOMAIN f = EngFields /\ f.sess = e.sess /\ f.heap = e.heap /\ f.waiting = FALSE
        /\ f.target = e.target /\ f.wait_gen = e.wait_gen /\ f.waits = e.waits \ {w}
        /\ f.ops = e.ops /\ f.pending = e.pending /\ f.waiters = e.waiters /\ f.accs = e.accs
        /\ f.sessions = e.sessions /\ f.count = e.count /\ f.packets = e.packets
        /\ f.dropped = e.dropped /\ f.sends = e.sends /\ f.shut = e.shut /\ f.used = e.used
    BY <1>2 DEF EngFields
  <2>3. f = [p EXCEPT !.waiting = FALSE]
    OBVIOUS
  <2> HIDE DEF f, ec
  <2>4. Whole(f, {}, m)
    BY <2>2, WholeSame
  <2>5. TimerOk(f)
    BY <1>1, <2>2 DEF TimerOk
  <2>6. Sids(f) = Sids(e) /\ \A s \in Sids(e) : SameClock(e.sess[s], f.sess[s])
    BY <2>2 DEF Sids, SameClock
  <2>7. Clock(f, a, now, {})
    <3>1. f.heap \subseteq e.heap /\ \A x \in e.heap : LiveEntry(e, x) => x \in f.heap
      BY <2>2
    <3> QED BY <2>5, <2>6, <3>1, ClockFewer
  <2>8. Whole(g, {}, m) /\ Clock(g, a, now, {}) /\ Armed(g) /\ Onward(f, g) /\ Idle(f, g, a)
    BY <2>1, <2>3, <2>4, <2>7, ExpiryWhole
  <2>9. Onward(e, f)
    BY <2>2, <2>6 DEF Onward
  <2>10. Onward(e, g)
    BY <2>8, <2>9, OnwardTrans
  <2>11. Idle(e, g, a)
    BY <2>2, <2>6, <2>8 DEF Idle
  <2> QED BY <2>8, <2>10, <2>11
<1> QED BY <1>3, <1>4

\* The timer reaches its target.
LEMMA WaitFires ==
  ASSUME NEW e, NEW a, NEW m, Whole(e, {}, m), Clock(e, a, now, {}), Armed(e),
         NEW w \in e.waits, w.st = "armed",
         NEW f, f = [e EXCEPT !.waits = (@ \ {w}) \union {[w EXCEPT !.st = "fired"]}]
  PROVE  /\ Whole(f, {}, m) /\ Clock(f, a, now, {}) /\ Armed(f) /\ Sids(f) = Sids(e)
         /\ f.packets = e.packets /\ f.dropped = e.dropped
<1> DEFINE v == [w EXCEPT !.st = "fired"]
<1>1. DOMAIN e = EngFields /\ TimerOk(e)
  BY DEF Whole, Sound, Shape, Clock
<1>2. w \in [gen : Nat, at : Nat, st : {"armed", "fired", "aborted"}]
  BY <1>1 DEF TimerOk
<1>3. v \in [gen : Nat, at : Nat, st : {"armed", "fired", "aborted"}]
      /\ v.gen = w.gen /\ v.at = w.at /\ v.st = "fired"
  BY <1>2
<1>4. DOMAIN f = EngFields /\ f.sess = e.sess /\ f.heap = e.heap /\ f.waiting = e.waiting
      /\ f.target = e.target /\ f.wait_gen = e.wait_gen /\ f.waits = (e.waits \ {w}) \cup {v}
      /\ f.ops = e.ops /\ f.pending = e.pending /\ f.waiters = e.waiters /\ f.accs = e.accs
      /\ f.sessions = e.sessions /\ f.count = e.count /\ f.packets = e.packets
      /\ f.dropped = e.dropped /\ f.sends = e.sends /\ f.shut = e.shut /\ f.used = e.used
  BY <1>1 DEF EngFields
<1> HIDE DEF v
<1>5. Whole(f, {}, m)
  BY <1>4, WholeSame
<1>6. TimerOk(f)
  <2>1. \A z \in f.waits : z.gen <= f.wait_gen
    BY <1>1, <1>3, <1>4 DEF TimerOk
  <2>2. f.waits \subseteq [gen : Nat, at : Nat, st : {"armed", "fired", "aborted"}]
    BY <1>1, <1>3, <1>4 DEF TimerOk
  <2>3. \A z, y \in f.waits : z.gen = y.gen => z = y
    <3>1. \A z \in e.waits : z.gen = w.gen => z = w
      BY <1>1 DEF TimerOk
    <3>2. \A z, y \in e.waits : z.gen = y.gen => z = y
      BY <1>1 DEF TimerOk
    <3> QED BY <1>3, <1>4, <3>1, <3>2
  <2>4. f.waiting => \E z \in f.waits : z.gen = f.wait_gen /\ z.at = f.target /\ z.st # "aborted"
    <3> SUFFICES ASSUME f.waiting
                 PROVE  \E z \in f.waits : z.gen = f.wait_gen /\ z.at = f.target /\ z.st # "aborted"
      OBVIOUS
    <3>1. PICK z \in e.waits : z.gen = e.wait_gen /\ z.at = e.target /\ z.st # "aborted"
      BY <1>1, <1>4 DEF TimerOk
    <3>2. CASE z = w
      BY <1>3, <1>4, <3>1, <3>2
    <3>3. CASE z # w
      BY <1>4, <3>1, <3>3
    <3> QED BY <3>2, <3>3
  <2> QED BY <1>1, <1>4, <2>1, <2>2, <2>3, <2>4 DEF TimerOk
<1>7. Sids(f) = Sids(e) /\ \A s \in Sids(e) : SameClock(e.sess[s], f.sess[s])
  BY <1>4 DEF Sids, SameClock
<1>8. Clock(f, a, now, {})
  <2>1. f.heap \subseteq e.heap /\ \A x \in e.heap : LiveEntry(e, x) => x \in f.heap
    BY <1>4
  <2> QED BY <1>6, <1>7, <2>1, ClockFewer
<1>9. Armed(f)
  BY <1>4 DEF Armed
<1> QED BY <1>4, <1>5, <1>7, <1>8, <1>9

\* Time goes on while no callback is overdue.
LEMMA TickClock ==
  ASSUME NEW e, NEW a, NEW t, Clock(e, a, t, {}), Armed(e),
         \A w \in e.waits : t < w.at + Late
  PROVE  Clock(e, a, t + 1, {})
<1>1. /\ HeapOk(e) /\ TimerOk(e) /\ t \in Nat
      /\ \A s \in Sids(e) : SessTimed(e.heap, e.sess[s], s, a[s], t, {})
  BY DEF Clock
<1>2. ASSUME NEW x \in e.heap PROVE t + 1 <= x.at + Late
  <2>1. e.waiting /\ e.target <= x.at /\ x.at \in Nat /\ e.target \in Nat
    BY <1>1, <1>2 DEF Armed, HeapOk, Entries, TimerOk
  <2>2. PICK w \in e.waits : w.at = e.target
    BY <1>1, <2>1 DEF TimerOk
  <2>3. t < e.target + Late
    BY <2>2
  <2>4. Late \in Nat
    BY LongestIs
  <2> QED BY ONLY <1>1, <2>1, <2>3, <2>4
<1>3. ASSUME NEW s \in Sids(e) PROVE SessTimed(e.heap, e.sess[s], s, a[s], t + 1, {})
  <2> DEFINE d == e.sess[s]
  <2>1. SessTimed(e.heap, d, s, a[s], t, {})
    BY <1>1
  <2> HIDE DEF d
  <2>2. SessClock(d, t + 1)
    BY <1>1, <2>1 DEF SessTimed, SessClock
  <2>3. ~d.closed => EntryOk(e.heap, d, s, {}) /\ Used(e.heap, d, s, a[s], t + 1, {})
    BY <1>1, <2>1 DEF SessTimed, Used
  <2>4. SessTimed(e.heap, d, s, a[s], t + 1, {})
    BY <2>1, <2>2, <2>3 DEF SessTimed
  <2> QED BY <2>4 DEF d
<1> QED BY <1>1, <1>2, <1>3 DEF Clock

-----------------------------------------------------------------------------
(***************************************************************************)
(* The inductive invariant.                                                *)
(***************************************************************************)
Steady(e, a, t) ==
  Whole(e, {}, e.packets) /\ Clock(e, a, t, {}) /\ Armed(e) /\ DOMAIN a = Sids(e)

UdpInv == Steady(eng, active, now) /\ left \in ScriptType /\ now <= left.until

\* What an accept was given is a session.
LEMMA GivenAre ==
  ASSUME UdpInv
  PROVE  Given \subseteq Sids(eng)
<1>1. \A i \in DOMAIN eng.accs : eng.accs[i].st = "ok" => eng.accs[i].sid \in Sids(eng)
  BY DEF UdpInv, Steady, Whole, Sound, Accepts, Waiting
<1> QED BY <1>1 DEF Given

\* A session is used now.
LEMMA TouchedIs ==
  ASSUME NEW s \in DOMAIN active, NEW b, b = Touched(s)
  PROVE  DOMAIN b = DOMAIN active /\ \A X : Later(active, b, DOMAIN active, s, X)
BY DEF Touched, Later

\* A step that the timer does not look at.
LEMMA SteadyStill ==
  ASSUME NEW e, NEW f, NEW a, NEW t, Steady(e, a, t), Whole(f, {}, e.packets), Still(e, f),
         f.packets = e.packets
  PROVE  Steady(f, a, t)
<1>1. Clock(e, a, t, {}) /\ Armed(e) /\ DOMAIN a = Sids(e)
  BY DEF Steady
<1>2. Clock(f, a, t, {}) /\ Armed(f)
  BY <1>1, ClockStill
<1>3. Sids(f) = Sids(e)
  BY DEF Still
<1> QED BY <1>1, <1>2, <1>3 DEF Steady

\* The invariant holds at the start.
LEMMA UdpInit ==
  Init => UdpInv
<1> SUFFICES ASSUME Init PROVE UdpInv
  OBVIOUS
<1> DEFINE e == Engine0
<1>1. eng = e /\ now = 0 /\ active = <<>> /\ left \in ScriptType
  BY ScriptAssumption DEF Init
<1>14. now <= left.until
  BY <1>1 DEF ScriptType
<1>2. /\ DOMAIN e = EngFields /\ e.sess = <<>> /\ e.sessions = [k \in Keys |-> 0]
      /\ e.count = 0 /\ e.pending = <<>> /\ e.waiters = <<>> /\ e.heap = {}
      /\ e.waiting = FALSE /\ e.target = 0 /\ e.wait_gen = 0 /\ e.waits = {}
      /\ e.packets = 0 /\ e.ops = <<>> /\ e.accs = <<>> /\ e.used = 0 /\ e.dropped = 0
  BY DEF Engine0, EngFields
<1> HIDE DEF e
<1>3. IsSeq(<<>>) /\ Len(<<>>) = 0 /\ ToSet(<<>>) = {} /\ DOMAIN <<>> = {} /\ Distinct(<<>>)
  BY SeqEmpty DEF Distinct
<1>4. Sids(e) = {} /\ Open(e) = {} /\ GivenBy(e) = {}
  BY <1>2, <1>3 DEF Sids, Open, GivenBy
<1>5. Shape(e)
  BY <1>2, <1>3, <1>4 DEF Shape
<1>6. Accepts(e, {})
  BY <1>2, <1>3, <1>4 DEF Accepts, Listed, Waiting
<1>7. Reads(e, 0)
  BY <1>2, <1>3, <1>4 DEF Reads
<1>8. Table(e)
  <2>1. IsFiniteSet({}) /\ Cardinality({}) = 0
    BY FS_EmptySet
  <2>2. MaxFlows \in Nat
    BY UdpAssumption
  <2> QED BY <1>2, <1>4, <2>1, <2>2 DEF Table
<1>15. Books(e, 0)
  <2>1. Sizes(e) = <<>> /\ Shares(e) = <<>>
    BY <1>3, <1>4 DEF Sizes, Shares
  <2>2. Limit \in Nat
    BY UdpAssumption
  <2> QED BY <1>2, <1>4, <2>1, <2>2, TotalEmpty DEF Books
<1>9. Whole(e, {}, e.packets)
  <2>1. MaxPending \in Nat
    BY UdpAssumption
  <2> QED BY <1>2, <1>3, <1>5, <1>6, <1>7, <1>8, <1>15, <2>1 DEF Whole, Sound
<1>10. Clock(e, active, now, {})
  <2>1. HeapOk(e)
    BY <1>2, FS_EmptySet DEF HeapOk
  <2>2. TimerOk(e)
    <3>1. e.waiting \in BOOLEAN /\ ~e.waiting
      BY <1>2, Zenon
    <3>2. e.wait_gen \in Nat /\ e.target \in Nat
      BY <1>2
    <3>3. e.waits = {}
      BY <1>2
    <3> QED BY ONLY <3>1, <3>2, <3>3, Zenon DEF TimerOk
  <2> QED BY <1>1, <1>2, <1>4, <2>1, <2>2 DEF Clock
<1>11. Armed(e)
  BY <1>2 DEF Armed
<1>12. DOMAIN active = Sids(e)
  BY <1>1, <1>3, <1>4
<1>13. Steady(eng, active, now)
  BY <1>1, <1>9, <1>10, <1>11, <1>12 DEF Steady
<1> QED BY <1>1, <1>13, <1>14 DEF UdpInv

\* on_packet keeps it.
LEMMA PacketSteady ==
  ASSUME UdpInv, NEW k \in Keys, NEW len \in left.lens, NEW valid \in left.valid,
         Packet(k, len, valid)
  PROVE  Steady(eng', active', now')
<1> DEFINE e == eng
           m == eng.packets
           n == eng.packets + 1
           f == on_packet(e, k, n, len, valid)
           a == active
           b == active'
           s == e.sessions[k]
           hit == valid /\ s # 0
<1>1. Whole(e, {}, m) /\ Clock(e, a, now, {}) /\ Armed(e) /\ DOMAIN a = Sids(e)
  BY DEF UdpInv, Steady
<1>2. m \in Nat /\ n \in Nat /\ m < n /\ valid \in BOOLEAN /\ len \in Nat
  <2>1. m \in Nat
    BY <1>1 DEF Whole, Sound, Reads
  <2>2. left.valid \subseteq BOOLEAN /\ left.lens \subseteq Nat
    BY DEF UdpInv, ScriptType
  <2> QED BY <2>1, <2>2
<1>3. /\ f = on_packet(e, k, n, len, valid) /\ eng' = [f EXCEPT !.packets = @ + 1]
      /\ now' = now
      /\ b = IF hit THEN Touched(s)
             ELSE [r \in Sids(eng') |-> IF r \in Sids(e) THEN a[r] ELSE now]
  BY DEF Packet
<1> DEFINE g == eng'
<1>4. g = [f EXCEPT !.packets = @ + 1] /\ eng' = g /\ n = m + 1 /\ m = e.packets
      /\ b = active' /\ a = active /\ e = eng /\ s = e.sessions[k] /\ hit = (valid /\ s # 0)
  BY <1>3
<1> HIDE DEF e, m, n, f, a, b, s, hit, g
<1>5. Whole(f, {}, n) /\ f.packets = m
  BY <1>1, <1>2, <1>3, <1>4, WholePacket
<1>6. DOMAIN f = EngFields
  BY <1>5 DEF Whole, Sound, Shape
<1>7. DOMAIN g = EngFields /\ g.sess = f.sess /\ g.ops = f.ops /\ g.pending = f.pending
      /\ g.waiters = f.waiters /\ g.accs = f.accs /\ g.sessions = f.sessions
      /\ g.count = f.count /\ Aside(f, g) /\ g.packets = n
      /\ g.used = f.used /\ g.dropped = f.dropped
  BY <1>4, <1>5, <1>6 DEF EngFields, Aside
<1>8. Whole(g, {}, n) /\ Still(f, g) /\ Sids(g) = Sids(f)
  BY <1>5, <1>7, WholeSame, StillSame DEF Sids
<1>9. hit => s \in Sids(e) /\ Sids(f) = Sids(e)
  <2> SUFFICES ASSUME hit PROVE s \in Sids(e) /\ Sids(f) = Sids(e)
    OBVIOUS
  <2>1. s \in Sids(e) /\ ~e.sess[s].closed /\ s # 0
    BY <1>1, <1>4 DEF Whole, Table, Open
  <2>2. f = deliver_datagram(e, s, n, len)
    BY <1>2, <1>3, <1>4, <2>1 DEF on_packet
  <2>3. Delivered(e, f)
    BY <1>1, <1>2, <1>4, <2>1, <2>2, WholeDeliver
  <2> QED BY <2>1, <2>3 DEF Delivered
<1>10. hit => DOMAIN b = Sids(e) /\ Later(a, b, Sids(e), s, {})
  <2> SUFFICES ASSUME hit PROVE DOMAIN b = Sids(e) /\ Later(a, b, Sids(e), s, {})
    OBVIOUS
  <2>1. s \in DOMAIN active /\ b = Touched(s)
    BY <1>1, <1>3, <1>4, <1>9
  <2>2. DOMAIN b = DOMAIN active /\ Later(active, b, DOMAIN active, s, {})
    BY <2>1, TouchedIs
  <2> QED BY <1>1, <1>4, <2>2
<1>11. ~hit => DOMAIN b = Sids(f) /\ \A r \in Sids(f) : b[r] = IF r \in Sids(e) THEN a[r] ELSE now
  BY <1>3, <1>4, <1>8
<1>12. Clock(f, b, now, {}) /\ Armed(f)
  <2>1. valid /\ e.sessions[k] # 0 => Later(a, b, Sids(e), e.sessions[k], {})
    BY <1>4, <1>10
  <2>2. ~(valid /\ e.sessions[k] # 0) =>
           \A r \in Sids(f) : b[r] = IF r \in Sids(e) THEN a[r] ELSE now
    BY <1>4, <1>11
  <2>3. f = on_packet(e, k, n, len, valid)
    BY <1>3
  <2> QED BY ONLY <1>1, <1>2, <2>1, <2>2, <2>3, k \in Keys, PacketClock
<1>13. Clock(g, b, now, {}) /\ Armed(g)
  BY <1>8, <1>12, ClockStill
<1>14. DOMAIN b = Sids(g)
  <2>1. CASE hit
    BY <2>1, <1>8, <1>9, <1>10
  <2>2. CASE ~hit
    BY <2>2, <1>8, <1>11
  <2> QED BY <2>1, <2>2
<1>15. Steady(g, b, now)
  BY <1>7, <1>8, <1>13, <1>14 DEF Steady
<1> QED BY <1>3, <1>4, <1>15

\* async_accept keeps it.
LEMMA AcceptSteady ==
  ASSUME UdpInv, Accept
  PROVE  Steady(eng', active', now')
<1> DEFINE e == eng
           f == eng'
<1>1. Steady(e, active, now) /\ Whole(e, {}, e.packets) /\ f = async_accept(e)
      /\ active' = active /\ now' = now
  BY DEF UdpInv, Steady, Accept
<1> HIDE DEF e, f
<1>2. Whole(f, {}, e.packets) /\ AcceptOnly(e, f) /\ SamePast(e, f)
  BY <1>1, WholeAccept
<1>3. Aside(e, f) /\ f.packets = e.packets
  BY <1>2 DEF AcceptOnly
<1>4. Still(e, f)
  BY <1>2, <1>3, StillPast
<1>5. Steady(f, active, now)
  BY <1>1, <1>2, <1>3, <1>4, SteadyStill
<1> QED BY <1>1, <1>5 DEF f

\* cancel_accepts keeps it.
LEMMA CancelSteady ==
  ASSUME UdpInv, Cancel
  PROVE  Steady(eng', active', now')
<1> DEFINE e == eng
           f == eng'
<1>1. Steady(e, active, now) /\ Whole(e, {}, e.packets) /\ f = cancel_accepts(e)
      /\ active' = active /\ now' = now
  BY DEF UdpInv, Steady, Cancel
<1> HIDE DEF e, f
<1>2. Whole(f, {}, e.packets) /\ AcceptOnly(e, f) /\ f.sess = e.sess
  BY <1>1, WholeCancel
<1>3. Aside(e, f) /\ f.packets = e.packets
  BY <1>2 DEF AcceptOnly
<1>4. Still(e, f)
  BY <1>2, <1>3, StillSame
<1>5. Steady(f, active, now)
  BY <1>1, <1>2, <1>3, <1>4, SteadyStill
<1> QED BY <1>1, <1>5 DEF f

\* start_receive keeps it.
LEMMA ReceiveSteady ==
  ASSUME UdpInv, NEW s \in Given, NEW size, Receive(s, size)
  PROVE  Steady(eng', active', now')
<1> DEFINE e == eng
           f == eng'
<1>1. Steady(e, active, now) /\ Whole(e, {}, e.packets) /\ f = start_receive(e, s, size)
      /\ active' = active /\ now' = now
  BY DEF UdpInv, Steady, Receive
<1>2. s \in Sids(e)
  BY GivenAre
<1> HIDE DEF e, f
<1>3. Whole(f, {}, e.packets) /\ ReadOnly(e, f)
  BY <1>1, <1>2, WholeReceive
<1>4. Still(e, f)
  BY <1>1, <1>2, ReceiveClock
<1>5. f.packets = e.packets
  BY <1>3 DEF ReadOnly
<1>6. Steady(f, active, now)
  BY <1>1, <1>3, <1>4, <1>5, SteadyStill
<1> QED BY <1>1, <1>6 DEF f

\* start_send keeps it.
LEMMA SendSteady ==
  ASSUME UdpInv, NEW s \in Given, NEW v6, NEW total, Send(s, v6, total)
  PROVE  Steady(eng', active', now')
<1> DEFINE e == eng
           f == eng'
           a == active
           b == active'
           error == send_error(e, s, v6, total)
<1>1. /\ Whole(e, {}, e.packets) /\ Clock(e, a, now, {}) /\ Armed(e) /\ DOMAIN a = Sids(e)
      /\ f = start_send(e, s, v6, total) /\ now' = now
      /\ b = IF error = "none" THEN Touched(s) ELSE a
  BY DEF UdpInv, Steady, Send
<1>2. s \in Sids(e)
  BY GivenAre
<1>3. Touched(s) = Touched(s) /\ s \in DOMAIN active
  BY <1>1, <1>2
<1>4. LET c == Touched(s) IN DOMAIN c = Sids(e) /\ Later(a, c, Sids(e), s, {})
  BY <1>1, <1>3, TouchedIs
<1>5. error = send_error(e, s, v6, total)
  OBVIOUS
<1> HIDE DEF e, f, a, b, error
<1>6. (error # "none" => b = a) /\ (error = "none" => Later(a, b, Sids(e), s, {}))
      /\ DOMAIN b = Sids(e)
  BY <1>1, <1>4
<1>7. /\ Whole(f, {}, e.packets) /\ Clock(f, b, now, {}) /\ Armed(f)
      /\ f.packets = e.packets /\ Sids(f) = Sids(e)
  BY <1>1, <1>2, <1>5, <1>6, SendWhole
<1>8. Steady(f, b, now)
  BY <1>6, <1>7 DEF Steady
<1> QED BY <1>1, <1>8 DEF f, b

\* The answers of the write queue keep it.
LEMMA WriteSteady ==
  ASSUME UdpInv, NEW i, NEW j, NEW ok, WriteDone(i, j, ok)
  PROVE  Steady(eng', active', now')
<1> DEFINE e == eng
           f == eng'
<1>1. Steady(e, active, now) /\ Whole(e, {}, e.packets) /\ f = on_frag(e, i, j, ok)
      /\ active' = active /\ now' = now
  BY DEF UdpInv, Steady, WriteDone
<1> HIDE DEF e, f
<1>2. DOMAIN e = EngFields
  BY <1>1 DEF Whole, Sound, Shape
<1>3. SendOnly(e, f)
  BY <1>1, <1>2, FragOnly
<1>4. Whole(f, {}, e.packets) /\ Still(e, f)
  BY <1>1, <1>3, WholeSent
<1>5. f.packets = e.packets
  BY <1>3 DEF SendOnly
<1>6. Steady(f, active, now)
  BY <1>1, <1>4, <1>5, SteadyStill
<1> QED BY <1>1, <1>6 DEF f

\* Closing a session keeps it.
LEMMA CloseSteady ==
  ASSUME UdpInv, NEW s \in Given, Close(s)
  PROVE  Steady(eng', active', now')
<1> DEFINE e == eng
           f == eng'
<1>1. /\ Whole(e, {}, e.packets) /\ Clock(e, active, now, {}) /\ Armed(e) /\ DOMAIN active = Sids(e)
      /\ f = remove_session(e, s) /\ active' = active /\ now' = now
  BY DEF UdpInv, Steady, Close
<1>2. s \in Sids(e)
  BY GivenAre
<1> HIDE DEF e, f
<1>3. Shape(e)
  BY <1>1 DEF Whole, Sound
<1>4. Whole(f, {}, e.packets) /\ Sids(f) = Sids(e)
  BY <1>1, <1>2, WholeRemove
<1>5. Clock(f, active, now, {}) /\ Armed(f)
  BY <1>1, <1>2, <1>3, RemoveClock
<1>6. Onward(e, f)
  BY <1>1, <1>2, <1>3, OnwardRemove
<1>7. f.packets = e.packets
  BY <1>6 DEF Onward
<1>8. Steady(f, active, now)
  BY <1>1, <1>4, <1>5, <1>7 DEF Steady
<1> QED BY <1>1, <1>8 DEF f

\* Setting a timeout keeps it.
LEMMA TimeoutSteady ==
  ASSUME UdpInv, NEW s \in Given, SetTimeout(s)
  PROVE  Steady(eng', active', now')
<1> DEFINE e == eng
           f == eng'
           a == active
           b == active'
           g == [e EXCEPT !.sess[s].timeout = OtherTimeout]
<1>1. /\ Whole(e, {}, e.packets) /\ Clock(e, a, now, {}) /\ Armed(e) /\ DOMAIN a = Sids(e)
      /\ g = [e EXCEPT !.sess[s].timeout = OtherTimeout] /\ f = refresh_expiry(g, s)
      /\ ~e.sess[s].closed /\ now' = now /\ b = Touched(s)
  BY DEF UdpInv, Steady, SetTimeout
<1>2. s \in Sids(e)
  BY GivenAre
<1>3. DOMAIN b = Sids(e) /\ Later(a, b, Sids(e), s, {})
  BY <1>1, <1>2, TouchedIs
<1> HIDE DEF e, f, a, b, g
<1>4. /\ Whole(f, {}, e.packets) /\ Clock(f, b, now, {}) /\ Armed(f)
      /\ f.packets = e.packets /\ Sids(f) = Sids(e)
  BY <1>1, <1>2, <1>3, TimeoutWhole
<1>5. Steady(f, b, now)
  BY <1>3, <1>4 DEF Steady
<1> QED BY <1>1, <1>5 DEF f, b

\* close_all keeps it.
LEMMA CloseAllSteady ==
  ASSUME UdpInv, CloseAll
  PROVE  Steady(eng', active', now')
<1> DEFINE e == eng
           f == close_all(e)
           g == eng'
<1>1. /\ Whole(e, {}, e.packets) /\ Clock(e, active, now, {}) /\ DOMAIN active = Sids(e)
      /\ f = close_all(e) /\ g = [f EXCEPT !.shut = TRUE] /\ active' = active /\ now' = now
  BY DEF UdpInv, Steady, CloseAll
<1> HIDE DEF e, f, g
<1>2. /\ Whole(f, {}, e.packets) /\ Clock(f, active, now, {}) /\ Armed(f)
      /\ f.packets = e.packets /\ Sids(f) = Sids(e) /\ DOMAIN f = EngFields
  BY <1>1, CloseAllWhole
<1>3. /\ DOMAIN g = EngFields /\ g.sess = f.sess /\ g.sessions = f.sessions /\ g.count = f.count
      /\ g.pending = f.pending /\ g.waiters = f.waiters /\ g.accs = f.accs /\ g.ops = f.ops
      /\ g.heap = f.heap /\ g.waiting = f.waiting /\ g.target = f.target
      /\ g.wait_gen = f.wait_gen /\ g.waits = f.waits /\ g.packets = f.packets
      /\ g.used = f.used /\ g.dropped = f.dropped
  BY <1>1, <1>2 DEF EngFields
<1>4. Whole(g, {}, e.packets)
  BY <1>2, <1>3, WholeSame
<1>5. Still(f, g) /\ Sids(g) = Sids(f)
  BY <1>3 DEF Still, Sids, SameClock
<1>6. Clock(g, active, now, {}) /\ Armed(g)
  BY <1>2, <1>5, ClockStill
<1>7. Steady(g, active, now)
  BY <1>1, <1>2, <1>3, <1>4, <1>5, <1>6 DEF Steady
<1> QED BY <1>1, <1>7 DEF g

\* The timer keeps it when it reaches its target.
LEMMA ExpiresSteady ==
  ASSUME UdpInv, NEW w \in eng.waits, TimerExpires(w)
  PROVE  Steady(eng', active', now')
<1> DEFINE e == eng
           f == eng'
<1>1. /\ Whole(e, {}, e.packets) /\ Clock(e, active, now, {}) /\ Armed(e) /\ DOMAIN active = Sids(e)
      /\ w \in e.waits /\ w.st = "armed"
      /\ f = [e EXCEPT !.waits = (@ \ {w}) \union {[w EXCEPT !.st = "fired"]}]
      /\ active' = active /\ now' = now
  BY DEF UdpInv, Steady, TimerExpires
<1> HIDE DEF e, f
<1>2. /\ Whole(f, {}, e.packets) /\ Clock(f, active, now, {}) /\ Armed(f) /\ Sids(f) = Sids(e)
      /\ f.packets = e.packets
  BY <1>1, WaitFires
<1>3. Steady(f, active, now)
  BY <1>1, <1>2 DEF Steady
<1> QED BY <1>1, <1>3 DEF f

\* The timer closes only sessions that were idle for their timeout.
LEMMA CallbackSteady ==
  ASSUME UdpInv, NEW w \in eng.waits, TimerCallback(w)
  PROVE  Steady(eng', active', now') /\ Idle(eng, eng', active) /\ Onward(eng, eng')
<1> DEFINE e == eng
           f == eng'
           p == [e EXCEPT !.waits = @ \ {w}]
<1>1. /\ Whole(e, {}, e.packets) /\ Clock(e, active, now, {}) /\ Armed(e) /\ DOMAIN active = Sids(e)
      /\ w \in e.waits /\ w.st # "armed" /\ p = [e EXCEPT !.waits = @ \ {w}]
      /\ f = IF w.gen # e.wait_gen THEN p ELSE on_expiry_timer(p, w.st = "aborted")
      /\ active' = active /\ now' = now
  BY DEF UdpInv, Steady, TimerCallback
<1> HIDE DEF e, f, p
<1>2. /\ Whole(f, {}, e.packets) /\ Clock(f, active, now, {}) /\ Armed(f) /\ Onward(e, f)
      /\ Idle(e, f, active)
  BY <1>1, CallbackRuns
<1>3. Sids(f) = Sids(e) /\ f.packets = e.packets
  BY <1>2 DEF Onward
<1>4. Steady(f, active, now)
  BY <1>1, <1>2, <1>3 DEF Steady
<1> QED BY <1>1, <1>2, <1>4 DEF e, f

\* Time keeps it.
LEMMA TickSteady ==
  ASSUME UdpInv, Tick
  PROVE  Steady(eng', active', now')
<1>1. /\ Whole(eng, {}, eng.packets) /\ Clock(eng, active, now, {}) /\ Armed(eng)
      /\ DOMAIN active = Sids(eng) /\ \A w \in eng.waits : now < w.at + Late
      /\ eng' = eng /\ active' = active /\ now' = now + 1
  BY DEF UdpInv, Steady, Tick
<1>2. Clock(eng, active, now + 1, {})
  BY <1>1, TickClock
<1>3. Steady(eng, active, now + 1)
  BY <1>1, <1>2 DEF Steady
<1> QED BY <1>1, <1>3

\* The script says less and less.
LEMMA ScriptKept ==
  ASSUME left \in ScriptType, [Next]_vars
  PROVE  left' \in ScriptType /\ left'.until = left.until
<1>1. \/ left' = left
      \/ left' = [left EXCEPT !.packets = @ - 1] /\ left.packets > 0
      \/ left' = [left EXCEPT !.accepts = @ - 1] /\ left.accepts > 0
      \/ left' = [left EXCEPT !.cancels = @ - 1] /\ left.cancels > 0
      \/ left' = [left EXCEPT !.reads = @ - 1] /\ left.reads > 0
      \/ left' = [left EXCEPT !.sends = @ - 1] /\ left.sends > 0
      \/ left' = [left EXCEPT !.closes = @ - 1] /\ left.closes > 0
      \/ left' = [left EXCEPT !.sets = @ - 1] /\ left.sets > 0
      \/ left' = [left EXCEPT !.shuts = @ - 1] /\ left.shuts > 0
  BY DEF Next, vars, Packet, Accept, Cancel, Receive, Send, WriteDone, Close, SetTimeout,
         CloseAll, TimerExpires, TimerCallback, Tick
<1> QED BY <1>1 DEF ScriptType

\* Every step keeps the invariant.
LEMMA UdpNext ==
  ASSUME UdpInv, [Next]_vars
  PROVE  UdpInv'
<1>1. left' \in ScriptType /\ left'.until = left.until
  BY ScriptKept DEF UdpInv
<1>3. now' <= left'.until
  <2>1. now <= left.until /\ left.until \in Nat /\ now \in Nat
    BY DEF UdpInv, ScriptType, Steady, Clock
  <2>2. now' = now \/ (now < left.until /\ now' = now + 1)
    BY DEF Next, vars, Packet, Accept, Cancel, Receive, Send, WriteDone, Close, SetTimeout,
           CloseAll, TimerExpires, TimerCallback, Tick
  <2> QED BY <1>1, <2>1, <2>2
<1>2. Steady(eng', active', now')
  <2>1. ASSUME NEW k \in Keys, NEW len \in left.lens, NEW valid \in left.valid, Packet(k, len, valid)
        PROVE  Steady(eng', active', now')
    BY <2>1, PacketSteady
  <2>2. CASE Accept
    BY <2>2, AcceptSteady
  <2>3. CASE Cancel
    BY <2>3, CancelSteady
  <2>4. ASSUME NEW s \in Given, NEW size \in left.lens, Receive(s, size)
        PROVE  Steady(eng', active', now')
    BY <2>4, ReceiveSteady
  <2>5. ASSUME NEW s \in Given, NEW v6 \in BOOLEAN, NEW total \in left.totals, Send(s, v6, total)
        PROVE  Steady(eng', active', now')
    BY <2>5, SendSteady
  <2>6. ASSUME NEW i \in DOMAIN eng.sends, NEW j \in DOMAIN eng.sends[i].pkts, NEW ok \in BOOLEAN,
               WriteDone(i, j, ok)
        PROVE  Steady(eng', active', now')
    BY <2>6, WriteSteady
  <2>7. ASSUME NEW s \in Given, Close(s) PROVE Steady(eng', active', now')
    BY <2>7, CloseSteady
  <2>8. ASSUME NEW s \in Given, SetTimeout(s) PROVE Steady(eng', active', now')
    BY <2>8, TimeoutSteady
  <2>9. CASE CloseAll
    BY <2>9, CloseAllSteady
  <2>10. ASSUME NEW w \in eng.waits, TimerExpires(w) PROVE Steady(eng', active', now')
    BY <2>10, ExpiresSteady
  <2>11. ASSUME NEW w \in eng.waits, TimerCallback(w) PROVE Steady(eng', active', now')
    BY <2>11, CallbackSteady
  <2>12. CASE Tick
    BY <2>12, TickSteady
  <2>13. CASE UNCHANGED vars
    BY <2>13 DEF vars, UdpInv
  <2> QED BY <2>1, <2>2, <2>3, <2>4, <2>5, <2>6, <2>7, <2>8, <2>9, <2>10, <2>11, <2>12, <2>13 DEF Next
<1> QED BY <1>1, <1>2, <1>3 DEF UdpInv, Steady

(* The invariant holds in every reachable state of the UDP engine, for any *)
(* endpoints, limits, timeouts and script. *)
THEOREM UdpSteady ==
  Spec => []UdpInv
<1>1. Init => UdpInv
  BY UdpInit
<1>2. UdpInv /\ [Next]_vars => UdpInv'
  BY UdpNext
<1> QED BY <1>1, <1>2, PTL DEF Spec

(* start_accept, create_session and cancel_accepts: a session is given to one *)
(* accept at most, an open session that was not given waits in the list, and  *)
(* every accept is completed once. *)
THEOREM UdpAcceptsOnce ==
  Spec => []AcceptsOnce
<1>1. UdpInv => AcceptsOnce
  <2> SUFFICES ASSUME UdpInv PROVE AcceptsOnce
    OBVIOUS
  <2>1. Listed(eng, {}) /\ Waiting(eng) /\ (eng.waiters # <<>> => eng.pending = <<>>)
    BY DEF UdpInv, Steady, Whole, Sound, Accepts
  <2>2. Given = GivenBy(eng)
    BY DEF Given, GivenBy
  <2>3. ToSet(eng.pending) = Open(eng) \ Given
    BY <2>1, <2>2 DEF Listed
  <2>4. /\ IsSeq(eng.waiters)
        /\ ToSet(eng.waiters) = {i \in DOMAIN eng.accs : eng.accs[i].st = "wait"}
        /\ \A i \in DOMAIN eng.accs : eng.accs[i].times = IF eng.accs[i].st = "wait" THEN 0 ELSE 1
        /\ \A i, j \in DOMAIN eng.accs : i # j /\ eng.accs[i].st = "ok" /\ eng.accs[j].st = "ok"
                                           => eng.accs[i].sid # eng.accs[j].sid
    BY <2>1 DEF Waiting
  <2>5. \A i : Contains(eng.waiters, i) <=> i \in ToSet(eng.waiters)
    BY <2>4, SeqMembers DEF Contains
  <2>6. \A i \in DOMAIN eng.accs : eng.accs[i].st = "wait" <=> Contains(eng.waiters, i)
    BY <2>4, <2>5
  <2>7. \A i \in DOMAIN eng.accs : eng.accs[i].times = (IF eng.accs[i].st = "wait" THEN 0 ELSE 1)
    BY <2>4
  <2> HIDE DEF UdpInv
  <2> QED BY ONLY <2>1, <2>3, <2>4, <2>6, <2>7 DEF AcceptsOnce
<1> QED BY <1>1, UdpSteady, PTL

(* deliver_datagram, start_receive and remove_session: the reads of a session *)
(* get its datagrams in the order they came, each once, and every read is     *)
(* completed once; a read waits only on an open session with nothing queued.  *)
THEOREM UdpReadsInOrder ==
  Spec => []ReadsInOrder
<1>1. UdpInv => ReadsInOrder
  <2> SUFFICES ASSUME UdpInv PROVE ReadsInOrder
    OBVIOUS
  <2> DEFINE ops == eng.ops
  <2>1. /\ IsSeq(ops) /\ \A i \in DOMAIN ops : ops[i].sid \in Sids(eng)
        /\ \A s \in Sids(eng) : SessReads(eng.sess[s], ops, s, eng.packets)
    BY DEF UdpInv, Steady, Whole, Sound, Reads
  <2> HIDE DEF ops
  <2>2. \A i, j \in DOMAIN ops :
          ops[i].st = "ok" /\ ops[j].st = "ok" /\ i < j /\ ops[i].sid = ops[j].sid
            => ops[i].n < ops[j].n
    BY <2>1 DEF SessReads, Ordered
  <2>3. ASSUME NEW i \in DOMAIN ops
        PROVE  /\ ops[i].times = (IF ops[i].st = "wait" THEN 0 ELSE 1)
               /\ ops[i].st = "wait" <=> Contains(eng.sess[ops[i].sid].reads, i)
               /\ ops[i].st = "wait" =>
                    ~eng.sess[ops[i].sid].closed /\ eng.sess[ops[i].sid].rx = <<>>
    <3> DEFINE s == ops[i].sid
               d == eng.sess[s]
    <3>1. SessReads(d, ops, s, eng.packets) /\ ops[i].sid = s
      BY <2>1
    <3> HIDE DEF s, d
    <3>2. /\ IsSeq(d.reads) /\ (d.reads # <<>> => ~d.closed /\ d.rx = <<>>)
          /\ ToSet(d.reads) = {j \in DOMAIN ops : ops[j].sid = s /\ ops[j].st = "wait"}
          /\ ops[i].times = IF ops[i].st = "wait" THEN 0 ELSE 1
      BY <3>1 DEF SessReads, Queues, Owned, ReadsOk, ReadOk
    <3>3. \A x : Contains(d.reads, x) <=> x \in ToSet(d.reads)
      BY <3>2, SeqMembers DEF Contains
    <3>4. ops[i].st = "wait" <=> Contains(d.reads, i)
      BY <3>1, <3>2, <3>3
    <3>5. ops[i].st = "wait" => d.reads # <<>>
      BY <3>2, <3>1, SeqEmpty
    <3> QED BY <3>2, <3>4, <3>5 DEF d, s
  <2> QED BY <2>2, <2>3 DEF ReadsInOrder, ops
<1> QED BY <1>1, UdpSteady, PTL

(* queue_datagram, udp_pop_queued_datagram and remove_session: the budget taken *)
(* from the accountant is what the queues hold, and while no session has gone  *)
(* every packet is queued, read or dropped: none is lost uncounted or counted  *)
(* twice, for any limits. *)
THEOREM UdpAccounted ==
  Spec => []Accounted
<1>1. UdpInv => Accounted
  <2> SUFFICES ASSUME UdpInv PROVE Accounted
    OBVIOUS
  <2> DEFINE e == eng
             got(s) == {i \in DOMAIN eng.ops : eng.ops[i].sid = s /\ eng.ops[i].st = "ok"}
  <2>1. Books(eng, eng.packets)
    BY DEF UdpInv, Steady, Whole
  <2>2. eng.used = Total([s \in Sids(eng) |-> eng.sess[s].rx_bytes])
    BY <2>1 DEF Books, Sizes
  <2>3. ASSUME NEW s \in Sids(eng)
        PROVE  eng.sess[s].rx_bytes = Total([i \in DOMAIN eng.sess[s].rx |-> eng.sess[s].rx[i].len])
    <3>1. Purse(eng.sess[s])
      BY <2>1 DEF Books
    <3> QED BY <3>1 DEF Purse, Lens
  <2>4. Shares(eng) = [s \in Sids(eng) |-> Len(eng.sess[s].rx) + Cardinality(got(s))]
    BY DEF Shares, Share, Got
  <2>5. Open(eng) = Sids(eng) =>
          eng.packets = eng.dropped
            + Total([s \in Sids(eng) |-> Len(eng.sess[s].rx) + Cardinality(got(s))])
    BY <2>1, <2>4 DEF Books
  <2> QED BY <2>2, <2>3, <2>5 DEF Accounted
<1> QED BY <1>1, UdpSteady, PTL

(* The session table, udp_sessions and the open sessions agree, the counters *)
(* stay in their ranges, and max_udp_flows, max_pending_new_sessions and     *)
(* max_total_buffer hold. *)
THEOREM UdpTypeOK ==
  Spec => []TypeOK
<1>1. UdpInv => TypeOK
  <2> SUFFICES ASSUME UdpInv PROVE TypeOK
    OBVIOUS
  <2>1. /\ Books(eng, eng.packets) /\ Table(eng) /\ Len(eng.pending) <= MaxPending
        /\ eng.packets \in Nat /\ now \in Nat /\ now <= left.until /\ left.until \in Nat
    BY DEF UdpInv, Steady, Whole, Sound, Reads, Clock, ScriptType
  <2>2. now \in 0 .. left.until
    BY <2>1
  <2>3. eng.used \in 0 .. Limit /\ eng.dropped \in 0 .. eng.packets
    <3>1. eng.used \in Nat /\ eng.used <= Limit /\ eng.dropped \in Nat /\ eng.dropped <= eng.packets
      BY <2>1 DEF Books
    <3>2. Limit \in Nat
      BY UdpAssumption
    <3> QED BY <2>1, <3>1, <3>2
  <2>4. \A k \in Keys : eng.sessions[k] \in {0} \cup Sids(eng)
    BY <2>1 DEF Table, Open
  <2>5. Open(eng) = {eng.sessions[k] : k \in Keys} \ {0}
    <3>1. ASSUME NEW s \in Open(eng) PROVE s \in {eng.sessions[k] : k \in Keys} \ {0}
      <4>1. eng.sess[s].key \in Keys /\ eng.sessions[eng.sess[s].key] = s /\ s # 0
        BY <2>1 DEF Table, Open
      <4> QED BY <4>1
    <3>2. ASSUME NEW k \in Keys, eng.sessions[k] # 0 PROVE eng.sessions[k] \in Open(eng)
      BY <2>1, <3>2 DEF Table
    <3> QED BY <3>1, <3>2
  <2>6. /\ \A s \in Open(eng) : eng.sessions[eng.sess[s].key] = s
        /\ eng.count = Cardinality(Open(eng)) /\ eng.count <= MaxFlows
    BY <2>1 DEF Table
  <2> QED BY <2>1, <2>2, <2>3, <2>4, <2>5, <2>6 DEF TypeOK
<1> QED BY <1>1, UdpSteady, PTL

(* on_expiry_timer never closes a session that was used within its timeout. *)
THEOREM UdpNeverEarly ==
  Spec => NeverEarly
<1>1. UdpInv /\ [Next]_vars =>
        [\A w \in eng.waits : TimerCallback(w) =>
           \A s \in Open(eng) : eng'.sess[s].closed =>
              active[s] + eng.sess[s].timeout <= now]_vars
  <2> SUFFICES ASSUME UdpInv, NEW w \in eng.waits, TimerCallback(w)
               PROVE  \A s \in Open(eng) : eng'.sess[s].closed =>
                        active[s] + eng.sess[s].timeout <= now
    OBVIOUS
  <2>1. Idle(eng, eng', active)
    BY CallbackSteady
  <2> QED BY <2>1 DEF Idle, Open
<1> QED BY <1>1, UdpSteady, PTL DEF Spec, NeverEarly

-----------------------------------------------------------------------------
(* How many entries a session has in the heap. *)

\* What division gives.
LEMMA DivIs ==
  ASSUME NEW a \in Nat, NEW P \in Nat, P > 0
  PROVE  a \div P \in Nat /\ P * (a \div P) <= a /\ a < P * (a \div P) + P
OBVIOUS

\* It keeps the order, and tells numbers apart that differ by the divisor.
LEMMA DivOrder ==
  ASSUME NEW a \in Nat, NEW b \in Nat, NEW P \in Nat, P > 0, a <= b
  PROVE  a \div P <= b \div P /\ (a + P <= b => a \div P < b \div P)
<1> DEFINE q == a \div P
           r == b \div P
<1>1. q \in Nat /\ P * q <= a /\ a < P * q + P
  BY DivIs
<1>2. r \in Nat /\ P * r <= b /\ b < P * r + P
  BY DivIs
<1> HIDE DEF q, r
<1>3. ASSUME NEW i \in Nat, NEW j \in Nat, i < j PROVE P * i + P <= P * j
  <2>1. j - i - 1 \in Nat /\ P * (j - i - 1) >= 0
    BY <1>3
  <2>2. P * (j - i - 1) = P * j - P * i - P
    OBVIOUS
  <2>3. P * i \in Nat /\ P * j \in Nat
    OBVIOUS
  <2> QED BY <2>1, <2>2, <2>3
<1>4. P * q \in Nat /\ P * r \in Nat
  BY <1>1, <1>2
<1>5. q <= r
  <2> SUFFICES ASSUME r < q PROVE FALSE
    BY <1>1, <1>2
  <2>1. P * r + P <= P * q
    BY <1>1, <1>2, <1>3
  <2> QED BY <1>1, <1>2, <1>4, <2>1
<1>6. ASSUME a + P <= b PROVE q < r
  <2>1. q # r
    BY <1>1, <1>2, <1>4, <1>6
  <2> QED BY <1>1, <1>2, <1>5, <2>1
<1> QED BY <1>5, <1>6 DEF q, r

\* The entries of a session were pushed at least PushInterval apart, none
\* longer ago than the longest timeout and the delay of the timer.
LEMMA EntriesOf ==
  ASSUME NEW e, NEW a, NEW t, Clock(e, a, t, {}), NEW s \in Sids(e)
  PROVE  Cardinality({x \in e.heap : x.sid = s}) <= (Longest + Late) \div PushInterval + 1
<1> DEFINE B == {x \in e.heap : x.sid = s}
           d == e.sess[s]
           P == PushInterval
           W == Longest + Late
           K == W \div P
<1>1. /\ Longest \in Nat /\ P \in Nat /\ P > 0 /\ Late \in Nat /\ W \in Nat /\ W = Longest + Late
  BY LongestIs
<1>2. SessTimed(e.heap, d, s, a[s], t, {}) /\ HeapOk(e) /\ t \in Nat
      /\ \A x \in e.heap : t <= x.at + Late
  BY DEF Clock
<1>3. PICK p \in [Nat -> Nat] : PushTimes(e.heap, d, s, p)
  BY <1>2 DEF SessTimed, Pushes
<1>4. d.last_push \in Nat /\ d.last_push <= t /\ d.gen \in Nat
  BY <1>2 DEF SessTimed, SessClock
<1>5. \A x \in B : x \in e.heap /\ x.at \in Nat /\ x.gen \in Nat /\ x.sid = s
                   /\ t <= x.at + Late
  BY <1>2 DEF HeapOk, Entries
<1>6. \A x, y \in B : x.gen = y.gen => x = y
  BY <1>2 DEF HeapOk
<1>7. K \in Nat
  BY <1>1, DivIs
<1> HIDE DEF d, P, W, K, B
<1> DEFINE q(x) == p[x.gen]
           back(x) == t - p[x.gen]
           f == [x \in B |-> (t - p[x.gen]) \div P]
<1>8. ASSUME NEW x \in B PROVE q(x) \in Nat /\ q(x) <= t /\ back(x) \in Nat /\ back(x) <= W
  <2>1. q(x) \in Nat /\ x.at <= q(x) + Longest
    BY <1>3, <1>5 DEF PushTimes
  <2>2. q(x) <= t
    <3>1. CASE x.gen = d.gen
      BY <1>3, <1>4, <1>5, <3>1 DEF PushTimes
    <3>2. CASE x.gen # d.gen
      <4>1. q(x) + P <= d.last_push
        BY <1>3, <1>5, <3>2 DEF PushTimes, P
      <4> QED BY <1>1, <1>4, <1>2, <2>1, <4>1
    <3> QED BY <3>1, <3>2
  <2>3. x.at \in Nat /\ t <= x.at + Late
    BY <1>5
  <2> HIDE DEF q
  <2>4. back(x) = t - q(x)
    BY DEF q
  <2> QED BY ONLY <1>1, <1>2, <2>1, <2>2, <2>3, <2>4
<1>9. ASSUME NEW x \in B, NEW y \in B, x.gen < y.gen PROVE back(y) + P <= back(x)
  <2>1. q(x) + P <= q(y)
    BY <1>3, <1>5, <1>9 DEF PushTimes, P
  <2>2. q(x) \in Nat /\ q(y) \in Nat
    BY <1>8
  <2> HIDE DEF q
  <2>3. back(x) = t - q(x) /\ back(y) = t - q(y)
    BY DEF q
  <2> QED BY ONLY <1>1, <1>2, <2>1, <2>2, <2>3
<1> HIDE DEF q
<1>10. ASSUME NEW x \in B, NEW y \in B, x.gen < y.gen PROVE f[y] < f[x]
  <2> DEFINE u == back(x)
             v == back(y)
  <2>1. u \in Nat /\ v \in Nat /\ v + P <= u /\ v <= u
    <3>1. u \in Nat /\ v \in Nat /\ v + P <= u
      BY <1>8, <1>9, <1>10
    <3> HIDE DEF u, v
    <3> QED BY <1>1, <3>1
  <2>2. f[x] = u \div P /\ f[y] = v \div P
    OBVIOUS
  <2> HIDE DEF u, v, f, back
  <2>3. v \div P < u \div P
    BY <1>1, <2>1, DivOrder
  <2> QED BY <2>2, <2>3
<1>11. ASSUME NEW x \in B PROVE f[x] \in 0 .. K /\ f[x] \in Nat
  <2> DEFINE u == back(x)
  <2>1. u \in Nat /\ u <= W
    BY <1>8
  <2>2. f[x] = u \div P
    OBVIOUS
  <2> HIDE DEF u, f, back
  <2>3. u \div P \in Nat /\ u \div P <= W \div P
    BY <1>1, <2>1, DivIs, DivOrder
  <2>4. W \div P = K
    BY DEF K
  <2> QED BY <1>7, <2>2, <2>3, <2>4
<1>12. \A x, y \in B : f[x] = f[y] => x = y
  <2> SUFFICES ASSUME NEW x \in B, NEW y \in B, f[x] = f[y] PROVE x = y
    OBVIOUS
  <2>1. x.gen \in Nat /\ y.gen \in Nat /\ f[x] \in Nat /\ f[y] \in Nat
    BY <1>5, <1>11
  <2>2. ~(x.gen < y.gen) /\ ~(y.gen < x.gen)
    <3>1. (x.gen < y.gen => f[y] < f[x]) /\ (y.gen < x.gen => f[x] < f[y])
      BY <1>10
    <3> HIDE DEF f
    <3> QED BY <2>1, <3>1
  <2>3. x.gen = y.gen
    BY <2>1, <2>2
  <2> QED BY <1>6, <2>3
<1>13. f \in Injection(B, 0 .. K)
  <2>1. f \in [B -> 0 .. K]
    BY <1>11
  <2> HIDE DEF f
  <2> QED BY <1>12, <2>1 DEF Injection, IsInjective
<1>14. IsFiniteSet(0 .. K) /\ Cardinality(0 .. K) = K + 1
  <2>1. 0 <= K /\ K - 0 + 1 = K + 1
    BY <1>7
  <2>2. Cardinality(0 .. K) = IF 0 > K THEN 0 ELSE K - 0 + 1
    BY <1>7, FS_Interval
  <2> QED BY <1>7, <2>1, <2>2, FS_Interval
<1>15. Cardinality(B) <= Cardinality(0 .. K)
  <2> HIDE DEF f
  <2> QED BY <1>13, <1>14, FS_Injection
<1> QED BY <1>14, <1>15 DEF B, K, W, P

(* refresh_expiry, arm_expiry_timer and on_expiry_timer: an open session has *)
(* its one valid entry in the heap, the timer waits for nothing later than   *)
(* the first such entry, with a wait that was not cancelled, and the throttle *)
(* bounds the entries of a session whatever the packet rate. *)
THEOREM UdpExpiryArmed ==
  Spec => []ExpiryArmed
<1>1. UdpInv => ExpiryArmed
  <2> SUFFICES ASSUME UdpInv PROVE ExpiryArmed
    OBVIOUS
  <2>1. Clock(eng, active, now, {}) /\ Armed(eng)
    BY DEF UdpInv, Steady
  <2>2. HeapOk(eng) /\ TimerOk(eng)
        /\ \A s \in Sids(eng) : SessTimed(eng.heap, eng.sess[s], s, active[s], now, {})
    BY <2>1 DEF Clock
  <2>3. ASSUME NEW s \in Open(eng)
        PROVE  eng.sess[s].heap_live /\ Cardinality({x \in Live(eng) : x.sid = s}) = 1
    <3> DEFINE d == eng.sess[s]
    <3>1. s \in Sids(eng) /\ ~d.closed
      BY DEF Open
    <3>2. EntryOk(eng.heap, d, s, {})
      BY <2>2, <3>1 DEF SessTimed
    <3>3. d.heap_live /\ \E x \in eng.heap : x.sid = s /\ x.gen = d.gen
      BY <3>2 DEF EntryOk
    <3>4. PICK x \in eng.heap : x.sid = s /\ x.gen = d.gen
      BY <3>3
    <3>5. \A y \in eng.heap : y.sid = s /\ y.gen = d.gen => y = x
      BY <2>2, <3>4 DEF HeapOk
    <3>6. {y \in Live(eng) : y.sid = s} = {x}
      <4>1. ASSUME NEW y, y \in Live(eng), y.sid = s PROVE y = x
        BY <3>5, <4>1 DEF Live, LiveEntry
      <4>2. x \in Live(eng) /\ x.sid = s
        BY <3>1, <3>4 DEF Live, LiveEntry
      <4> QED BY <4>1, <4>2
    <3> QED BY <3>3, <3>6, FS_Singleton
  <2>4. ASSUME NEW x \in Live(eng)
        PROVE  /\ eng.waiting /\ eng.target <= x.at
               /\ \E w \in eng.waits : w.gen = eng.wait_gen /\ w.at <= x.at /\ w.st # "aborted"
    <3>1. x \in eng.heap
      BY DEF Live
    <3>2. eng.waiting /\ eng.target <= x.at
      BY <2>1, <3>1 DEF Armed
    <3>3. PICK w \in eng.waits : w.gen = eng.wait_gen /\ w.at = eng.target /\ w.st # "aborted"
      BY <2>2, <3>2 DEF TimerOk
    <3> QED BY <3>2, <3>3
  <2>5. ASSUME NEW s \in Sids(eng)
        PROVE  Cardinality({x \in eng.heap : x.sid = s})
                 <= (Max({IdleTimeout, OtherTimeout}) + Late) \div PushInterval + 1
    <3>1. Cardinality({x \in eng.heap : x.sid = s}) <= (Longest + Late) \div PushInterval + 1
      BY <2>1, EntriesOf
    <3>2. Longest = Max({IdleTimeout, OtherTimeout})
      BY DEF Longest
    <3> QED BY <3>1, <3>2, Zenon
  <2> QED BY <2>3, <2>4, <2>5 DEF ExpiryArmed
<1> QED BY <1>1, UdpSteady, PTL

(* A session that nobody uses is gone within twice its own timeout, or its *)
(* first timeout, but for the delay of the timer: on_expiry_timer pushes a *)
(* session again that was used meanwhile, counted from the moment it was *)
(* found, and never a second time. *)
THEOREM UdpIdleBound ==
  Spec => []IdleBound
<1>1. UdpInv => IdleBound
  <2> SUFFICES ASSUME UdpInv, NEW s \in Open(eng)
               PROVE  now <= active[s] + Max({2 * eng.sess[s].timeout, IdleTimeout}) + Late
    BY DEF IdleBound
  <2> DEFINE d == eng.sess[s]
             u == active[s]
  <2>1. Clock(eng, active, now, {})
    BY DEF UdpInv, Steady
  <2>2. s \in Sids(eng) /\ ~d.closed
    BY DEF Open
  <2>3. SessTimed(eng.heap, d, s, u, now, {}) /\ HeapOk(eng) /\ now \in Nat
        /\ \A x \in eng.heap : now <= x.at + Late
    BY <2>1, <2>2 DEF Clock
  <2> HIDE DEF d, u
  <2>4. PICK x \in eng.heap : x.sid = s /\ x.gen = d.gen
    BY <2>2, <2>3 DEF SessTimed, EntryOk
  <2>5. u \in Nat /\ d.timeout \in Nat
    BY <2>2, <2>3, LongestIs DEF SessTimed, SessClock, Used
  <2>6. x.at \in Nat /\ now <= x.at + Late
    BY <2>3, <2>4 DEF HeapOk, Entries
  <2>7. x.at <= u + 2 * d.timeout \/ x.at <= u + IdleTimeout
    BY <2>2, <2>3, <2>4 DEF SessTimed, Used
  <2>8. IdleTimeout \in Nat /\ Late \in Nat
    BY LongestIs
  <2> DEFINE own == 2 * d.timeout
             m == Max({own, IdleTimeout})
  <2>9. own \in Nat
    BY <2>5
  <2> HIDE DEF own
  <2>10. m \in Nat /\ own <= m /\ IdleTimeout <= m
    BY <2>8, <2>9 DEF Max
  <2>11. x.at <= u + own \/ x.at <= u + IdleTimeout
    BY <2>7 DEF own
  <2> HIDE DEF m
  <2>12. now <= u + m + Late
    BY ONLY <2>3, <2>5, <2>6, <2>8, <2>9, <2>10, <2>11
  <2> QED BY <2>12 DEF u, m, own, d
<1> QED BY <1>1, UdpSteady, PTL

-----------------------------------------------------------------------------
(* Fragments. *)

\* Rounds of one length: one more of them.
LEMMA TimesOf ==
  ASSUME NEW F \in Nat, NEW k \in Nat
  PROVE  k * F \in Nat /\ (k + 1) * F = k * F + F
<1>1. k * F \in Nat
  OBVIOUS
<1>2. (k + 1) * F = k * F + F
  OBVIOUS
<1> QED BY <1>1, <1>2

\* Fewer of them reach less far.
LEMMA TimesOrder ==
  ASSUME NEW F \in Nat, NEW j \in Nat, NEW k \in Nat, j <= k
  PROVE  j * F <= k * F
<1> DEFINE d == k - j
<1>1. d \in Nat /\ k = j + d
  OBVIOUS
<1> HIDE DEF d
<1>2. (j + d) * F = j * F + d * F
  BY <1>1
<1>3. j * F \in Nat /\ d * F \in Nat
  BY <1>1, TimesOf
<1> QED BY <1>1, <1>2, <1>3

\* Eights.
LEMMA EightsOf ==
  ASSUME NEW g \in Nat, NEW k \in Nat, NEW x, x = k * (8 * g)
  PROVE  x % 8 = 0
<1> DEFINE h == k * g
<1>1. h \in Nat /\ x = 8 * h
  OBVIOUS
<1> HIDE DEF h
<1>2. (8 * h) % 8 = 0
  BY <1>1
<1> QED BY <1>1, <1>2

\* A fragment's room is a multiple of 8, and the first has no less than the others.
LEMMA FragRoom ==
  ASSUME NEW mtu \in Nat, FragMax(mtu) >= UdpHdr, NEW F, F = FragMax(mtu)
  PROVE  /\ F \in Nat /\ F > 0 /\ FirstPart(mtu) = F
         /\ \E g \in Nat : F = 8 * g
         /\ mtu >= 20 + UdpHdr => 20 + F <= mtu
<1> DEFINE a == Minus(mtu, 20)
           g == a \div 8
<1>1. IpHdr(FALSE) = 20 /\ UdpHdr = 8
  BY DEF IpHdr, UdpHdr
<1>2. a \in Nat /\ (mtu >= 28 => a = mtu - 20)
  BY DEF Minus
<1> HIDE DEF a
<1>3. g \in Nat /\ 8 * g <= a
  BY <1>2, DivIs
<1>4. F = 8 * g
  BY <1>1 DEF FragMax, Down8, a
<1> HIDE DEF g
<1>5. g >= 1
  BY <1>1, <1>3, <1>4
<1>6. Minus(F, UdpHdr) = 8 * (g - 1)
  BY <1>1, <1>3, <1>4, <1>5 DEF Minus
<1>7. (8 * (g - 1)) \div 8 = g - 1
  BY <1>3, <1>5
<1>8. FirstPart(mtu) = 8 + 8 * (g - 1)
  BY <1>1, <1>6, <1>7 DEF FirstPart, Down8
<1> QED BY <1>1, <1>2, <1>3, <1>4, <1>5, <1>8

\* The last round of the loop is the first that reaches the end.
LEMMA RoundsOf ==
  ASSUME NEW F \in Nat, F > 0, NEW n \in Nat, n > 0,
         NEW C, C = 1 + (Minus(n, F) + F - 1) \div F
  PROVE  C \in Nat /\ C >= 1 /\ (C - 1) * F < n /\ n <= C * F
<1> DEFINE x == Minus(n, F) + F - 1
           q == x \div F
<1>1. x \in Nat /\ (n <= F => x = F - 1) /\ (n > F => x = n - 1)
  BY DEF Minus
<1>2. C = 1 + q
  OBVIOUS
<1> HIDE DEF x
<1>3. q \in Nat /\ F * q <= x /\ x < F * q + F
  BY <1>1, DivIs
<1> HIDE DEF q
<1>4. q * F = F * q /\ q * F \in Nat /\ (q + 1) * F = q * F + F
  BY <1>3, TimesOf
<1>5. C \in Nat /\ C >= 1 /\ C - 1 = q /\ C = q + 1
  BY <1>2, <1>3
<1>6. q * F < n
  <2>1. CASE n > F
    BY <1>1, <1>3, <1>4, <2>1
  <2>2. CASE n <= F
    <3>1. q * F < F
      BY <1>1, <1>3, <1>4, <2>2
    <3>2. q = 0
      <4>1. q >= 1 => 1 * F <= q * F
        BY <1>3, TimesOrder
      <4> QED BY <1>3, <1>4, <3>1, <4>1
    <3> QED BY <1>4, <3>2
  <2> QED BY <2>1, <2>2
<1>7. n <= (q + 1) * F
  <2>1. n <= x + 1
    BY <1>1
  <2> QED BY <1>1, <1>3, <1>4, <2>1
<1> QED BY <1>5, <1>6, <1>7

\* The parts follow one another, fit, and are the n bytes of a datagram.
Parts(p, n, mtu, hdr) ==
  /\ p[1].off = 0
  /\ \A j \in 2 .. Len(p) : p[j].off = p[j - 1].off + p[j - 1].len
  /\ p[Len(p)].off + p[Len(p)].len = n
  /\ \A j \in 1 .. Len(p) : /\ p[j].len > 0 /\ p[j].off % 8 = 0
                            /\ p[j].more = (j < Len(p))
                            /\ mtu >= hdr + UdpHdr => hdr + p[j].len <= mtu

PktFields == {"off", "len", "more", "st"}

\* They are handed to the write queue.
Handed(p) ==
  IsSeq(p) /\ p # <<>> /\ \A j \in 1 .. Len(p) : DOMAIN p[j] = PktFields /\ p[j].st = "queued"

\* udp_write_ipv4_fragments.
LEMMA FragsAre ==
  ASSUME NEW mtu \in Nat, FragMax(mtu) >= UdpHdr, NEW n \in Nat, n > 0,
         NEW p, p = udp_write_ipv4_fragments(mtu, n)
  PROVE  Handed(p) /\ Parts(p, n, mtu, 20)
<1> DEFINE F == FragMax(mtu)
           C == FragCount(mtu, n)
           At(i) == FragStart(mtu, i)
           End(i) == Least(n, At(i + 1))
<1>1. F \in Nat /\ F > 0 /\ FirstPart(mtu) = F /\ (mtu >= 20 + UdpHdr => 20 + F <= mtu)
  BY FragRoom
<1>2. PICK g \in Nat : F = 8 * g
  BY FragRoom
<1>3. C \in Nat /\ C >= 1 /\ (C - 1) * F < n /\ n <= C * F
  <2>1. C = 1 + (Minus(n, F) + F - 1) \div F
    BY <1>1 DEF FragCount
  <2> HIDE DEF F, C
  <2> QED BY <1>1, <2>1, RoundsOf
<1>4. p = [i \in 1 .. C |-> [off |-> At(i), len |-> End(i) - At(i), more |-> End(i) < n,
                             st |-> "queued"]]
  BY DEF udp_write_ipv4_fragments
<1>5. ASSUME NEW k \in Nat PROVE At(k + 1) = k * F
  <2>1. CASE k = 0
    <3>1. At(1) = 0
      BY DEF FragStart
    <3> QED BY <1>1, <2>1, <3>1
  <2>2. CASE k # 0
    <3>1. At(k + 1) = F + (k - 1) * F
      BY <1>1, <2>2 DEF FragStart
    <3>2. k - 1 \in Nat /\ k = (k - 1) + 1
      BY <2>2
    <3>3. ((k - 1) + 1) * F = (k - 1) * F + F /\ (k - 1) * F \in Nat
      BY <1>1, <3>2, TimesOf
    <3> QED BY <1>1, <3>1, <3>2, <3>3
  <2> QED BY <2>1, <2>2
<1> HIDE DEF F, C, At
<1>6. ASSUME NEW i \in 1 .. C
      PROVE  /\ At(i) = (i - 1) * F /\ At(i) \in Nat /\ At(i) < n /\ At(i) % 8 = 0
             /\ i < C => End(i) = At(i + 1)
             /\ i = C => End(i) = n
             /\ End(i) \in Nat /\ At(i) < End(i) /\ End(i) - At(i) <= F
             /\ End(i) < n <=> i < C
  <2> DEFINE k == i - 1
  <2>1. k \in Nat /\ i = k + 1 /\ i \in Nat
    BY <1>3
  <2>2. At(i) = k * F /\ At(i + 1) = i * F
    BY <1>5, <2>1
  <2>3. k * F \in Nat /\ i * F = k * F + F /\ i * F \in Nat
    BY <1>1, <2>1, TimesOf
  <2>4. k * F <= (C - 1) * F /\ (C - 1) * F \in Nat
    <3>1. k <= C - 1 /\ C - 1 \in Nat
      BY <1>3
    <3> QED BY <1>1, <2>1, <3>1, TimesOrder, TimesOf
  <2>5. i < C => i * F <= (C - 1) * F
    <3>1. i < C => i <= C - 1 /\ C - 1 \in Nat
      BY <1>3, <2>1
    <3> QED BY <1>1, <2>1, <3>1, TimesOrder
  <2>6. (k * F) % 8 = 0
    BY <1>2, <2>1, EightsOf
  <2>7. i < C \/ i = C
    BY <1>3
  <2> DEFINE a == At(i)
             b == At(i + 1)
             c == (C - 1) * F
  <2>8. a \in Nat /\ b = a + F /\ b \in Nat /\ c \in Nat /\ a <= c /\ c < n /\ (i < C => b <= c)
        /\ (i = C => n <= b)
    BY <1>3, <2>2, <2>3, <2>4, <2>5
  <2>9. End(i) = IF n < b THEN n ELSE b
    BY DEF Least
  <2>10. a = k * F /\ a % 8 = 0
    BY <2>2, <2>6
  <2> HIDE DEF a, b, c, End, k
  <2>11. /\ a < n /\ (i < C => End(i) = b) /\ (i = C => End(i) = n)
         /\ End(i) \in Nat /\ a < End(i) /\ End(i) - a <= F /\ (End(i) < n <=> i < C)
    BY <1>1, <2>7, <2>8, <2>9
  <2> QED BY <2>8, <2>10, <2>11 DEF a, b, k
<1> HIDE DEF End
<1>7. IsSeq(p) /\ Len(p) = C
  <2>1. DOMAIN p = 1 .. C /\ p = [i \in 1 .. C |-> p[i]]
    BY <1>4
  <2> QED BY <1>3, <2>1, SeqMade
<1>8. ASSUME NEW i \in 1 .. C
      PROVE  /\ DOMAIN p[i] = PktFields /\ p[i].st = "queued"
             /\ p[i].off = At(i) /\ p[i].len = End(i) - At(i) /\ p[i].more = (End(i) < n)
  BY <1>4 DEF PktFields
<1>9. 1 \in 1 .. C /\ C \in 1 .. C
  BY <1>3
<1>10. Handed(p)
  <2>1. p # <<>>
    BY <1>3, <1>7, SeqMembers
  <2> QED BY <1>7, <1>8, <2>1 DEF Handed
<1>11. p[1].off = 0
  <2>1. At(0 + 1) = 0 * F
    BY <1>5
  <2> QED BY <1>1, <1>8, <1>9, <2>1
<1>12. ASSUME NEW j \in 2 .. C PROVE p[j].off = p[j - 1].off + p[j - 1].len
  <2>1. j - 1 \in 1 .. C /\ j \in 1 .. C /\ j - 1 < C /\ (j - 1) + 1 = j
    BY <1>3
  <2>2. /\ End(j - 1) = At(j) /\ At(j) \in Nat /\ At(j - 1) \in Nat
    BY <1>6, <2>1
  <2>3. p[j].off = At(j) /\ p[j - 1].off = At(j - 1) /\ p[j - 1].len = End(j - 1) - At(j - 1)
    BY <1>8, <2>1
  <2> QED BY <2>2, <2>3
<1>13. p[C].off + p[C].len = n
  <2>1. End(C) = n /\ At(C) \in Nat
    BY <1>6, <1>9
  <2>2. p[C].off = At(C) /\ p[C].len = End(C) - At(C)
    BY <1>8, <1>9
  <2> QED BY <2>1, <2>2
<1>14. ASSUME NEW j \in 1 .. C
       PROVE  /\ p[j].len > 0 /\ p[j].off % 8 = 0 /\ p[j].more = (j < C)
              /\ mtu >= 20 + UdpHdr => 20 + p[j].len <= mtu
  <2>1. /\ At(j) \in Nat /\ At(j) % 8 = 0 /\ End(j) \in Nat /\ At(j) < End(j)
        /\ End(j) - At(j) <= F /\ (End(j) < n <=> j < C)
    BY <1>6
  <2>2. p[j].off = At(j) /\ p[j].len = End(j) - At(j) /\ p[j].more = (End(j) < n)
    BY <1>8
  <2>3. p[j].len > 0 /\ p[j].off % 8 = 0 /\ (mtu >= 20 + UdpHdr => 20 + p[j].len <= mtu)
    BY <1>1, <2>1, <2>2
  <2>4. (End(j) < n) = (j < C)
    BY <2>1
  <2> QED BY <2>2, <2>3, <2>4
<1> QED BY <1>7, <1>10, <1>11, <1>12, <1>13, <1>14 DEF Parts

\* udp_send_single.
LEMMA SingleIs ==
  ASSUME NEW n \in Nat, n > 0, NEW mtu \in Nat, NEW hdr \in Nat,
         mtu >= hdr + UdpHdr => hdr + n <= mtu, NEW p, p = udp_send_single(n)
  PROVE  Handed(p) /\ Parts(p, n, mtu, hdr)
<1> DEFINE x == [off |-> 0, len |-> n, more |-> FALSE, st |-> "queued"]
<1>1. p = <<x>>
  BY DEF udp_send_single
<1>2. DOMAIN x = PktFields /\ x.st = "queued" /\ x.off = 0 /\ x.len = n /\ x.more = FALSE
  BY DEF PktFields
<1> HIDE DEF x
<1>3. Len(p) = 1 /\ p[1] = x /\ DOMAIN p = 1 .. 1 /\ p = [i \in 1 .. 1 |-> p[i]]
  BY <1>1
<1>4. IsSeq(p)
  BY <1>3, SeqMade
<1>5. p # <<>>
  BY <1>3, <1>4, SeqMembers
<1>6. \A j \in 1 .. 1 : j = 1
  OBVIOUS
<1>7. FALSE = (1 < 1) /\ 0 % 8 = 0
  OBVIOUS
<1>8. \A j \in 1 .. 1 : p[j] = x
  BY <1>3, <1>6
<1>9. Handed(p)
  BY <1>2, <1>3, <1>4, <1>5, <1>8 DEF Handed
<1>10. p[1].off = 0 /\ p[1].off + p[1].len = n
  BY <1>2, <1>3
<1>11. \A j \in 2 .. 1 : p[j].off = p[j - 1].off + p[j - 1].len
  OBVIOUS
<1>12. ASSUME NEW j \in 1 .. 1
       PROVE  /\ p[j].len > 0 /\ p[j].off % 8 = 0 /\ p[j].more = (j < 1)
              /\ mtu >= hdr + UdpHdr => hdr + p[j].len <= mtu
  BY <1>2, <1>6, <1>7, <1>8
<1> QED BY <1>3, <1>9, <1>10, <1>11, <1>12 DEF Parts

-----------------------------------------------------------------------------
(* Sends and their results. *)

MsgFields == {"sid", "total", "st", "pkts", "pending", "err", "times"}

Queued(p) == {j \in 1 .. Len(p) : p[j].st = "queued"}

\* The packets of a send: pending counts those that are queued, err tells of a
\* failed one.
Tallied(m) ==
  /\ DOMAIN m = MsgFields /\ IsSeq(m.pkts)
  /\ \A j \in 1 .. Len(m.pkts) :
       DOMAIN m.pkts[j] = PktFields /\ m.pkts[j].st \in {"queued", "written", "failed"}
  /\ m.pending = Cardinality(Queued(m.pkts)) /\ m.err \in BOOLEAN
  /\ m.err <=> \E j \in 1 .. Len(m.pkts) : m.pkts[j].st = "failed"

\* The result is there when no packet is queued, and is theirs.
Answered(m) ==
  /\ m.times = (IF m.st = "wait" THEN 0 ELSE 1)
  /\ m.st = "wait" <=> m.pending # 0
  /\ m.st = "ok" <=> m.pkts # <<>> /\ \A j \in 1 .. Len(m.pkts) : m.pkts[j].st = "written"

Message(m, mtu, hdr) ==
  /\ Tallied(m) /\ Answered(m)
  /\ m.pkts # <<>> => Parts(m.pkts, UdpHdr + m.total, mtu, hdr)

\* How many packets are queued.
LEMMA QueuedIs ==
  ASSUME NEW p, IsSeq(p)
  PROVE  /\ IsFiniteSet(Queued(p)) /\ Cardinality(Queued(p)) \in Nat
         /\ Cardinality(Queued(p)) = 0 <=> \A j \in 1 .. Len(p) : p[j].st # "queued"
<1>1. Len(p) \in Nat
  BY SeqIs
<1>2. IsFiniteSet(1 .. Len(p))
  BY <1>1, FS_Interval
<1>3. IsFiniteSet(Queued(p))
  BY <1>2, FS_Subset DEF Queued
<1>4. Cardinality(Queued(p)) \in Nat /\ (Cardinality(Queued(p)) = 0 <=> Queued(p) = {})
  BY <1>3, FS_CardinalityType, FS_EmptySet
<1>5. Queued(p) = {} <=> \A j \in 1 .. Len(p) : p[j].st # "queued"
  BY DEF Queued
<1> QED BY <1>3, <1>4, <1>5

\* A send that was refused.
LEMMA MessageRefused ==
  ASSUME NEW m, DOMAIN m = MsgFields, m.pkts = <<>>, m.pending = 0, m.err = FALSE, m.times = 1,
         m.st # "wait", m.st # "ok", NEW mtu, NEW hdr
  PROVE  Message(m, mtu, hdr)
<1>1. IsSeq(m.pkts) /\ Len(m.pkts) = 0 /\ 1 .. 0 = {}
  BY SeqEmpty
<1>2. Cardinality(Queued(m.pkts)) = 0
  BY <1>1, QueuedIs
<1>3. Tallied(m)
  BY <1>1, <1>2 DEF Tallied
<1>4. Answered(m)
  BY DEF Answered
<1> QED BY <1>3, <1>4 DEF Message

\* A send whose packets were queued.
LEMMA MessageQueued ==
  ASSUME NEW m, DOMAIN m = MsgFields, Handed(m.pkts), m.pending = Len(m.pkts), m.err = FALSE,
         m.times = 0, m.st = "wait", NEW mtu, NEW hdr, Parts(m.pkts, UdpHdr + m.total, mtu, hdr)
  PROVE  Message(m, mtu, hdr)
<1> DEFINE p == m.pkts
<1>1. IsSeq(p) /\ p # <<>> /\ Len(p) \in Nat /\ Len(p) # 0
      /\ \A j \in 1 .. Len(p) : DOMAIN p[j] = PktFields /\ p[j].st = "queued"
  <2>1. IsSeq(p) /\ p # <<>> /\ \A j \in 1 .. Len(p) : DOMAIN p[j] = PktFields /\ p[j].st = "queued"
    BY DEF Handed
  <2> QED BY <2>1, SeqIs, SeqMembers
<1>2. Queued(p) = 1 .. Len(p)
  BY <1>1 DEF Queued
<1>3. Cardinality(Queued(p)) = Len(p)
  <2>1. Cardinality(1 .. Len(p)) = IF 1 > Len(p) THEN 0 ELSE Len(p) - 1 + 1
    BY <1>1, FS_Interval
  <2> QED BY <1>1, <1>2, <2>1
<1>4. Tallied(m)
  <2>1. m.err \in BOOLEAN /\ ~m.err
    OBVIOUS
  <2> QED BY <1>1, <1>3, <2>1 DEF Tallied
<1>5. Answered(m)
  <2>1. 1 \in 1 .. Len(p) /\ p[1].st # "written"
    BY <1>1
  <2> QED BY <1>1, <2>1 DEF Answered
<1> QED BY <1>4, <1>5 DEF Message

\* Parts looks at places and lengths only.
LEMMA PartsSame ==
  ASSUME NEW p, NEW q, Len(q) = Len(p), Len(p) \in Nat, Len(p) # 0,
         \A j \in 1 .. Len(p) : q[j].off = p[j].off /\ q[j].len = p[j].len /\ q[j].more = p[j].more,
         NEW n, NEW mtu, NEW hdr, Parts(p, n, mtu, hdr)
  PROVE  Parts(q, n, mtu, hdr)
<1> DEFINE L == Len(p)
<1>1. L \in Nat /\ 1 \in 1 .. L /\ L \in 1 .. L /\ Len(q) = L
  OBVIOUS
<1>2. \A j \in 2 .. L : j \in 1 .. L /\ j - 1 \in 1 .. L
  BY <1>1
<1>3. \A j \in 1 .. L : q[j].off = p[j].off /\ q[j].len = p[j].len /\ q[j].more = p[j].more
  OBVIOUS
<1>4. Parts(p, n, mtu, hdr) /\ Len(p) = L
  OBVIOUS
<1> HIDE DEF L
<1>5. q[1].off = 0 /\ q[L].off + q[L].len = n
  BY <1>1, <1>3, <1>4 DEF Parts
<1>6. \A j \in 2 .. L : q[j].off = q[j - 1].off + q[j - 1].len
  BY <1>2, <1>3, <1>4 DEF Parts
<1>7. \A j \in 1 .. L : /\ q[j].len > 0 /\ q[j].off % 8 = 0 /\ q[j].more = (j < L)
                        /\ mtu >= hdr + UdpHdr => hdr + q[j].len <= mtu
  BY <1>3, <1>4 DEF Parts
<1> QED BY <1>1, <1>5, <1>6, <1>7 DEF Parts

\* The answer for a packet that is queued.
Told(m, j, ok) ==
  [m EXCEPT !.pkts[j].st = IF ok THEN "written" ELSE "failed", !.err = @ \/ ~ok,
            !.pending = @ - 1]

\* It is counted.
Counted(m, r) ==
  /\ Tallied(r) /\ m.pending # 0 /\ r.pkts # <<>>
  /\ r.sid = m.sid /\ r.total = m.total /\ r.st = m.st /\ r.times = m.times
  /\ r.pending = 0 => (~r.err <=> \A i \in 1 .. Len(r.pkts) : r.pkts[i].st = "written")
  /\ \A n, mtu, hdr : Parts(m.pkts, n, mtu, hdr) => Parts(r.pkts, n, mtu, hdr)

\* The answer keeps what a send says of its packets.
LEMMA MessageTold ==
  ASSUME NEW m, Tallied(m), NEW j \in 1 .. Len(m.pkts), m.pkts[j].st = "queued",
         NEW ok \in BOOLEAN, NEW r, r = Told(m, j, ok)
  PROVE  Counted(m, r)
<1> DEFINE p == m.pkts
           st == IF ok THEN "written" ELSE "failed"
           x == [p[j] EXCEPT !.st = st]
           q == r.pkts
<1>1. /\ DOMAIN m = MsgFields /\ IsSeq(p) /\ j \in 1 .. Len(p) /\ p[j].st = "queued"
      /\ \A i \in 1 .. Len(p) : DOMAIN p[i] = PktFields /\ p[i].st \in {"queued", "written", "failed"}
      /\ m.pending = Cardinality(Queued(p)) /\ m.err \in BOOLEAN
      /\ m.err <=> \E i \in 1 .. Len(p) : p[i].st = "failed"
  BY DEF Tallied
<1>2. Len(p) \in Nat /\ DOMAIN p = 1 .. Len(p)
  BY <1>1, SeqIs
<1>3. /\ DOMAIN r = MsgFields /\ q = Put(p, j, x) /\ r.pending = m.pending - 1
      /\ r.sid = m.sid /\ r.total = m.total /\ r.st = m.st /\ r.times = m.times
  BY <1>1 DEF Told, MsgFields, Put
<1>4. r.err = (m.err \/ ~ok)
  BY <1>1 DEF Told, MsgFields
<1>5. /\ DOMAIN x = PktFields /\ x.st = st /\ x.off = p[j].off /\ x.len = p[j].len
      /\ x.more = p[j].more /\ st \in {"written", "failed"} /\ (st = "failed" <=> ~ok)
  BY <1>1 DEF PktFields
<1> HIDE DEF p, x, st, q
<1>6. /\ IsSeq(q) /\ Len(q) = Len(p) /\ q[j] = x /\ \A i \in 1 .. Len(p) : i # j => q[i] = p[i]
  BY <1>1, <1>2, <1>3, SeqExcept
<1>7. \A i \in 1 .. Len(p) : /\ DOMAIN q[i] = PktFields /\ q[i].st \in {"queued", "written", "failed"}
                             /\ q[i].off = p[i].off /\ q[i].len = p[i].len /\ q[i].more = p[i].more
  BY <1>1, <1>5, <1>6
<1>8. Queued(q) = Queued(p) \ {j} /\ j \in Queued(p)
  BY <1>1, <1>5, <1>6 DEF Queued
<1>9. /\ Cardinality(Queued(q)) = m.pending - 1 /\ m.pending \in Nat /\ m.pending # 0
      /\ r.pending = Cardinality(Queued(q))
  <2>1. IsFiniteSet(Queued(p)) /\ Cardinality(Queued(p)) \in Nat
        /\ (Cardinality(Queued(p)) = 0 => \A i \in 1 .. Len(p) : p[i].st # "queued")
    BY <1>1, QueuedIs
  <2>2. Cardinality(Queued(q)) = Cardinality(Queued(p)) - 1
    BY <1>8, <2>1, FS_RemoveElement
  <2>3. Cardinality(Queued(p)) # 0
    BY <1>1, <2>1
  <2> QED BY <1>1, <1>3, <2>1, <2>2, <2>3
<1>10. r.err \in BOOLEAN /\ (r.err <=> m.err \/ ~ok)
  BY <1>1, <1>4
<1>11. (\E i \in 1 .. Len(q) : q[i].st = "failed") <=> m.err \/ ~ok
  <2>1. q[j].st = "failed" <=> ~ok
    BY <1>5, <1>6
  <2>2. \A i \in 1 .. Len(p) : i # j => q[i].st = p[i].st
    BY <1>6
  <2>3. p[j].st # "failed"
    BY <1>1
  <2> QED BY <1>1, <1>6, <2>1, <2>2, <2>3, Zenon
<1>12. Tallied(r)
  <2>1. r.err <=> \E i \in 1 .. Len(q) : q[i].st = "failed"
    BY <1>10, <1>11
  <2> QED BY <1>3, <1>6, <1>7, <1>9, <1>10, <2>1 DEF Tallied, q
<1>13. q # <<>> /\ Len(p) # 0
  BY <1>1, <1>2, <1>6, SeqMembers
<1>14. ASSUME r.pending = 0 PROVE ~r.err <=> \A i \in 1 .. Len(q) : q[i].st = "written"
  <2>1. \A i \in 1 .. Len(q) : q[i].st # "queued"
    BY <1>6, <1>9, <1>14, QueuedIs
  <2>2. \A i \in 1 .. Len(q) : q[i].st \in {"written", "failed"}
    BY <1>6, <1>7, <2>1
  <2>3. r.err <=> \E i \in 1 .. Len(q) : q[i].st = "failed"
    BY <1>10, <1>11
  <2>4. \A i \in 1 .. Len(q) : q[i].st = "written" <=> q[i].st # "failed"
    BY <2>2
  <2> QED BY <1>10, <2>3, <2>4, Zenon
<1>15. \A n, mtu, hdr : Parts(p, n, mtu, hdr) => Parts(q, n, mtu, hdr)
  BY <1>2, <1>6, <1>7, <1>13, PartsSame
<1> QED BY <1>3, <1>9, <1>12, <1>13, <1>14, <1>15 DEF p, q, Counted

\* A send as on_frag leaves it: it is completed with its last packet.
Ending(r) == [r EXCEPT !.st = IF r.err THEN "error" ELSE "ok", !.times = @ + 1]

\* It is the send of the answer, or its end.
LEMMA MessageFrag ==
  ASSUME NEW m, NEW mtu, NEW hdr, Message(m, mtu, hdr), NEW j \in 1 .. Len(m.pkts),
         m.pkts[j].st = "queued", NEW ok \in BOOLEAN, NEW r, r = Told(m, j, ok),
         NEW c, c = IF r.pending # 0 THEN r ELSE Ending(r)
  PROVE  Message(c, mtu, hdr) /\ c.sid = m.sid
<1>1. /\ Tallied(m) /\ Answered(m) /\ (m.pkts # <<>> => Parts(m.pkts, UdpHdr + m.total, mtu, hdr))
  BY DEF Message
<1>2. /\ Tallied(r) /\ m.pending # 0 /\ r.pkts # <<>>
      /\ r.sid = m.sid /\ r.total = m.total /\ r.st = m.st /\ r.times = m.times
      /\ r.pending = 0 => (~r.err <=> \A i \in 1 .. Len(r.pkts) : r.pkts[i].st = "written")
      /\ Parts(m.pkts, UdpHdr + m.total, mtu, hdr) => Parts(r.pkts, UdpHdr + m.total, mtu, hdr)
  <2>1. Tallied(m)
    BY <1>1
  <2>2. Counted(m, r)
    BY <2>1, MessageTold
  <2> QED BY <2>2 DEF Counted
<1>3. m.pkts # <<>>
  <2>1. IsSeq(m.pkts) /\ Len(m.pkts) \in Nat
    BY <1>1, SeqIs DEF Tallied
  <2>2. Len(m.pkts) # 0
    BY <2>1
  <2> QED BY <2>1, <2>2, SeqMembers
<1>4. Parts(r.pkts, UdpHdr + r.total, mtu, hdr)
  BY <1>1, <1>2, <1>3
<1>5. m.st = "wait" /\ m.times = 0
  BY <1>1, <1>2 DEF Answered
<1>6. /\ DOMAIN r = MsgFields /\ IsSeq(r.pkts) /\ r.err \in BOOLEAN
      /\ r.pending = Cardinality(Queued(r.pkts))
  BY <1>2 DEF Tallied
<1>7. CASE r.pending # 0
  <2>1. c = r
    BY <1>7
  <2>2. ~\A i \in 1 .. Len(r.pkts) : r.pkts[i].st = "written"
    <3>1. PICK i \in 1 .. Len(r.pkts) : r.pkts[i].st = "queued"
      BY <1>6, <1>7, QueuedIs
    <3> QED BY <3>1
  <2>3. Answered(r)
    BY <1>2, <1>5, <1>7, <2>2 DEF Answered
  <2> QED BY <1>2, <1>4, <2>1, <2>3 DEF Message
<1>8. CASE r.pending = 0
  <2> DEFINE st == IF r.err THEN "error" ELSE "ok"
  <2>1. c = Ending(r)
    BY <1>8
  <2>2. /\ DOMAIN c = MsgFields /\ c.st = st /\ c.times = r.times + 1 /\ c.pkts = r.pkts
        /\ c.sid = r.sid /\ c.total = r.total /\ c.err = r.err /\ c.pending = r.pending
    BY <1>6, <2>1 DEF Ending, MsgFields
  <2>3. st # "wait" /\ (st = "ok" <=> ~r.err)
    BY <1>6
  <2> HIDE DEF st
  <2>4. Tallied(c)
    BY <1>2, <2>2 DEF Tallied
  <2>5. Answered(c)
    <3>1. c.st = "ok" <=> c.pkts # <<>> /\ \A i \in 1 .. Len(c.pkts) : c.pkts[i].st = "written"
      BY <1>2, <1>8, <2>2, <2>3
    <3>2. c.times = 1 /\ c.st # "wait" /\ c.pending = 0
      BY <1>2, <1>5, <1>8, <2>2, <2>3
    <3> QED BY <3>1, <3>2 DEF Answered
  <2> QED BY <1>2, <1>4, <2>2, <2>4, <2>5 DEF Message
<1> QED BY <1>7, <1>8

Room(e, s) == IpHdr(e.sess[s].key \in V6Keys)

\* The sends of an engine.
Sends(e, mtu) ==
  /\ IsSeq(e.sends)
  /\ \A i \in DOMAIN e.sends :
       e.sends[i].sid \in Sids(e) /\ Message(e.sends[i], mtu, Room(e, e.sends[i].sid))

\* They do not depend on anything else.
LEMMA ServedSends ==
  ASSUME NEW e, NEW f, NEW mtu, Sends(e, mtu), Served(e, f)
  PROVE  Sends(f, mtu)
<1>1. \A s \in Sids(e) : s \in Sids(f) /\ Room(f, s) = Room(e, s)
  BY DEF Served, Room
<1>2. f.sends = e.sends
  BY DEF Served
<1> QED BY <1>1, <1>2 DEF Sends

SameKeys(e, f) == Sids(e) \subseteq Sids(f) /\ \A r \in Sids(e) : f.sess[r].key = e.sess[r].key

\* A send joins.
LEMMA SendsAdd ==
  ASSUME NEW e, NEW f, NEW mtu, Sends(e, mtu), SameKeys(e, f), NEW m, f.sends = Add(e.sends, m),
         m.sid \in Sids(e), Message(m, mtu, Room(e, m.sid))
  PROVE  Sends(f, mtu)
<1> DEFINE k == Len(e.sends) + 1
<1>1. /\ IsSeq(f.sends) /\ Len(f.sends) = k /\ f.sends[k] = m
      /\ \A i \in 1 .. Len(e.sends) : f.sends[i] = e.sends[i]
  BY SeqAppend DEF Sends
<1>2. DOMAIN e.sends = 1 .. Len(e.sends) /\ Len(e.sends) \in Nat /\ DOMAIN f.sends = 1 .. k
  BY <1>1, SeqIs DEF Sends
<1>3. \A s \in Sids(e) : s \in Sids(f) /\ Room(f, s) = Room(e, s)
  BY DEF SameKeys, Room
<1>4. ASSUME NEW i \in 1 .. k
      PROVE  f.sends[i].sid \in Sids(f) /\ Message(f.sends[i], mtu, Room(f, f.sends[i].sid))
  <2>1. CASE i = k
    BY <1>1, <1>3, <2>1
  <2>2. CASE i # k
    <3>1. i \in 1 .. Len(e.sends)
      BY <1>2, <2>2
    <3> HIDE DEF k
    <3> QED BY <1>1, <1>2, <1>3, <3>1 DEF Sends
  <2> QED BY <2>1, <2>2
<1> QED BY <1>1, <1>2, <1>4 DEF Sends

\* One send is another.
LEMMA SendsPut ==
  ASSUME NEW e, NEW f, NEW mtu, Sends(e, mtu), f.sess = e.sess, NEW i \in DOMAIN e.sends, NEW m,
         f.sends = Put(e.sends, i, m), m.sid = e.sends[i].sid, Message(m, mtu, Room(e, m.sid))
  PROVE  Sends(f, mtu)
<1>1. /\ IsSeq(f.sends) /\ DOMAIN f.sends = DOMAIN e.sends /\ f.sends[i] = m
      /\ \A j \in DOMAIN e.sends : j # i => f.sends[j] = e.sends[j]
  BY SeqExcept DEF Sends
<1>2. Sids(f) = Sids(e) /\ \A s : Room(f, s) = Room(e, s)
  BY DEF Sids, Room
<1>3. ASSUME NEW j \in DOMAIN f.sends
      PROVE  f.sends[j].sid \in Sids(f) /\ Message(f.sends[j], mtu, Room(f, f.sends[j].sid))
  <2>1. CASE j = i
    BY <1>1, <1>2, <2>1 DEF Sends
  <2>2. CASE j # i
    BY <1>1, <1>2, <2>2 DEF Sends
  <2> QED BY <2>1, <2>2
<1> QED BY <1>1, <1>3 DEF Sends

\* on_frag keeps them.
LEMMA FragSends ==
  ASSUME NEW e, DOMAIN e = EngFields, NEW mtu, Sends(e, mtu), NEW i \in DOMAIN e.sends,
         NEW j \in DOMAIN e.sends[i].pkts, e.sends[i].pkts[j].st = "queued", NEW ok \in BOOLEAN,
         NEW f, f = on_frag(e, i, j, ok)
  PROVE  Sends(f, mtu)
<1> DEFINE m == e.sends[i]
           r == Told(m, j, ok)
           c == IF r.pending # 0 THEN r ELSE Ending(r)
           g == [e EXCEPT !.sends[i].pkts[j].st = IF ok THEN "written" ELSE "failed",
                          !.sends[i].err = @ \/ ~ok,
                          !.sends[i].pending = @ - 1]
<1>1. Message(m, mtu, Room(e, m.sid))
  BY DEF Sends
<1>2. DOMAIN m = MsgFields /\ IsSeq(m.pkts)
  BY <1>1 DEF Message, Tallied
<1>3. DOMAIN m.pkts = 1 .. Len(m.pkts)
  BY <1>2, SeqIs
<1>4. Message(c, mtu, Room(e, m.sid)) /\ c.sid = m.sid
  <2>1. j \in 1 .. Len(m.pkts) /\ m.pkts[j].st = "queued"
    BY <1>3
  <2>2. r = Told(m, j, ok) /\ c = IF r.pending # 0 THEN r ELSE Ending(r)
    OBVIOUS
  <2> HIDE DEF m, r, c
  <2> QED BY <1>1, <2>1, <2>2, MessageFrag
<1>5. g.sends = Put(e.sends, i, r) /\ g.sess = e.sess /\ DOMAIN g = EngFields
  <2>1. g.sends = [e.sends EXCEPT ![i] = r]
    BY <1>2 DEF Told, EngFields, MsgFields
  <2>2. g.sess = e.sess /\ DOMAIN g = EngFields
    BY DEF EngFields
  <2> QED BY <2>1, <2>2 DEF Put
<1>6. f = IF g.sends[i].pending # 0 THEN g
          ELSE post_send(g, i, IF g.sends[i].err THEN "error" ELSE "ok")
  BY DEF on_frag
<1> HIDE DEF g, m, r
<1>7. g.sends[i] = r /\ DOMAIN g.sends = DOMAIN e.sends
  BY <1>5 DEF Put
<1>8. f.sess = e.sess /\ f.sends = Put(e.sends, i, c)
  <2>1. CASE r.pending # 0
    BY <1>5, <1>6, <1>7, <2>1
  <2>2. CASE r.pending = 0
    <3>1. f = post_send(g, i, IF r.err THEN "error" ELSE "ok") /\ c = Ending(r)
      BY <1>6, <1>7, <2>2
    <3>2. f.sess = g.sess /\ f.sends = Put(g.sends, i, Ending(g.sends[i]))
      BY <1>5, <1>7, <3>1 DEF post_send, EngFields, Put, Ending
    <3> HIDE DEF c
    <3> QED BY <1>5, <1>7, <3>1, <3>2 DEF Put
  <2> QED BY <2>1, <2>2
<1> HIDE DEF c
<1> QED BY <1>4, <1>8, SendsPut DEF m

\* Why a send is refused is no result of a send.
LEMMA SendErrors ==
  ASSUME NEW e, NEW s, NEW v6 \in BOOLEAN, NEW total
  PROVE  /\ send_error(e, s, v6, total) # "wait" /\ send_error(e, s, v6, total) # "ok"
         /\ send_error(e, s, v6, total) = "none" =>
              /\ Room(e, s) = IpHdr(v6)
              /\ oversized(v6, total) => v6 = FALSE
<1> DEFINE k == e.sess[s].key \in V6Keys
           large == oversized(v6, total)
<1>1. send_error(e, s, v6, total) \in {"bad_descriptor", "address_family", "message_size", "none"}
  BY DEF send_error
<1>2. send_error(e, s, v6, total) = "none" => v6 = k /\ ~(large /\ v6)
  <2> HIDE DEF large
  <2>1. k \in BOOLEAN
    OBVIOUS
  <2>2. send_error(e, s, v6, total) =
          CASE e.sess[s].closed -> "bad_descriptor"
            [] ~e.sess[s].closed /\ v6 # k -> "address_family"
            [] ~e.sess[s].closed /\ v6 = k /\ (UdpHdr + total > 65535 \/ (large /\ v6)) -> "message_size"
            [] OTHER -> "none"
    BY DEF send_error, large
  <2> QED BY <2>2
<1>3. v6 = k => Room(e, s) = IpHdr(v6)
  BY DEF Room
<1> QED BY <1>1, <1>2, <1>3

\* The packets of a send that was not refused.
LEMMA SendPackets ==
  ASSUME NEW e, NEW s, NEW v6 \in BOOLEAN, NEW total \in Nat, left.mtu \in Nat,
         send_error(e, s, v6, total) = "none",
         oversized(v6, total) => FragMax(left.mtu) >= UdpHdr, NEW n, n = UdpHdr + total,
         NEW p, p = IF oversized(v6, total) THEN udp_write_ipv4_fragments(left.mtu, n)
                    ELSE udp_send_single(n)
  PROVE  Handed(p) /\ Parts(p, n, left.mtu, Room(e, s))
<1> DEFINE hdr == Room(e, s)
<1>1. hdr = IpHdr(v6) /\ (oversized(v6, total) => v6 = FALSE)
  BY SendErrors
<1>2. n \in Nat /\ n > 0 /\ hdr \in Nat
  BY <1>1 DEF UdpHdr, IpHdr
<1> HIDE DEF hdr
<1>3. CASE oversized(v6, total)
  <2>1. hdr = 20
    BY <1>1, <1>3 DEF IpHdr
  <2> QED BY <1>2, <1>3, <2>1, FragsAre DEF hdr
<1>4. CASE ~oversized(v6, total)
  <2>1. ~(total > Minus(left.mtu, hdr + UdpHdr))
    BY <1>1, <1>4 DEF oversized
  <2>2. left.mtu >= hdr + UdpHdr => hdr + n <= left.mtu
    BY <1>2, <2>1 DEF Minus, UdpHdr
  <2>3. p = udp_send_single(n)
    BY <1>4
  <2> QED BY <1>2, <2>2, <2>3, SingleIs DEF hdr
<1> QED BY <1>3, <1>4

\* The record that post_send writes, and the one of a send that is queued.
SentAs(m, st) == [m EXCEPT !.st = st, !.times = @ + 1]
SentWith(m, p) == [m EXCEPT !.pkts = p, !.pending = Len(p)]

\* They are written, and nothing else.
LEMMA PostSendIs ==
  ASSUME NEW e, DOMAIN e = EngFields, NEW i, i \in DOMAIN e.sends, DOMAIN e.sends[i] = MsgFields,
         NEW st, NEW f, f = post_send(e, i, st)
  PROVE  f.sess = e.sess /\ f.sends = Put(e.sends, i, SentAs(e.sends[i], st))
<1>1. f.sess = e.sess
  BY DEF post_send, EngFields
<1>2. f.sends = [e.sends EXCEPT ![i] = SentAs(e.sends[i], st)]
  BY DEF post_send, EngFields, MsgFields, SentAs
<1> QED BY <1>1, <1>2 DEF Put

Queueing(e, i, p) == [e EXCEPT !.sends[i].pkts = p, !.sends[i].pending = Len(p)]

\* start_send's packets are the send's.
LEMMA QueueSendIs ==
  ASSUME NEW e, DOMAIN e = EngFields, NEW i, i \in DOMAIN e.sends, DOMAIN e.sends[i] = MsgFields,
         NEW p, NEW f, f = Queueing(e, i, p)
  PROVE  f.sess = e.sess /\ f.sends = Put(e.sends, i, SentWith(e.sends[i], p))
<1>1. f.sess = e.sess
  BY DEF Queueing, EngFields
<1>2. f.sends = [e.sends EXCEPT ![i] = SentWith(e.sends[i], p)]
  BY DEF Queueing, EngFields, MsgFields, SentWith
<1> QED BY <1>1, <1>2 DEF Put

\* start_send keeps the sends in order.
LEMMA SendSends ==
  ASSUME NEW e, Shape(e), left.mtu \in Nat, Sends(e, left.mtu), NEW s \in Sids(e),
         NEW v6 \in BOOLEAN, NEW total \in Nat, NEW f, f = start_send(e, s, v6, total)
  PROVE  Sends(f, left.mtu)
<1> DEFINE i == Len(e.sends) + 1
           n == UdpHdr + total
           w == [sid |-> s, total |-> total, st |-> "wait", pkts |-> <<>>, pending |-> 0,
                 err |-> FALSE, times |-> 0]
           g == [e EXCEPT !.sends = Append(@, w)]
           r == refresh_expiry(g, s)
           error == send_error(e, s, v6, total)
           large == oversized(v6, total)
           pkts == IF large THEN udp_write_ipv4_fragments(left.mtu, n) ELSE udp_send_single(n)
           refused(st) == SentAs(w, st)
           sent == SentWith(w, pkts)
<1>1. f = CASE error # "none" -> post_send(g, i, error)
            [] error = "none" /\ large /\ FragMax(left.mtu) < UdpHdr ->
                 post_send(r, i, "message_size")
            [] OTHER -> [r EXCEPT !.sends[i].pkts = pkts, !.sends[i].pending = Len(pkts)]
  BY DEF start_send
<1>2. DOMAIN e = EngFields /\ IsSeq(e.sends)
  BY DEF Shape, Sends
<1>3. g.sends = Add(e.sends, w) /\ g.sess = e.sess /\ DOMAIN g = EngFields
  BY <1>2 DEF EngFields, Add
<1>4. Shape(g) /\ Sids(g) = Sids(e)
  BY <1>3 DEF Shape, Sids
<1> HIDE DEF g
<1>5. Quiet(g, r)
  BY <1>4, RefreshQuiet
<1>6. r.sends = Add(e.sends, w) /\ DOMAIN r = EngFields /\ SameKeys(e, r) /\ SameKeys(e, g)
  BY <1>3, <1>4, <1>5 DEF Quiet, Fixed, SameSession, SameKeys
<1>7. /\ \A y : Put(Add(e.sends, w), i, y) = Add(e.sends, y)
      /\ i \in DOMAIN Add(e.sends, w) /\ Add(e.sends, w)[i] = w
  BY <1>2, PutAdd
<1>13. DOMAIN w = MsgFields
  BY DEF MsgFields
<1>14. /\ i \in DOMAIN g.sends /\ g.sends[i] = w /\ DOMAIN g.sends[i] = MsgFields
       /\ i \in DOMAIN r.sends /\ r.sends[i] = w /\ DOMAIN r.sends[i] = MsgFields
  BY <1>3, <1>6, <1>7, <1>13
<1> HIDE DEF r, i
<1>8. \A st : st # "wait" /\ st # "ok" =>
        refused(st).sid = s /\ Message(refused(st), left.mtu, Room(e, s))
  <2> TAKE st
  <2> DEFINE m == refused(st)
  <2>1. /\ DOMAIN m = MsgFields /\ m.pkts = <<>> /\ m.pending = 0 /\ m.err = FALSE
        /\ m.times = 1 /\ m.st = st /\ m.sid = s
    BY DEF MsgFields, SentAs
  <2> HIDE DEF m
  <2>2. st # "wait" /\ st # "ok" => Message(m, left.mtu, Room(e, s))
    BY <2>1, MessageRefused
  <2> QED BY <2>1, <2>2 DEF m
<1>9. error # "wait" /\ error # "ok"
  BY SendErrors
<1>10. CASE error # "none"
  <2>1. f = post_send(g, i, error)
    BY <1>1, <1>10
  <2>2. f.sess = g.sess /\ f.sends = Put(g.sends, i, refused(error))
    <3> HIDE DEF w, error
    <3> QED BY <1>3, <1>14, <2>1, PostSendIs
  <2>3. f.sends = Add(e.sends, refused(error)) /\ SameKeys(e, f)
    BY <1>3, <1>7, <2>2 DEF SameKeys, Sids
  <2> HIDE DEF error, refused
  <2> QED BY <1>8, <1>9, <2>3, SendsAdd
<1>11. CASE error = "none" /\ large /\ FragMax(left.mtu) < UdpHdr
  <2>1. f = post_send(r, i, "message_size")
    BY <1>1, <1>11
  <2>2. f.sess = r.sess /\ f.sends = Put(r.sends, i, refused("message_size"))
    <3> HIDE DEF w
    <3> QED BY <1>6, <1>14, <2>1, PostSendIs
  <2>3. f.sends = Add(e.sends, refused("message_size")) /\ SameKeys(e, f)
    BY <1>6, <1>7, <2>2 DEF SameKeys, Sids
  <2>4. refused("message_size").sid = s /\ Message(refused("message_size"), left.mtu, Room(e, s))
    BY <1>8
  <2> HIDE DEF refused
  <2> QED BY <2>3, <2>4, SendsAdd
<1>12. CASE error = "none" /\ ~(large /\ FragMax(left.mtu) < UdpHdr)
  <2>1. f = [r EXCEPT !.sends[i].pkts = pkts, !.sends[i].pending = Len(pkts)]
    BY <1>1, <1>12
  <2>2. Handed(pkts) /\ Parts(pkts, n, left.mtu, Room(e, s))
    <3>1. FragMax(left.mtu) \in Nat /\ UdpHdr \in Nat
      BY DivIs DEF FragMax, Down8, Minus, IpHdr, UdpHdr
    <3>2. large => FragMax(left.mtu) >= UdpHdr
      BY <1>12, <3>1
    <3>3. /\ send_error(e, s, v6, total) = "none" /\ n = UdpHdr + total
          /\ oversized(v6, total) => FragMax(left.mtu) >= UdpHdr
          /\ pkts = IF oversized(v6, total) THEN udp_write_ipv4_fragments(left.mtu, n)
                    ELSE udp_send_single(n)
      BY <1>12, <3>2
    <3> HIDE DEF pkts, n, error, large
    <3> QED BY <3>3, SendPackets
  <2> HIDE DEF pkts
  <2>3. /\ DOMAIN sent = MsgFields /\ sent.pkts = pkts /\ sent.pending = Len(pkts)
        /\ sent.err = FALSE /\ sent.times = 0 /\ sent.st = "wait" /\ sent.sid = s
        /\ sent.total = total
    BY DEF MsgFields, SentWith
  <2>4. f.sess = r.sess /\ f.sends = Put(r.sends, i, sent)
    <3>1. f = Queueing(r, i, pkts)
      BY <2>1 DEF Queueing
    <3> HIDE DEF w
    <3> QED BY <1>6, <1>14, <3>1, QueueSendIs
  <2>5. f.sends = Add(e.sends, sent) /\ SameKeys(e, f)
    BY <1>6, <1>7, <2>4 DEF SameKeys, Sids
  <2> HIDE DEF sent
  <2>6. Message(sent, left.mtu, Room(e, s))
    BY <2>2, <2>3, MessageQueued
  <2> QED BY <2>3, <2>5, <2>6, SendsAdd
<1> QED BY <1>10, <1>11, <1>12

\* No other action changes a send or an endpoint.
Others ==
  \/ \E k \in Keys, len \in left.lens, valid \in left.valid : Packet(k, len, valid)
  \/ Accept
  \/ Cancel
  \/ \E s \in Given, size \in left.lens : Receive(s, size)
  \/ \E s \in Given : Close(s) \/ SetTimeout(s)
  \/ CloseAll
  \/ \E w \in eng.waits : TimerExpires(w) \/ TimerCallback(w)
  \/ Tick

\* on_packet changes no session's endpoint.
LEMMA PacketServed ==
  ASSUME UdpInv, NEW k \in Keys, NEW len \in left.lens, NEW valid \in left.valid,
         Packet(k, len, valid)
  PROVE  Served(eng, eng')
<1> DEFINE e == eng
           m == eng.packets
           f == on_packet(e, k, m + 1, len, valid)
           g == eng'
<1>1. Whole(e, {}, m) /\ valid \in BOOLEAN /\ len \in Nat
  BY DEF UdpInv, Steady, ScriptType
<1>2. f = on_packet(e, k, m + 1, len, valid) /\ g = [f EXCEPT !.packets = @ + 1] /\ m + 1 = m + 1
  BY DEF Packet
<1> HIDE DEF e, m, f, g
<1>3. Whole(f, {}, m + 1) /\ Served(e, f)
  BY <1>1, <1>2, WholePacket
<1>4. g.sess = f.sess /\ g.sends = f.sends
  BY <1>2, <1>3 DEF Whole, Sound, Shape, EngFields
<1>5. Served(f, g)
  BY <1>4 DEF Served, Sids
<1>6. Served(e, g)
  BY <1>3, <1>5, ServedTrans
<1> QED BY <1>6 DEF e, g

\* start_receive: one session's queues are other ones at most.
LEMMA ReceiveServed ==
  ASSUME UdpInv, NEW s \in Given, NEW size, Receive(s, size)
  PROVE  Served(eng, eng')
<1> DEFINE e == eng
           f == eng'
<1>1. Whole(e, {}, e.packets) /\ f = start_receive(e, s, size) /\ s \in Sids(e)
  BY GivenAre DEF UdpInv, Steady, Receive
<1> HIDE DEF e, f
<1>2. Shape(e) /\ IsSeq(e.ops)
  BY <1>1 DEF Whole, Sound, Reads
<1>3. ReadOnly(e, f) /\ (f.sess = e.sess \/ \E d : f.sess = Put(e.sess, s, d) /\ KeptOf(e.sess[s], d))
  BY <1>1, <1>2, ReceiveIs
<1>4. SameKeys(e, f)
  <2>1. CASE f.sess = e.sess
    BY <2>1 DEF SameKeys, Sids
  <2>2. CASE \E d : f.sess = Put(e.sess, s, d) /\ KeptOf(e.sess[s], d)
    <3>1. PICK d : f.sess = Put(e.sess, s, d) /\ KeptOf(e.sess[s], d)
      BY <2>2
    <3>2. Replaced(e, f, s, d)
      BY <1>1, <1>2, <3>1, Replacing
    <3> QED BY <3>1, <3>2 DEF Replaced, KeptOf, SameKeys
  <2> QED BY <1>3, <2>1, <2>2
<1>5. Served(e, f)
  BY <1>3, <1>4 DEF ReadOnly, Aside, SameKeys, Served
<1> QED BY <1>5 DEF e, f

\* set_idle_timeout: one session's timing is another.
LEMMA TimeoutServed ==
  ASSUME UdpInv, NEW s \in Given, SetTimeout(s)
  PROVE  Served(eng, eng')
<1> DEFINE e == eng
           d == [e.sess[s] EXCEPT !.timeout = OtherTimeout]
           g == [e EXCEPT !.sess[s].timeout = OtherTimeout]
           f == eng'
<1>1. /\ Shape(e) /\ s \in Sids(e) /\ f = refresh_expiry(g, s)
      /\ g = [e EXCEPT !.sess[s].timeout = OtherTimeout]
  BY GivenAre DEF UdpInv, Steady, Whole, Sound, SetTimeout
<1>2. DOMAIN e = EngFields /\ DOMAIN e.sess[s] = SessFields
  BY <1>1 DEF Shape
<1> HIDE DEF e, f, g
<1>3. g.sess = Put(e.sess, s, d) /\ g.sends = e.sends /\ DOMAIN g = EngFields
  BY <1>1, <1>2 DEF EngFields, Put
<1>4. /\ DOMAIN d = SessFields /\ d.key = e.sess[s].key /\ d.closed = e.sess[s].closed
      /\ d.pending = e.sess[s].pending
  BY <1>2 DEF SessFields
<1> HIDE DEF d
<1>5. Replaced(e, g, s, d)
  BY <1>1, <1>3, Replacing
<1>6. g.sess[s] = d /\ Sids(g) = Sids(e) /\ s \in Sids(g)
  BY <1>1, <1>5 DEF Replaced
<1>7. Shape(g)
  <2>1. d.closed \in BOOLEAN /\ d.pending \in BOOLEAN
    BY <1>1, <1>4 DEF Shape
  <2> QED BY <1>1, <1>3, <1>4, <1>5, <1>6, <2>1, ReplacedShape
<1>8. Quiet(g, f)
  BY <1>1, <1>6, <1>7, RefreshQuiet
<1>9. Served(e, g)
  BY <1>3, <1>4, <1>5 DEF Replaced, Served
<1>10. Served(g, f)
  BY <1>8 DEF Quiet, Fixed, SameSession, Served
<1>11. Served(e, f)
  BY <1>9, <1>10, ServedTrans
<1> QED BY <1>11 DEF e, f

\* So it is with each of the others.
LEMMA OthersServed ==
  ASSUME UdpInv, Others
  PROVE  Served(eng, eng')
<1> DEFINE e == eng
           f == eng'
<1>1. /\ Whole(e, {}, e.packets) /\ Clock(e, active, now, {}) /\ Shape(e) /\ DOMAIN e = EngFields
  BY DEF UdpInv, Steady, Whole, Sound, Shape
<1>2. ASSUME NEW k \in Keys, NEW len \in left.lens, NEW valid \in left.valid, Packet(k, len, valid)
      PROVE  Served(eng, eng')
  BY <1>2, PacketServed
<1>3. CASE Accept
  <2>1. f = async_accept(e)
    BY <1>3 DEF Accept
  <2> HIDE DEF e, f
  <2>2. AcceptOnly(e, f) /\ SamePast(e, f)
    BY <1>1, <2>1, WholeAccept
  <2>3. Served(e, f)
    BY <2>2 DEF AcceptOnly, Aside, SamePast, Served
  <2> QED BY <2>3 DEF e, f
<1>4. CASE Cancel
  <2>1. f = cancel_accepts(e)
    BY <1>4 DEF Cancel
  <2> HIDE DEF e, f
  <2>2. AcceptOnly(e, f) /\ f.sess = e.sess
    BY <1>1, <2>1, WholeCancel
  <2>3. Served(e, f)
    BY <2>2 DEF AcceptOnly, Aside, Served, Sids
  <2> QED BY <2>3 DEF e, f
<1>5. ASSUME NEW s \in Given, NEW size, Receive(s, size) PROVE Served(eng, eng')
  BY <1>5, ReceiveServed
<1>6. ASSUME NEW s \in Given, Close(s) PROVE Served(eng, eng')
  <2>1. f = remove_session(e, s) /\ s \in Sids(e)
    BY <1>6, GivenAre DEF Close
  <2> HIDE DEF e, f
  <2>2. Onward(e, f)
    BY <1>1, <2>1, OnwardRemove
  <2>3. Served(e, f)
    BY <2>2 DEF Onward, Served
  <2> QED BY <2>3 DEF e, f
<1>7. ASSUME NEW s \in Given, SetTimeout(s) PROVE Served(eng, eng')
  BY <1>7, TimeoutServed
<1>8. CASE CloseAll
  <2> DEFINE c == close_all(e)
  <2>1. c = close_all(e) /\ f = [c EXCEPT !.shut = TRUE]
    BY <1>8 DEF CloseAll
  <2> HIDE DEF e, f, c
  <2>2. /\ Whole(c, {}, e.packets) /\ Clock(c, active, now, {})
        /\ c.sends = e.sends /\ Sids(c) = Sids(e) /\ DOMAIN c = EngFields
        /\ \A s \in Sids(e) : c.sess[s].closed /\ c.sess[s].key = e.sess[s].key
    BY <1>1, <2>1, CloseAllWhole
  <2>3. f.sess = c.sess /\ f.sends = c.sends
    BY <2>1, <2>2 DEF EngFields
  <2>4. Served(e, f)
    BY <2>2, <2>3 DEF Served, Sids
  <2> QED BY <2>4 DEF e, f
<1>9. ASSUME NEW w \in eng.waits, TimerExpires(w) PROVE Served(eng, eng')
  <2>1. f.sess = e.sess /\ f.sends = e.sends
    BY <1>1, <1>9 DEF TimerExpires, EngFields
  <2> QED BY <2>1 DEF Served, Sids
<1>10. ASSUME NEW w \in eng.waits, TimerCallback(w) PROVE Served(eng, eng')
  <2>1. Onward(eng, eng')
    BY <1>10, CallbackSteady
  <2> QED BY <2>1 DEF Onward, Served
<1>11. CASE Tick
  BY <1>11 DEF Tick, Served
<1> QED BY <1>2, <1>3, <1>4, <1>5, <1>6, <1>7, <1>8, <1>9, <1>10, <1>11 DEF Others

\* The MTU stays.
LEMMA MtuKept ==
  ASSUME left \in ScriptType, [Next]_vars
  PROVE  left'.mtu = left.mtu
<1>1. \/ left' = left
      \/ left' = [left EXCEPT !.packets = @ - 1]
      \/ left' = [left EXCEPT !.accepts = @ - 1]
      \/ left' = [left EXCEPT !.cancels = @ - 1]
      \/ left' = [left EXCEPT !.reads = @ - 1]
      \/ left' = [left EXCEPT !.sends = @ - 1]
      \/ left' = [left EXCEPT !.closes = @ - 1]
      \/ left' = [left EXCEPT !.sets = @ - 1]
      \/ left' = [left EXCEPT !.shuts = @ - 1]
  BY DEF Next, vars, Packet, Accept, Cancel, Receive, Send, WriteDone, Close, SetTimeout,
         CloseAll, TimerExpires, TimerCallback, Tick
<1> QED BY <1>1 DEF ScriptType

UdpSends == Sends(eng, left.mtu)

\* Every step keeps the sends in order.
LEMMA SendsNext ==
  ASSUME UdpInv, UdpSends, [Next]_vars
  PROVE  UdpSends'
<1>1. left'.mtu = left.mtu /\ left.mtu \in Nat /\ left.totals \subseteq Nat
  BY MtuKept DEF UdpInv, ScriptType
<1>2. Shape(eng) /\ DOMAIN eng = EngFields
  BY DEF UdpInv, Steady, Whole, Sound, Shape
<1>3. ASSUME NEW s \in Given, NEW v6 \in BOOLEAN, NEW total \in left.totals, Send(s, v6, total)
      PROVE  Sends(eng', left.mtu)
  <2> DEFINE e == eng
             f == eng'
  <2>1. f = start_send(e, s, v6, total) /\ s \in Sids(e) /\ total \in Nat /\ Shape(e)
        /\ Sends(e, left.mtu)
    BY <1>1, <1>2, <1>3, GivenAre DEF Send, UdpSends
  <2> HIDE DEF e, f
  <2>2. Sends(f, left.mtu)
    BY <1>1, <2>1, SendSends
  <2> QED BY <2>2 DEF f
<1>4. ASSUME NEW i \in DOMAIN eng.sends, NEW j \in DOMAIN eng.sends[i].pkts, NEW ok \in BOOLEAN,
             WriteDone(i, j, ok)
      PROVE  Sends(eng', left.mtu)
  <2> DEFINE e == eng
             f == eng'
  <2>1. f = on_frag(e, i, j, ok) /\ e.sends[i].pkts[j].st = "queued" /\ Sends(e, left.mtu)
        /\ i \in DOMAIN e.sends /\ j \in DOMAIN e.sends[i].pkts /\ DOMAIN e = EngFields
    BY <1>2, <1>4 DEF WriteDone, UdpSends
  <2> HIDE DEF e, f
  <2>2. Sends(f, left.mtu)
    BY <2>1, FragSends
  <2> QED BY <2>2 DEF f
<1>5. CASE Others
  <2>1. Served(eng, eng') /\ Sends(eng, left.mtu)
    BY <1>5, OthersServed DEF UdpSends
  <2> QED BY <1>1, <2>1, ServedSends DEF UdpSends
<1>6. CASE UNCHANGED vars
  BY <1>6 DEF vars, UdpSends
<1> QED BY <1>1, <1>3, <1>4, <1>5, <1>6 DEF Next, Others, UdpSends

\* What SendHonest says of one send.
Honest(m) ==
  /\ m.times = (IF m.st = "wait" THEN 0 ELSE 1)
  /\ m.st = "wait" <=> \E j \in DOMAIN m.pkts : m.pkts[j].st = "queued"
  /\ m.st = "ok" <=> m.pkts # <<>> /\ \A j \in DOMAIN m.pkts : m.pkts[j].st = "written"

(* start_send and on_frag: a send is completed once, when the last of its     *)
(* packets is finished, with success exactly when the device took them all;   *)
(* and the packets are the datagram, in order and without a gap, each within  *)
(* the MTU, whatever the MTU and the length. *)
THEOREM UdpSendsSound ==
  Spec => []SendsSound
<1>1. Init => UdpSends
  <2> SUFFICES ASSUME Init PROVE UdpSends
    OBVIOUS
  <2>1. eng.sends = <<>>
    BY DEF Init, Engine0
  <2>2. IsSeq(<<>>) /\ DOMAIN <<>> = {}
    BY SeqEmpty
  <2> QED BY <2>1, <2>2 DEF UdpSends, Sends
<1>2. UdpInv /\ UdpSends /\ [Next]_vars => UdpSends'
  BY SendsNext
<1>3. UdpSends => SendsSound
  <2> SUFFICES ASSUME UdpSends PROVE SendsSound
    OBVIOUS
  <2>1. ASSUME NEW i \in DOMAIN eng.sends, NEW m, m = eng.sends[i]
        PROVE  /\ Honest(m)
               /\ m.pkts # <<>> => Parts(m.pkts, UdpHdr + m.total, left.mtu, Room(eng, m.sid))
               /\ DOMAIN m.pkts = 1 .. Len(m.pkts)
    <3>1. Message(m, left.mtu, Room(eng, m.sid))
      BY <2>1 DEF UdpSends, Sends
    <3>2. /\ Tallied(m) /\ Answered(m)
          /\ m.pkts # <<>> => Parts(m.pkts, UdpHdr + m.total, left.mtu, Room(eng, m.sid))
      BY <3>1 DEF Message
    <3>3. IsSeq(m.pkts) /\ m.pending = Cardinality(Queued(m.pkts))
      BY <3>2 DEF Tallied
    <3>4. DOMAIN m.pkts = 1 .. Len(m.pkts)
      BY <3>3, SeqIs
    <3>5. m.pending # 0 <=> \E j \in DOMAIN m.pkts : m.pkts[j].st = "queued"
      BY <3>3, <3>4, QueuedIs
    <3> QED BY <3>2, <3>4, <3>5 DEF Answered, Honest
  <2>2. SendHonest
    <3> SUFFICES ASSUME NEW i \in DOMAIN eng.sends, NEW m, m = eng.sends[i]
                 PROVE  Honest(m)
      BY Zenon DEF SendHonest, Honest
    <3> QED BY <2>1
  <2>3. Reassembles
    <3> SUFFICES ASSUME NEW i \in DOMAIN eng.sends, NEW m, m = eng.sends[i], NEW p, p = m.pkts,
                        NEW hdr, hdr = Room(eng, m.sid), p # <<>>
                 PROVE  /\ p[1].off = 0
                        /\ \A j \in 2..Len(p) : p[j].off = p[j - 1].off + p[j - 1].len
                        /\ p[Len(p)].off + p[Len(p)].len = UdpHdr + m.total
                        /\ \A j \in DOMAIN p : /\ p[j].len > 0 /\ p[j].off % 8 = 0
                                               /\ p[j].more = (j < Len(p))
                                               /\ left.mtu >= hdr + UdpHdr => hdr + p[j].len <= left.mtu
      BY Zenon DEF Reassembles, Room
    <3>1. Parts(p, UdpHdr + m.total, left.mtu, hdr) /\ DOMAIN p = 1 .. Len(p)
      BY <2>1
    <3> QED BY <3>1 DEF Parts
  <2> QED BY <2>2, <2>3 DEF SendsSound
<1> QED BY <1>1, <1>2, <1>3, UdpSteady, PTL DEF Spec

=============================================================================
