-------------------------------- MODULE Tunio --------------------------------
(***************************************************************************)
(* The life of a tunio engine: open() and close() on the user's thread,    *)
(* the read pump and all cleanup on the strand, and what they share:       *)
(* src/tunio.cpp and include/tunio/detail/tunio_impl.hpp, over the TCP     *)
(* engine's flow table and accept queue (TcpAccept), what it makes of a    *)
(* packet (IpInput) and the device (TunDevice).                            *)
(*                                                                         *)
(* Two threads run: user calls open, close, accept, cancel in any order;   *)
(* strand runs the tasks of its queue one after another.  open() is a      *)
(* sequence of steps of user; on_read one of strand, because both work on  *)
(* read_inflight_, a vector<bool>: setting a bit of it loads and stores    *)
(* the word of all slots, and the two threads may do so at the same time.  *)
(* A generation is one successful open(): its device, its engines.         *)
(***************************************************************************)
EXTENDS IpInput, TunDevice

CONSTANTS
  Slots,    \* k_read_slots
  LoopKeys, \* the five-tuples of connections from the tunnel's own address
  Packets,  \* bound: the sets of packets that are read
  Scripts   \* bound: how often things happen, and with which device and packets

ASSUME TunioAssumption == Slots \in Nat \ {0} /\ LoopKeys \subseteq Keys
ASSUME ScriptAssumption ==
  \A s \in Scripts :
    /\ DOMAIN s = {"opens", "faults", "throws", "packets", "accepts", "cancels", "sweeps", "ops",
                   "pkts", "dev"}
    /\ \A k \in {"opens", "faults", "throws", "packets", "accepts", "cancels", "sweeps", "ops"} :
         s[k] \in Nat
    /\ \A p \in Packets[s.pkts] : p.proto = "tcp" => p.key \in Keys
    /\ s.dev.mode \in {"linux", "utun", "inject", "wintun", "wintun_inject"}
    /\ s.dev.queues \in Nat \ {0}

VARIABLES
  w,      \* tunio_impl: its members, its device, its engines, its strand's queue
  user,   \* the user's thread: [pc, slot, snap]
  strand, \* the strand: [pc, task, snap]
  left    \* what the script still allows

vars == <<w, user, strand, left>>

Idle == [pc |-> "idle", slot |-> 0, snap |-> {}]
Resting == [pc |-> "idle", task |-> <<>>, snap |-> {}]

Gen(v) == Len(v.engs)

\* The slots of a queue follow each other.
QueueOf(v, slot) == 1 + (slot - 1) \div v.per_queue
async_read_packet(v, slot) ==
  async_read(v, [slot |-> slot, epoch |-> v.epoch], QueueOf(v, slot))

close_engine(v, g) == IF g = 0 THEN v ELSE close_all(v, g)

-----------------------------------------------------------------------------
(***************************************************************************)
(* The user's thread.                                                      *)
(***************************************************************************)

\* open(): what there is of an earlier generation is cleaned up on the strand,
\* and the user waits for it.
OpenBegin ==
  /\ user.pc = "idle" /\ left.opens > 0
  /\ left' = [left EXCEPT !.opens = @ - 1]
  /\ LET v == [w EXCEPT !.open = FALSE]
         had_engine == w.open \/ w.tcp # 0 \/ is_open(w)
     IN /\ w' = IF had_engine THEN Post(v, [type |-> "cleanup"]) ELSE v
        /\ user' = [user EXCEPT !.pc = IF had_engine THEN "wait" ELSE "config"]
  /\ UNCHANGED strand

\* An address that does not parse: the engines that were closed stay, and the
\* addresses before it are taken.
OpenBadAddress ==
  /\ user.pc = "config" /\ left.faults > 0
  /\ left' = [left EXCEPT !.faults = @ - 1]
  /\ \E taken \in {{}, left.dev.ips \ {6}} : w' = [w EXCEPT !.local = taken]
  /\ user' = Idle
  /\ UNCHANGED strand

\* An engine that is destroyed takes its timer with it.
drop_engine(v) ==
  IF v.tcp = 0 THEN v ELSE [v EXCEPT !.engs[v.tcp].sweep = "none", !.tcp = 0]

reset_open_state(v) ==
  [drop_engine(device_close(close_engine([v EXCEPT !.open = FALSE], v.tcp)))
     EXCEPT !.inflight = {}, !.slots = 0]

\* The device does not open.
OpenFails ==
  /\ user.pc = "config" /\ left.faults > 0
  /\ left' = [left EXCEPT !.faults = @ - 1]
  /\ \E fault \in Faults(left.dev) :
       w' = reset_open_state(device_open([w EXCEPT !.local = left.dev.ips], left.dev, fault))
  /\ user' = Idle
  /\ UNCHANGED strand

\* The device opens and everything is made anew.
OpenBuild ==
  /\ user.pc = "config"
  /\ LET v == device_open([drop_engine(w) EXCEPT !.local = left.dev.ips], left.dev, NoFault)
         queues == queue_count(v)
         per_queue == IF Slots < queues THEN 1 ELSE Slots \div queues
     IN w' = [v EXCEPT !.per_queue = per_queue, !.slots = queues * per_queue, !.inflight = {},
                       !.engs = Append(@, new_engine), !.tcp = Gen(w) + 1]
  /\ user' = [user EXCEPT !.pc = "epoch"]
  /\ UNCHANGED <<strand, left>>

\* The exception of a later step undoes it (that of start_read is
\* OpenReadThrows).
OpenThrows ==
  /\ user.pc = "epoch" /\ left.faults > 0
  /\ left' = [left EXCEPT !.faults = @ - 1]
  /\ w' = reset_open_state(w)
  /\ user' = Idle
  /\ UNCHANGED strand

\* The epoch keeps its value when an engine is opened again.
MutantNoEpoch ==
  /\ user.pc = "epoch"
  /\ user' = [user EXCEPT !.pc = "flag"]
  /\ UNCHANGED <<w, strand, left>>

OpenEpoch ==
  /\ user.pc = "epoch"
  /\ w' = [w EXCEPT !.epoch = @ + 1]
  /\ user' = [user EXCEPT !.pc = "flag"]
  /\ UNCHANGED <<strand, left>>

OpenFlag ==
  /\ user.pc = "flag"
  /\ w' = [w EXCEPT !.open = TRUE]
  /\ user' = [user EXCEPT !.pc = "slot", !.slot = 1]
  /\ UNCHANGED <<strand, left>>

NextSlot(u) == IF u.slot < w.slots THEN [u EXCEPT !.pc = "slot", !.slot = @ + 1] ELSE Idle

CanStart(slot) == w.open /\ slot <= w.slots /\ slot \notin w.inflight

\* start_read_slot of start_read: the check, and the word is loaded ...
SlotLoad ==
  /\ user.pc = "slot"
  /\ user' = IF CanStart(user.slot)
             THEN [user EXCEPT !.pc = "store", !.snap = w.inflight]
             ELSE NextSlot(user)
  /\ UNCHANGED <<w, strand, left>>

\* ... and stored, and the read is given to the device.
SlotStore ==
  /\ user.pc = "store"
  /\ w' = async_read_packet([w EXCEPT !.inflight = user.snap \union {user.slot}], user.slot)
  /\ user' = NextSlot([user EXCEPT !.snap = {}])
  /\ UNCHANGED <<strand, left>>

\* The read cannot be given to the device: the exception undoes the open, here
\* on the user's thread, while the reads of earlier slots are under way.
OpenReadThrows ==
  /\ user.pc = "store" /\ left.throws > 0
  /\ left' = [left EXCEPT !.throws = @ - 1]
  /\ w' = reset_open_state(w)
  /\ user' = Idle
  /\ UNCHANGED strand

\* close() on the user's thread posts the cleanup.
UserClose ==
  /\ user.pc = "idle" /\ w.open
  /\ w' = Post([w EXCEPT !.open = FALSE], [type |-> "close", epoch |-> w.epoch, eng |-> w.tcp])
  /\ UNCHANGED <<user, strand, left>>

\* async_accept_tcp: the epoch is the one of the call.
UserAccept ==
  /\ user.pc = "idle" /\ left.accepts > 0
  /\ left' = [left EXCEPT !.accepts = @ - 1]
  /\ w' = Post([w EXCEPT !.accs = Append(@, [epoch |-> w.epoch, gen |-> Gen(w), st |-> "wait",
                                             fid |-> 0, times |-> 0])],
               [type |-> "accept", i |-> Len(w.accs) + 1])
  /\ UNCHANGED <<user, strand>>

\* cancel_tcp_accepts: the engine is the one of the call.
UserCancel ==
  /\ user.pc = "idle" /\ left.cancels > 0 /\ w.tcp # 0
  /\ left' = [left EXCEPT !.cancels = @ - 1]
  /\ w' = Post(w, [type |-> "cancel", eng |-> w.tcp])
  /\ UNCHANGED <<user, strand>>

-----------------------------------------------------------------------------
(***************************************************************************)
(* The strand.                                                             *)
(***************************************************************************)
Task(type) == strand.pc = "idle" /\ w.queue # <<>> /\ Head(w.queue).type = type
Popped == [w EXCEPT !.queue = Tail(@)]

\* The promise is never kept.
MutantCleanupSilent ==
  /\ Task("cleanup")
  /\ w' = device_close(close_engine(Popped, w.tcp))
  /\ UNCHANGED <<user, strand, left>>

\* The cleanup of open().
RunCleanup ==
  /\ Task("cleanup")
  /\ w' = device_close(close_engine(Popped, w.tcp))
  /\ user' = [user EXCEPT !.pc = "config"]
  /\ UNCHANGED <<strand, left>>

\* The cleanup of close(): the engine it was called on, and the device if that
\* is still the same generation's.
close_task(v, epoch, g) ==
  LET c == close_engine(v, g) IN IF epoch = v.epoch THEN device_close(c) ELSE c

RunClose ==
  /\ Task("close")
  /\ w' = close_task(Popped, Head(w.queue).epoch, Head(w.queue).eng)
  /\ UNCHANGED <<user, strand, left>>

\* An accept of an earlier generation, or of a closed engine, is refused.
async_accept_tcp(v, i) ==
  IF v.open /\ v.accs[i].epoch = v.epoch /\ v.tcp # 0 THEN async_accept(v, v.tcp, i)
  ELSE post_accept(v, i, "bad_descriptor", 0)

RunAccept ==
  /\ Task("accept")
  /\ w' = async_accept_tcp(Popped, Head(w.queue).i)
  /\ UNCHANGED <<user, strand, left>>

RunCancel ==
  /\ Task("cancel")
  /\ w' = cancel_accepts(Popped, Head(w.queue).eng)
  /\ UNCHANGED <<user, strand, left>>

\* A second passes; the sweep is queued.
SweepFires(g) ==
  /\ w.engs[g].sweep = "armed" /\ left.sweeps > 0
  /\ left' = [left EXCEPT !.sweeps = @ - 1]
  /\ w' = Post([w EXCEPT !.engs[g].sweep = "queued"], [type |-> "sweep", eng |-> g])
  /\ UNCHANGED <<user, strand>>

\* An engine that was destroyed is not swept.
RunSweep(old) ==
  /\ Task("sweep")
  /\ w' = IF Head(w.queue).eng = w.tcp THEN on_sweep(Popped, w.tcp, old) ELSE Popped
  /\ UNCHANGED <<user, strand, left>>

\* A late callback is told from a current one by nothing.
MutantReadAnyEpoch ==
  /\ Task("read")
  /\ w' = Popped
  /\ strand' = IF w.open THEN [pc |-> "clear", task |-> Head(w.queue), snap |-> w.inflight]
               ELSE strand
  /\ UNCHANGED <<user, left>>

\* on_read: callbacks of another generation are ignored; otherwise the word is
\* loaded, to clear the slot's bit ...
ReadBegin ==
  /\ Task("read")
  /\ w' = Popped
  /\ strand' = IF w.open /\ Head(w.queue).epoch = w.epoch
               THEN [pc |-> "clear", task |-> Head(w.queue), snap |-> w.inflight]
               ELSE strand
  /\ UNCHANGED <<user, left>>

\* A word is stored; the vector may have been cleared since it was loaded.
store(v, word) == [v EXCEPT !.inflight = word \intersect 1..v.slots]

\* ... and stored.
ReadClear ==
  /\ strand.pc = "clear"
  /\ w' = store(w, strand.snap \ {strand.task.slot})
  /\ strand' = [strand EXCEPT !.pc = "handle", !.snap = {}]
  /\ UNCHANGED <<user, left>>

\* A device failure closes the engine, here on the strand itself.
close_now(v) ==
  IF v.open THEN close_task([v EXCEPT !.open = FALSE], v.epoch, v.tcp) ELSE v

\* A packet is handled; misrouted is history.  What a build does that finds the
\* engine gone is left out: it does nothing here.
on_read(v, task, p) ==
  CASE task.res = "error" -> close_now(v)
    [] task.res = "packet" /\ v.tcp # 0 ->
         [handle_packet(v, p) EXCEPT !.misrouted = @ \/ task.from # v.tcp]
    [] task.res = "aborted" \/ (task.res = "packet" /\ v.tcp = 0) -> v

\* The slot is read again, unless the engine was closed or its bit is set:
\* the word is loaded ...
ReadHandle(p) ==
  /\ strand.pc = "handle"
  /\ w' = on_read(w, strand.task, p)
  /\ strand' = IF w'.open /\ strand.task.slot <= w'.slots /\ strand.task.slot \notin w'.inflight
               THEN [strand EXCEPT !.pc = "set", !.snap = w'.inflight]
               ELSE Resting
  /\ UNCHANGED <<user, left>>

\* ... and stored, and the read is given to the device.
ReadAgain ==
  /\ strand.pc = "set"
  /\ w' = async_read_packet(store(w, strand.snap \union {strand.task.slot}), strand.task.slot)
  /\ strand' = Resting
  /\ UNCHANGED <<user, left>>

\* A call of the application on a flow it was given runs on the strand.
FlowOp(f, op) ==
  /\ strand.pc = "idle" /\ left.ops > 0
  /\ left' = [left EXCEPT !.ops = @ - 1]
  /\ w' = flow_op(w, f, op)
  /\ UNCHANGED <<user, strand>>

-----------------------------------------------------------------------------
\* A packet is there, or the device fails.
Device(res) ==
  \/ res = "packet" /\ left.packets > 0 /\ left' = [left EXCEPT !.packets = @ - 1]
  \/ res = "error" /\ left.faults > 0 /\ left' = [left EXCEPT !.faults = @ - 1]

\* The device finishes a read.
DeviceRead(r, res) ==
  /\ ~w.wintun /\ r \in w.reads
  /\ Device(res)
  /\ w' = Post([w EXCEPT !.reads = @ \ {r}], [ReadDone(r, res) EXCEPT !.from = Gen(w)])
  /\ UNCHANGED <<user, strand>>

\* A poll of Wintun on the device's strand.
WintunPoll(r, res) ==
  /\ IF is_open(w) /\ res # "empty" THEN Device(res) ELSE res = "empty" /\ UNCHANGED left
  /\ w' = LET v == recv_poll_loop(w, r, res)
          IN IF left' = left THEN v ELSE [v EXCEPT !.queue[Len(v.queue)].from = Gen(w)]
  /\ UNCHANGED <<user, strand>>

WintunTimer ==
  /\ w.wintun /\ w.reads # {}
  /\ w' = recv_timer(w)
  /\ UNCHANGED <<user, strand, left>>

Init ==
  /\ left \in Scripts
  /\ w = [open |-> FALSE, epoch |-> 0, inflight |-> {}, slots |-> 0, per_queue |-> Slots,
          fds |-> <<>>, descs |-> {}, reads |-> {}, polls |-> {},
          wintun |-> Wintun(left.dev), local |-> {}, replies |-> {}, tcp |-> 0,
          engs |-> <<>>, flows |-> <<>>, accs |-> <<>>, conns |-> 0, queue |-> <<>>,
          misrouted |-> FALSE]
  /\ user = Idle
  /\ strand = Resting

Given == {w.accs[i].fid : i \in {j \in DOMAIN w.accs : w.accs[j].st = "ok"}}

\* Steps inside open().
OpenSteps == OpenBuild \/ OpenEpoch \/ OpenFlag \/ SlotLoad \/ SlotStore

StrandSteps ==
  \/ RunCleanup \/ RunClose \/ RunAccept \/ RunCancel
  \/ \E old \in SUBSET DOMAIN w.flows : RunSweep(old)
  \/ ReadBegin \/ ReadClear \/ ReadAgain
  \/ IF strand.pc = "handle" /\ strand.task.res = "packet"
     THEN \E p \in Packets[left.pkts] : ReadHandle(p)
     ELSE \E p \in {CHOOSE q \in Packets[left.pkts] : TRUE} : ReadHandle(p)

Next ==
  \/ OpenBegin \/ OpenBadAddress \/ OpenFails \/ OpenThrows \/ OpenReadThrows \/ OpenSteps
  \/ UserClose \/ UserAccept \/ UserCancel
  \/ StrandSteps
  \/ \E g \in DOMAIN w.engs : SweepFires(g)
  \/ \E f \in Given, op \in {"accept", "reject", "close"} : FlowOp(f, op)
  \/ \E r \in w.reads, res \in {"packet", "error"} : DeviceRead(r, res)
  \/ \E r \in w.polls, res \in {"packet", "error", "empty"} : WintunPoll(r, res)
  \/ WintunTimer

Spec == Init /\ [][Next]_vars

\* A thread in open() goes on, and somebody runs the io_context: weak fairness
\* of both, written with the states in which their steps are enabled.
FairSpec ==
  /\ Spec
  /\ <>[](user.pc \notin {"idle", "wait"}) => []<><<OpenSteps>>_vars
  /\ <>[](strand.pc # "idle" \/ w.queue # <<>>) => []<><<StrandSteps>>_vars

-----------------------------------------------------------------------------
(***************************************************************************)
(* Properties.                                                             *)
(***************************************************************************)
OpenFlows == {f \in DOMAIN w.flows : w.flows[f].st # "CLOSED"}
ReadTasks(slot) ==
  {i \in DOMAIN w.queue : w.queue[i].type = "read" /\ w.queue[i].slot = slot
                            /\ w.queue[i].epoch = w.epoch}
\* The reads of the current generation that use the buffer of a slot.
UsersOf(slot) ==
  Cardinality({r \in w.reads \union w.polls : r.slot = slot /\ r.epoch = w.epoch}) + Cardinality(ReadTasks(slot))
    + (IF strand.pc # "idle" /\ strand.task.slot = slot THEN 1 ELSE 0)

\* Members and table have their types: a flow that is not CLOSED is the one
\* its engine's table has under its key, max_tcp_flows holds, and
\* tcp_connections counts the flows that completed their handshake.
TypeOK ==
  /\ w.open \in BOOLEAN /\ w.epoch \in 0..Gen(w) /\ w.inflight \subseteq 1..w.slots
  /\ \A f \in DOMAIN w.flows : w.flows[f].st \in FlowStates
  /\ OpenFlows = UNION {InTable(w, g) : g \in DOMAIN w.engs}
  /\ \A f \in OpenFlows : w.engs[w.flows[f].gen].table[w.flows[f].key] = f
  /\ \A g \in DOMAIN w.engs : Cardinality(InTable(w, g)) <= MaxTcpFlows
  /\ w.conns = Cardinality({f \in OpenFlows : w.flows[f].st \notin HalfOpen})

\* on_read: a packet read by the device of one generation never reaches the
\* engine of another, however late its callback runs.
OwnGeneration == ~w.misrouted

\* An accept is completed once; it gets a flow only of the generation it was
\* asked of, and no two get the same; nobody waits beside a flow that waits,
\* and the list of waiting flows holds the open flows nobody has, in order,
\* none of them beyond SYN_RCVD.
AcceptsOnce ==
  /\ \A i \in DOMAIN w.accs :
       /\ w.accs[i].times = (IF w.accs[i].st = "wait" THEN 0 ELSE 1)
       /\ w.accs[i].st = "ok" => w.flows[w.accs[i].fid].gen = w.accs[i].gen
       /\ \A j \in DOMAIN w.accs : i # j /\ w.accs[i].st = "ok" /\ w.accs[j].st = "ok"
                                     => w.accs[i].fid # w.accs[j].fid
  /\ \A g \in DOMAIN w.engs :
       /\ ToSet(w.engs[g].pend) = {f \in InTable(w, g) : ~w.flows[f].accepted}
       /\ \A i \in 1..(Len(w.engs[g].pend) - 1) : w.engs[g].pend[i] < w.engs[g].pend[i + 1]
       /\ w.engs[g].waiters # <<>> => w.engs[g].pend = <<>>
       /\ \A f \in ToSet(w.engs[g].pend) : w.flows[f].st = "SYN_RCVD"

\* Once the engine is closed and what was queued has run.
AtRest ==
  ~w.open /\ w.queue = <<>> /\ w.polls = {} /\ strand.pc = "idle" /\ user.pc = "idle"

\* After a close, a failed open or a device failure, once what was queued has
\* run, nothing is left: no device, no read, no flow, no accept that waits.
CloseComplete ==
  AtRest =>
    /\ ~is_open(w) /\ w.reads = {} /\ OpenFlows = {}
    /\ \A i \in DOMAIN w.accs : w.accs[i].st # "wait"

\* close, open: the timers of an engine that is closed are stopped, or the
\* io_context never runs out of work.
TimersStopped == AtRest => \A g \in DOMAIN w.engs : w.engs[g].sweep = "none"

\* The one timer that close_all does not stop is that of a sweep already on its
\* way, of the last engine; TimersStopped is about it.
StoppedUnlessQueued ==
  AtRest => \A g \in DOMAIN w.engs : w.engs[g].sweep # "none" => g = w.tcp /\ w.engs[g].late

\* read_bufs_: two reads of a generation never share the buffer of a slot,
\* whatever the two threads did to read_inflight_ ...
BufferOwned == \A slot \in 1..w.slots : UsersOf(slot) <= 1

\* ... and the pump does not stop: once open() has returned, the last slot is
\* being read or handled as long as the engine is open.
PumpAlive == w.open /\ user.pc = "idle" => UsersOf(w.slots) = 1

\* What holds of the slots.  That more than the last one is read, and that no
\* read of an earlier generation has a buffer, does not: SlotsTakenOver is about
\* that.
SlotsUnshared == BufferOwned /\ PumpAlive

\* Somebody reads into the buffer of a slot for an engine that was closed.
Stale(slot) == \E r \in w.reads \union w.polls : r.slot = slot /\ r.epoch # w.epoch

\* start_read and the close() of Wintun: as many reads are under way as there
\* are slots, and no callback goes on with a buffer it was given before a close
\* and an open.  Either promise has this much in it: no slot is left to a read
\* of an earlier generation.
SlotsTakenOver ==
  w.open /\ user.pc = "idle" =>
    \A slot \in 1..w.slots : Stale(slot) => UsersOf(slot) = 1

\* Every descriptor has one owner: what open() opened is closed once, when the
\* device is closed or at the step that failed, and is a queue of the device
\* until then; a handle the application gave is closed only if it was taken.
FdsOwned ==
  \A i \in DOMAIN w.fds :
    LET d == w.fds[i]
    IN /\ d.closes <= 1
       /\ i \in w.descs => d.closes = 0
       /\ d.own = "lib" /\ i \notin w.descs => d.closes = 1
       /\ d.own = "user" /\ ~d.adopted => d.closes = 0

\* handle_packet: no traffic of the tunnel's own host is amplified.  An echo
\* reply that comes back through the device is dropped, and no connection from
\* the tunnel's own address becomes a flow.
NoStorm ==
  /\ \A r \in w.replies : ~Dispatched(w, r)
  /\ \A f \in DOMAIN w.flows : w.flows[f].key \notin LoopKeys

\* open() returns: the strand runs the cleanup it waits for.
OpenReturns == user.pc # "idle" ~> user.pc = "idle"
=============================================================================
