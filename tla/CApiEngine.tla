----------------------------- MODULE CApiEngine -----------------------------
(***************************************************************************)
(* The C API: blocking and callback calls of any thread over one engine    *)
(* and the io threads it starts, bindings/c/src/c_api.cpp.                 *)
(*                                                                         *)
(* The threads of the application take the steps of the API's functions;   *)
(* io is whoever runs the engine's executor, which serialises the tasks of *)
(* the queue and the callbacks.  Of the engine itself only what the API    *)
(* uses is here: an operation waits in it until the network completes it,  *)
(* or a close, a cancel or a dead connection aborts it (Tunio, TcpAccept   *)
(* and UdpEngine have the rest).  There is one TCP connection and one UDP  *)
(* session; an accept that is given one, gives a handle to it.             *)
(***************************************************************************)
EXTENDS Naturals, Sequences, FiniteSets, SequencesExt

CONSTANTS
  Workers,  \* threads that use connections and accept
  main,     \* the thread that opens, closes and frees the engine
  fin,      \* the thread made by tunio_engine_free in a callback
  none,     \* nobody
  Scripts   \* bound: the calls made and the faults that happen

ASSUME CApiAssumption ==
  /\ IsFiniteSet(Workers)
  /\ {main, fin, none} \intersect Workers = {}
  /\ main # fin /\ none \notin {main, fin}
  /\ \A s \in Scripts :
       /\ s = [calls |-> s.calls, workers |-> s.workers, n |-> s.n, faults |-> s.faults,
               arrivals |-> s.arrivals, acts |-> s.acts]
       /\ s.workers \subseteq Workers

Threads == Workers \union {main, fin}
Objs == {"tcp", "udp"}

VARIABLES
  c,     \* engine_core, the engine and the handles of the application
  th,    \* the threads: [pc, o, k, res]
  io,    \* the executor: [pc, o, k], while a callback runs
  sweep, \* sweep_timer_ of the TCP engine: none, armed, queued (its handler)
  left   \* what the script still allows

vars == <<c, th, io, sweep, left>>

Idle == [pc |-> "idle", o |-> "tcp", k |-> "none", res |-> "none"]
Resting == [pc |-> "idle", o |-> "tcp", k |-> "none"]
NoHandle == [st |-> "none", held |-> FALSE, aio |-> FALSE, pend |-> {}]

Post(v, task) == [v EXCEPT !.queue = Append(@, task)]
Op(o, k, by) == [o |-> o, k |-> k, by |-> by]

\* A completion is posted; that of an accept is posted twice, by the engine
\* and by the acceptor.
complete(v, op, res) ==
  Post(v, [type |-> IF op.k = "accept" THEN "hop" ELSE "done", op |-> op, res |-> res])

\* The operations of dead, in the order they were started.
abort(v, dead) ==
  LET after[n \in 0 .. Len(v.ops)] ==
        IF n = 0 THEN [v EXCEPT !.ops = <<>>]
        ELSE IF v.ops[n] \in dead THEN complete(after[n - 1], v.ops[n], "aborted")
        ELSE [after[n - 1] EXCEPT !.ops = Append(@, v.ops[n])]
  IN after[Len(v.ops)]

\* Connections die with the engine, and every operation is aborted.
engine_close(v) ==
  [abort(v, ToSet(v.ops)) EXCEPT !.eng = FALSE,
        !.obj = [o \in Objs |-> IF @[o].st = "open" THEN [@[o] EXCEPT !.st = "closed"] ELSE @[o]]]

\* close_all cancels the timer of the sweep, but not a handler that is queued.
cancel_sweep == sweep' = IF sweep = "armed" THEN "none" ELSE sweep

\* An operation reaches the engine; gen is the engine an accept was asked of.
engine_start(v, op, gen) ==
  IF IF op.k = "accept" THEN v.eng /\ gen = v.gen ELSE v.obj[op.o].st = "open"
  THEN [v EXCEPT !.ops = Append(@, op)]
  ELSE complete(v, op, "closed")

cancel_accepts(v, o) == abort(v, {op \in ToSet(v.ops) : op.o = o /\ op.k = "accept"})

\* close() of a socket aborts what waits on it.
socket_close(v, o) ==
  IF v.obj[o].st # "open" THEN v
  ELSE [abort(v, {op \in ToSet(v.ops) : op.o = o /\ op.k # "accept"}) EXCEPT !.obj[o].st = "closed"]

At(t, pc) == th[t].pc = pc
Go(t, pc) == th' = [th EXCEPT ![t].pc = pc]
Return(t) == th' = [th EXCEPT ![t] = Idle]

\* A call of the script begins; none is made while the engine is being freed,
\* and none on a freed handle.
Call(t, name) ==
  /\ At(t, "idle") /\ name \in left.calls /\ left.n > 0 /\ c.handle # "freeing"
  /\ left' = [left EXCEPT !.n = @ - 1]
  /\ UNCHANGED <<io, sweep>>
EngineCall(t, name) == Call(t, name) /\ c.handle = "ok"
ObjCall(t, name, o) == Call(t, name) /\ c.obj[o].held

-----------------------------------------------------------------------------
(***************************************************************************)
(* Blocking calls: the check of closed, begin_op, the wait.                *)
(***************************************************************************)
Enter(t, pc, o, k) ==
  /\ th' = IF c.closed THEN th ELSE [th EXCEPT ![t] = [pc |-> pc, o |-> o, k |-> k, res |-> "none"]]
  /\ UNCHANGED c

tcp_accept(t) == EngineCall(t, "tcp_accept") /\ Enter(t, "begin", "tcp", "accept")
udp_accept(t) == EngineCall(t, "udp_accept") /\ Enter(t, "begin", "udp", "accept")
tcp_recv(t) == ObjCall(t, "tcp_recv", "tcp") /\ Enter(t, "begin", "tcp", "recv")
tcp_send(t) == ObjCall(t, "tcp_send", "tcp") /\ Enter(t, "begin", "tcp", "send")
udp_recvfrom(t) == ObjCall(t, "udp_recvfrom", "udp") /\ Enter(t, "begin", "udp", "recv")
udp_sendto(t) == ObjCall(t, "udp_sendto", "udp") /\ Enter(t, "begin", "udp", "send")

begin_op(t) ==
  /\ At(t, "begin") /\ c.mu = none
  /\ IF c.closed THEN Return(t) /\ UNCHANGED c
     ELSE Go(t, "initiate") /\ c' = [c EXCEPT !.active = @ + 1]
  /\ UNCHANGED <<io, left, sweep>>

initiate(t) ==
  /\ At(t, "initiate")
  /\ c' = Post(c, [type |-> "op", op |-> Op(th[t].o, th[t].k, t), gen |-> c.gen])
  /\ Go(t, "end")
  /\ UNCHANGED <<io, left, sweep>>

\* Initiating throws.
initiate_throws(t) ==
  /\ At(t, "initiate") /\ left.faults > 0
  /\ left' = [left EXCEPT !.faults = @ - 1]
  /\ th' = [th EXCEPT ![t].pc = "end", ![t].res = "failed"]
  /\ UNCHANGED <<c, io, sweep>>

end_op(t) ==
  /\ At(t, "end") /\ c.mu = none
  /\ c' = [c EXCEPT !.active = @ - 1]
  /\ IF th[t].res = "failed" THEN Return(t) ELSE Go(t, "wait")
  /\ UNCHANGED <<io, left, sweep>>

\* The accepted connection becomes a handle.
wait_completion(t) ==
  /\ At(t, "wait") /\ th[t].res # "none"
  /\ c' = IF th[t].k = "accept" /\ th[t].res = "ok" THEN [c EXCEPT !.obj[th[t].o].held = TRUE] ELSE c
  /\ Return(t)
  /\ UNCHANGED <<io, left, sweep>>

-----------------------------------------------------------------------------
(***************************************************************************)
(* Calls that run on the executor and wait: the check of closed, on_io.    *)
(***************************************************************************)
tcp_close(t) == ObjCall(t, "tcp_close", "tcp") /\ Enter(t, "on_io", "tcp", "close")
tcp_reset(t) == ObjCall(t, "tcp_reset", "tcp") /\ Enter(t, "on_io", "tcp", "reset")
tcp_is_open(t) == ObjCall(t, "tcp_is_open", "tcp") /\ Enter(t, "on_io", "tcp", "is_open")
udp_close(t) == ObjCall(t, "udp_close", "udp") /\ Enter(t, "on_io", "udp", "close")
udp_is_open(t) == ObjCall(t, "udp_is_open", "udp") /\ Enter(t, "on_io", "udp", "is_open")
udp_set_timeout(t) == ObjCall(t, "udp_set_timeout", "udp") /\ Enter(t, "on_io", "udp", "set_timeout")

on_io(t) ==
  /\ At(t, "on_io")
  /\ c' = Post(c, [type |-> "fn", by |-> t])
  /\ Go(t, "future")
  /\ UNCHANGED <<io, left, sweep>>

\* The handle of a connection of a blocking accept is freed by its only user;
\* the socket is closed by a task of its own.
free_handle(t, o) ==
  /\ \A u \in Threads : th[u].o = o => th[u].pc = "idle"
  /\ ~c.obj[o].aio
  /\ c' = Post([c EXCEPT !.obj[o].held = FALSE], [type |-> "close_socket", o |-> o])
  /\ UNCHANGED th

tcp_free(t) == ObjCall(t, "tcp_free", "tcp") /\ free_handle(t, "tcp")
udp_free(t) == ObjCall(t, "udp_free", "udp") /\ free_handle(t, "udp")

-----------------------------------------------------------------------------
(***************************************************************************)
(* The engine's life: open, close_data, shutdown.                          *)
(***************************************************************************)
engine_open(t) ==
  /\ EngineCall(t, "engine_open") /\ ~c.eng
  /\ IF c.gen = 0 THEN Go(t, "build") /\ UNCHANGED c
     ELSE Go(t, "future") /\ c' = Post(c, [type |-> "cleanup", by |-> t])

\* The engine there was is destroyed, unless an address was wrong.
open_fails(t) ==
  /\ At(t, "build") /\ left.faults > 0
  /\ left' = [left EXCEPT !.faults = @ - 1]
  /\ sweep' \in {sweep, "none"}
  /\ Return(t)
  /\ UNCHANGED <<c, io>>

open_engine(t) ==
  /\ At(t, "build")
  /\ c' = [c EXCEPT !.eng = TRUE, !.gen = @ + 1]
  /\ sweep' = "armed"
  /\ Go(t, "threads")
  /\ UNCHANGED <<io, left>>

open_threads(t) ==
  /\ At(t, "threads")
  /\ c' = [c EXCEPT !.threads = "run"]
  /\ Go(t, "opened")
  /\ UNCHANGED <<io, left, sweep>>

open_flag(t) ==
  /\ At(t, "opened")
  /\ c' = [c EXCEPT !.closed = FALSE]
  /\ Return(t)
  /\ UNCHANGED <<io, left, sweep>>

engine_close_call(t) ==
  /\ EngineCall(t, "engine_close")
  /\ IF c.closed THEN UNCHANGED <<c, th>>
     ELSE c' = [c EXCEPT !.closed = TRUE] /\ Go(t, "drain")

\* close_data: the operations that are being initiated, then the engine.
drain(t) ==
  /\ At(t, "drain") /\ c.mu = none /\ c.active = 0
  /\ Go(t, "close")
  /\ UNCHANGED <<c, io, left, sweep>>

close_data(t) ==
  /\ At(t, "close")
  /\ IF c.eng THEN c' = Post(c, [type |-> "close", by |-> t]) /\ Go(t, "future")
     ELSE Return(t) /\ UNCHANGED c
  /\ UNCHANGED <<io, left, sweep>>

\* Nobody else may be in a call, but for the blocking ones, which are woken.
OthersBlocked(t) ==
  \A u \in Threads \ {t} : th[u].pc \in {"idle", "begin", "initiate", "end", "wait"}

engine_free(t) ==
  /\ EngineCall(t, "engine_free") /\ OthersBlocked(t)
  /\ c' = [c EXCEPT !.gone = TRUE, !.handle = "freeing"]
  /\ Go(t, "shutdown")

shutdown(t) ==
  /\ At(t, "shutdown")
  /\ c' = [c EXCEPT !.closed = TRUE]
  /\ Go(t, IF c.closed THEN "reset_guard" ELSE "shut_drain")
  /\ UNCHANGED <<io, left, sweep>>

\* The engine is closed although operations are being initiated.
MutantShutdownRushes(t) ==
  /\ At(t, "shut_drain") /\ c.mu = none
  /\ IF c.eng
     THEN /\ c' = Post([c EXCEPT !.mu = t], [type |-> "close", by |-> t])
          /\ Go(t, "shut_future")
     ELSE Go(t, "reset_guard") /\ UNCHANGED c
  /\ UNCHANGED <<io, left, sweep>>

\* Here op_mu is kept until the engine is closed.
shut_drain(t) ==
  /\ At(t, "shut_drain") /\ c.mu = none /\ c.active = 0
  /\ IF c.eng
     THEN /\ c' = Post([c EXCEPT !.mu = t], [type |-> "close", by |-> t])
          /\ Go(t, "shut_future")
     ELSE Go(t, "reset_guard") /\ UNCHANGED c
  /\ UNCHANGED <<io, left, sweep>>

shut_unlock(t) ==
  /\ At(t, "shut_unlock")
  /\ c' = [c EXCEPT !.mu = none]
  /\ Go(t, "reset_guard")
  /\ UNCHANGED <<io, left, sweep>>

\* The io_context keeps its work guard.
MutantGuardKept(t) ==
  /\ At(t, "reset_guard")
  /\ Go(t, "join")
  /\ UNCHANGED <<c, io, left, sweep>>

reset_guard(t) ==
  /\ At(t, "reset_guard")
  /\ c' = [c EXCEPT !.guard = FALSE]
  /\ Go(t, "join")
  /\ UNCHANGED <<io, left, sweep>>

\* io_context::run returns when there is no more work: the reads of an open
\* engine are work, and so is the sweep of any engine.
OutOfWork == ~c.guard /\ ~c.eng /\ sweep = "none" /\ c.queue = <<>> /\ io.pc = "idle"

join(t) ==
  /\ At(t, "join") /\ (c.threads = "run" => OutOfWork)
  /\ c' = [c EXCEPT !.threads = "gone", !.handle = "freed", !.returned = TRUE]
  /\ Return(t)
  /\ UNCHANGED <<io, left, sweep>>

-----------------------------------------------------------------------------
(***************************************************************************)
(* The callback family: accepts that renew themselves, reads and writes.   *)
(***************************************************************************)
register(t, o, on) ==
  /\ th' = IF c.closed THEN th
           ELSE [th EXCEPT ![t] = [pc |-> "register", o |-> o, k |-> IF on THEN "resume" ELSE "pause",
                                   res |-> "none"]]
  /\ UNCHANGED c

tcp_async_accept(t, on) ==
  EngineCall(t, IF on THEN "tcp_async_accept" ELSE "tcp_pause") /\ register(t, "tcp", on)
udp_async_accept(t, on) ==
  EngineCall(t, IF on THEN "udp_async_accept" ELSE "udp_pause") /\ register(t, "udp", on)

\* Under aio_mu.
set_cb(t) ==
  LET o == th[t].o
      on == th[t].k = "resume"
  IN /\ At(t, "register")
     /\ c' = [c EXCEPT !.cb[o] = on, !.accepting[o] = @ \/ on]
     /\ CASE on /\ ~c.accepting[o] -> Go(t, "arm")
          [] ~on /\ c.accepting[o] -> Go(t, "cancel")
          [] OTHER -> Return(t)
     /\ UNCHANGED <<io, left, sweep>>

arm_accept(v, o) == IF v.closed THEN v ELSE Post(v, [type |-> "arm", o |-> o])

arm_tcp_accept(t) ==
  /\ At(t, "arm") /\ th[t].o = "tcp"
  /\ c' = arm_accept(c, "tcp")
  /\ Return(t)
  /\ UNCHANGED <<io, left, sweep>>

arm_udp_accept(t) ==
  /\ At(t, "arm") /\ th[t].o = "udp"
  /\ c' = arm_accept(c, "udp")
  /\ Return(t)
  /\ UNCHANGED <<io, left, sweep>>

post_cancel(t) ==
  /\ At(t, "cancel")
  /\ c' = Post(c, [type |-> "cancel", o |-> th[t].o])
  /\ Return(t)
  /\ UNCHANGED <<io, left, sweep>>

\* One read and, on a TCP connection, one write may be pending.
Single(o, k) == k = "recv" \/ o = "tcp"
CanAsk(o, k) ==
  /\ c.obj[o].held /\ c.obj[o].aio /\ ~c.gone /\ ~c.closed
  /\ Single(o, k) => k \notin c.obj[o].pend

async_op(t, o, k) ==
  /\ c.obj[o].aio
  /\ IF CanAsk(o, k)
     THEN /\ c' = [c EXCEPT !.obj[o].pend = IF Single(o, k) THEN @ \union {k} ELSE @]
          /\ th' = [th EXCEPT ![t] = [pc |-> "ask", o |-> o, k |-> k, res |-> "none"]]
     ELSE UNCHANGED <<c, th>>

tcp_async_recv(t) == ObjCall(t, "tcp_async_recv", "tcp") /\ async_op(t, "tcp", "recv")
tcp_async_send(t) == ObjCall(t, "tcp_async_send", "tcp") /\ async_op(t, "tcp", "send")
udp_async_recvfrom(t) == ObjCall(t, "udp_async_recvfrom", "udp") /\ async_op(t, "udp", "recv")
udp_async_sendto(t) == ObjCall(t, "udp_async_sendto", "udp") /\ async_op(t, "udp", "send")

ask(t) ==
  /\ At(t, "ask")
  /\ c' = Post(c, [type |-> "op", op |-> Op(th[t].o, th[t].k, none), gen |-> c.gen])
  /\ Return(t)
  /\ UNCHANGED <<io, left, sweep>>

\* The flag stays set when the operation cannot be initiated.
MutantAskThrows(t) ==
  /\ At(t, "ask") /\ left.faults > 0
  /\ left' = [left EXCEPT !.faults = @ - 1]
  /\ Return(t)
  /\ UNCHANGED <<c, io, sweep>>

ask_throws(t) ==
  /\ At(t, "ask") /\ left.faults > 0
  /\ left' = [left EXCEPT !.faults = @ - 1]
  /\ c' = [c EXCEPT !.obj[th[t].o].pend = @ \ {th[t].k}]
  /\ Return(t)
  /\ UNCHANGED <<io, sweep>>

-----------------------------------------------------------------------------
(***************************************************************************)
(* The executor: tasks, completions, callbacks.                            *)
(***************************************************************************)
Task(type) == io.pc = "idle" /\ c.threads = "run" /\ c.queue # <<>> /\ Head(c.queue).type = type
Popped == [c EXCEPT !.queue = Tail(@)]
Now == Head(c.queue)

RunOp ==
  /\ Task("op")
  /\ c' = engine_start(Popped, Now.op, Now.gen)
  /\ UNCHANGED <<th, io, left, sweep>>

RunHop ==
  /\ Task("hop")
  /\ c' = Post(Popped, [Now EXCEPT !.type = "done"])
  /\ UNCHANGED <<th, io, left, sweep>>

slot_finish ==
  /\ Task("done") /\ Now.op.by # none
  /\ c' = Popped
  /\ th' = [th EXCEPT ![Now.op.by].res = Now.res]
  /\ UNCHANGED <<io, left, sweep>>

\* The function of on_io; the caller is woken.
RunFn ==
  /\ Task("fn")
  /\ c' = IF th[Now.by].k \in {"close", "reset"} THEN socket_close(Popped, th[Now.by].o) ELSE Popped
  /\ Return(Now.by)
  /\ UNCHANGED <<io, left, sweep>>

RunCloseSocket ==
  /\ Task("close_socket")
  /\ c' = socket_close(Popped, Now.o)
  /\ UNCHANGED <<th, io, left, sweep>>

RunCleanup ==
  /\ Task("cleanup")
  /\ c' = engine_close(Popped)
  /\ cancel_sweep
  /\ Go(Now.by, "build")
  /\ UNCHANGED <<io, left>>

\* engine.close() of an engine that closed itself does nothing.
RunClose ==
  /\ Task("close")
  /\ c' = engine_close(Popped)
  /\ IF c.eng THEN cancel_sweep ELSE UNCHANGED sweep
  /\ IF At(Now.by, "future") THEN Return(Now.by) ELSE Go(Now.by, "shut_unlock")
  /\ UNCHANGED <<io, left>>

\* A second passes ...
SweepFires ==
  /\ c.threads = "run" /\ sweep = "armed"
  /\ sweep' = "queued"
  /\ UNCHANGED <<c, th, io, left>>

\* ... and the handler runs, which does not ask whether the engine was closed
\* meanwhile.  As the timer may fire at any time, it may run between any tasks.
on_sweep ==
  /\ c.threads = "run" /\ io.pc = "idle" /\ sweep = "queued"
  /\ sweep' = "armed"
  /\ UNCHANGED <<c, th, io, left>>

RunArm ==
  /\ Task("arm")
  /\ c' = IF c.closed THEN [Popped EXCEPT !.accepting[Now.o] = FALSE]
          ELSE engine_start(Popped, Op(Now.o, "accept", none), c.gen)
  /\ UNCHANGED <<th, io, left, sweep>>

RunCancel ==
  /\ Task("cancel")
  /\ c' = IF c.closed THEN Popped ELSE cancel_accepts(Popped, Now.o)
  /\ UNCHANGED <<th, io, left, sweep>>

\* The callback of an accept: it is not pending any more ...
accept_done ==
  /\ Task("done") /\ Now.op.by = none /\ Now.op.k = "accept"
  /\ c' = [Popped EXCEPT !.accepting[Now.op.o] = FALSE]
  /\ io' = IF Now.res = "ok" THEN [pc |-> "take", o |-> Now.op.o, k |-> "accept"] ELSE io
  /\ UNCHANGED <<th, left, sweep>>

\* ... the connection becomes a handle, or is closed if nobody wants it ...
accept_take ==
  /\ io.pc = "take"
  /\ IF c.closed \/ c.gone \/ ~c.cb[io.o]
     THEN c' = socket_close(c, io.o) /\ io' = Resting
     ELSE /\ c' = [c EXCEPT !.obj[io.o].held = TRUE, !.obj[io.o].aio = TRUE]
          /\ io' = [io EXCEPT !.pc = "call"]
  /\ UNCHANGED <<th, left, sweep>>

\* A new accept although one was registered meanwhile.
MutantRearmBlindly ==
  /\ io.pc = "rearm"
  /\ IF ~c.gone /\ ~c.closed /\ c.cb[io.o]
     THEN c' = [c EXCEPT !.accepting[io.o] = TRUE] /\ io' = [io EXCEPT !.pc = "arm"]
     ELSE io' = Resting /\ UNCHANGED c
  /\ UNCHANGED <<th, left, sweep>>

\* ... and after the application's function the next one is armed.
accept_rearm ==
  /\ io.pc = "rearm"
  /\ IF ~c.accepting[io.o] /\ ~c.gone /\ ~c.closed /\ c.cb[io.o]
     THEN c' = [c EXCEPT !.accepting[io.o] = TRUE] /\ io' = [io EXCEPT !.pc = "arm"]
     ELSE io' = Resting /\ UNCHANGED c
  /\ UNCHANGED <<th, left, sweep>>

accept_arm ==
  /\ io.pc = "arm"
  /\ c' = arm_accept(c, io.o)
  /\ io' = Resting
  /\ UNCHANGED <<th, left, sweep>>

\* The callback of a read or a write.
op_done ==
  /\ Task("done") /\ Now.op.by = none /\ Now.op.k # "accept"
  /\ c' = [Popped EXCEPT !.obj[Now.op.o].pend = @ \ {Now.op.k}]
  /\ io' = [pc |-> "check", o |-> Now.op.o, k |-> Now.op.k]
  /\ UNCHANGED <<th, left, sweep>>

\* Only the engine is looked at.
MutantCheckGoneOnly ==
  /\ io.pc = "check"
  /\ io' = IF c.gone THEN Resting ELSE [io EXCEPT !.pc = "call"]
  /\ UNCHANGED <<c, th, left, sweep>>

\* Nothing is said of a freed handle or engine.
op_check ==
  /\ io.pc = "check"
  /\ io' = IF ~c.obj[io.o].held \/ c.gone THEN Resting ELSE [io EXCEPT !.pc = "call"]
  /\ UNCHANGED <<c, th, left, sweep>>

\* The application's function, and what it may do; late and stale are history:
\* a call after tunio_engine_free returned, and one with a freed handle.
Called == [c EXCEPT !.late = @ \/ c.returned, !.stale = @ \/ ~c.obj[io.o].held]
Done == IF io.k = "accept" THEN [io EXCEPT !.pc = "rearm"] ELSE Resting

callback ==
  /\ io.pc = "call"
  /\ c' = Called /\ io' = Done
  /\ UNCHANGED <<th, left, sweep>>

Acting(act) ==
  /\ io.pc = "call" /\ act \in left.acts
  /\ left' = [left EXCEPT !.acts = @ \ {act}]

callback_asks(k) ==
  /\ Acting(k) /\ CanAsk(io.o, k)
  /\ c' = engine_start([Called EXCEPT !.obj[io.o].pend = IF Single(io.o, k) THEN @ \union {k} ELSE @],
                       Op(io.o, k, none), c.gen)
  /\ io' = Done
  /\ UNCHANGED <<th, sweep>>

callback_frees ==
  /\ Acting("free_handle")
  /\ c' = socket_close([Called EXCEPT !.obj[io.o].held = FALSE], io.o)
  /\ io' = Done
  /\ UNCHANGED <<th, sweep>>

callback_pauses ==
  /\ Acting("pause") /\ ~c.closed
  /\ c' = LET v == [Called EXCEPT !.cb[io.o] = FALSE]
          IN IF c.accepting[io.o] THEN Post(v, [type |-> "cancel", o |-> io.o]) ELSE v
  /\ io' = Done
  /\ UNCHANGED <<th, sweep>>

\* close_data here waits on the executor, and closes the engine inline.
callback_closes ==
  /\ Acting("close") /\ c.handle = "ok"
  /\ c' = [Called EXCEPT !.closed = TRUE]
  /\ io' = IF c.closed THEN Done ELSE [io EXCEPT !.pc = "drain"]
  /\ UNCHANGED <<th, sweep>>

callback_drained ==
  /\ io.pc = "drain" /\ c.mu = none /\ c.active = 0
  /\ IF c.eng THEN c' = engine_close(c) /\ cancel_sweep ELSE UNCHANGED <<c, sweep>>
  /\ io' = Done
  /\ UNCHANGED <<th, left>>

\* The engine is freed by a thread made for it.
callback_frees_engine ==
  /\ Acting("free") /\ c.handle = "ok" /\ OthersBlocked(fin)
  /\ c' = [Called EXCEPT !.gone = TRUE, !.handle = "freeing", !.returned = TRUE]
  /\ Go(fin, "shutdown")
  /\ io' = Done
  /\ UNCHANGED sweep

-----------------------------------------------------------------------------
\* The network completes an operation; an accept brings the connection.
Arrive(i) ==
  /\ left.arrivals > 0 /\ i \in DOMAIN c.ops
  /\ left' = [left EXCEPT !.arrivals = @ - 1]
  /\ LET op == c.ops[i]
         v == [c EXCEPT !.ops = RemoveAt(@, i)]
     IN IF op.k = "accept"
        THEN c.obj[op.o].st = "none" /\ c' = complete([v EXCEPT !.obj[op.o].st = "open"], op, "ok")
        ELSE c' = complete(v, op, "ok")
  /\ UNCHANGED <<th, io, sweep>>

\* The device fails: the engine closes itself, closed does not change.
DeviceFails ==
  /\ c.eng /\ c.threads = "run" /\ io.pc = "idle" /\ left.faults > 0
  /\ left' = [left EXCEPT !.faults = @ - 1]
  /\ c' = engine_close(c)
  /\ cancel_sweep
  /\ UNCHANGED <<th, io>>

Init ==
  /\ c = [closed |-> TRUE, gone |-> FALSE, active |-> 0, mu |-> none, eng |-> FALSE, gen |-> 0,
          guard |-> TRUE, threads |-> "none", queue |-> <<>>, ops |-> <<>>,
          cb |-> [o \in Objs |-> FALSE], accepting |-> [o \in Objs |-> FALSE],
          obj |-> [o \in Objs |-> NoHandle], handle |-> "ok", returned |-> FALSE,
          late |-> FALSE, stale |-> FALSE]
  /\ th = [t \in Threads |-> Idle]
  /\ io = Resting
  /\ sweep = "none"
  /\ left \in Scripts

Calls(t) ==
  \/ tcp_accept(t) \/ udp_accept(t) \/ tcp_recv(t) \/ tcp_send(t) \/ udp_recvfrom(t) \/ udp_sendto(t)
  \/ tcp_close(t) \/ tcp_reset(t) \/ tcp_is_open(t)
  \/ udp_close(t) \/ udp_is_open(t) \/ udp_set_timeout(t)
  \/ tcp_free(t) \/ udp_free(t)
  \/ tcp_async_recv(t) \/ tcp_async_send(t) \/ udp_async_recvfrom(t) \/ udp_async_sendto(t)

EngineCalls(t) ==
  \/ engine_open(t) \/ engine_close_call(t) \/ engine_free(t)
  \/ \E on \in BOOLEAN : tcp_async_accept(t, on) \/ udp_async_accept(t, on)

\* Inside a call.
ThreadSteps(t) ==
  \/ begin_op(t) \/ initiate(t) \/ end_op(t) \/ wait_completion(t) \/ on_io(t)
  \/ open_engine(t) \/ open_threads(t) \/ open_flag(t)
  \/ drain(t) \/ close_data(t) \/ shutdown(t) \/ shut_drain(t) \/ shut_unlock(t)
  \/ reset_guard(t) \/ join(t)
  \/ set_cb(t) \/ arm_tcp_accept(t) \/ arm_udp_accept(t) \/ post_cancel(t) \/ ask(t)

Faults(t) == initiate_throws(t) \/ open_fails(t) \/ ask_throws(t)

IoSteps ==
  \/ RunOp \/ RunHop \/ slot_finish \/ RunFn \/ RunCloseSocket \/ RunCleanup \/ RunClose
  \/ RunArm \/ RunCancel
  \/ accept_done \/ accept_take \/ accept_rearm \/ accept_arm \/ op_done \/ op_check
  \/ callback \/ callback_drained

CallbackActs ==
  \/ \E k \in {"recv", "send"} : callback_asks(k)
  \/ callback_frees \/ callback_pauses \/ callback_closes \/ callback_frees_engine

Next ==
  \/ \E t \in left.workers : Calls(t)
  \/ EngineCalls(main)
  \/ \E t \in Threads : ThreadSteps(t) \/ Faults(t)
  \/ IoSteps \/ CallbackActs \/ SweepFires \/ on_sweep
  \/ \E i \in DOMAIN c.ops : Arrive(i)
  \/ DeviceFails

Spec == Init /\ [][Next]_vars

\* Threads that can run do, callbacks return, and timers fire.
FairSpec ==
  /\ Spec
  /\ (\A t \in Threads : WF_vars(ThreadSteps(t))) /\ WF_vars(IoSteps)
  /\ WF_vars(SweepFires) /\ WF_vars(on_sweep)

-----------------------------------------------------------------------------
(***************************************************************************)
(* Properties.                                                             *)
(***************************************************************************)
InQueue(P(_)) == Cardinality({i \in DOMAIN c.queue : c.queue[i].type \in {"op", "hop", "done"}
                                                        /\ P(c.queue[i].op)})
InFlight(P(_)) == Cardinality({i \in DOMAIN c.ops : P(c.ops[i])}) + InQueue(P)

\* Values have their types, and active counts the threads in begin_op.
TypeOK ==
  /\ c.active = Cardinality({t \in Threads : th[t].pc \in {"initiate", "end"}})
  /\ c.mu \in {none, main, fin} /\ c.threads \in {"none", "run", "gone"}
  /\ \A o \in Objs : c.obj[o].st \in {"none", "open", "closed"}
                     /\ c.obj[o].pend \subseteq {"recv", "send"}
  /\ c.eng => c.gen > 0

\* tcp_accepting, udp_accepting: however registrations, pauses and callbacks
\* interleave, one accept at most is under way for each, and none while the
\* flag is down.
OneAccept ==
  \A o \in Objs :
    LET P(op) == op.o = o /\ op.k = "accept" /\ op.by = none
        arming == Cardinality({i \in DOMAIN c.queue : c.queue[i].type = "arm" /\ c.queue[i].o = o})
                    + Cardinality({t \in Threads : At(t, "arm") /\ th[t].o = o})
                    + (IF io.pc = "arm" /\ io.o = o THEN 1 ELSE 0)
    IN InFlight(P) + arming <= IF c.accepting[o] THEN 1 ELSE 0

\* read_pending, write_pending, recv_pending: set exactly while an operation
\* is under way, so that none is refused or doubled later.
PendingExact ==
  \A o \in Objs, k \in {"recv", "send"} :
    LET P(op) == op.o = o /\ op.k = k /\ op.by = none
        asking == Cardinality({t \in Threads : At(t, "ask") /\ th[t].o = o /\ th[t].k = k})
    IN Single(o, k) => InFlight(P) + asking = IF k \in c.obj[o].pend THEN 1 ELSE 0

\* What every step finds and leaves: the types, the count of calls in begin_op,
\* and flags that are true to what is under way.
ApiInv == TypeOK /\ PendingExact

\* aio_gone, alive: no callback begins after tunio_engine_free returned, from
\* a thread or from a callback, and none is given a handle that an earlier one
\* freed.
CallbacksValid == ~c.late /\ ~c.stale

\* shutdown: when the io threads have ended, nothing depends on them; only a
\* handle that is freed later posts a task, which its memory takes along.
IoOutlivesCalls ==
  c.threads = "gone" =>
    /\ \A i \in DOMAIN c.queue : c.queue[i].type = "close_socket"
    /\ c.ops = <<>>
    /\ \A t \in Threads : th[t].pc \in {"idle", "begin"} \/ (At(t, "wait") /\ th[t].res # "none")

\* join waits for a sweep that was queued when the engine was closed and that
\* has since begun the next on the closed engine: tunio_engine_free may not
\* return.
SweepsOn(t) == At(t, "join") /\ ~c.eng /\ sweep # "none"

\* Every other call returns once the engine is closed or freed: those that
\* block are woken, those that close it are not kept by each other or by op_mu.
\* (A call that has yet to enter begin_op may find the engine open again.)  The
\* operations of the callback family end as well.
ReturnUnlessSweeping ==
  /\ \A t \in Threads : c.closed /\ th[t].pc \notin {"idle", "begin"} ~> At(t, "idle") \/ SweepsOn(t)
  /\ \A o \in Objs : c.closed /\ c.obj[o].pend # {} ~> c.obj[o].pend = {}
=============================================================================
