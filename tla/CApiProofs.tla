------------------------------ MODULE CApiProofs ------------------------------
(***************************************************************************)
(* Theorems about CApiEngine: what the C API promises of its callbacks,    *)
(* its registrations, its flags and its threads, for any calls of any      *)
(* threads.                                                                *)
(***************************************************************************)
EXTENDS CApiEngine, DataLemmas

-----------------------------------------------------------------------------
(***************************************************************************)
(* Types.                                                                  *)
(***************************************************************************)
Kinds == {"accept", "recv", "send"}
Results == {"ok", "closed", "aborted"}
Ops == [o : Objs, k : Kinds, by : Workers \union {none}]
Awaited == [type : {"fn", "cleanup", "close"}, by : Threads]
Tasks == [type : {"op"}, op : Ops, gen : Nat] \union [type : {"hop", "done"}, op : Ops, res : Results]
           \union [type : {"arm", "cancel", "close_socket"}, o : Objs] \union Awaited
Handles == [st : {"none", "open", "closed"}, held : BOOLEAN, aio : BOOLEAN, pend : SUBSET {"recv", "send"}]
Core == [closed : BOOLEAN, gone : BOOLEAN, active : Nat, mu : {none, main, fin}, eng : BOOLEAN,
         gen : Nat, guard : BOOLEAN, threads : {"none", "run", "gone"}, queue : Seq(Tasks),
         ops : Seq(Ops), cb : [Objs -> BOOLEAN], accepting : [Objs -> BOOLEAN],
         obj : [Objs -> Handles], handle : {"ok", "freeing", "freed"}, returned : BOOLEAN,
         late : BOOLEAN, stale : BOOLEAN]

WorkerPcs == {"idle", "begin", "initiate", "end", "wait", "on_io", "future", "ask"}
FreePcs == {"shutdown", "shut_drain", "shut_future", "shut_unlock", "reset_guard", "join"}
MainPcs == {"idle", "build", "threads", "opened", "future", "drain", "close", "register", "arm",
            "cancel"} \union FreePcs
ThreadKinds == Kinds \union {"none", "close", "reset", "is_open", "set_timeout", "resume", "pause"}
ThreadState == [pc : WorkerPcs \union MainPcs, o : Objs, k : ThreadKinds,
                res : Results \union {"none", "failed"}]
IoState == [pc : {"idle", "take", "call", "rearm", "arm", "check", "drain"}, o : Objs,
            k : Kinds \union {"none"}]

-----------------------------------------------------------------------------
(***************************************************************************)
(* What is due: how often an operation is in the engine or on its way to   *)
(* it or back, and how often a task is posted.                             *)
(***************************************************************************)
OpTypes == {"op", "hop", "done"}
Key(x) == IF x.type \in OpTypes THEN x.op ELSE x
This(e) == {e}
Carries(e) == {x \in Tasks : Key(x) = e}
Due(v, e) == Occurs(v.ops, This(e)) + Occurs(v.queue, Carries(e))

Arm(o) == [type |-> "arm", o |-> o]
Await(type, t) == [type |-> type, by |-> t]

-----------------------------------------------------------------------------
(***************************************************************************)
(* The inductive invariant: the core, the executor, each thread, and what  *)
(* they count together.                                                    *)
(***************************************************************************)
\* The engine v: what it holds is an open engine's.
Holds(v) ==
  /\ v.ops # <<>> => v.eng
  /\ \A o \in Objs : v.obj[o].st = "open" => v.eng
  /\ v.eng => v.gen > 0

\* The core: reads and writes with callbacks are due on handles that have them
\* only; before the io threads exist nothing is under way, and when they are
\* gone nothing is left.
CoreOK(v) ==
  /\ v \in Core /\ Holds(v)
  /\ v.gone <=> v.handle # "ok"
  /\ v.returned => v.gone
  /\ ~v.late /\ ~v.stale
  /\ \A o \in Objs, k \in {"recv", "send"} : Due(v, Op(o, k, none)) > 0 => v.obj[o].aio
  /\ v.threads = "none" => /\ v.closed /\ v.queue = <<>> /\ v.ops = <<>>
                           /\ \A o \in Objs : ~v.obj[o].held
  /\ v.threads = "gone" => /\ v.closed /\ v.handle = "freed" /\ v.ops = <<>>
                           /\ \A i \in DOMAIN v.queue : v.queue[i].type = "close_socket"

\* The executor: a callback has its handle, and its engine is not freed.
IoOK(v, x) ==
  /\ x \in IoState
  /\ x.pc # "idle" => v.threads = "run"
  /\ x.pc = "call" => v.obj[x.o].held /\ v.obj[x.o].aio /\ ~v.returned
  /\ x.pc = "check" => v.obj[x.o].aio

\* Which thread may be where.
RoleOK(t, x) ==
  /\ x \in ThreadState
  /\ t \in Workers => x.pc \in WorkerPcs
  /\ t = main => x.pc \in MainPcs
  /\ t = fin => x.pc \in FreePcs \union {"idle"}
  /\ x.pc \in {"begin", "initiate", "end", "wait"} => x.k \in Kinds
  /\ x.pc = "ask" => x.k \in {"recv", "send"}

\* Who blocks waits for something that is due; a task somebody waits for has
\* one waiter, who is waiting.
WaitOK(v, t, x) ==
  /\ x.pc \in {"end", "wait"} /\ x.res = "none" => Due(v, Op(x.o, x.k, t)) > 0
  /\ Due(v, Await("fn", t)) + Due(v, Await("cleanup", t)) + Due(v, Await("close", t)) <= 1
  /\ Due(v, Await("fn", t)) > 0 => t \in Workers /\ x.pc = "future"
  /\ Due(v, Await("cleanup", t)) > 0 => t = main /\ x.pc = "future"
  /\ Due(v, Await("close", t)) > 0 =>
       \/ t = main /\ x.pc = "future"
       \/ t \in {main, fin} /\ x.pc = "shut_future"

\* What a thread may be doing before the engine is opened, while it is freed,
\* and when the io threads are gone.
PhaseOK(v, t, x) ==
  /\ x.pc = "ask" => v.obj[x.o].aio
  /\ x.pc \in FreePcs => v.handle = "freeing" /\ (x.pc # "shutdown" => v.closed)
  /\ v.threads = "none" =>
       /\ t # main => x.pc = "idle"
       /\ t = main => x.pc \in {"idle", "build", "threads"} \union FreePcs
       /\ t = main /\ x.pc # "threads" => v.gen = 0 /\ ~v.eng
  /\ v.threads = "gone" => x.pc \in {"idle", "begin"} \/ (x.pc = "wait" /\ x.res # "none")

ThreadOK(v, t, x) == RoleOK(t, x) /\ WaitOK(v, t, x) /\ PhaseOK(v, t, x)

\* Who frees the engine is alone, but for blocking calls.
Alone ==
  \A t \in Threads : th[t].pc \in FreePcs =>
    \A u \in Threads \ {t} : th[u].pc \in {"idle", "begin", "initiate", "end", "wait"}

\* active counts the threads between begin_op and end_op.
Initiating == {t \in Threads : th[t].pc \in {"initiate", "end"}}
ActiveCounts == c.active = Cardinality(Initiating)

\* Once closed is up, and who raised it has seen active at zero, it stays there.
Draining == io.pc = "drain" \/ \E t \in Threads : th[t].pc \in {"drain", "shut_drain"}
Drained == c.closed /\ ~Draining => Initiating = {}

\* The flag of a read or write is up while it is due, and then once.
Asking(o, k) == {t \in Threads : At(t, "ask") /\ th[t].o = o /\ th[t].k = k}
PendingDue ==
  \A o \in Objs, k \in {"recv", "send"} :
    Single(o, k) => Due(c, Op(o, k, none)) + Cardinality(Asking(o, k))
                      = IF k \in c.obj[o].pend THEN 1 ELSE 0

\* The flag of an accept is up while one is due or being armed, and then once.
MainArms(o) == IF th[main].pc = "arm" /\ th[main].o = o THEN 1 ELSE 0
IoArms(o) == IF io.pc = "arm" /\ io.o = o THEN 1 ELSE 0
AcceptDue ==
  \A o \in Objs : Due(c, Op(o, "accept", none)) + Due(c, Arm(o)) + MainArms(o) + IoArms(o)
                    <= IF c.accepting[o] THEN 1 ELSE 0

\* The budgets of the script.
LeftOK ==
  /\ left = [calls |-> left.calls, workers |-> left.workers, n |-> left.n, faults |-> left.faults,
             arrivals |-> left.arrivals, acts |-> left.acts]
  /\ left.workers \subseteq Workers

ThreadsOK == th \in [Threads -> ThreadState] /\ \A t \in Threads : ThreadOK(c, t, th[t])

ApiInvariant ==
  /\ CoreOK(c) /\ IoOK(c, io) /\ ThreadsOK /\ Alone /\ ActiveCounts /\ Drained
  /\ PendingDue /\ AcceptDue /\ LeftOK

-----------------------------------------------------------------------------
(***************************************************************************)
(* How the engine's helpers change what is due.                            *)
(***************************************************************************)
Flags == {"closed", "gone", "active", "mu", "gen", "guard", "threads", "cb", "accepting", "handle",
          "returned", "late", "stale"}

\* From v to w only the engine moves on: tasks, operations, connections.
Moves(v, w) ==
  /\ w \in Core
  /\ \A f \in Flags : w[f] = v[f]
  /\ \A o \in Objs : w.obj[o] = [v.obj[o] EXCEPT !.st = w.obj[o].st]
  /\ Holds(v) => Holds(w)

\* ... and what is due stays due, or e becomes due once more.
Passes(v, w) == Moves(v, w) /\ \A f : Due(w, f) = Due(v, f)
Adds(v, w, e) == Moves(v, w) /\ \A f : Due(w, f) = Due(v, f) + (IF f = e THEN 1 ELSE 0)

\* What is due is counted in natural numbers.
LEMMA DueType ==
  ASSUME NEW v \in Core
  PROVE  \A e : Due(v, e) \in Nat
<1>1. v.ops \in Seq(Ops) /\ v.queue \in Seq(Tasks)
  BY DEF Core
<1>2. SUFFICES ASSUME NEW e PROVE Due(v, e) \in Nat
  OBVIOUS
<1>3. Occurs(v.ops, This(e)) \in Nat
  BY <1>1, OccursType
<1>4. Occurs(v.queue, Carries(e)) \in Nat
  BY <1>1, OccursType
<1> QED BY <1>3, <1>4 DEF Due

\* A task that is posted makes due what it carries.
LEMMA DuePost ==
  ASSUME NEW v \in Core, NEW w, NEW x \in Tasks, w.ops = v.ops, w.queue = Append(v.queue, x)
  PROVE  \A f : Due(w, f) = Due(v, f) + (IF f = Key(x) THEN 1 ELSE 0)
<1>1. v.ops \in Seq(Ops) /\ v.queue \in Seq(Tasks)
  BY DEF Core
<1>2. SUFFICES ASSUME NEW f PROVE Due(w, f) = Due(v, f) + (IF f = Key(x) THEN 1 ELSE 0)
  OBVIOUS
<1>3. Occurs(v.ops, This(f)) \in Nat /\ Occurs(v.queue, Carries(f)) \in Nat
  BY <1>1, OccursType
<1>4. Occurs(w.queue, Carries(f)) = Occurs(v.queue, Carries(f)) + (IF x \in Carries(f) THEN 1 ELSE 0)
  BY <1>1, OccursAppend
<1>5. x \in Carries(f) <=> f = Key(x)
  BY DEF Carries
<1> QED BY <1>3, <1>4, <1>5 DEF Due

\* The task that is taken makes it due no more.
LEMMA DuePop ==
  ASSUME NEW v \in Core, v.queue # <<>>, NEW w, w.ops = v.ops, w.queue = Tail(v.queue)
  PROVE  /\ Head(v.queue) \in Tasks /\ w.queue \in Seq(Tasks)
         /\ \A f : Due(v, f) = Due(w, f) + (IF f = Key(Head(v.queue)) THEN 1 ELSE 0)
<1>1. v.ops \in Seq(Ops) /\ v.queue \in Seq(Tasks)
  BY DEF Core
<1> DEFINE x == Head(v.queue)
<1>2. x \in Tasks /\ w.queue \in Seq(Tasks)
  BY <1>1, HeadTailProperties
<1>3. SUFFICES ASSUME NEW f PROVE Due(v, f) = Due(w, f) + (IF f = Key(x) THEN 1 ELSE 0)
  BY <1>2
<1>4. /\ Occurs(v.ops, This(f)) \in Nat /\ Occurs(w.queue, Carries(f)) \in Nat
      /\ Occurs(v.queue, Carries(f)) \in Nat
  BY <1>1, <1>2, OccursType
<1>5. Occurs(v.queue, Carries(f)) = Occurs(w.queue, Carries(f)) + (IF x \in Carries(f) THEN 1 ELSE 0)
  BY <1>1, OccursTail
<1>6. x \in Carries(f) <=> f = Key(x)
  BY <1>2 DEF Carries
<1> QED BY <1>4, <1>5, <1>6 DEF Due

\* An operation that reaches the engine is due.
LEMMA DueStart ==
  ASSUME NEW v \in Core, NEW w, NEW op \in Ops, w.queue = v.queue, w.ops = Append(v.ops, op)
  PROVE  \A f : Due(w, f) = Due(v, f) + (IF f = op THEN 1 ELSE 0)
<1>1. v.ops \in Seq(Ops) /\ v.queue \in Seq(Tasks)
  BY DEF Core
<1>2. SUFFICES ASSUME NEW f PROVE Due(w, f) = Due(v, f) + (IF f = op THEN 1 ELSE 0)
  OBVIOUS
<1>3. Occurs(v.ops, This(f)) \in Nat /\ Occurs(v.queue, Carries(f)) \in Nat
  BY <1>1, OccursType
<1>4. Occurs(w.ops, This(f)) = Occurs(v.ops, This(f)) + (IF op \in This(f) THEN 1 ELSE 0)
  BY <1>1, OccursAppend
<1>5. op \in This(f) <=> f = op
  BY DEF This
<1> QED BY <1>3, <1>4, <1>5 DEF Due

\* An operation that leaves the engine with its completion posted stays due.
LEMMA DueArrive ==
  ASSUME NEW v \in Core, NEW i \in 1 .. Len(v.ops), NEW w, NEW x \in Tasks,
         w.ops = RemoveAt(v.ops, i), w.queue = Append(v.queue, x), Key(x) = v.ops[i]
  PROVE  w.ops \in Seq(Ops) /\ \A f : Due(w, f) = Due(v, f)
<1>1. v.ops \in Seq(Ops) /\ v.queue \in Seq(Tasks)
  BY DEF Core
<1> DEFINE s == v.ops
           a == SubSeq(s, 1, i - 1)
           b == SubSeq(s, i + 1, Len(s))
           t == w.ops
<1>2. t = a \o b /\ Len(s) \in Nat /\ i \in Nat
  BY <1>1 DEF RemoveAt
<1>3. /\ a \in Seq(Ops) /\ Len(a) = i - 1
      /\ \A j \in 1 .. i - 1 : a[j] = s[j]
  BY <1>1, <1>2, SubSeqProperties
<1>4. /\ b \in Seq(Ops) /\ Len(b) = Len(s) - i
      /\ \A j \in 1 .. Len(s) - i : b[j] = s[i + j]
  BY <1>1, <1>2, SubSeqProperties
<1> HIDE DEF a, b
<1>5. /\ t \in Seq(Ops) /\ Len(t) = Len(s) - 1
      /\ \A j \in 1 .. Len(s) - 1 : t[j] = IF j <= i - 1 THEN a[j] ELSE b[j - (i - 1)]
  <2>1. /\ a \o b \in Seq(Ops) /\ Len(a \o b) = Len(a) + Len(b)
        /\ \A j \in 1 .. Len(a) + Len(b) : (a \o b)[j] = IF j <= Len(a) THEN a[j] ELSE b[j - Len(a)]
    BY <1>3, <1>4, ConcatProperties
  <2>2. Len(a) + Len(b) = Len(s) - 1
    BY <1>2, <1>3, <1>4
  <2> HIDE DEF s, t
  <2> QED BY <1>2, <1>3, <2>1, <2>2
<1>6. \A j \in 1 .. Len(t) : t[j] = IF j < i THEN s[j] ELSE s[j + 1]
  <2>1. SUFFICES ASSUME NEW j \in 1 .. Len(s) - 1 PROVE t[j] = IF j < i THEN s[j] ELSE s[j + 1]
    BY <1>5
  <2>2. CASE j < i
    BY <1>2, <1>3, <1>5, <2>2
  <2>3. CASE ~(j < i)
    <3>1. j - (i - 1) \in 1 .. Len(s) - i /\ i + (j - (i - 1)) = j + 1 /\ ~(j <= i - 1)
      BY <1>2, <2>3
    <3> QED BY <1>4, <1>5, <2>3, <3>1
  <2> QED BY <2>2, <2>3
<1>7. ASSUME NEW f PROVE Due(w, f) = Due(v, f)
  <2>1. Occurs(s, This(f)) = Occurs(t, This(f)) + (IF s[i] = f THEN 1 ELSE 0)
    <3>1. s \in Seq(Ops) /\ t \in Seq(Ops) /\ i \in 1 .. Len(s) /\ Len(t) = Len(s) - 1
      BY <1>1, <1>5
    <3>2. Without(s, i, t)
      <4> HIDE DEF s, t
      <4> QED BY <3>1, <1>6 DEF Without
    <3>3. s[i] \in This(f) <=> s[i] = f
      BY DEF This
    <3> HIDE DEF s, t
    <3> QED BY <3>1, <3>2, <3>3, OccursRemove
  <2>2. Occurs(w.queue, Carries(f)) = Occurs(v.queue, Carries(f)) + (IF x \in Carries(f) THEN 1 ELSE 0)
    BY <1>1, OccursAppend
  <2>3. x \in Carries(f) <=> s[i] = f
    BY DEF Carries
  <2>4. /\ Occurs(s, This(f)) \in Nat /\ Occurs(t, This(f)) \in Nat
        /\ Occurs(v.queue, Carries(f)) \in Nat /\ Occurs(w.queue, Carries(f)) \in Nat
    <3>1. w.queue \in Seq(Tasks)
      BY <1>1, AppendProperties
    <3>2. Occurs(s, This(f)) \in Nat /\ Occurs(t, This(f)) \in Nat
      BY <1>1, <1>5, OccursType
    <3>3. Occurs(v.queue, Carries(f)) \in Nat /\ Occurs(w.queue, Carries(f)) \in Nat
      BY <1>1, <3>1, OccursType
    <3> QED BY <3>2, <3>3
  <2> QED BY <2>1, <2>2, <2>3, <2>4 DEF Due
<1> QED BY <1>5, <1>7


\* A record of the core with some fields replaced is one again.
Fields == Flags \union {"eng", "queue", "ops", "obj"}
LEMMA CoreFields ==
  ASSUME NEW v \in Core, NEW w, DOMAIN w = Fields, w = [f \in Fields |-> w[f]],
         w.queue \in Seq(Tasks), w.ops \in Seq(Ops), w.obj \in [Objs -> Handles], w.eng \in BOOLEAN,
         \A f \in Flags : w[f] = v[f]
  PROVE  w \in Core
<1>1. /\ w.closed = v.closed /\ w.gone = v.gone /\ w.active = v.active /\ w.mu = v.mu
      /\ w.gen = v.gen /\ w.guard = v.guard /\ w.threads = v.threads /\ w.cb = v.cb
      /\ w.accepting = v.accepting /\ w.handle = v.handle /\ w.returned = v.returned
      /\ w.late = v.late /\ w.stale = v.stale
  BY DEF Flags
<1> QED BY <1>1 DEF Core, Fields, Flags

\* What complete does.
LEMMA CompletePosts ==
  ASSUME NEW v \in Core, NEW op \in Ops, NEW res \in Results, NEW w, w = complete(v, op, res)
  PROVE  /\ w \in Core
         /\ \E x \in Tasks : Key(x) = op /\ w.queue = Append(v.queue, x)
         /\ w.ops = v.ops /\ w.obj = v.obj /\ w.eng = v.eng
         /\ \A f \in Flags : w[f] = v[f]
<1> DEFINE x == [type |-> IF op.k = "accept" THEN "hop" ELSE "done", op |-> op, res |-> res]
<1>1. x \in Tasks /\ Key(x) = op
  BY DEF Tasks, Key, OpTypes
<1>2. DOMAIN v = Fields
  BY DEF Core, Fields, Flags
<1>3. w = [v EXCEPT !.queue = Append(@, x)]
  BY DEF complete, Post
<1>4. /\ w.ops = v.ops /\ w.queue = Append(v.queue, x) /\ w.obj = v.obj /\ w.eng = v.eng
      /\ DOMAIN w = Fields /\ w = [f \in Fields |-> w[f]]
  BY <1>2, <1>3 DEF Fields
<1>5. \A f \in Flags : w[f] = v[f]
  BY <1>2, <1>3 DEF Fields, Flags
<1>6. w.queue \in Seq(Tasks) /\ w.ops \in Seq(Ops) /\ w.obj \in [Objs -> Handles] /\ w.eng \in BOOLEAN
  <2>1. v.queue \in Seq(Tasks) /\ v.ops \in Seq(Ops) /\ v.obj \in [Objs -> Handles] /\ v.eng \in BOOLEAN
    BY DEF Core
  <2> HIDE DEF x
  <2> QED BY <1>1, <1>4, <2>1, AppendProperties
<1> HIDE DEF x
<1>7. w \in Core
  BY <1>4, <1>5, <1>6, CoreFields
<1> QED BY <1>1, <1>4, <1>5, <1>7

-----------------------------------------------------------------------------
(***************************************************************************)
(* abort, by induction on how many of the operations it has gone through.  *)
(***************************************************************************)
After(v, dead, u, n) ==
  IF v.ops[n] \in dead THEN complete(u, v.ops[n], "aborted")
  ELSE [u EXCEPT !.ops = Append(@, v.ops[n])]

\* u is v with the first n operations gone through.
Aborting(v, dead, u, n) ==
  /\ u \in Core
  /\ u.obj = v.obj /\ u.eng = v.eng /\ \A f \in Flags : u[f] = v[f]
  /\ \A f : Due(u, f) = Occurs(SubSeq(v.ops, 1, n), This(f)) + Occurs(v.queue, Carries(f))
  /\ u.ops # <<>> => \E i \in 1 .. n : v.ops[i] \notin dead

\* One more operation is aborted or kept.
LEMMA AbortStep ==
  ASSUME NEW v \in Core, NEW dead, NEW u, NEW n \in 0 .. Len(v.ops) - 1, Aborting(v, dead, u, n)
  PROVE  Aborting(v, dead, After(v, dead, u, n + 1), n + 1)
<1> DEFINE op == v.ops[n + 1]
           w == After(v, dead, u, n + 1)
           a == SubSeq(v.ops, 1, n)
           b == SubSeq(v.ops, 1, n + 1)
<1>1. v.ops \in Seq(Ops) /\ v.queue \in Seq(Tasks) /\ u.ops \in Seq(Ops) /\ u.queue \in Seq(Tasks) /\ u \in Core
  BY DEF Core, Aborting
<1>2. n \in Nat /\ n + 1 \in 1 .. Len(v.ops) /\ op \in Ops
  BY <1>1
<1>3. a \in Seq(Ops) /\ b = Append(a, op)
  <2>1. /\ a \in Seq(Ops) /\ Len(a) = n
        /\ \A i \in 1 .. n : a[i] = v.ops[i]
    BY <1>1, <1>2, SubSeqProperties
  <2>2. /\ b \in Seq(Ops) /\ Len(b) = n + 1
        /\ \A i \in 1 .. n + 1 : b[i] = v.ops[i]
    BY <1>1, <1>2, SubSeqProperties
  <2> HIDE DEF a, b, op
  <2>3. /\ Append(a, op) \in Seq(Ops) /\ Len(Append(a, op)) = n + 1
        /\ \A i \in 1 .. n : Append(a, op)[i] = a[i]
        /\ Append(a, op)[n + 1] = op
    BY <1>2, <2>1, AppendProperties
  <2>4. \A i \in 1 .. n + 1 : b[i] = Append(a, op)[i]
    BY <1>2, <2>1, <2>2, <2>3 DEF op
  <2> QED BY <2>1, <2>2, <2>3, <2>4, SeqEqual
<1>4. \A f : Occurs(b, This(f)) = Occurs(a, This(f)) + (IF f = op THEN 1 ELSE 0)
  <2>1. SUFFICES ASSUME NEW f PROVE Occurs(b, This(f)) = Occurs(a, This(f)) + (IF f = op THEN 1 ELSE 0)
    OBVIOUS
  <2>2. op \in This(f) <=> f = op
    BY DEF This
  <2> HIDE DEF a, b, op
  <2> QED BY <1>2, <1>3, <2>2, OccursAppend
<1>5. \A f : Occurs(a, This(f)) \in Nat /\ Occurs(v.queue, Carries(f)) \in Nat
  <2>1. SUFFICES ASSUME NEW f PROVE Occurs(a, This(f)) \in Nat /\ Occurs(v.queue, Carries(f)) \in Nat
    OBVIOUS
  <2> HIDE DEF a
  <2>2. Occurs(a, This(f)) \in Nat
    BY <1>3, OccursType
  <2>3. Occurs(v.queue, Carries(f)) \in Nat
    BY <1>1, OccursType
  <2> QED BY <2>2, <2>3
<1>6. ASSUME \A f : Due(w, f) = Due(u, f) + (IF f = op THEN 1 ELSE 0)
      PROVE  \A f : Due(w, f) = Occurs(b, This(f)) + Occurs(v.queue, Carries(f))
  <2>1. \A f : Due(u, f) = Occurs(a, This(f)) + Occurs(v.queue, Carries(f))
    BY DEF Aborting
  <2> HIDE DEF a, b, op, w
  <2>2. SUFFICES ASSUME NEW f PROVE Due(w, f) = Occurs(b, This(f)) + Occurs(v.queue, Carries(f))
    OBVIOUS
  <2> QED BY <1>4, <1>5, <1>6, <2>1
<1>7. CASE op \in dead
  <2>1. w = complete(u, op, "aborted")
    BY <1>7 DEF After
  <2>2. /\ w \in Core /\ w.ops = u.ops /\ w.obj = u.obj /\ w.eng = u.eng
        /\ \A f \in Flags : w[f] = u[f]
        /\ \E x \in Tasks : Key(x) = op /\ w.queue = Append(u.queue, x)
    <3> DEFINE res == "aborted"
    <3>1. res \in Results /\ w = complete(u, op, res)
      BY <2>1 DEF Results
    <3> HIDE DEF w, op, res
    <3>2. op \in Ops /\ u \in Core
      BY <1>1, <1>2
    <3>3. w \in Core
      BY <3>2, <3>1, CompletePosts
    <3> QED BY <3>2, <3>1, CompletePosts
  <2>3. \A f : Due(w, f) = Due(u, f) + (IF f = op THEN 1 ELSE 0)
    <3>1. PICK x \in Tasks : Key(x) = op /\ w.queue = Append(u.queue, x)
      BY <2>2
    <3> HIDE DEF w, op
    <3>2. \A f : Due(w, f) = Due(u, f) + (IF f = Key(x) THEN 1 ELSE 0)
      BY <1>1, <2>2, <3>1, DuePost
    <3> QED BY <3>1, <3>2
  <2>4. w.ops # <<>> => \E i \in 1 .. n + 1 : v.ops[i] \notin dead
    <3>1. u.ops # <<>> => \E i \in 1 .. n : v.ops[i] \notin dead
      BY DEF Aborting
    <3>2. \A i \in 1 .. n : i \in 1 .. n + 1
      BY <1>2
    <3> QED BY <2>2, <3>1, <3>2
  <2>5. w.obj = v.obj /\ w.eng = v.eng /\ \A f \in Flags : w[f] = v[f]
    BY <2>2 DEF Aborting
  <2> HIDE DEF w, b, op
  <2> QED BY <1>6, <2>2, <2>3, <2>4, <2>5 DEF Aborting, b, w
<1>8. CASE op \notin dead
  <2>1. w = [u EXCEPT !.ops = Append(@, op)]
    BY <1>8 DEF After
  <2>2. DOMAIN u = Fields
    BY <1>1 DEF Core, Fields, Flags
  <2>3. /\ w.queue = u.queue /\ w.ops = Append(u.ops, op) /\ w.obj = u.obj /\ w.eng = u.eng
        /\ DOMAIN w = Fields /\ w = [f \in Fields |-> w[f]]
    BY <2>1, <2>2 DEF Fields
  <2>4. \A f \in Flags : w[f] = u[f]
    BY <2>1, <2>2 DEF Fields, Flags
  <2> HIDE DEF w, op
  <2>5. w \in Core
    <3>1. w.queue \in Seq(Tasks) /\ w.ops \in Seq(Ops)
      BY <1>1, <1>2, <2>3, AppendProperties
    <3>2. w.obj \in [Objs -> Handles] /\ w.eng \in BOOLEAN
      BY <1>1, <2>3 DEF Core
    <3> QED BY <1>1, <2>3, <2>4, <3>1, <3>2, CoreFields
  <2>6. \A f : Due(w, f) = Due(u, f) + (IF f = op THEN 1 ELSE 0)
    BY <1>1, <1>2, <2>3, DueStart
  <2>7. n + 1 \in 1 .. n + 1 /\ v.ops[n + 1] \notin dead
    BY <1>2, <1>8 DEF op
  <2>8. w.obj = v.obj /\ w.eng = v.eng /\ \A f \in Flags : w[f] = v[f]
    BY <2>3, <2>4 DEF Aborting
  <2> HIDE DEF b
  <2> QED BY <1>6, <2>5, <2>6, <2>7, <2>8 DEF Aborting, b, w
<1> QED BY <1>7, <1>8

\* The recursive function of abort exists: it is built up one operation at a
\* time, each step being defined whatever the one before it is.
LEMMA AbortDefined ==
  ASSUME NEW v \in Core, NEW dead
  PROVE  \E g : /\ g = [n \in 0 .. Len(v.ops) |->
                          IF n = 0 THEN [v EXCEPT !.ops = <<>>] ELSE After(v, dead, g[n - 1], n)]
                /\ abort(v, dead) = g[Len(v.ops)]
<1> DEFINE B == [v EXCEPT !.ops = <<>>]
           L == Len(v.ops)
           Is(f, m) == f = [n \in 0 .. m |-> IF n = 0 THEN B ELSE After(v, dead, f[n - 1], n)]
           S == {m \in Nat : \E f : Is(f, m)}
<1>1. L \in Nat
  BY DEF Core
<1>2. 0 \in S
  <2> DEFINE f == [n \in 0 .. 0 |-> B]
  <2>1. Is(f, 0)
    OBVIOUS
  <2> QED BY <2>1
<1>3. ASSUME NEW m \in Nat, m \in S PROVE m + 1 \in S
  <2>1. PICK f : Is(f, m)
    BY <1>3
  <2> DEFINE g == [n \in 0 .. m + 1 |-> IF n = m + 1 THEN After(v, dead, f[m], m + 1) ELSE f[n]]
  <2>2. \A n \in 0 .. m : g[n] = f[n]
    BY <1>3
  <2>3. \A n \in 0 .. m + 1 : g[n] = IF n = 0 THEN B ELSE After(v, dead, g[n - 1], n)
    <3>1. SUFFICES ASSUME NEW n \in 0 .. m + 1
                   PROVE  g[n] = IF n = 0 THEN B ELSE After(v, dead, g[n - 1], n)
      OBVIOUS
    <3>2. CASE n = m + 1
      <4>1. g[n] = After(v, dead, f[m], m + 1) /\ n - 1 = m /\ n # 0
        BY <3>2
      <4>2. g[m] = f[m]
        BY <2>2
      <4> HIDE DEF g, B
      <4> QED BY <3>2, <4>1, <4>2
    <3>3. CASE n \in 0 .. m
      <4>1. f[n] = IF n = 0 THEN B ELSE After(v, dead, f[n - 1], n)
        BY <2>1, <3>3
      <4>2. n = 0 \/ n - 1 \in 0 .. m
        BY <3>3
      <4>3. g[n] = f[n] /\ (n # 0 => g[n - 1] = f[n - 1])
        BY <2>2, <3>3, <4>2
      <4> HIDE DEF g, B
      <4> QED BY <4>1, <4>3
    <3> QED BY <3>2, <3>3
  <2>4. Is(g, m + 1)
    <3>1. g = [n \in 0 .. m + 1 |-> g[n]]
      OBVIOUS
    <3> HIDE DEF g, B
    <3> QED BY <2>3, <3>1
  <2> HIDE DEF Is
  <2> QED BY <2>4
<1>4. PICK f : Is(f, L)
  <2> HIDE DEF Is
  <2>1. Nat \subseteq S
    <3> HIDE DEF S
    <3> QED BY <1>2, <1>3, NatBySet
  <2> QED BY <1>1, <2>1
<1> DEFINE h == CHOOSE g : Is(g, L)
<1>5. Is(h, L)
  BY <1>4
<1>6. abort(v, dead) = h[L]
  BY DEF abort, After
<1> HIDE DEF h
<1> QED BY <1>5, <1>6

\* Nothing that was due is lost or doubled; only ops and queue change.
LEMMA AbortPasses ==
  ASSUME NEW v \in Core, NEW dead, NEW w, w = abort(v, dead)
  PROVE  /\ w \in Core
         /\ w.obj = v.obj /\ w.eng = v.eng /\ \A f \in Flags : w[f] = v[f]
         /\ \A f : Due(w, f) = Due(v, f)
         /\ w.ops # <<>> => \E i \in 1 .. Len(v.ops) : v.ops[i] \notin dead
<1> DEFINE L == Len(v.ops)
<1>1. PICK g : /\ g = [n \in 0 .. L |->
                         IF n = 0 THEN [v EXCEPT !.ops = <<>>] ELSE After(v, dead, g[n - 1], n)]
               /\ w = g[L]
  BY AbortDefined
<1>2. v.ops \in Seq(Ops) /\ v.queue \in Seq(Tasks) /\ L \in Nat
  BY DEF Core
<1>3. g[0] = [v EXCEPT !.ops = <<>>]
  BY <1>1, <1>2
<1>4. \A n \in 0 .. L - 1 : g[n + 1] = After(v, dead, g[n], n + 1)
  <2>1. SUFFICES ASSUME NEW n \in 0 .. L - 1 PROVE g[n + 1] = After(v, dead, g[n], n + 1)
    OBVIOUS
  <2>2. n + 1 \in 0 .. L /\ n + 1 # 0 /\ (n + 1) - 1 = n
    BY <1>2
  <2> QED BY <1>1, <2>2
<1> DEFINE u == g[0]
<1>5. Aborting(v, dead, u, 0)
  <2>1. DOMAIN v = Fields
    BY DEF Core, Fields, Flags
  <2>2. /\ u.queue = v.queue /\ u.ops = <<>> /\ u.obj = v.obj /\ u.eng = v.eng
        /\ DOMAIN u = Fields /\ u = [f \in Fields |-> u[f]]
    BY <1>3, <2>1 DEF Fields
  <2>3. \A f \in Flags : u[f] = v[f]
    BY <1>3, <2>1 DEF Fields, Flags
  <2> HIDE DEF u
  <2>4. u \in Core
    <3>1. u.queue \in Seq(Tasks) /\ u.ops \in Seq(Ops)
      BY <1>2, <2>2
    <3>2. u.obj \in [Objs -> Handles] /\ u.eng \in BOOLEAN
      BY <2>2 DEF Core
    <3> QED BY <2>2, <2>3, <3>1, <3>2, CoreFields
  <2>5. \A f : Due(u, f) = Occurs(SubSeq(v.ops, 1, 0), This(f)) + Occurs(v.queue, Carries(f))
    <3>1. SubSeq(v.ops, 1, 0) = <<>>
      BY SubSeqEmpty
    <3> QED BY <2>2, <3>1 DEF Due
  <2> QED BY <2>2, <2>3, <2>4, <2>5 DEF Aborting
<1> DEFINE S == {n \in Nat : n \in 0 .. L => Aborting(v, dead, g[n], n)}
<1>6. 0 \in S
  BY <1>5
<1>7. ASSUME NEW n \in Nat, n \in S PROVE n + 1 \in S
  <2>1. SUFFICES ASSUME n + 1 \in 0 .. L PROVE Aborting(v, dead, g[n + 1], n + 1)
    BY <1>7
  <2>2. n \in 0 .. L /\ n \in 0 .. L - 1
    BY <1>2, <2>1
  <2>3. Aborting(v, dead, g[n], n)
    BY <1>7, <2>2
  <2>4. Aborting(v, dead, After(v, dead, g[n], n + 1), n + 1)
    BY <2>2, <2>3, AbortStep
  <2> QED BY <1>4, <2>2, <2>4
<1>8. Aborting(v, dead, w, L)
  <2>1. Nat \subseteq S
    <3> HIDE DEF S
    <3> QED BY <1>6, <1>7, NatBySet
  <2>2. L \in S /\ L \in 0 .. L
    BY <1>2, <2>1
  <2> QED BY <1>1, <2>2
<1>9. \A f : Due(w, f) = Due(v, f)
  <2>1. SubSeq(v.ops, 1, L) = v.ops
    BY <1>2, SubSeqFull
  <2> QED BY <1>8, <2>1 DEF Aborting, Due
<1> QED BY <1>8, <1>9 DEF Aborting


\* A close of the engine aborts everything and completes it.
LEMMA ClosePasses ==
  ASSUME NEW v \in Core, NEW w, w = engine_close(v)
  PROVE  Passes(v, w) /\ w.ops = <<>> /\ ~w.eng
<1> DEFINE u == abort(v, ToSet(v.ops))
           obj == [o \in Objs |-> IF u.obj[o].st = "open" THEN [u.obj[o] EXCEPT !.st = "closed"] ELSE u.obj[o]]
<1>1. /\ u \in Core /\ u.obj = v.obj /\ u.eng = v.eng
      /\ \A f \in Flags : u[f] = v[f]
      /\ \A f : Due(u, f) = Due(v, f)
      /\ u.ops # <<>> => \E i \in 1 .. Len(v.ops) : v.ops[i] \notin ToSet(v.ops)
  <2> DEFINE dead == ToSet(v.ops)
  <2> HIDE DEF dead
  <2>1. /\ u \in Core /\ u.obj = v.obj /\ u.eng = v.eng
        /\ \A f \in Flags : u[f] = v[f]
        /\ \A f : Due(u, f) = Due(v, f)
        /\ u.ops # <<>> => \E i \in 1 .. Len(v.ops) : v.ops[i] \notin dead
    BY AbortPasses DEF dead
  <2> QED BY <2>1 DEF dead
<1>2. u.ops = <<>>
  <2>1. \A i \in 1 .. Len(v.ops) : v.ops[i] \in ToSet(v.ops)
    BY DEF Core, ToSet
  <2> QED BY <1>1, <2>1
<1> HIDE DEF u
<1>3. w = [u EXCEPT !.eng = FALSE, !.obj = obj]
  BY DEF engine_close, u
<1>4. DOMAIN u = Fields /\ u.queue \in Seq(Tasks) /\ u.obj \in [Objs -> Handles]
  BY <1>1 DEF Core, Fields, Flags
<1>5. /\ obj \in [Objs -> Handles]
      /\ \A o \in Objs : obj[o] = [u.obj[o] EXCEPT !.st = obj[o].st] /\ obj[o].st # "open"
  <2>1. ASSUME NEW o \in Objs
        PROVE  /\ obj[o] \in Handles
               /\ obj[o] = [u.obj[o] EXCEPT !.st = obj[o].st] /\ obj[o].st # "open"
    <3>1. u.obj[o] \in Handles
      BY <1>4
    <3>2. obj[o] = IF u.obj[o].st = "open" THEN [u.obj[o] EXCEPT !.st = "closed"] ELSE u.obj[o]
      OBVIOUS
    <3> HIDE DEF obj
    <3>3. CASE u.obj[o].st = "open"
      BY <3>1, <3>2, <3>3 DEF Handles
    <3>4. CASE u.obj[o].st # "open"
      BY <3>1, <3>2, <3>4 DEF Handles
    <3> QED BY <3>3, <3>4
  <2>2. obj = [o \in Objs |-> obj[o]]
    OBVIOUS
  <2> HIDE DEF obj
  <2> QED BY <2>1, <2>2
<1> HIDE DEF obj
<1>6. /\ w.ops = u.ops /\ w.queue = u.queue /\ w.obj = obj /\ w.eng = FALSE
      /\ DOMAIN w = Fields /\ w = [f \in Fields |-> w[f]]
  BY <1>3, <1>4 DEF Fields
<1>7. \A f \in Flags : w[f] = v[f]
  <2>1. \A f \in Flags : w[f] = u[f]
    BY <1>3, <1>4 DEF Fields, Flags
  <2> QED BY <1>1, <2>1
<1>8. Holds(w)
  BY <1>2, <1>5, <1>6 DEF Holds
<1>9. w.queue \in Seq(Tasks) /\ w.ops \in Seq(Ops) /\ w.eng \in BOOLEAN /\ w.obj \in [Objs -> Handles]
  <2>1. w.ops \in Seq(Ops)
    BY <1>2, <1>6
  <2> QED BY <1>4, <1>5, <1>6, <2>1
<1>10. \A o \in Objs : w.obj[o] = [v.obj[o] EXCEPT !.st = w.obj[o].st]
  BY <1>1, <1>5, <1>6
<1>11. Moves(v, w)
  <2>1. w \in Core
    BY <1>6, <1>7, <1>9, CoreFields
  <2> QED BY <1>7, <1>8, <1>10, <2>1 DEF Moves
<1>12. \A f : Due(w, f) = Due(v, f)
  BY <1>1, <1>6 DEF Due
<1> QED BY <1>2, <1>6, <1>11, <1>12 DEF Passes

\* So does the cancelling of accepts, for those it cancels.
LEMMA CancelPasses ==
  ASSUME NEW v \in Core, NEW dead, NEW w, w = abort(v, dead)
  PROVE  Passes(v, w)
<1>1. /\ w \in Core /\ w.obj = v.obj /\ w.eng = v.eng
      /\ \A f \in Flags : w[f] = v[f]
      /\ \A f : Due(w, f) = Due(v, f)
      /\ w.ops # <<>> => \E i \in 1 .. Len(v.ops) : v.ops[i] \notin dead
  BY AbortPasses
<1>2. w.ops # <<>> => v.ops # <<>>
  BY <1>1
<1>3. \A o \in Objs : w.obj[o] = [v.obj[o] EXCEPT !.st = w.obj[o].st]
  <2>1. \A o \in Objs : v.obj[o] \in Handles
    BY DEF Core
  <2> QED BY <1>1, <2>1 DEF Handles
<1>4. w.gen = v.gen
  BY <1>1 DEF Flags
<1>5. Holds(v) => Holds(w)
  BY <1>1, <1>2, <1>4 DEF Holds
<1> QED BY <1>1, <1>3, <1>5 DEF Passes, Moves

\* ... and the close of a socket.
LEMMA SocketPasses ==
  ASSUME NEW v \in Core, NEW o \in Objs, NEW w, w = socket_close(v, o)
  PROVE  Passes(v, w)
<1>1. CASE v.obj[o].st # "open"
  <2>1. w = v
    BY <1>1 DEF socket_close
  <2>2. \A p \in Objs : v.obj[p] \in Handles
    BY DEF Core
  <2>3. \A p \in Objs : v.obj[p] = [v.obj[p] EXCEPT !.st = v.obj[p].st]
    BY <2>2 DEF Handles
  <2> QED BY <2>1, <2>3 DEF Passes, Moves
<1>2. CASE v.obj[o].st = "open"
  <2> DEFINE dead == {op \in ToSet(v.ops) : op.o = o /\ op.k # "accept"}
             u == abort(v, dead)
  <2>1. Passes(v, u)
    BY CancelPasses
  <2> HIDE DEF dead, u
  <2>2. w = [u EXCEPT !.obj[o].st = "closed"]
    BY <1>2 DEF socket_close, u, dead
  <2>3. u \in Core /\ DOMAIN u = Fields /\ u.obj \in [Objs -> Handles]
    BY <2>1 DEF Passes, Moves, Core, Fields, Flags
  <2>4. /\ w.ops = u.ops /\ w.queue = u.queue /\ w.eng = u.eng
        /\ w.obj = [u.obj EXCEPT ![o].st = "closed"]
        /\ DOMAIN w = Fields /\ w = [f \in Fields |-> w[f]]
    BY <2>2, <2>3 DEF Fields
  <2>5. \A f \in Flags : w[f] = u[f]
    BY <2>2, <2>3 DEF Fields, Flags
  <2>6. /\ w.obj \in [Objs -> Handles]
        /\ \A p \in Objs : w.obj[p] = [u.obj[p] EXCEPT !.st = w.obj[p].st]
        /\ \A p \in Objs : w.obj[p].st = "open" => u.obj[p].st = "open"
    <3>1. \A p \in Objs : w.obj[p] = IF p = o THEN [u.obj[o] EXCEPT !.st = "closed"] ELSE u.obj[p]
      BY <2>3, <2>4
    <3>2. \A p \in Objs : u.obj[p] \in Handles
      BY <2>3
    <3>3. w.obj = [p \in Objs |-> w.obj[p]]
      BY <2>3, <2>4
    <3>4. ASSUME NEW p \in Objs
          PROVE  /\ w.obj[p] \in Handles
                 /\ w.obj[p] = [u.obj[p] EXCEPT !.st = w.obj[p].st]
                 /\ w.obj[p].st = "open" => u.obj[p].st = "open"
      <4>1. u.obj[p] \in Handles
        BY <3>2
      <4>2. CASE p = o
        <5>1. w.obj[p] = [u.obj[p] EXCEPT !.st = "closed"]
          BY <3>1, <4>2
        <5> QED BY <4>1, <5>1 DEF Handles
      <4>3. CASE p # o
        <5>1. w.obj[p] = u.obj[p]
          BY <3>1, <4>3
        <5> QED BY <4>1, <5>1 DEF Handles
      <4> QED BY <4>2, <4>3
    <3> QED BY <3>3, <3>4
  <2>7. \A p \in Objs : w.obj[p] = [v.obj[p] EXCEPT !.st = w.obj[p].st]
    <3>1. SUFFICES ASSUME NEW p \in Objs PROVE w.obj[p] = [v.obj[p] EXCEPT !.st = w.obj[p].st]
      OBVIOUS
    <3>2. u.obj[p] = [v.obj[p] EXCEPT !.st = u.obj[p].st] /\ v.obj[p] \in Handles
      BY <2>1 DEF Passes, Moves, Core
    <3>3. w.obj[p] = [u.obj[p] EXCEPT !.st = w.obj[p].st]
      BY <2>6
    <3> QED BY <3>2, <3>3 DEF Handles
  <2>8. Holds(v) => Holds(w)
    <3>1. Holds(v) => Holds(u)
      BY <2>1 DEF Passes, Moves
    <3>2. w.gen = u.gen
      BY <2>5 DEF Flags
    <3> QED BY <2>4, <2>6, <3>1, <3>2 DEF Holds
  <2>9. w.queue \in Seq(Tasks) /\ w.ops \in Seq(Ops) /\ w.eng \in BOOLEAN
    BY <2>3, <2>4 DEF Core
  <2>10. \A f \in Flags : w[f] = v[f]
    BY <2>1, <2>5 DEF Passes, Moves
  <2>11. Moves(v, w)
    <3>1. /\ DOMAIN w = Fields /\ w = [f \in Fields |-> w[f]]
          /\ w.obj \in [Objs -> Handles]
      BY <2>4, <2>6
    <3>2. w \in Core
      BY <2>9, <2>10, <3>1, CoreFields
    <3> QED BY <2>7, <2>8, <2>10, <3>2 DEF Moves
  <2>12. \A f : Due(w, f) = Due(v, f)
    BY <2>1, <2>4 DEF Passes, Due
  <2> QED BY <2>11, <2>12 DEF Passes
<1> QED BY <1>1, <1>2


\* A task that is posted is due once more.
LEMMA PostAdds ==
  ASSUME NEW v \in Core, NEW x \in Tasks, NEW w, w = Post(v, x)
  PROVE  Adds(v, w, Key(x))
<1>1. DOMAIN v = Fields
  BY DEF Core, Fields, Flags
<1>2. /\ w.ops = v.ops /\ w.queue = Append(v.queue, x) /\ w.obj = v.obj /\ w.eng = v.eng
      /\ DOMAIN w = Fields /\ w = [f \in Fields |-> w[f]]
  BY <1>1 DEF Post, Fields
<1>3. \A f \in Flags : w[f] = v[f]
  BY <1>1 DEF Post, Fields, Flags
<1>4. /\ v.queue \in Seq(Tasks) /\ v.ops \in Seq(Ops) /\ v.obj \in [Objs -> Handles] /\ v.eng \in BOOLEAN
  BY DEF Core
<1>5. w \in Core
  <2>1. w.queue \in Seq(Tasks)
    BY <1>2, <1>4, AppendProperties
  <2> QED BY <1>2, <1>3, <1>4, <2>1, CoreFields
<1>6. \A o \in Objs : w.obj[o] = [v.obj[o] EXCEPT !.st = w.obj[o].st]
  <2>1. \A o \in Objs : v.obj[o] \in Handles
    BY <1>4
  <2> QED BY <1>2, <2>1 DEF Handles
<1>7. Holds(v) => Holds(w)
  <2>1. w.gen = v.gen
    BY <1>3 DEF Flags
  <2> QED BY <1>2, <2>1 DEF Holds
<1>8. \A f : Due(w, f) = Due(v, f) + (IF f = Key(x) THEN 1 ELSE 0)
  <2>1. v \in Core /\ x \in Tasks /\ w.ops = v.ops /\ w.queue = Append(v.queue, x)
    BY <1>2
  <2> HIDE DEF Core, Tasks
  <2> QED BY ONLY <2>1, DuePost
<1> QED BY <1>3, <1>5, <1>6, <1>7, <1>8 DEF Adds, Moves

\* The task that runs is taken from the queue.
LEMMA PopTakes ==
  ASSUME NEW v \in Core, v.queue # <<>>, NEW w, w = [v EXCEPT !.queue = Tail(@)]
  PROVE  /\ Head(v.queue) \in Tasks /\ Moves(v, w)
         /\ \A f : Due(v, f) = Due(w, f) + (IF f = Key(Head(v.queue)) THEN 1 ELSE 0)
<1>1. DOMAIN v = Fields
  BY DEF Core, Fields, Flags
<1>2. /\ w.ops = v.ops /\ w.queue = Tail(v.queue) /\ w.obj = v.obj /\ w.eng = v.eng
      /\ DOMAIN w = Fields /\ w = [f \in Fields |-> w[f]]
  BY <1>1 DEF Fields
<1>3. \A f \in Flags : w[f] = v[f]
  BY <1>1 DEF Fields, Flags
<1>4. /\ v.queue \in Seq(Tasks) /\ v.ops \in Seq(Ops) /\ v.obj \in [Objs -> Handles] /\ v.eng \in BOOLEAN
  BY DEF Core
<1>5. /\ Head(v.queue) \in Tasks /\ w.queue \in Seq(Tasks)
      /\ \A f : Due(v, f) = Due(w, f) + (IF f = Key(Head(v.queue)) THEN 1 ELSE 0)
  <2>1. v \in Core /\ v.queue # <<>> /\ w.ops = v.ops /\ w.queue = Tail(v.queue)
    BY <1>2
  <2> QED BY ONLY <2>1, DuePop
<1>6. w \in Core
  <2>1. w.queue \in Seq(Tasks) /\ w.ops \in Seq(Ops) /\ w.obj \in [Objs -> Handles] /\ w.eng \in BOOLEAN
    BY <1>2, <1>4, <1>5
  <2>2. DOMAIN w = Fields /\ w = [f \in Fields |-> w[f]]
    BY <1>2
  <2> QED BY <1>3, <2>1, <2>2, CoreFields
<1>7. \A o \in Objs : w.obj[o] = [v.obj[o] EXCEPT !.st = w.obj[o].st]
  <2>1. \A o \in Objs : v.obj[o] \in Handles
    BY <1>4
  <2> QED BY <1>2, <2>1 DEF Handles
<1>8. Holds(v) => Holds(w)
  <2>1. w.gen = v.gen
    BY <1>3 DEF Flags
  <2> QED BY <1>2, <2>1 DEF Holds
<1> QED BY <1>3, <1>5, <1>6, <1>7, <1>8 DEF Moves

\* An operation that is started is due, in the engine or as a completion.
LEMMA StartAdds ==
  ASSUME NEW v \in Core, Holds(v), NEW op \in Ops, NEW gen, NEW w, w = engine_start(v, op, gen)
  PROVE  Adds(v, w, op)
<1> DEFINE can == IF op.k = "accept" THEN v.eng /\ gen = v.gen ELSE v.obj[op.o].st = "open"
<1>1. /\ v.queue \in Seq(Tasks) /\ v.ops \in Seq(Ops) /\ v.obj \in [Objs -> Handles] /\ v.eng \in BOOLEAN
      /\ DOMAIN v = Fields /\ op.o \in Objs
  BY DEF Core, Fields, Flags, Ops
<1>2. \A o \in Objs : v.obj[o] = [v.obj[o] EXCEPT !.st = v.obj[o].st]
  <2>1. \A o \in Objs : v.obj[o] \in Handles
    BY <1>1
  <2> QED BY <2>1 DEF Handles
<1>3. CASE can
  <2>1. w = [v EXCEPT !.ops = Append(@, op)]
    BY <1>3 DEF engine_start
  <2>2. /\ w.ops = Append(v.ops, op) /\ w.queue = v.queue /\ w.obj = v.obj /\ w.eng = v.eng
        /\ DOMAIN w = Fields /\ w = [f \in Fields |-> w[f]]
    BY <1>1, <2>1 DEF Fields
  <2>3. \A f \in Flags : w[f] = v[f]
    BY <1>1, <2>1 DEF Fields, Flags
  <2>4. w \in Core
    <3>1. w.ops \in Seq(Ops)
      BY <1>1, <2>2, AppendProperties
    <3>2. w.queue \in Seq(Tasks) /\ w.obj \in [Objs -> Handles] /\ w.eng \in BOOLEAN
      BY <1>1, <2>2
    <3>3. DOMAIN w = Fields /\ w = [f \in Fields |-> w[f]]
      BY <2>2
    <3> QED BY <2>3, <3>1, <3>2, <3>3, CoreFields
  <2>5. v.eng
    BY <1>1, <1>3 DEF Holds
  <2>6. Holds(w)
    <3>1. w.gen = v.gen
      BY <2>3 DEF Flags
    <3> QED BY <2>2, <2>5, <3>1 DEF Holds
  <2>7. \A f : Due(w, f) = Due(v, f) + (IF f = op THEN 1 ELSE 0)
    <3>1. w.queue = v.queue /\ w.ops = Append(v.ops, op)
      BY <2>2
    <3> QED BY <3>1, DueStart
  <2> QED BY <1>2, <2>2, <2>3, <2>4, <2>6, <2>7 DEF Adds, Moves
<1>4. CASE ~can
  <2> DEFINE res == "closed"
  <2>1. w = complete(v, op, res) /\ res \in Results
    BY <1>4 DEF engine_start, Results
  <2> HIDE DEF res
  <2>2. /\ w \in Core
        /\ \E x \in Tasks : Key(x) = op /\ w.queue = Append(v.queue, x)
        /\ w.ops = v.ops /\ w.obj = v.obj /\ w.eng = v.eng
        /\ \A f \in Flags : w[f] = v[f]
    BY <2>1, CompletePosts
  <2>3. PICK x \in Tasks : Key(x) = op /\ w.queue = Append(v.queue, x)
    BY <2>2
  <2>4. \A f : Due(w, f) = Due(v, f) + (IF f = Key(x) THEN 1 ELSE 0)
    BY <2>2, <2>3, DuePost
  <2>5. \A f : Due(w, f) = Due(v, f) + (IF f = op THEN 1 ELSE 0)
    BY <2>3, <2>4
  <2>6. Holds(w)
    <3>1. w.gen = v.gen
      BY <2>2 DEF Flags
    <3> QED BY <2>2, <3>1 DEF Holds
  <2> QED BY <1>2, <2>2, <2>5, <2>6 DEF Adds, Moves
<1> QED BY <1>3, <1>4


-----------------------------------------------------------------------------
(***************************************************************************)
(* What a change of the core leaves of the invariant.                      *)
(***************************************************************************)
Keys == Ops \union {Arm(o) : o \in Objs} \union Awaited

\* Operations, arms and awaited tasks are different things to be due.
LEMMA KeysDiffer ==
  /\ \A o, k, by, p : Op(o, k, by) # Arm(p)
  /\ \A o, k, by, type, t : Op(o, k, by) # Await(type, t)
  /\ \A p, type, t : Arm(p) # Await(type, t)
  /\ \A o, k, by, p, j, u : Op(o, k, by) = Op(p, j, u) => o = p /\ k = j /\ by = u
  /\ \A o, p : Arm(o) = Arm(p) => o = p
  /\ \A type, t, kind, u : Await(type, t) = Await(kind, u) => type = kind /\ t = u
<1>1. ASSUME NEW o, NEW k, NEW by, NEW p PROVE Op(o, k, by) # Arm(p)
  <2>1. "type" \in DOMAIN Arm(p) /\ "type" \notin DOMAIN Op(o, k, by)
    BY DEF Op, Arm
  <2> QED BY <2>1
<1>2. ASSUME NEW o, NEW k, NEW by, NEW type, NEW t PROVE Op(o, k, by) # Await(type, t)
  <2>1. "type" \in DOMAIN Await(type, t) /\ "type" \notin DOMAIN Op(o, k, by)
    BY DEF Op, Await
  <2> QED BY <2>1
<1>3. ASSUME NEW p, NEW type, NEW t PROVE Arm(p) # Await(type, t)
  <2>1. "by" \in DOMAIN Await(type, t) /\ "by" \notin DOMAIN Arm(p)
    BY DEF Arm, Await
  <2> QED BY <2>1
<1>4. ASSUME NEW o, NEW k, NEW by, NEW p, NEW j, NEW u, Op(o, k, by) = Op(p, j, u)
      PROVE  o = p /\ k = j /\ by = u
  <2>1. Op(o, k, by).o = Op(p, j, u).o /\ Op(o, k, by).k = Op(p, j, u).k /\ Op(o, k, by).by = Op(p, j, u).by
    BY <1>4
  <2> QED BY <2>1 DEF Op
<1>5. ASSUME NEW o, NEW p, Arm(o) = Arm(p) PROVE o = p
  <2>1. Arm(o).o = Arm(p).o
    BY <1>5
  <2> QED BY <2>1 DEF Arm
<1>6. ASSUME NEW type, NEW t, NEW kind, NEW u, Await(type, t) = Await(kind, u) PROVE type = kind /\ t = u
  <2>1. Await(type, t).type = Await(kind, u).type /\ Await(type, t).by = Await(kind, u).by
    BY <1>6
  <2> QED BY <2>1 DEF Await
<1> QED BY <1>1, <1>2, <1>3, <1>4, <1>5, <1>6

\* The keys the invariant speaks of.
LEMMA KeysTyped ==
  /\ \A o \in Objs, k \in Kinds, by \in Workers \union {none} : Op(o, k, by) \in Ops /\ Op(o, k, by) \in Keys
  /\ \A o \in Objs : Arm(o) \in Tasks /\ Arm(o) \in Keys /\ Key(Arm(o)) = Arm(o)
  /\ \A t \in Threads, type \in {"fn", "cleanup", "close"} :
       Await(type, t) \in Tasks /\ Await(type, t) \in Keys /\ Key(Await(type, t)) = Await(type, t)
<1>1. \A o \in Objs, k \in Kinds, by \in Workers \union {none} : Op(o, k, by) \in Ops /\ Op(o, k, by) \in Keys
  BY DEF Op, Ops, Keys
<1>2. ASSUME NEW o \in Objs PROVE Arm(o) \in Tasks /\ Arm(o) \in Keys /\ Key(Arm(o)) = Arm(o)
  BY DEF Arm, Tasks, Keys, Key, OpTypes
<1>3. ASSUME NEW t \in Threads, NEW type \in {"fn", "cleanup", "close"}
      PROVE  Await(type, t) \in Tasks /\ Await(type, t) \in Keys /\ Key(Await(type, t)) = Await(type, t)
  BY DEF Await, Awaited, Tasks, Keys, Key, OpTypes
<1> QED BY <1>1, <1>2, <1>3

\* What an engine that moves on does not touch.
LEMMA MovesKeeps ==
  ASSUME NEW v, NEW w, Moves(v, w)
  PROVE  /\ w \in Core /\ (Holds(v) => Holds(w))
         /\ w.closed = v.closed /\ w.gone = v.gone /\ w.active = v.active /\ w.mu = v.mu
         /\ w.gen = v.gen /\ w.guard = v.guard /\ w.threads = v.threads /\ w.cb = v.cb
         /\ w.accepting = v.accepting /\ w.handle = v.handle /\ w.returned = v.returned
         /\ w.late = v.late /\ w.stale = v.stale
         /\ \A o \in Objs : /\ w.obj[o].held = v.obj[o].held /\ w.obj[o].aio = v.obj[o].aio
                            /\ w.obj[o].pend = v.obj[o].pend
<1>1. \A o \in Objs : w.obj[o] \in Handles
  BY DEF Moves, Core
<1>2. ASSUME NEW o \in Objs
      PROVE  /\ w.obj[o].held = v.obj[o].held /\ w.obj[o].aio = v.obj[o].aio
             /\ w.obj[o].pend = v.obj[o].pend
  <2>1. w.obj[o] = [v.obj[o] EXCEPT !.st = w.obj[o].st] /\ w.obj[o] \in Handles
    BY <1>1 DEF Moves
  <2>2. DOMAIN w.obj[o] = DOMAIN v.obj[o] /\ DOMAIN w.obj[o] = {"st", "held", "aio", "pend"}
    BY <2>1 DEF Handles
  <2> QED BY <2>1, <2>2
<1>3. /\ w.closed = v.closed /\ w.gone = v.gone /\ w.active = v.active /\ w.mu = v.mu
      /\ w.gen = v.gen /\ w.guard = v.guard /\ w.threads = v.threads /\ w.cb = v.cb
      /\ w.accepting = v.accepting /\ w.handle = v.handle /\ w.returned = v.returned
      /\ w.late = v.late /\ w.stale = v.stale
  BY DEF Moves, Flags
<1> QED BY <1>2, <1>3 DEF Moves

\* While the io threads run, a thread that does not move stays right if nothing
\* of its own changes.
LEMMA ThreadKeeps ==
  ASSUME NEW v, NEW w, NEW t, NEW x, ThreadOK(v, t, x), w.threads = "run",
         x.pc = "ask" => w.obj[x.o].aio,
         x.pc \in FreePcs => w.handle = "freeing" /\ (x.pc # "shutdown" => w.closed),
         x.pc \in {"end", "wait"} => Due(w, Op(x.o, x.k, t)) = Due(v, Op(x.o, x.k, t)),
         \A type \in {"fn", "cleanup", "close"} : Due(w, Await(type, t)) = Due(v, Await(type, t))
  PROVE  ThreadOK(w, t, x)
<1>1. RoleOK(t, x)
  BY DEF ThreadOK
<1>2. WaitOK(w, t, x)
  <2>1. /\ Due(w, Await("fn", t)) = Due(v, Await("fn", t))
        /\ Due(w, Await("cleanup", t)) = Due(v, Await("cleanup", t))
        /\ Due(w, Await("close", t)) = Due(v, Await("close", t))
    OBVIOUS
  <2> QED BY <2>1 DEF ThreadOK, WaitOK
<1>3. PhaseOK(w, t, x)
  BY DEF PhaseOK
<1> QED BY <1>1, <1>2, <1>3 DEF ThreadOK

\* Something runs only while the io threads run.
LEMMA EngineStep ==
  ASSUME ApiInvariant, c.threads = "run", Moves(c, c'), \A f \in Keys : Due(c', f) = Due(c, f),
         th' = th, io' = io, LeftOK'
  PROVE  ApiInvariant'
<1>1. /\ c' \in Core /\ Holds(c')
      /\ c'.closed = c.closed /\ c'.gone = c.gone /\ c'.active = c.active
      /\ c'.threads = c.threads /\ c'.accepting = c.accepting /\ c'.handle = c.handle
      /\ c'.returned = c.returned /\ c'.late = c.late /\ c'.stale = c.stale
      /\ \A o \in Objs : /\ c'.obj[o].held = c.obj[o].held /\ c'.obj[o].aio = c.obj[o].aio
                         /\ c'.obj[o].pend = c.obj[o].pend
  BY MovesKeeps DEF ApiInvariant, CoreOK
<1>2. \A o \in Objs, k \in Kinds, by \in Workers \union {none} :
        Due(c', Op(o, k, by)) = Due(c, Op(o, k, by))
  BY KeysTyped
<1>3. \A o \in Objs : Due(c', Arm(o)) = Due(c, Arm(o))
  BY KeysTyped
<1>4. \A t \in Threads, type \in {"fn", "cleanup", "close"} : Due(c', Await(type, t)) = Due(c, Await(type, t))
  BY KeysTyped
<1>5. CoreOK(c')
  BY <1>1, <1>2 DEF ApiInvariant, CoreOK, Kinds
<1>6. IoOK(c', io')
  BY <1>1 DEF ApiInvariant, IoOK, IoState
<1>7. ThreadsOK'
  <2>1. SUFFICES ASSUME NEW t \in Threads PROVE ThreadOK(c', t, th[t])
    BY DEF ApiInvariant, ThreadsOK
  <2>2. ThreadOK(c, t, th[t]) /\ th[t] \in ThreadState
    BY DEF ApiInvariant, ThreadsOK
  <2>3. th[t].pc \in {"end", "wait"} => Due(c', Op(th[t].o, th[t].k, t)) = Due(c, Op(th[t].o, th[t].k, t))
    <3>1. th[t].pc \in {"end", "wait"} => t \in Workers /\ th[t].k \in Kinds /\ th[t].o \in Objs
      BY <2>2 DEF ThreadOK, RoleOK, MainPcs, FreePcs, Threads, ThreadState
    <3> QED BY <1>2, <3>1
  <2>4. th[t].pc = "ask" => c'.obj[th[t].o].aio
    BY <1>1, <2>2 DEF ThreadOK, PhaseOK, ThreadState
  <2>5. th[t].pc \in FreePcs => c'.handle = "freeing" /\ (th[t].pc # "shutdown" => c'.closed)
    BY <1>1, <2>2 DEF ThreadOK, PhaseOK
  <2> QED BY <1>1, <1>4, <2>2, <2>3, <2>4, <2>5, ThreadKeeps
<1>8. Alone' /\ ActiveCounts' /\ Drained'
  BY <1>1 DEF ApiInvariant, Alone, ActiveCounts, Drained, Draining, Initiating
<1>9. PendingDue' /\ AcceptDue'
  <2>1. PendingDue'
    <3>1. SUFFICES ASSUME NEW o \in Objs, NEW k \in {"recv", "send"}, Single(o, k)
                   PROVE  Due(c', Op(o, k, none)) + Cardinality(Asking(o, k)')
                            = IF k \in c'.obj[o].pend THEN 1 ELSE 0
      BY DEF PendingDue, Single
    <3>2. Asking(o, k)' = Asking(o, k)
      BY DEF Asking, At
    <3>3. Due(c', Op(o, k, none)) = Due(c, Op(o, k, none)) /\ c'.obj[o].pend = c.obj[o].pend
      BY <1>1, <1>2 DEF Kinds
    <3>4. Due(c, Op(o, k, none)) + Cardinality(Asking(o, k)) = IF k \in c.obj[o].pend THEN 1 ELSE 0
      BY <3>1 DEF ApiInvariant, PendingDue
    <3> QED BY <3>2, <3>3, <3>4
  <2>2. AcceptDue'
    BY <1>1, <1>2, <1>3 DEF ApiInvariant, AcceptDue, MainArms, IoArms, Kinds
  <2> QED BY <2>1, <2>2
<1> QED BY <1>5, <1>6, <1>7, <1>8, <1>9 DEF ApiInvariant


\* An engine that moves on twice moves on.
LEMMA MovesTwice ==
  ASSUME NEW u, NEW v \in Core, NEW w, u \in Core, Moves(u, v), Moves(v, w)
  PROVE  Moves(u, w)
<1>1. \A o \in Objs : w.obj[o] = [u.obj[o] EXCEPT !.st = w.obj[o].st]
  <2>1. SUFFICES ASSUME NEW o \in Objs PROVE w.obj[o] = [u.obj[o] EXCEPT !.st = w.obj[o].st]
    OBVIOUS
  <2>2. v.obj[o] = [u.obj[o] EXCEPT !.st = v.obj[o].st] /\ w.obj[o] = [v.obj[o] EXCEPT !.st = w.obj[o].st]
    BY DEF Moves
  <2>3. u.obj[o] \in Handles
    BY DEF Core
  <2> QED BY <2>2, <2>3 DEF Handles
<1> QED BY <1>1 DEF Moves

\* A task that runs is taken first.
LEMMA TaskTaken ==
  ASSUME ApiInvariant, NEW type, Task(type)
  PROVE  /\ c \in Core /\ Holds(c) /\ c.threads = "run" /\ io.pc = "idle"
         /\ Now \in Tasks /\ Now.type = type
         /\ Popped \in Core /\ Holds(Popped) /\ Moves(c, Popped)
         /\ \A f : Due(c, f) = Due(Popped, f) + (IF f = Key(Now) THEN 1 ELSE 0)
         /\ \A f : Due(c, f) \in Nat /\ Due(Popped, f) \in Nat
<1>1. c \in Core /\ Holds(c) /\ c.threads = "run" /\ io.pc = "idle" /\ c.queue # <<>> /\ Now.type = type
  BY DEF ApiInvariant, CoreOK, Task, Now
<1>2. /\ Now \in Tasks /\ Moves(c, Popped)
      /\ \A f : Due(c, f) = Due(Popped, f) + (IF f = Key(Now) THEN 1 ELSE 0)
  <2> DEFINE w == Popped
  <2>1. w = [c EXCEPT !.queue = Tail(@)]
    BY DEF Popped
  <2> HIDE DEF w
  <2>2. /\ Head(c.queue) \in Tasks /\ Moves(c, w)
        /\ \A f : Due(c, f) = Due(w, f) + (IF f = Key(Head(c.queue)) THEN 1 ELSE 0)
    BY <1>1, <2>1, PopTakes
  <2> QED BY <2>2 DEF w, Now
<1>3. Popped \in Core /\ Holds(Popped)
  BY <1>1, <1>2 DEF Moves
<1>4. \A f : Due(c, f) \in Nat /\ Due(Popped, f) \in Nat
  BY <1>1, <1>3, DueType
<1> QED BY <1>1, <1>2, <1>3, <1>4

\* The tasks of each type.
LEMMA TaskTypes ==
  ASSUME NEW x \in Tasks
  PROVE  /\ x.type = "op" => x = [type |-> "op", op |-> x.op, gen |-> x.gen] /\ x.op \in Ops /\ Key(x) = x.op
         /\ x.type \in {"hop", "done"} =>
              x = [type |-> x.type, op |-> x.op, res |-> x.res] /\ x.op \in Ops /\ x.res \in Results /\ Key(x) = x.op
         /\ x.type \in {"arm", "cancel", "close_socket"} =>
              x = [type |-> x.type, o |-> x.o] /\ x.o \in Objs /\ Key(x) = x
         /\ x.type \in {"fn", "cleanup", "close"} =>
              x = Await(x.type, x.by) /\ x.by \in Threads /\ Key(x) = x
<1>1. CASE x \in [type : {"op"}, op : Ops, gen : Nat]
  BY <1>1 DEF Key, OpTypes
<1>2. CASE x \in [type : {"hop", "done"}, op : Ops, res : Results]
  BY <1>2 DEF Key, OpTypes
<1>3. CASE x \in [type : {"arm", "cancel", "close_socket"}, o : Objs]
  BY <1>3 DEF Key, OpTypes
<1>4. CASE x \in Awaited
  BY <1>4 DEF Awaited, Await, Key, OpTypes
<1> QED BY <1>1, <1>2, <1>3, <1>4 DEF Tasks

\* A cancel or a close of a socket is never what somebody waits for.
LEMMA OtherKeys ==
  ASSUME NEW x \in Tasks, x.type \in {"cancel", "close_socket"}
  PROVE  Key(x) \notin Keys
<1>1. x = [type |-> x.type, o |-> x.o] /\ Key(x) = x
  BY TaskTypes
<1>2. x \notin Ops
  <2>1. "type" \in DOMAIN x
    BY <1>1
  <2> QED BY <2>1 DEF Ops
<1>3. \A o \in Objs : x # Arm(o)
  BY DEF Arm
<1>4. x \notin Awaited
  BY DEF Awaited
<1> QED BY <1>1, <1>2, <1>3, <1>4 DEF Keys

\* The task of an operation starts it: it was due, and is.
LEMMA RunOpStep ==
  ASSUME ApiInvariant, RunOp
  PROVE  ApiInvariant'
<1>1. /\ c \in Core /\ c.threads = "run" /\ Now \in Tasks /\ Now.type = "op"
      /\ Popped \in Core /\ Holds(Popped) /\ Moves(c, Popped)
      /\ \A f : Due(c, f) = Due(Popped, f) + (IF f = Key(Now) THEN 1 ELSE 0)
      /\ \A f : Due(c, f) \in Nat /\ Due(Popped, f) \in Nat
  <2>1. Task("op")
    BY DEF RunOp
  <2> QED BY <2>1, TaskTaken
<1>2. Now.op \in Ops /\ Key(Now) = Now.op
  BY <1>1, TaskTypes
<1>3. Adds(Popped, c', Now.op)
  <2>1. c' = engine_start(Popped, Now.op, Now.gen)
    BY DEF RunOp
  <2> QED BY <1>1, <1>2, <2>1, StartAdds
<1>4. Moves(c, c')
  BY <1>1, <1>3, MovesTwice DEF Adds
<1>5. \A f \in Keys : Due(c', f) = Due(c, f)
  BY <1>1, <1>2, <1>3 DEF Adds
<1>6. th' = th /\ io' = io /\ LeftOK'
  BY DEF RunOp, ApiInvariant, LeftOK
<1> QED BY <1>1, <1>4, <1>5, <1>6, EngineStep

\* The completion of an accept is posted once more.
LEMMA RunHopStep ==
  ASSUME ApiInvariant, RunHop
  PROVE  ApiInvariant'
<1>1. /\ c \in Core /\ c.threads = "run" /\ Now \in Tasks /\ Now.type = "hop"
      /\ Popped \in Core /\ Holds(Popped) /\ Moves(c, Popped)
      /\ \A f : Due(c, f) = Due(Popped, f) + (IF f = Key(Now) THEN 1 ELSE 0)
      /\ \A f : Due(c, f) \in Nat /\ Due(Popped, f) \in Nat
  <2>1. Task("hop")
    BY DEF RunHop
  <2> QED BY <2>1, TaskTaken
<1> DEFINE x == [Now EXCEPT !.type = "done"]
<1>2. Now = [type |-> "hop", op |-> Now.op, res |-> Now.res] /\ Now.op \in Ops /\ Now.res \in Results /\ Key(Now) = Now.op
  BY <1>1, TaskTypes
<1>3. x \in Tasks /\ Key(x) = Key(Now)
  <2>1. x = [type |-> "done", op |-> Now.op, res |-> Now.res]
    BY <1>2
  <2> QED BY <1>2, <2>1 DEF Tasks, Key, OpTypes
<1>4. Adds(Popped, c', Key(x))
  <2>1. c' = Post(Popped, x)
    BY DEF RunHop
  <2> HIDE DEF x
  <2> QED BY <1>1, <1>3, <2>1, PostAdds
<1>5. Moves(c, c')
  BY <1>1, <1>4, MovesTwice DEF Adds
<1>6. \A f \in Keys : Due(c', f) = Due(c, f)
  BY <1>1, <1>3, <1>4 DEF Adds
<1>7. th' = th /\ io' = io /\ LeftOK'
  BY DEF RunHop, ApiInvariant, LeftOK
<1> QED BY <1>1, <1>5, <1>6, <1>7, EngineStep

\* The socket of a freed handle is closed.
LEMMA RunCloseSocketStep ==
  ASSUME ApiInvariant, RunCloseSocket
  PROVE  ApiInvariant'
<1>1. /\ c \in Core /\ c.threads = "run" /\ Now \in Tasks /\ Now.type = "close_socket"
      /\ Popped \in Core /\ Holds(Popped) /\ Moves(c, Popped)
      /\ \A f : Due(c, f) = Due(Popped, f) + (IF f = Key(Now) THEN 1 ELSE 0)
      /\ \A f : Due(c, f) \in Nat /\ Due(Popped, f) \in Nat
  <2>1. Task("close_socket")
    BY DEF RunCloseSocket
  <2> QED BY <2>1, TaskTaken
<1>2. Now.o \in Objs /\ Key(Now) \notin Keys
  BY <1>1, TaskTypes, OtherKeys
<1>3. Passes(Popped, c')
  <2>1. c' = socket_close(Popped, Now.o)
    BY DEF RunCloseSocket
  <2> QED BY <1>1, <1>2, <2>1, SocketPasses
<1>4. Moves(c, c')
  BY <1>1, <1>3, MovesTwice DEF Passes
<1>5. \A f \in Keys : Due(c', f) = Due(c, f)
  BY <1>1, <1>2, <1>3 DEF Passes
<1>6. th' = th /\ io' = io /\ LeftOK'
  BY DEF RunCloseSocket, ApiInvariant, LeftOK
<1> QED BY <1>1, <1>4, <1>5, <1>6, EngineStep

\* The accepts of a paused listener are cancelled.
LEMMA RunCancelStep ==
  ASSUME ApiInvariant, RunCancel
  PROVE  ApiInvariant'
<1>1. /\ c \in Core /\ c.threads = "run" /\ Now \in Tasks /\ Now.type = "cancel"
      /\ Popped \in Core /\ Holds(Popped) /\ Moves(c, Popped)
      /\ \A f : Due(c, f) = Due(Popped, f) + (IF f = Key(Now) THEN 1 ELSE 0)
      /\ \A f : Due(c, f) \in Nat /\ Due(Popped, f) \in Nat
  <2>1. Task("cancel")
    BY DEF RunCancel
  <2> QED BY <2>1, TaskTaken
<1>2. Key(Now) \notin Keys
  BY <1>1, OtherKeys
<1>3. Moves(c, c') /\ \A f : Due(c', f) = Due(Popped, f)
  <2>1. CASE c.closed
    <3>1. c' = Popped
      BY <2>1 DEF RunCancel
    <3> QED BY <1>1, <3>1
  <2>2. CASE ~c.closed
    <3> DEFINE dead == {op \in ToSet(Popped.ops) : op.o = Now.o /\ op.k = "accept"}
    <3>1. c' = abort(Popped, dead)
      BY <2>2 DEF RunCancel, cancel_accepts
    <3> HIDE DEF dead
    <3>2. Passes(Popped, c')
      BY <1>1, <3>1, CancelPasses
    <3>3. Moves(c, c')
      BY <1>1, <3>2, MovesTwice DEF Passes
    <3> QED BY <3>2, <3>3 DEF Passes
  <2> QED BY <2>1, <2>2
<1>4. \A f \in Keys : Due(c', f) = Due(c, f)
  BY <1>1, <1>2, <1>3
<1>5. th' = th /\ io' = io /\ LeftOK'
  BY DEF RunCancel, ApiInvariant, LeftOK
<1> QED BY <1>1, <1>3, <1>4, <1>5, EngineStep

\* The device fails, and the engine closes itself.
LEMMA DeviceFailsStep ==
  ASSUME ApiInvariant, DeviceFails
  PROVE  ApiInvariant'
<1>1. c \in Core /\ c.threads = "run"
  BY DEF ApiInvariant, CoreOK, DeviceFails
<1>2. Passes(c, c')
  <2>1. c' = engine_close(c)
    BY DEF DeviceFails
  <2> QED BY <1>1, <2>1, ClosePasses
<1>3. th' = th /\ io' = io /\ LeftOK'
  BY DEF DeviceFails, ApiInvariant, LeftOK
<1> QED BY <1>1, <1>2, <1>3, EngineStep DEF Passes


\* The network completes an operation.
LEMMA ArriveStep ==
  ASSUME ApiInvariant, NEW i \in DOMAIN c.ops, Arrive(i)
  PROVE  ApiInvariant'
<1> DEFINE op == c.ops[i]
           v == [c EXCEPT !.ops = RemoveAt(@, i)]
           u == IF op.k = "accept" THEN [v EXCEPT !.obj[op.o].st = "open"] ELSE v
           res == "ok"
<1>1. /\ c \in Core /\ Holds(c) /\ DOMAIN c = Fields
      /\ c.queue \in Seq(Tasks) /\ c.ops \in Seq(Ops) /\ c.obj \in [Objs -> Handles] /\ c.eng \in BOOLEAN
  BY DEF ApiInvariant, CoreOK, Core, Fields, Flags
<1>2. i \in 1 .. Len(c.ops) /\ op \in Ops /\ c.ops # <<>> /\ op.o \in Objs
  <2>1. i \in 1 .. Len(c.ops) /\ op \in Ops
    BY <1>1
  <2>2. c.ops # <<>>
    BY <1>1, <2>1
  <2> HIDE DEF op
  <2> QED BY <2>1, <2>2 DEF Ops
<1>3. c.threads = "run" /\ c.eng
  BY <1>1, <1>2 DEF ApiInvariant, CoreOK, Core, Holds
<1>4. c' = complete(u, op, res)
  BY DEF Arrive
<1>5. /\ DOMAIN v = Fields /\ v = [f \in Fields |-> v[f]]
      /\ v.ops = RemoveAt(c.ops, i) /\ v.queue = c.queue /\ v.obj = c.obj /\ v.eng = c.eng
  BY <1>1 DEF Fields
<1>6. \A f \in Flags : v[f] = c[f]
  BY <1>1 DEF Fields, Flags
<1> HIDE DEF v
<1>7. /\ DOMAIN u = Fields /\ u = [f \in Fields |-> u[f]]
      /\ u.ops = RemoveAt(c.ops, i) /\ u.queue = c.queue /\ u.eng = c.eng
      /\ u.obj = IF op.k = "accept" THEN [c.obj EXCEPT ![op.o].st = "open"] ELSE c.obj
  <2>1. CASE op.k = "accept"
    <3>1. u = [v EXCEPT !.obj[op.o].st = "open"]
      BY <2>1
    <3> HIDE DEF u
    <3> QED BY <1>5, <2>1, <3>1 DEF Fields
  <2>2. CASE op.k # "accept"
    <3>1. u = v
      BY <2>2
    <3> HIDE DEF u
    <3> QED BY <1>5, <2>2, <3>1
  <2> QED BY <2>1, <2>2
<1>8. \A f \in Flags : u[f] = c[f]
  <2>1. \A f \in Flags : u[f] = v[f]
    BY <1>5 DEF Fields, Flags
  <2> QED BY <1>6, <2>1
<1> HIDE DEF u, op
<1>9. /\ u.obj \in [Objs -> Handles]
      /\ \A o \in Objs : u.obj[o] = [c.obj[o] EXCEPT !.st = u.obj[o].st]
  <2>1. CASE op.k = "accept"
    <3>1. u.obj = [c.obj EXCEPT ![op.o].st = "open"]
      BY <1>7, <2>1
    <3>2. \A o \in Objs : u.obj[o] = IF o = op.o THEN [c.obj[o] EXCEPT !.st = "open"] ELSE c.obj[o]
      BY <1>1, <1>2, <3>1
    <3>3. u.obj = [o \in Objs |-> u.obj[o]]
      BY <1>1, <3>1
    <3>4. ASSUME NEW o \in Objs
          PROVE  u.obj[o] \in Handles /\ u.obj[o] = [c.obj[o] EXCEPT !.st = u.obj[o].st]
      <4>1. c.obj[o] \in Handles
        BY <1>1
      <4>2. CASE o = op.o
        <5>1. u.obj[o] = [c.obj[o] EXCEPT !.st = "open"]
          BY <3>2, <4>2
        <5> QED BY <4>1, <5>1 DEF Handles
      <4>3. CASE o # op.o
        <5>1. u.obj[o] = c.obj[o]
          BY <3>2, <4>3
        <5> QED BY <4>1, <5>1 DEF Handles
      <4> QED BY <4>2, <4>3
    <3> QED BY <3>3, <3>4
  <2>2. CASE op.k # "accept"
    <3>1. u.obj = c.obj
      BY <1>7, <2>2
    <3>2. \A o \in Objs : c.obj[o] \in Handles
      BY <1>1
    <3> QED BY <1>1, <3>1, <3>2 DEF Handles
  <2> QED BY <2>1, <2>2
<1>10. u \in Core
  <2>1. u.ops \in Seq(Ops)
    <3>1. SubSeq(c.ops, 1, i - 1) \in Seq(Ops)
      BY <1>1, <1>2, SubSeqProperties
    <3>2. SubSeq(c.ops, i + 1, Len(c.ops)) \in Seq(Ops)
      BY <1>1, <1>2, SubSeqProperties
    <3> QED BY <1>7, <3>1, <3>2, ConcatProperties DEF RemoveAt
  <2>2. u.queue \in Seq(Tasks) /\ u.eng \in BOOLEAN /\ u.obj \in [Objs -> Handles]
    BY <1>1, <1>7, <1>9
  <2>3. DOMAIN u = Fields /\ u = [f \in Fields |-> u[f]]
    BY <1>7
  <2> QED BY <1>1, <1>8, <2>1, <2>2, <2>3, CoreFields
<1>11. /\ c' \in Core /\ c'.ops = u.ops /\ c'.obj = u.obj /\ c'.eng = u.eng
       /\ \A f \in Flags : c'[f] = u[f]
       /\ \E x \in Tasks : Key(x) = op /\ c'.queue = Append(u.queue, x)
  <2>1. res \in Results
    BY DEF Results
  <2> HIDE DEF res
  <2> QED BY <1>2, <1>4, <1>10, <2>1, CompletePosts
<1>12. \A f : Due(c', f) = Due(c, f)
  <2>1. PICK x \in Tasks : Key(x) = op /\ c'.queue = Append(u.queue, x)
    BY <1>11
  <2>2. c'.ops = RemoveAt(c.ops, i) /\ c'.queue = Append(c.queue, x) /\ Key(x) = c.ops[i]
    BY <1>7, <1>11, <2>1 DEF op
  <2> QED BY <1>1, <1>2, <2>2, DueArrive
<1>13. Moves(c, c')
  <2>1. \A f \in Flags : c'[f] = c[f]
    BY <1>8, <1>11
  <2>2. \A o \in Objs : c'.obj[o] = [c.obj[o] EXCEPT !.st = c'.obj[o].st]
    BY <1>9, <1>11
  <2>3. Holds(c')
    <3>1. c'.eng /\ c'.gen = c.gen
      BY <1>3, <1>7, <1>11, <2>1 DEF Flags
    <3> QED BY <1>1, <1>3, <3>1 DEF Holds
  <2> QED BY <1>11, <2>1, <2>2, <2>3 DEF Moves
<1>14. th' = th /\ io' = io /\ LeftOK'
  BY DEF Arrive, ApiInvariant, LeftOK
<1> QED BY <1>3, <1>12, <1>13, <1>14, EngineStep

-----------------------------------------------------------------------------
(***************************************************************************)
(* What a thread that moves leaves of the invariant, part by part.         *)
(***************************************************************************)
Blocked == {"idle", "begin", "initiate", "end", "wait"}
Initiate == {"initiate", "end"}
Draws == {"drain", "shut_drain"}

\* There are finitely many threads.
LEMMA ThreadsFinite ==
  IsFiniteSet(Threads) /\ \A S : S \subseteq Threads => IsFiniteSet(S)
<1>1. IsFiniteSet({main, fin})
  <2>1. {main, fin} = {main} \union {fin}
    OBVIOUS
  <2>2. IsFiniteSet({main})
    BY FS_Singleton
  <2> QED BY <2>1, <2>2, FS_AddElement
<1>2. IsFiniteSet(Workers \union {main, fin})
  BY <1>1, CApiAssumption, FS_Union
<1> QED BY <1>2, FS_Subset DEF Threads

\* What is true of the threads one by one.
LEMMA ThreadFacts ==
  ASSUME ThreadsOK, NEW t \in Threads
  PROVE  /\ th \in [Threads -> ThreadState] /\ ThreadOK(c, t, th[t])
         /\ th[t] \in ThreadState /\ RoleOK(t, th[t]) /\ WaitOK(c, t, th[t]) /\ PhaseOK(c, t, th[t])
BY DEF ThreadsOK, ThreadOK

\* One thread moves, the others are where they were.
LEMMA OneMoves ==
  ASSUME ThreadsOK, NEW t \in Threads, NEW x \in ThreadState, th' = [th EXCEPT ![t] = x]
  PROVE  /\ th' \in [Threads -> ThreadState]
         /\ th'[t] = x
         /\ \A u \in Threads : u # t => th'[u] = th[u]
BY DEF ThreadsOK

\* The threads stay right.
LEMMA StayRight ==
  ASSUME ThreadsOK, NEW t \in Threads, NEW x \in ThreadState, th' = [th EXCEPT ![t] = x],
         ThreadOK(c', t, x), \A u \in Threads \ {t} : ThreadOK(c', u, th[u])
  PROVE  ThreadsOK'
<1>1. /\ th' \in [Threads -> ThreadState]
      /\ th'[t] = x
      /\ \A u \in Threads : u # t => th'[u] = th[u]
  BY OneMoves
<1>2. SUFFICES ASSUME NEW u \in Threads PROVE ThreadOK(c', u, th'[u])
  BY <1>1 DEF ThreadsOK
<1>3. CASE u = t
  BY <1>1, <1>3
<1>4. CASE u # t
  BY <1>1, <1>4
<1> QED BY <1>3, <1>4

\* Who frees the engine stays alone.
LEMMA StaysAlone ==
  ASSUME ThreadsOK, Alone, NEW t \in Threads, NEW x \in ThreadState, th' = [th EXCEPT ![t] = x],
         x.pc \in FreePcs => th[t].pc \in FreePcs \/ \A u \in Threads \ {t} : th[u].pc \in Blocked,
         x.pc \notin Blocked => \A u \in Threads \ {t} : th[u].pc \notin FreePcs
  PROVE  Alone'
<1>1. /\ th'[t] = x
      /\ \A u \in Threads : u # t => th'[u] = th[u]
  BY OneMoves
<1>2. SUFFICES ASSUME NEW u \in Threads, th'[u].pc \in FreePcs, NEW q \in Threads, q # u
               PROVE  th'[q].pc \in Blocked
  BY DEF Alone, Blocked
<1>3. \A p \in Threads : th[p].pc \in FreePcs => \A r \in Threads : r # p => th[r].pc \in Blocked
  BY DEF Alone, Blocked
<1>4. CASE u = t
  BY <1>1, <1>2, <1>3, <1>4
<1>5. CASE u # t
  <2>1. th[u].pc \in FreePcs
    BY <1>1, <1>2, <1>5
  <2>2. CASE q = t
    BY <1>1, <1>2, <2>1, <2>2
  <2>3. CASE q # t
    BY <1>1, <1>2, <1>3, <2>1, <2>3
  <2> QED BY <2>2, <2>3
<1> QED BY <1>4, <1>5

\* The threads in begin_op are the same, one more, or one less.
LEMMA InitiatingMoves ==
  ASSUME ThreadsOK, NEW t \in Threads, NEW x \in ThreadState, th' = [th EXCEPT ![t] = x]
  PROVE  /\ (x.pc \in Initiate <=> th[t].pc \in Initiate) => Initiating' = Initiating
         /\ x.pc \in Initiate => Initiating' = Initiating \union {t}
         /\ x.pc \notin Initiate => Initiating' = Initiating \ {t}
         /\ t \in Initiating <=> th[t].pc \in Initiate
<1>1. /\ th'[t] = x
      /\ \A u \in Threads : u # t => th'[u] = th[u]
  BY OneMoves
<1> QED BY <1>1 DEF Initiating, Initiate

\* The same for those that ask for an operation with a callback.
LEMMA AskingMoves ==
  ASSUME ThreadsOK, NEW t \in Threads, NEW x \in ThreadState, th' = [th EXCEPT ![t] = x]
  PROVE  /\ th[t].pc # "ask" /\ x.pc # "ask" => \A o, k : Asking(o, k)' = Asking(o, k)
         /\ x.pc = "ask" /\ th[t].pc # "ask" =>
              \A o, k : /\ t \notin Asking(o, k)
                        /\ Asking(o, k)' = IF o = x.o /\ k = x.k THEN Asking(o, k) \union {t} ELSE Asking(o, k)
         /\ x.pc # "ask" /\ th[t].pc = "ask" =>
              \A o, k : /\ t \in Asking(o, k) <=> o = th[t].o /\ k = th[t].k
                        /\ Asking(o, k)' = Asking(o, k) \ {t}
<1>1. /\ th'[t] = x
      /\ \A u \in Threads : u # t => th'[u] = th[u]
  BY OneMoves
<1>2. \A o, k : Asking(o, k)' = {u \in Threads : th'[u].pc = "ask" /\ th'[u].o = o /\ th'[u].k = k}
  BY DEF Asking, At
<1>3. \A o, k : Asking(o, k) = {u \in Threads : th[u].pc = "ask" /\ th[u].o = o /\ th[u].k = k}
  BY DEF Asking, At
<1>4. ASSUME th[t].pc # "ask", x.pc # "ask", NEW o, NEW k PROVE Asking(o, k)' = Asking(o, k)
  BY <1>1, <1>2, <1>3, <1>4
<1>5. ASSUME x.pc = "ask", th[t].pc # "ask", NEW o, NEW k
      PROVE  /\ t \notin Asking(o, k)
             /\ Asking(o, k)' = IF o = x.o /\ k = x.k THEN Asking(o, k) \union {t} ELSE Asking(o, k)
  BY <1>1, <1>2, <1>3, <1>5
<1>6. ASSUME x.pc # "ask", th[t].pc = "ask", NEW o, NEW k
      PROVE  /\ t \in Asking(o, k) <=> o = th[t].o /\ k = th[t].k
             /\ Asking(o, k)' = Asking(o, k) \ {t}
  BY <1>1, <1>2, <1>3, <1>6
<1> QED BY <1>4, <1>5, <1>6

\* What has been seen drained stays so.
LEMMA StaysDrained ==
  ASSUME ThreadsOK, ActiveCounts, Drained, NEW t \in Threads, NEW x \in ThreadState,
         th' = [th EXCEPT ![t] = x], io' = io,
         Initiating' = Initiating,
         c'.closed => c.closed \/ x.pc \in Draws,
         th[t].pc \in Draws => x.pc \in Draws \/ c.active = 0
  PROVE  Drained'
<1>1. /\ th'[t] = x
      /\ \A u \in Threads : u # t => th'[u] = th[u]
  BY OneMoves
<1>2. SUFFICES ASSUME c'.closed, ~Draining' PROVE Initiating = {}
  BY DEF Drained
<1>3. x.pc \notin Draws /\ io.pc # "drain" /\ \A u \in Threads : u # t => th[u].pc \notin Draws
  BY <1>1, <1>2 DEF Draining, Draws
<1>4. CASE th[t].pc \in Draws
  <2>1. IsFiniteSet(Initiating) /\ Cardinality(Initiating) = 0
    BY <1>3, <1>4, ThreadsFinite DEF Initiating, ActiveCounts
  <2> QED BY <2>1, FS_EmptySet
<1>5. CASE th[t].pc \notin Draws
  <2>1. ~Draining
    BY <1>3, <1>5 DEF Draining, Draws
  <2> QED BY <1>2, <1>3, <2>1 DEF Drained
<1> QED BY <1>4, <1>5

\* A thread that does not move stays right when others do.
LEMMA OthersKeep ==
  ASSUME NEW v, NEW w, NEW t \in Threads, NEW x, ThreadOK(v, t, x), w.threads = v.threads,
         t = main /\ v.threads = "none" => w.gen = v.gen /\ w.eng = v.eng,
         \A o \in Objs : v.obj[o].aio => w.obj[o].aio,
         x.pc \in FreePcs => w.handle = v.handle /\ (v.closed => w.closed),
         t \in Workers => \A o \in Objs, k \in Kinds : Due(w, Op(o, k, t)) = Due(v, Op(o, k, t)),
         \A type \in {"fn", "cleanup", "close"} : Due(w, Await(type, t)) = Due(v, Await(type, t))
  PROVE  ThreadOK(w, t, x)
<1>1. RoleOK(t, x) /\ x.o \in Objs /\ x \in ThreadState
  BY DEF ThreadOK, RoleOK, ThreadState
<1>2. WaitOK(w, t, x)
  <2>1. /\ Due(w, Await("fn", t)) = Due(v, Await("fn", t))
        /\ Due(w, Await("cleanup", t)) = Due(v, Await("cleanup", t))
        /\ Due(w, Await("close", t)) = Due(v, Await("close", t))
    OBVIOUS
  <2>2. x.pc \in {"end", "wait"} => Due(w, Op(x.o, x.k, t)) = Due(v, Op(x.o, x.k, t))
    <3>1. x.pc \in {"end", "wait"} => t \in Workers
      BY <1>1 DEF RoleOK, MainPcs, FreePcs, Threads
    <3> QED BY <1>1, <3>1 DEF RoleOK
  <2>3. WaitOK(v, t, x)
    BY DEF ThreadOK
  <2> QED BY <2>1, <2>2, <2>3 DEF WaitOK
<1>3. PhaseOK(w, t, x)
  <2>1. PhaseOK(v, t, x)
    BY DEF ThreadOK
  <2> QED BY <1>1, <2>1 DEF PhaseOK
<1> QED BY <1>1, <1>2, <1>3 DEF ThreadOK

\* A core whose flags change and whose engine does not.
SameEngine(v, w) ==
  /\ w \in Core /\ w.queue = v.queue /\ w.ops = v.ops

LEMMA SameDue ==
  ASSUME NEW v, NEW w, SameEngine(v, w)
  PROVE  \A f : Due(w, f) = Due(v, f)
BY DEF SameEngine, Due

\* What a posted task changes: what it carries is due once more.
LEMMA Posts ==
  ASSUME ApiInvariant, c.threads = "run", NEW x \in Tasks, c' = Post(c, x),
         \A o \in Objs, k \in {"recv", "send"} : Key(x) = Op(o, k, none) => c.obj[o].aio
  PROVE  /\ CoreOK(c') /\ IoOK(c', io)
         /\ c'.closed = c.closed /\ c'.gone = c.gone /\ c'.active = c.active /\ c'.mu = c.mu
         /\ c'.gen = c.gen /\ c'.guard = c.guard /\ c'.threads = c.threads /\ c'.cb = c.cb
         /\ c'.accepting = c.accepting /\ c'.handle = c.handle /\ c'.returned = c.returned
         /\ \A o \in Objs : /\ c'.obj[o].held = c.obj[o].held /\ c'.obj[o].aio = c.obj[o].aio
                            /\ c'.obj[o].pend = c.obj[o].pend
         /\ \A f : Due(c', f) \in Nat /\ Due(c, f) \in Nat
         /\ \A f : Due(c', f) = Due(c, f) + (IF f = Key(x) THEN 1 ELSE 0)
<1>1. c \in Core /\ Holds(c) /\ CoreOK(c) /\ IoOK(c, io)
  BY DEF ApiInvariant, CoreOK
<1>2. Adds(c, c', Key(x))
  BY <1>1, PostAdds
<1>3. Moves(c, c') /\ \A f : Due(c', f) = Due(c, f) + (IF f = Key(x) THEN 1 ELSE 0)
  BY <1>2 DEF Adds
<1>4. /\ c' \in Core /\ Holds(c')
      /\ c'.closed = c.closed /\ c'.gone = c.gone /\ c'.active = c.active /\ c'.mu = c.mu
      /\ c'.gen = c.gen /\ c'.guard = c.guard /\ c'.threads = c.threads /\ c'.cb = c.cb
      /\ c'.accepting = c.accepting /\ c'.handle = c.handle /\ c'.returned = c.returned
      /\ c'.late = c.late /\ c'.stale = c.stale
      /\ \A o \in Objs : /\ c'.obj[o].held = c.obj[o].held /\ c'.obj[o].aio = c.obj[o].aio
                         /\ c'.obj[o].pend = c.obj[o].pend
  BY <1>1, <1>3, MovesKeeps
<1>5. \A f : Due(c', f) \in Nat /\ Due(c, f) \in Nat
  BY <1>1, <1>4, DueType
<1>6. \A o \in Objs, k \in {"recv", "send"} : Due(c', Op(o, k, none)) > 0 => c'.obj[o].aio
  <2>1. SUFFICES ASSUME NEW o \in Objs, NEW k \in {"recv", "send"}, Due(c', Op(o, k, none)) > 0
                 PROVE  c.obj[o].aio
    BY <1>4
  <2>2. CASE Key(x) = Op(o, k, none)
    BY <2>2
  <2>3. CASE Key(x) # Op(o, k, none)
    <3>1. Due(c, Op(o, k, none)) > 0
      BY <1>3, <1>5, <2>1, <2>3
    <3> QED BY <1>1, <3>1 DEF CoreOK
  <2> QED BY <2>2, <2>3
<1>7. CoreOK(c')
  BY <1>1, <1>4, <1>6 DEF CoreOK
<1>8. IoOK(c', io)
  BY <1>1, <1>4 DEF IoOK, IoState
<1> QED BY <1>3, <1>4, <1>5, <1>7, <1>8

\* ... and the threads that neither asked nor wait for it are not concerned.
LEMMA PostKeeps ==
  ASSUME ApiInvariant, c.threads = "run", NEW x \in Tasks, c' = Post(c, x),
         \A o \in Objs, k \in {"recv", "send"} : Key(x) = Op(o, k, none) => c.obj[o].aio,
         NEW u \in Threads,
         \A o, k : Key(x) # Op(o, k, u), \A type : Key(x) # Await(type, u)
  PROVE  ThreadOK(c', u, th[u])
<1>1. /\ c'.closed = c.closed /\ c'.threads = c.threads /\ c'.handle = c.handle
      /\ \A o \in Objs : c'.obj[o].aio = c.obj[o].aio
      /\ \A f : Due(c', f) \in Nat /\ Due(c, f) \in Nat
      /\ \A f : Due(c', f) = Due(c, f) + (IF f = Key(x) THEN 1 ELSE 0)
  BY Posts
<1>2. ThreadOK(c, u, th[u])
  BY DEF ApiInvariant, ThreadsOK
<1>3. \A o \in Objs, k \in Kinds : Due(c', Op(o, k, u)) = Due(c, Op(o, k, u))
  BY <1>1
<1>4. \A type \in {"fn", "cleanup", "close"} : Due(c', Await(type, u)) = Due(c, Await(type, u))
  BY <1>1
<1>5. c.threads = "none" => c'.gen = c.gen /\ c'.eng = c.eng
  OBVIOUS
<1> QED BY <1>1, <1>2, <1>3, <1>4, <1>5, OthersKeep

\* t may go from where it is to x: nothing that is counted changes, it does not
\* leave the draining early, and keeps to itself if it frees the engine.
MayGo(t, x) ==
  /\ x.pc \in Initiate <=> th[t].pc \in Initiate
  /\ th[t].pc \notin {"ask", "arm"} /\ x.pc \notin {"ask", "arm"}
  /\ th[t].pc \in Draws => x.pc \in Draws \/ c.active = 0
  /\ x.pc \in FreePcs => th[t].pc \in FreePcs \/ \A u \in Threads \ {t} : th[u].pc \in Blocked
  /\ x.pc \notin Blocked => \A u \in Threads \ {t} : th[u].pc \notin FreePcs

\* What is not counted leaves the counts.
SameCounts ==
  /\ c'.active = c.active /\ c'.accepting = c.accepting
  /\ \A o \in Objs : c'.obj[o].pend = c.obj[o].pend
  /\ \A o \in Objs, k \in Kinds : Due(c', Op(o, k, none)) = Due(c, Op(o, k, none))
  /\ \A o \in Objs : Due(c', Arm(o)) = Due(c, Arm(o))

\* A step inside a call.
LEMMA ThreadMoves ==
  ASSUME ApiInvariant, NEW t \in Threads, NEW x \in ThreadState, th' = [th EXCEPT ![t] = x],
         io' = io, LeftOK', MayGo(t, x), SameCounts,
         CoreOK(c'), IoOK(c', io), c'.closed => c.closed \/ x.pc \in Draws,
         ThreadOK(c', t, x), \A u \in Threads \ {t} : ThreadOK(c', u, th[u])
  PROVE  ApiInvariant'
<1>1. ThreadsOK /\ Alone /\ ActiveCounts /\ Drained /\ PendingDue /\ AcceptDue
  BY DEF ApiInvariant
<1>2. ThreadsOK'
  BY <1>1, StayRight
<1>3. Alone'
  BY <1>1, StaysAlone DEF MayGo
<1>4. Initiating' = Initiating
  BY <1>1, InitiatingMoves DEF MayGo
<1>5. ActiveCounts'
  BY <1>1, <1>4 DEF ActiveCounts, SameCounts
<1>6. Drained'
  BY <1>1, <1>4, StaysDrained DEF MayGo
<1>7. PendingDue'
  <2>1. SUFFICES ASSUME NEW o \in Objs, NEW k \in {"recv", "send"}, Single(o, k)
                 PROVE  Due(c', Op(o, k, none)) + Cardinality(Asking(o, k)')
                          = IF k \in c'.obj[o].pend THEN 1 ELSE 0
    BY DEF PendingDue, Single
  <2>2. Asking(o, k)' = Asking(o, k)
    BY <1>1, AskingMoves DEF MayGo
  <2>3. Due(c', Op(o, k, none)) = Due(c, Op(o, k, none)) /\ c'.obj[o].pend = c.obj[o].pend
    BY DEF SameCounts, Kinds
  <2>4. Due(c, Op(o, k, none)) + Cardinality(Asking(o, k)) = IF k \in c.obj[o].pend THEN 1 ELSE 0
    BY <1>1, <2>1 DEF PendingDue
  <2> QED BY <2>2, <2>3, <2>4
<1>8. AcceptDue'
  <2>1. th'[t] = x /\ (main # t => th'[main] = th[main])
    BY <1>1, OneMoves DEF Threads
  <2>2. \A o \in Objs : MainArms(o)' = MainArms(o)
    BY <2>1 DEF MainArms, MayGo
  <2>3. SUFFICES ASSUME NEW o \in Objs
                 PROVE  Due(c', Op(o, "accept", none)) + Due(c', Arm(o)) + MainArms(o)' + IoArms(o)'
                          <= IF c'.accepting[o] THEN 1 ELSE 0
    BY DEF AcceptDue
  <2>4. IoArms(o)' = IoArms(o)
    BY DEF IoArms
  <2>5. /\ Due(c', Op(o, "accept", none)) = Due(c, Op(o, "accept", none))
        /\ Due(c', Arm(o)) = Due(c, Arm(o)) /\ c'.accepting = c.accepting
    BY DEF SameCounts, Kinds
  <2>6. Due(c, Op(o, "accept", none)) + Due(c, Arm(o)) + MainArms(o) + IoArms(o)
          <= IF c.accepting[o] THEN 1 ELSE 0
    BY <1>1 DEF AcceptDue
  <2> QED BY <2>2, <2>4, <2>5, <2>6
<1> QED BY <1>2, <1>3, <1>5, <1>6, <1>7, <1>8 DEF ApiInvariant

\* A step that only moves the thread.
LEMMA OnlyMoves ==
  ASSUME ApiInvariant, NEW t \in Threads, NEW x \in ThreadState, th' = [th EXCEPT ![t] = x],
         c' = c, io' = io, LeftOK', MayGo(t, x), ThreadOK(c, t, x)
  PROVE  ApiInvariant'
<1>1. CoreOK(c') /\ IoOK(c', io) /\ SameCounts
  BY DEF ApiInvariant, SameCounts
<1>2. \A u \in Threads \ {t} : ThreadOK(c', u, th[u])
  BY DEF ApiInvariant, ThreadsOK
<1> QED BY <1>1, <1>2, ThreadMoves

\* Nothing happens.
LEMMA NothingMoves ==
  ASSUME ApiInvariant, c' = c, th' = th, io' = io, LeftOK'
  PROVE  ApiInvariant'
<1>1. \A o, k : Asking(o, k)' = Asking(o, k)
  BY DEF Asking, At
<1>2. PendingDue'
  BY <1>1 DEF ApiInvariant, PendingDue
<1>3. AcceptDue'
  BY DEF ApiInvariant, AcceptDue, MainArms, IoArms
<1>4. Initiating' = Initiating
  BY DEF Initiating
<1>5. ActiveCounts' /\ Drained' /\ Alone' /\ ThreadsOK' /\ CoreOK(c)' /\ IoOK(c, io)'
  BY <1>4 DEF ApiInvariant, ActiveCounts, Drained, Draining, Alone, ThreadsOK
<1> QED BY <1>2, <1>3, <1>5 DEF ApiInvariant

\* Nobody frees the engine while its handle is not being freed.
LEMMA NobodyFrees ==
  ASSUME ApiInvariant, c.handle # "freeing"
  PROVE  \A u \in Threads : th[u].pc \notin FreePcs
BY DEF ApiInvariant, ThreadsOK, ThreadOK, PhaseOK

\* While somebody is in a call that does not block, nobody frees the engine.
LEMMA NobodyElseFrees ==
  ASSUME ApiInvariant, NEW t \in Threads, th[t].pc \notin Blocked
  PROVE  \A u \in Threads \ {t} : th[u].pc \notin FreePcs
BY DEF ApiInvariant, Alone, Blocked

\* The io threads run while somebody is in a call that needs them.
LEMMA NeedsThreads ==
  ASSUME ApiInvariant, NEW t \in Threads,
         th[t].pc \in {"initiate", "end", "on_io", "future", "ask", "opened", "drain", "close",
                       "register", "arm", "cancel"}
  PROVE  c.threads = "run"
BY DEF ApiInvariant, ThreadsOK, ThreadOK, PhaseOK, CoreOK, Core, FreePcs

\* The budgets go down, that is all.
LEMMA LeftSpent ==
  ASSUME LeftOK, \/ left' = left
                 \/ left' = [left EXCEPT !.n = @ - 1]
                 \/ left' = [left EXCEPT !.faults = @ - 1]
                 \/ \E act : left' = [left EXCEPT !.acts = @ \ {act}]
  PROVE  LeftOK'
BY DEF LeftOK

\* Who waits for no task has none posted.
LEMMA AwaitsNothing ==
  ASSUME ApiInvariant, NEW t \in Threads, th[t].pc \notin {"future", "shut_future"}
  PROVE  \A type \in {"fn", "cleanup", "close"} : Due(c, Await(type, t)) = 0
<1>1. c \in Core
  BY DEF ApiInvariant, CoreOK
<1>2. \A f : Due(c, f) \in Nat
  BY <1>1, DueType
<1>3. WaitOK(c, t, th[t])
  BY DEF ApiInvariant, ThreadsOK, ThreadOK
<1>4. /\ ~(Due(c, Await("fn", t)) > 0) /\ ~(Due(c, Await("cleanup", t)) > 0)
      /\ ~(Due(c, Await("close", t)) > 0)
  BY <1>3 DEF WaitOK
<1> QED BY <1>2, <1>4

\* A thread that waits for nothing is where it may be.
LEMMA WaitsForNothing ==
  ASSUME NEW v, NEW t, NEW x, x.pc \notin {"end", "wait"} \/ x.res # "none",
         \A type \in {"fn", "cleanup", "close"} : Due(v, Await(type, t)) = 0
  PROVE  WaitOK(v, t, x)
<1>1. Due(v, Await("fn", t)) = 0 /\ Due(v, Await("cleanup", t)) = 0 /\ Due(v, Await("close", t)) = 0
  OBVIOUS
<1> QED BY <1>1 DEF WaitOK

\* A thread comes back from a call.
LEMMA Comes ==
  ASSUME NEW v, NEW t \in Threads, \A type \in {"fn", "cleanup", "close"} : Due(v, Await(type, t)) = 0,
         t = main /\ v.threads = "none" => v.gen = 0 /\ ~v.eng
  PROVE  ThreadOK(v, t, Idle) /\ Idle \in ThreadState
<1>1. Idle.pc = "idle" /\ Idle.o = "tcp" /\ Idle.k = "none" /\ Idle.res = "none"
  BY DEF Idle
<1>2. Idle \in ThreadState
  BY DEF Idle, ThreadState, WorkerPcs, ThreadKinds, Objs
<1>3. RoleOK(t, Idle)
  BY <1>1, <1>2 DEF RoleOK, WorkerPcs, MainPcs
<1>4. WaitOK(v, t, Idle)
  BY <1>1, WaitsForNothing
<1>5. PhaseOK(v, t, Idle)
  BY <1>1 DEF PhaseOK, FreePcs
<1> QED BY <1>2, <1>3, <1>4, <1>5 DEF ThreadOK

\* A blocking call, or one that runs on the executor, begins.
LEMMA EnterStep ==
  ASSUME ApiInvariant, NEW t \in Workers, NEW name, Call(t, name),
         NEW pc \in {"begin", "on_io"}, NEW o \in Objs, NEW k \in ThreadKinds, Enter(t, pc, o, k),
         pc = "begin" => k \in Kinds
  PROVE  ApiInvariant'
<1> DEFINE x == [pc |-> pc, o |-> o, k |-> k, res |-> "none"]
<1>1. th[t].pc = "idle" /\ c.handle # "freeing" /\ t \in Threads
  BY DEF Call, At, Threads
<1>2. c' = c /\ io' = io /\ LeftOK'
  <2>1. left' = [left EXCEPT !.n = @ - 1]
    BY DEF Call
  <2>2. LeftOK'
    BY <2>1, LeftSpent DEF ApiInvariant
  <2> QED BY <2>2 DEF Call, Enter
<1>3. CASE c.closed
  <2>1. th' = th
    BY <1>3 DEF Enter
  <2> QED BY <1>2, <2>1, NothingMoves
<1>4. CASE ~c.closed
  <2>1. th' = [th EXCEPT ![t] = x]
    BY <1>4 DEF Enter
  <2>2. c.threads = "run"
    BY <1>4 DEF ApiInvariant, CoreOK, Core
  <2>3. x \in ThreadState
    BY DEF ThreadState, WorkerPcs
  <2>4. x.pc = pc /\ x.k = k /\ x.res = "none" /\ x.o = o
    OBVIOUS
  <2> HIDE DEF x
  <2>5. WaitOK(c, t, x)
    <3>1. \A type \in {"fn", "cleanup", "close"} : Due(c, Await(type, t)) = 0
      BY <1>1, AwaitsNothing
    <3>2. x.pc \notin {"end", "wait"}
      BY <2>4
    <3> QED BY <3>1, <3>2, WaitsForNothing
  <2>6. ThreadOK(c, t, x)
    <3>1. RoleOK(t, x)
      BY <2>3, <2>4, CApiAssumption DEF RoleOK, WorkerPcs
    <3>2. PhaseOK(c, t, x)
      BY <2>2, <2>4 DEF PhaseOK, FreePcs
    <3> QED BY <2>5, <3>1, <3>2 DEF ThreadOK
  <2>7. MayGo(t, x)
    <3>1. \A u \in Threads : th[u].pc \notin FreePcs
      BY <1>1, NobodyFrees
    <3> QED BY <1>1, <2>4, <3>1 DEF MayGo, Initiate, Draws, FreePcs, Blocked
  <2> QED BY <1>1, <1>2, <2>1, <2>3, <2>6, <2>7, OnlyMoves
<1> QED BY <1>3, <1>4

WithHandle(v, o, h) == [v EXCEPT !.obj[o] = h]

\* A handle changes, but for the state of its connection.
LEMMA HandleChanges ==
  ASSUME NEW v \in Core, NEW o \in Objs, NEW h, h \in Handles, h.st = v.obj[o].st,
         NEW w, w = WithHandle(v, o, h)
  PROVE  /\ w \in Core /\ (Holds(v) => Holds(w)) /\ SameEngine(v, w)
         /\ w.eng = v.eng /\ \A f \in Flags : w[f] = v[f]
         /\ w.obj[o] = h /\ \A p \in Objs : p # o => w.obj[p] = v.obj[p]
<1>1. /\ v.queue \in Seq(Tasks) /\ v.ops \in Seq(Ops) /\ v.obj \in [Objs -> Handles] /\ v.eng \in BOOLEAN
      /\ DOMAIN v = Fields
  BY DEF Core, Fields, Flags
<1>2. /\ w.ops = v.ops /\ w.queue = v.queue /\ w.eng = v.eng
      /\ w.obj = [v.obj EXCEPT ![o] = h]
      /\ DOMAIN w = Fields /\ w = [f \in Fields |-> w[f]]
  BY <1>1 DEF WithHandle, Fields
<1>3. \A f \in Flags : w[f] = v[f]
  BY <1>1 DEF WithHandle, Fields, Flags
<1>4. /\ w.obj \in [Objs -> Handles]
      /\ w.obj[o] = h /\ \A p \in Objs : p # o => w.obj[p] = v.obj[p]
  BY <1>1, <1>2
<1>5. w \in Core
  <2>1. w.queue \in Seq(Tasks) /\ w.ops \in Seq(Ops) /\ w.eng \in BOOLEAN
    BY <1>1, <1>2
  <2>2. DOMAIN w = Fields /\ w = [f \in Fields |-> w[f]] /\ w.obj \in [Objs -> Handles]
    BY <1>2, <1>4
  <2> QED BY <1>3, <2>1, <2>2, CoreFields
<1>6. Holds(v) => Holds(w)
  <2>1. w.gen = v.gen
    BY <1>3 DEF Flags
  <2>2. \A p \in Objs : w.obj[p].st = v.obj[p].st
    BY <1>4
  <2> QED BY <1>2, <2>1, <2>2 DEF Holds
<1> QED BY <1>2, <1>3, <1>4, <1>5, <1>6 DEF SameEngine

\* The flags that are equal, by name.
LEMMA FlagsNamed ==
  ASSUME NEW v, NEW w, \A f \in Flags : w[f] = v[f]
  PROVE  /\ w.closed = v.closed /\ w.gone = v.gone /\ w.active = v.active /\ w.mu = v.mu
         /\ w.gen = v.gen /\ w.guard = v.guard /\ w.threads = v.threads /\ w.cb = v.cb
         /\ w.accepting = v.accepting /\ w.handle = v.handle /\ w.returned = v.returned
         /\ w.late = v.late /\ w.stale = v.stale
BY DEF Flags

\* The handle of a connection of a blocking accept is freed.
LEMMA FreeHandleStep ==
  ASSUME ApiInvariant, NEW t \in Workers, NEW name, NEW o \in Objs, ObjCall(t, name, o), free_handle(t, o)
  PROVE  ApiInvariant'
<1> DEFINE h == [c.obj[o] EXCEPT !.held = FALSE]
           v == [c EXCEPT !.obj[o] = h]
           task == [type |-> "close_socket", o |-> o]
<1>1. /\ c \in Core /\ Holds(c) /\ CoreOK(c) /\ IoOK(c, io)
      /\ th[t].pc = "idle" /\ c.handle # "freeing" /\ c.obj[o].held /\ ~c.obj[o].aio /\ t \in Threads
  BY DEF ApiInvariant, CoreOK, ObjCall, Call, At, free_handle, Threads
<1>2. h \in Handles /\ h.st = c.obj[o].st /\ h.held = FALSE /\ h.aio = c.obj[o].aio /\ h.pend = c.obj[o].pend
  <2>1. c.obj[o] \in Handles
    BY <1>1 DEF Core
  <2> QED BY <2>1 DEF Handles
<1>3. c' = Post(v, task)
  <2>1. [c EXCEPT !.obj[o].held = FALSE] = v
    BY <1>1 DEF Core
  <2> QED BY <2>1 DEF free_handle
<1> HIDE DEF h
<1>4. /\ v \in Core /\ Holds(v) /\ SameEngine(c, v)
      /\ v.eng = c.eng /\ \A f \in Flags : v[f] = c[f]
      /\ v.obj[o] = h /\ \A p \in Objs : p # o => v.obj[p] = c.obj[p]
  <2> HIDE DEF v
  <2>1. v = WithHandle(c, o, h)
    BY DEF v, WithHandle
  <2>2. c \in Core /\ h \in Handles /\ h.st = c.obj[o].st
    BY <1>1, <1>2
  <2>3. /\ v \in Core /\ (Holds(c) => Holds(v)) /\ SameEngine(c, v)
        /\ v.eng = c.eng /\ \A f \in Flags : v[f] = c[f]
        /\ v.obj[o] = h /\ \A p \in Objs : p # o => v.obj[p] = c.obj[p]
    BY <2>1, <2>2, HandleChanges
  <2> QED BY <1>1, <2>3
<1> HIDE DEF v
<1>5. task \in Tasks /\ Key(task) \notin Keys
  <2> DEFINE type == task.type
  <2>1. task \in Tasks /\ type \in {"cancel", "close_socket"}
    BY DEF Tasks
  <2> HIDE DEF task
  <2> QED BY <2>1, OtherKeys
<1>6. Adds(v, c', Key(task))
  <2> HIDE DEF task
  <2> QED BY <1>3, <1>4, <1>5, PostAdds
<1>7. /\ c' \in Core /\ Holds(c')
      /\ c'.closed = c.closed /\ c'.gone = c.gone /\ c'.active = c.active
      /\ c'.gen = c.gen /\ c'.threads = c.threads
      /\ c'.accepting = c.accepting /\ c'.handle = c.handle /\ c'.returned = c.returned
      /\ c'.late = c.late /\ c'.stale = c.stale
      /\ \A p \in Objs : /\ c'.obj[p].held => c.obj[p].held
                         /\ p # o => c'.obj[p].held = c.obj[p].held
                         /\ c'.obj[p].aio = c.obj[p].aio /\ c'.obj[p].pend = c.obj[p].pend
  <2>1. Moves(v, c')
    BY <1>6 DEF Adds
  <2>2. /\ c' \in Core /\ (Holds(v) => Holds(c'))
        /\ c'.closed = v.closed /\ c'.gone = v.gone /\ c'.active = v.active
        /\ c'.gen = v.gen /\ c'.threads = v.threads
        /\ c'.accepting = v.accepting /\ c'.handle = v.handle /\ c'.returned = v.returned
        /\ c'.late = v.late /\ c'.stale = v.stale
        /\ \A p \in Objs : /\ c'.obj[p].held = v.obj[p].held /\ c'.obj[p].aio = v.obj[p].aio
                           /\ c'.obj[p].pend = v.obj[p].pend
    BY <2>1, MovesKeeps
  <2>3. /\ v.closed = c.closed /\ v.gone = c.gone /\ v.active = c.active
        /\ v.gen = c.gen /\ v.threads = c.threads
        /\ v.accepting = c.accepting /\ v.handle = c.handle /\ v.returned = c.returned
        /\ v.late = c.late /\ v.stale = c.stale
    BY <1>4, FlagsNamed
  <2>4. \A p \in Objs : /\ v.obj[p].held => c.obj[p].held
                        /\ p # o => v.obj[p].held = c.obj[p].held
                        /\ v.obj[p].aio = c.obj[p].aio /\ v.obj[p].pend = c.obj[p].pend
    BY <1>2, <1>4
  <2> QED BY <1>4, <2>2, <2>3, <2>4
<1>8. \A f \in Keys : Due(c', f) = Due(c, f)
  <2>1. \A f : Due(v, f) = Due(c, f)
    BY <1>4, SameDue
  <2>2. \A f \in Keys : Due(c', f) = Due(v, f)
    <3>1. \A f : Due(v, f) \in Nat
      BY <1>4, DueType
    <3> QED BY <1>5, <1>6, <3>1 DEF Adds
  <2> QED BY <2>1, <2>2
<1>9. CoreOK(c')
  <2>1. c.threads # "none" /\ (c.threads = "gone" => c.ops = <<>>)
    BY <1>1 DEF CoreOK
  <2>2. c.threads = "gone" => c'.ops = <<>> /\ \A i \in DOMAIN c'.queue : c'.queue[i].type = "close_socket"
    <3>1. c'.ops = c.ops /\ c'.queue = Append(c.queue, task)
      <4>1. DOMAIN v = Fields
        BY <1>4 DEF Core, Fields, Flags
      <4> QED BY <1>3, <1>4, <4>1 DEF Post, SameEngine, Fields
    <3>2. c.queue \in Seq(Tasks)
      BY <1>1 DEF Core
    <3>3. task.type = "close_socket"
      OBVIOUS
    <3>4. c.threads = "gone" => \A i \in DOMAIN c.queue : c.queue[i].type = "close_socket"
      BY <1>1 DEF CoreOK
    <3> HIDE DEF task
    <3>5. c.threads = "gone" => \A i \in DOMAIN c'.queue : c'.queue[i].type = "close_socket"
      <4>1. SUFFICES ASSUME c.threads = "gone", NEW i \in DOMAIN c'.queue
                     PROVE  c'.queue[i].type = "close_socket"
        OBVIOUS
      <4>2. i \in 1 .. Len(c.queue) + 1 /\ Len(c.queue) \in Nat
        BY <3>1, <3>2, <4>1, <1>5
      <4>3. CASE i = Len(c.queue) + 1
        BY <3>1, <3>2, <3>3, <4>3, <1>5
      <4>4. CASE i # Len(c.queue) + 1
        <5>1. i \in DOMAIN c.queue /\ c'.queue[i] = c.queue[i]
          BY <3>1, <3>2, <4>2, <4>4, <1>5
        <5> QED BY <3>4, <4>1, <5>1
      <4> QED BY <4>3, <4>4
    <3> QED BY <2>1, <3>1, <3>5
  <2>3. \A p \in Objs, k \in {"recv", "send"} : Due(c', Op(p, k, none)) = Due(c, Op(p, k, none))
    BY <1>8, KeysTyped DEF Kinds
  <2> QED BY <1>1, <1>7, <2>1, <2>2, <2>3 DEF CoreOK
<1>10. IoOK(c', io)
  BY <1>1, <1>7 DEF IoOK, IoState
<1>11. SameCounts
  BY <1>7, <1>8, KeysTyped DEF SameCounts
<1>12. \A u \in Threads : ThreadOK(c', u, th[u])
  <2>1. SUFFICES ASSUME NEW u \in Threads PROVE ThreadOK(c', u, th[u])
    OBVIOUS
  <2>2. ThreadOK(c, u, th[u])
    BY DEF ApiInvariant, ThreadsOK
  <2>3. u \in Workers => \A p \in Objs, k \in Kinds : Due(c', Op(p, k, u)) = Due(c, Op(p, k, u))
    BY <1>8, KeysTyped
  <2>4. \A type \in {"fn", "cleanup", "close"} : Due(c', Await(type, u)) = Due(c, Await(type, u))
    BY <1>8, KeysTyped
  <2>5. c.threads # "none"
    BY <1>1 DEF CoreOK
  <2>6. /\ c'.threads = c.threads /\ c'.handle = c.handle /\ c'.closed = c.closed
        /\ \A p \in Objs : c.obj[p].aio => c'.obj[p].aio
    BY <1>7
  <2> QED BY <2>2, <2>3, <2>4, <2>5, <2>6, OthersKeep
<1>13. th' = [th EXCEPT ![t] = th[t]] /\ io' = io /\ LeftOK' /\ th[t] \in ThreadState
  <2>1. left' = [left EXCEPT !.n = @ - 1] /\ th' = th /\ io' = io
    BY DEF free_handle, ObjCall, Call
  <2>2. LeftOK'
    BY <2>1, LeftSpent DEF ApiInvariant
  <2>3. th \in [Threads -> ThreadState]
    BY DEF ApiInvariant, ThreadsOK
  <2> QED BY <1>1, <2>1, <2>2, <2>3
<1>14. MayGo(t, th[t])
  BY <1>1 DEF MayGo, Initiate, Draws, FreePcs, Blocked
<1> HIDE DEF task
<1> QED BY <1>1, <1>7, <1>9, <1>10, <1>11, <1>12, <1>13, <1>14, ThreadMoves

\* Threads that ask are counted in natural numbers.
LEMMA AskingCounts ==
  /\ \A o, k : IsFiniteSet(Asking(o, k)) /\ Cardinality(Asking(o, k)) \in Nat
  /\ \A o, k, t : /\ t \notin Asking(o, k) =>
                       Cardinality(Asking(o, k) \union {t}) = Cardinality(Asking(o, k)) + 1
                  /\ t \in Asking(o, k) =>
                       Cardinality(Asking(o, k) \ {t}) = Cardinality(Asking(o, k)) - 1
<1>1. ASSUME NEW o, NEW k PROVE IsFiniteSet(Asking(o, k)) /\ Cardinality(Asking(o, k)) \in Nat
  <2>1. IsFiniteSet(Asking(o, k))
    BY ThreadsFinite DEF Asking
  <2> QED BY <2>1, FS_CardinalityType
<1>2. ASSUME NEW o, NEW k, NEW t
      PROVE  /\ t \notin Asking(o, k) =>
                  Cardinality(Asking(o, k) \union {t}) = Cardinality(Asking(o, k)) + 1
             /\ t \in Asking(o, k) =>
                  Cardinality(Asking(o, k) \ {t}) = Cardinality(Asking(o, k)) - 1
  <2>1. IsFiniteSet(Asking(o, k))
    BY <1>1
  <2> QED BY <2>1, FS_AddElement, FS_RemoveElement
<1> QED BY <1>1, <1>2

\* The core changes in the handles of the application only, or not at all.
Grants(o, h) ==
  /\ h \in Handles /\ h.st = c.obj[o].st /\ (c.obj[o].held => h.held) /\ h.aio = c.obj[o].aio
  /\ c' = WithHandle(c, o, h)

LEMMA GrantKeeps ==
  ASSUME ApiInvariant, NEW o \in Objs, NEW h, Grants(o, h), c.threads # "none"
  PROVE  /\ CoreOK(c') /\ IoOK(c', io)
         /\ c'.closed = c.closed /\ c'.active = c.active /\ c'.accepting = c.accepting
         /\ c'.threads = c.threads
         /\ c'.obj[o] = h /\ \A p \in Objs : p # o => c'.obj[p] = c.obj[p]
         /\ \A p \in Objs : c'.obj[p].aio = c.obj[p].aio
         /\ \A f : Due(c', f) = Due(c, f) /\ Due(c, f) \in Nat
         /\ \A u \in Threads : ThreadOK(c', u, th[u])
<1>1. c \in Core /\ CoreOK(c) /\ IoOK(c, io)
  BY DEF ApiInvariant, CoreOK
<1>2. c' = WithHandle(c, o, h) /\ h \in Handles /\ h.st = c.obj[o].st
  BY DEF Grants
<1>3. /\ c' \in Core /\ (Holds(c) => Holds(c')) /\ SameEngine(c, c')
      /\ c'.eng = c.eng /\ \A f \in Flags : c'[f] = c[f]
      /\ c'.obj[o] = h /\ \A p \in Objs : p # o => c'.obj[p] = c.obj[p]
  BY <1>1, <1>2, HandleChanges
<1>4. \A p \in Objs : (c.obj[p].held => c'.obj[p].held) /\ c'.obj[p].aio = c.obj[p].aio
  BY <1>3 DEF Grants
<1>5. /\ c'.closed = c.closed /\ c'.gone = c.gone /\ c'.active = c.active
      /\ c'.threads = c.threads /\ c'.accepting = c.accepting /\ c'.handle = c.handle
      /\ c'.returned = c.returned /\ c'.late = c.late /\ c'.stale = c.stale
  BY <1>3, FlagsNamed
<1>6. \A f : Due(c', f) = Due(c, f) /\ Due(c, f) \in Nat
  BY <1>1, <1>3, SameDue, DueType
<1>7. CoreOK(c')
  <2>1. \A p \in Objs, k \in {"recv", "send"} : Due(c', Op(p, k, none)) > 0 => c'.obj[p].aio
    BY <1>1, <1>4, <1>6 DEF CoreOK
  <2>2. c' \in Core /\ Holds(c') /\ c'.queue = c.queue /\ c'.ops = c.ops
    BY <1>1, <1>3 DEF CoreOK, SameEngine
  <2> QED BY <1>1, <1>5, <2>1, <2>2 DEF CoreOK
<1>8. IoOK(c', io)
  BY <1>1, <1>4, <1>5 DEF IoOK, IoState
<1>9. \A u \in Threads : ThreadOK(c', u, th[u])
  <2>1. SUFFICES ASSUME NEW u \in Threads PROVE ThreadOK(c', u, th[u])
    OBVIOUS
  <2>2. ThreadOK(c, u, th[u])
    BY DEF ApiInvariant, ThreadsOK
  <2>3. \A p \in Objs : c.obj[p].aio => c'.obj[p].aio
    BY <1>4
  <2>4. /\ \A p \in Objs, k \in Kinds : Due(c', Op(p, k, u)) = Due(c, Op(p, k, u))
        /\ \A type \in {"fn", "cleanup", "close"} : Due(c', Await(type, u)) = Due(c, Await(type, u))
    BY <1>6
  <2>5. /\ c.threads = "none" => c'.gen = c.gen /\ c'.eng = c.eng
        /\ c'.threads = c.threads
        /\ c'.handle = c.handle /\ c'.closed = c.closed
    BY <1>5
  <2> QED BY <2>2, <2>3, <2>4, <2>5, OthersKeep
<1> QED BY <1>3, <1>4, <1>5, <1>6, <1>7, <1>8, <1>9

\* A read or write with a callback begins: it sets its flag, and asks.
LEMMA AsyncStep ==
  ASSUME ApiInvariant, NEW t \in Workers, NEW name, NEW o \in Objs, NEW k \in {"recv", "send"},
         ObjCall(t, name, o), async_op(t, o, k)
  PROVE  ApiInvariant'
<1> DEFINE x == [pc |-> "ask", o |-> o, k |-> k, res |-> "none"]
           pend == IF Single(o, k) THEN c.obj[o].pend \union {k} ELSE c.obj[o].pend
           h == [c.obj[o] EXCEPT !.pend = pend]
<1>1. /\ c \in Core /\ CoreOK(c) /\ th[t].pc = "idle" /\ c.handle # "freeing" /\ t \in Threads
      /\ io' = io
  BY DEF ApiInvariant, CoreOK, ObjCall, Call, At, Threads
<1>2. LeftOK'
  <2>1. left' = [left EXCEPT !.n = @ - 1]
    BY DEF ObjCall, Call
  <2> QED BY <2>1, LeftSpent DEF ApiInvariant
<1>3. CASE ~CanAsk(o, k)
  <2>1. c' = c /\ th' = th
    BY <1>3 DEF async_op
  <2> QED BY <1>1, <1>2, <2>1, NothingMoves
<1>4. CASE CanAsk(o, k)
  <2>1. /\ c.obj[o].aio /\ ~c.closed /\ (Single(o, k) => k \notin c.obj[o].pend)
        /\ th' = [th EXCEPT ![t] = x]
    BY <1>4 DEF async_op, CanAsk
  <2>2. c.threads = "run"
    BY <1>1, <2>1 DEF CoreOK, Core
  <2>3. Grants(o, h) /\ h.pend = pend
    <3>1. c.obj[o] \in Handles
      BY <1>1 DEF Core
    <3>2. pend \in SUBSET {"recv", "send"}
      BY <3>1 DEF Handles
    <3>3. c' = [c EXCEPT !.obj[o].pend = pend]
      BY <1>4 DEF async_op
    <3>4. c' = WithHandle(c, o, h)
      BY <1>1, <3>3 DEF WithHandle, Core
    <3> HIDE DEF pend
    <3>5. /\ h \in Handles /\ h.st = c.obj[o].st /\ h.held = c.obj[o].held /\ h.aio = c.obj[o].aio
          /\ h.pend = pend
      BY <3>1, <3>2 DEF Handles
    <3> QED BY <3>4, <3>5 DEF Grants
  <2> HIDE DEF h
  <2>4. /\ CoreOK(c') /\ IoOK(c', io)
        /\ c'.closed = c.closed /\ c'.active = c.active /\ c'.accepting = c.accepting
        /\ c'.threads = c.threads
        /\ c'.obj[o] = h /\ \A p \in Objs : p # o => c'.obj[p] = c.obj[p]
        /\ \A p \in Objs : c'.obj[p].aio = c.obj[p].aio
        /\ \A f : Due(c', f) = Due(c, f) /\ Due(c, f) \in Nat
        /\ \A u \in Threads : ThreadOK(c', u, th[u])
    BY <2>2, <2>3, GrantKeeps
  <2>5. x \in ThreadState /\ x.pc = "ask" /\ x.o = o /\ x.k = k
    BY DEF ThreadState, WorkerPcs, ThreadKinds, Kinds
  <2> HIDE DEF x, pend
  <2>6. ThreadOK(c', t, x)
    <3>1. RoleOK(t, x)
      BY <2>5, CApiAssumption DEF RoleOK, WorkerPcs
    <3>2. \A type \in {"fn", "cleanup", "close"} : Due(c', Await(type, t)) = 0
      <4>1. \A type \in {"fn", "cleanup", "close"} : Due(c, Await(type, t)) = 0
        BY <1>1, AwaitsNothing
      <4> QED BY <2>4, <4>1
    <3>3. WaitOK(c', t, x)
      <4>1. x.pc \notin {"end", "wait"}
        BY <2>5
      <4> QED BY <3>2, <4>1, WaitsForNothing
    <3>4. PhaseOK(c', t, x)
      BY <2>1, <2>2, <2>4, <2>5 DEF PhaseOK, FreePcs
    <3> QED BY <3>1, <3>3, <3>4 DEF ThreadOK
  <2>7. ThreadsOK /\ Alone /\ ActiveCounts /\ Drained /\ PendingDue /\ AcceptDue
    BY DEF ApiInvariant
  <2>8. ThreadsOK' /\ Alone' /\ ActiveCounts' /\ Drained'
    <3>1. ThreadsOK'
      BY <1>1, <2>1, <2>4, <2>5, <2>6, <2>7, StayRight
    <3>2. Alone'
      <4>1. \A u \in Threads : th[u].pc \notin FreePcs
        BY <1>1, NobodyFrees
      <4>2. x.pc \notin FreePcs
        BY <2>5 DEF FreePcs
      <4> QED BY <1>1, <2>1, <2>5, <2>7, <4>1, <4>2, StaysAlone
    <3>3. Initiating' = Initiating
      <4>1. x.pc \in Initiate <=> th[t].pc \in Initiate
        BY <1>1, <2>5 DEF Initiate
      <4> QED BY <1>1, <2>1, <2>5, <2>7, <4>1, InitiatingMoves
    <3>4. Drained'
      <4>1. th[t].pc \notin Draws
        BY <1>1 DEF Draws
      <4> QED BY <1>1, <2>1, <2>4, <2>5, <2>7, <3>3, <4>1, StaysDrained
    <3> QED BY <2>4, <2>7, <3>1, <3>2, <3>3, <3>4 DEF ActiveCounts
  <2>9. PendingDue'
    <3>1. SUFFICES ASSUME NEW p \in Objs, NEW j \in {"recv", "send"}, Single(p, j)
                   PROVE  Due(c', Op(p, j, none)) + Cardinality(Asking(p, j)')
                            = IF j \in c'.obj[p].pend THEN 1 ELSE 0
      BY DEF PendingDue, Single
    <3>2. Due(c, Op(p, j, none)) + Cardinality(Asking(p, j)) = IF j \in c.obj[p].pend THEN 1 ELSE 0
      BY <2>7, <3>1 DEF PendingDue
    <3>3. /\ t \notin Asking(p, j)
          /\ Asking(p, j)' = IF p = o /\ j = k THEN Asking(p, j) \union {t} ELSE Asking(p, j)
      <4>1. x.pc = "ask" /\ th[t].pc # "ask" /\ x \in ThreadState /\ t \in Threads /\ ThreadsOK
        BY <1>1, <2>5, <2>7
      <4>2. th' = [th EXCEPT ![t] = x]
        BY <2>1
      <4>3. \A q, i : /\ t \notin Asking(q, i)
                      /\ Asking(q, i)' = IF q = x.o /\ i = x.k THEN Asking(q, i) \union {t} ELSE Asking(q, i)
        BY <4>1, <4>2, AskingMoves
      <4> QED BY <2>5, <4>3
    <3>4. Due(c', Op(p, j, none)) = Due(c, Op(p, j, none)) /\ Due(c, Op(p, j, none)) \in Nat
      BY <2>4
    <3>5. CASE p = o /\ j = k
      <4>1. j \notin c.obj[p].pend /\ j \in c'.obj[p].pend
        BY <2>1, <2>3, <2>4, <3>1, <3>5 DEF pend
      <4>2. /\ Cardinality(Asking(p, j)) \in Nat
            /\ Cardinality(Asking(p, j)') = Cardinality(Asking(p, j)) + 1
        BY <3>3, <3>5, AskingCounts
      <4> QED BY <3>2, <3>4, <4>1, <4>2
    <3>6. CASE ~(p = o /\ j = k)
      <4>1. j \in c.obj[p].pend <=> j \in c'.obj[p].pend
        BY <2>3, <2>4, <3>6 DEF pend
      <4>2. Cardinality(Asking(p, j)') = Cardinality(Asking(p, j))
        BY <3>3, <3>6
      <4> QED BY <3>2, <3>4, <4>1, <4>2
    <3> QED BY <3>5, <3>6
  <2>10. AcceptDue'
    <3>1. th'[main] = th[main]
      <4>1. main \in Threads /\ main # t
        BY CApiAssumption DEF Threads
      <4> QED BY <1>1, <2>1, <2>5, <2>7, <4>1, OneMoves
    <3>2. \A p \in Objs : MainArms(p)' = MainArms(p) /\ IoArms(p)' = IoArms(p)
      BY <1>1, <3>1 DEF MainArms, IoArms
    <3> QED BY <2>4, <2>7, <3>2 DEF AcceptDue
  <2> QED BY <1>1, <1>2, <2>4, <2>8, <2>9, <2>10 DEF ApiInvariant
<1> QED BY <1>3, <1>4

\* Flags of the core change, and nothing is due that was not.
SameBut(v, w) ==
  /\ w.queue = v.queue /\ w.ops = v.ops /\ w.obj = v.obj /\ w.eng = v.eng /\ w.gen = v.gen
  /\ w.threads = v.threads /\ w.returned = v.returned /\ w.late = v.late /\ w.stale = v.stale

LEMMA FlagsChange ==
  ASSUME ApiInvariant, c' \in Core, SameBut(c, c'),
         c.closed => c'.closed \/ c.threads = "run",
         c.gone => c'.gone, c'.gone <=> c'.handle # "ok", c.threads = "gone" => c'.handle = "freed"
  PROVE  /\ CoreOK(c') /\ IoOK(c', io)
         /\ \A f : Due(c', f) = Due(c, f) /\ Due(c, f) \in Nat
         /\ \A u \in Threads :
              (th[u].pc \in FreePcs => c'.handle = c.handle /\ (c.closed => c'.closed)) => ThreadOK(c', u, th[u])
<1>1. c \in Core /\ CoreOK(c) /\ IoOK(c, io)
  BY DEF ApiInvariant, CoreOK
<1>2. \A f : Due(c', f) = Due(c, f) /\ Due(c, f) \in Nat
  <2>1. SameEngine(c, c')
    BY DEF SameBut, SameEngine
  <2> QED BY <1>1, <2>1, SameDue, DueType
<1>3. CoreOK(c')
  <2>1. \A o \in Objs, k \in {"recv", "send"} : Due(c', Op(o, k, none)) > 0 => c'.obj[o].aio
    BY <1>1, <1>2 DEF CoreOK, SameBut
  <2>2. Holds(c')
    BY <1>1 DEF CoreOK, Holds, SameBut
  <2> QED BY <1>1, <2>1, <2>2 DEF CoreOK, SameBut
<1>4. IoOK(c', io)
  BY <1>1 DEF IoOK, SameBut
<1>5. ASSUME NEW u \in Threads,
             th[u].pc \in FreePcs => c'.handle = c.handle /\ (c.closed => c'.closed)
      PROVE  ThreadOK(c', u, th[u])
  <2>1. ThreadOK(c, u, th[u])
    BY DEF ApiInvariant, ThreadsOK
  <2>2. /\ \A o \in Objs, k \in Kinds : Due(c', Op(o, k, u)) = Due(c, Op(o, k, u))
        /\ \A type \in {"fn", "cleanup", "close"} : Due(c', Await(type, u)) = Due(c, Await(type, u))
    BY <1>2
  <2>3. /\ c.threads = "none" => c'.gen = c.gen /\ c'.eng = c.eng
        /\ c'.threads = c.threads
        /\ \A o \in Objs : c.obj[o].aio => c'.obj[o].aio
    BY DEF SameBut
  <2> QED BY <1>5, <2>1, <2>2, <2>3, OthersKeep
<1> QED BY <1>2, <1>3, <1>4, <1>5

\* A thread that goes on in its call.
LEMMA Goes ==
  ASSUME ThreadsOK, NEW t \in Threads, NEW pc \in WorkerPcs \union MainPcs, Go(t, pc)
  PROVE  \E x \in ThreadState : /\ th' = [th EXCEPT ![t] = x]
                                /\ x.pc = pc /\ x.o = th[t].o /\ x.k = th[t].k /\ x.res = th[t].res
<1> DEFINE x == [th[t] EXCEPT !.pc = pc]
<1>1. th[t] \in ThreadState /\ th \in [Threads -> ThreadState]
  BY DEF ThreadsOK
<1>2. x \in ThreadState /\ x.pc = pc /\ x.o = th[t].o /\ x.k = th[t].k /\ x.res = th[t].res
  BY <1>1 DEF ThreadState
<1>3. th' = [th EXCEPT ![t] = x]
  BY DEF Go
<1> QED BY <1>2, <1>3

\* Who is in begin_op is counted in natural numbers.
LEMMA InitiatingCounts ==
  /\ IsFiniteSet(Initiating) /\ Cardinality(Initiating) \in Nat
  /\ \A t : /\ t \notin Initiating => Cardinality(Initiating \union {t}) = Cardinality(Initiating) + 1
            /\ t \in Initiating => Cardinality(Initiating \ {t}) = Cardinality(Initiating) - 1
<1>1. IsFiniteSet(Initiating)
  BY ThreadsFinite DEF Initiating
<1> QED BY <1>1, FS_CardinalityType, FS_AddElement, FS_RemoveElement

\* What else is kept when a thread enters or leaves begin_op.
LEMMA CountedMoves ==
  ASSUME ApiInvariant, NEW t \in Threads, NEW x \in ThreadState, th' = [th EXCEPT ![t] = x],
         io' = io, th[t].pc \in Blocked, x.pc \in Blocked,
         c'.accepting = c.accepting, \A o \in Objs : c'.obj[o].pend = c.obj[o].pend,
         \A f : Due(c', f) = Due(c, f),
         ThreadOK(c', t, x), \A u \in Threads \ {t} : ThreadOK(c', u, th[u])
  PROVE  ThreadsOK' /\ Alone' /\ PendingDue' /\ AcceptDue'
<1>1. ThreadsOK /\ Alone /\ PendingDue /\ AcceptDue
  BY DEF ApiInvariant
<1>2. ThreadsOK'
  BY <1>1, StayRight
<1>3. Alone'
  <2>1. x.pc \notin FreePcs
    BY DEF Blocked, FreePcs
  <2> QED BY <1>1, <2>1, StaysAlone
<1>4. th[t].pc # "ask" /\ x.pc # "ask" /\ th[t].pc # "arm" /\ x.pc # "arm"
  BY DEF Blocked
<1>5. PendingDue'
  <2>1. SUFFICES ASSUME NEW o \in Objs, NEW k \in {"recv", "send"}, Single(o, k)
                 PROVE  Due(c', Op(o, k, none)) + Cardinality(Asking(o, k)')
                          = IF k \in c'.obj[o].pend THEN 1 ELSE 0
    BY DEF PendingDue, Single
  <2>2. Asking(o, k)' = Asking(o, k)
    BY <1>1, <1>4, AskingMoves
  <2>3. Due(c, Op(o, k, none)) + Cardinality(Asking(o, k)) = IF k \in c.obj[o].pend THEN 1 ELSE 0
    BY <1>1, <2>1 DEF PendingDue
  <2> QED BY <2>2, <2>3
<1>6. AcceptDue'
  <2>1. th'[t] = x /\ (main # t => th'[main] = th[main])
    BY <1>1, OneMoves DEF Threads
  <2>2. \A o \in Objs : MainArms(o)' = MainArms(o) /\ IoArms(o)' = IoArms(o)
    BY <1>4, <2>1 DEF MainArms, IoArms
  <2> QED BY <1>1, <2>2 DEF AcceptDue
<1> QED BY <1>2, <1>3, <1>5, <1>6

\* begin_op: it is counted while the engine is open.
LEMMA BeginStep ==
  ASSUME ApiInvariant, NEW t \in Threads, begin_op(t)
  PROVE  ApiInvariant'
<1>1. /\ c \in Core /\ CoreOK(c) /\ ThreadsOK /\ th[t].pc = "begin" /\ io' = io
      /\ RoleOK(t, th[t]) /\ PhaseOK(c, t, th[t]) /\ th[t] \in ThreadState
  BY ThreadFacts DEF ApiInvariant, CoreOK, begin_op, At
<1>2. t \in Workers /\ t # main /\ th[t].k \in Kinds /\ c.threads # "none"
  BY <1>1, CApiAssumption DEF RoleOK, MainPcs, FreePcs, Threads, PhaseOK
<1>3. LeftOK'
  <2>1. left' = left
    BY DEF begin_op
  <2> QED BY <2>1, LeftSpent DEF ApiInvariant
<1>4. \A type \in {"fn", "cleanup", "close"} : Due(c, Await(type, t)) = 0
  BY <1>1, AwaitsNothing
<1>5. CASE c.closed
  <2>1. c' = c /\ th' = [th EXCEPT ![t] = Idle]
    BY <1>5 DEF begin_op, Return
  <2>2. ThreadOK(c, t, Idle) /\ Idle \in ThreadState
    BY <1>2, <1>4, Comes
  <2>3. MayGo(t, Idle)
    BY <1>1 DEF MayGo, Idle, Initiate, Draws, FreePcs, Blocked
  <2> QED BY <1>1, <1>3, <2>1, <2>2, <2>3, OnlyMoves
<1>6. CASE ~c.closed
  <2>1. c' = [c EXCEPT !.active = @ + 1] /\ Go(t, "initiate")
    BY <1>6 DEF begin_op
  <2>2. PICK x \in ThreadState : /\ th' = [th EXCEPT ![t] = x]
                                 /\ x.pc = "initiate" /\ x.o = th[t].o /\ x.k = th[t].k /\ x.res = th[t].res
    <3> DEFINE pc == "initiate"
    <3>1. pc \in WorkerPcs \union MainPcs /\ Go(t, pc)
      BY <2>1 DEF WorkerPcs
    <3> HIDE DEF pc
    <3>2. \E x \in ThreadState : /\ th' = [th EXCEPT ![t] = x]
                                 /\ x.pc = pc /\ x.o = th[t].o /\ x.k = th[t].k /\ x.res = th[t].res
      BY <1>1, <3>1, Goes
    <3> QED BY <3>2 DEF pc
  <2>3. c.threads = "run"
    BY <1>1, <1>6 DEF CoreOK, Core
  <2>4. c' \in Core /\ SameBut(c, c') /\ c'.active = c.active + 1 /\ c'.closed = c.closed
        /\ c'.gone = c.gone /\ c'.handle = c.handle /\ c'.accepting = c.accepting
    <3>1. c \in Core /\ c.active \in Nat
      BY <1>1 DEF Core
    <3>2. c.active + 1 \in Nat
      BY <3>1
    <3> QED BY <2>1, <3>1, <3>2 DEF Core, SameBut
  <2>5. /\ CoreOK(c') /\ IoOK(c', io)
        /\ \A f : Due(c', f) = Due(c, f) /\ Due(c, f) \in Nat
        /\ \A u \in Threads :
             (th[u].pc \in FreePcs => c'.handle = c.handle /\ (c.closed => c'.closed)) => ThreadOK(c', u, th[u])
    <3>1. (c.gone => c'.gone) /\ (c'.gone <=> c'.handle # "ok") /\ (c.threads = "gone" => c'.handle = "freed")
      BY <1>1, <2>4 DEF CoreOK
    <3> QED BY <2>3, <2>4, <3>1, FlagsChange
  <2>6. \A u \in Threads \ {t} : ThreadOK(c', u, th[u])
    BY <2>4, <2>5
  <2>7. ThreadOK(c', t, x)
    <3>1. RoleOK(t, x)
      BY <1>2, <2>2, CApiAssumption DEF RoleOK, WorkerPcs
    <3>2. \A type \in {"fn", "cleanup", "close"} : Due(c', Await(type, t)) = 0
      BY <1>4, <2>5
    <3>3. WaitOK(c', t, x)
      <4>1. x.pc \notin {"end", "wait"}
        BY <2>2
      <4> QED BY <3>2, <4>1, WaitsForNothing
    <3>4. PhaseOK(c', t, x)
      BY <2>2, <2>3, <2>4 DEF PhaseOK, FreePcs, SameBut
    <3> QED BY <3>1, <3>3, <3>4 DEF ThreadOK
  <2>8. ThreadsOK' /\ Alone' /\ PendingDue' /\ AcceptDue'
    <3>1. th[t].pc \in Blocked /\ x.pc \in Blocked
      BY <1>1, <2>2 DEF Blocked
    <3>2. c'.accepting = c.accepting /\ \A o \in Objs : c'.obj[o].pend = c.obj[o].pend
      BY <2>4 DEF SameBut
    <3>3. \A f : Due(c', f) = Due(c, f)
      BY <2>5
    <3> QED BY <1>1, <2>2, <2>6, <2>7, <3>1, <3>2, <3>3, CountedMoves
  <2>9. ActiveCounts'
    <3>1. Initiating' = Initiating \union {t} /\ t \notin Initiating
      BY <1>1, <2>2, InitiatingMoves DEF Initiate
    <3>2. c.active = Cardinality(Initiating)
      BY DEF ApiInvariant, ActiveCounts
    <3> QED BY <2>4, <3>1, <3>2, InitiatingCounts DEF ActiveCounts
  <2>10. Drained'
    BY <1>6, <2>4 DEF Drained
  <2> QED BY <1>1, <1>3, <2>5, <2>8, <2>9, <2>10 DEF ApiInvariant
<1> QED BY <1>5, <1>6

\* end_op: no longer.
LEMMA EndStep ==
  ASSUME ApiInvariant, NEW t \in Threads, end_op(t)
  PROVE  ApiInvariant'
<1>1. /\ c \in Core /\ CoreOK(c) /\ ThreadsOK /\ th[t].pc = "end" /\ io' = io
      /\ RoleOK(t, th[t]) /\ WaitOK(c, t, th[t]) /\ PhaseOK(c, t, th[t]) /\ th[t] \in ThreadState
  BY ThreadFacts DEF ApiInvariant, CoreOK, end_op, At
<1>2. t \in Workers /\ t # main /\ th[t].k \in Kinds /\ c.threads = "run"
  <2>1. c.threads = "run"
    BY <1>1, NeedsThreads
  <2> QED BY <1>1, <2>1, CApiAssumption DEF RoleOK, MainPcs, FreePcs, Threads
<1>3. LeftOK'
  <2>1. left' = left
    BY DEF end_op
  <2> QED BY <2>1, LeftSpent DEF ApiInvariant
<1>4. \A type \in {"fn", "cleanup", "close"} : Due(c, Await(type, t)) = 0
  BY <1>1, AwaitsNothing
<1>5. t \in Initiating /\ c.active = Cardinality(Initiating) /\ c.active \in Nat
  BY <1>1 DEF Initiating, ApiInvariant, ActiveCounts, Core
<1>6. c' = [c EXCEPT !.active = @ - 1]
  BY DEF end_op
<1>7. c' \in Core /\ SameBut(c, c') /\ c'.active = c.active - 1 /\ c'.closed = c.closed
      /\ c'.gone = c.gone /\ c'.handle = c.handle /\ c'.accepting = c.accepting
  <2>1. c.active - 1 \in Nat
    BY <1>5, InitiatingCounts, FS_EmptySet
  <2> QED BY <1>1, <1>6, <2>1 DEF Core, SameBut
<1>8. /\ CoreOK(c') /\ IoOK(c', io)
      /\ \A f : Due(c', f) = Due(c, f) /\ Due(c, f) \in Nat
      /\ \A u \in Threads :
           (th[u].pc \in FreePcs => c'.handle = c.handle /\ (c.closed => c'.closed)) => ThreadOK(c', u, th[u])
  <2>1. (c.gone => c'.gone) /\ (c'.gone <=> c'.handle # "ok") /\ (c.threads = "gone" => c'.handle = "freed")
    BY <1>1, <1>7 DEF CoreOK
  <2> QED BY <1>2, <1>7, <2>1, FlagsChange
<1>9. \A u \in Threads \ {t} : ThreadOK(c', u, th[u])
  BY <1>7, <1>8
<1>10. \A type \in {"fn", "cleanup", "close"} : Due(c', Await(type, t)) = 0
  BY <1>4, <1>8
<1>11. \E x \in ThreadState : /\ th' = [th EXCEPT ![t] = x] /\ x.pc \in {"idle", "wait"}
                              /\ ThreadOK(c', t, x)
  <2>1. CASE th[t].res = "failed"
    <3>1. th' = [th EXCEPT ![t] = Idle]
      BY <2>1 DEF end_op, Return
    <3>2. ThreadOK(c', t, Idle) /\ Idle \in ThreadState
      BY <1>2, <1>10, Comes
    <3> QED BY <3>1, <3>2 DEF Idle
  <2>2. CASE th[t].res # "failed"
    <3> DEFINE pc == "wait"
    <3>1. pc \in WorkerPcs \union MainPcs /\ Go(t, pc)
      BY <2>2 DEF WorkerPcs, end_op
    <3> HIDE DEF pc
    <3>2. PICK x \in ThreadState : /\ th' = [th EXCEPT ![t] = x]
                                   /\ x.pc = pc /\ x.o = th[t].o /\ x.k = th[t].k /\ x.res = th[t].res
      BY <1>1, <3>1, Goes
    <3>3. RoleOK(t, x)
      BY <1>2, <3>2, CApiAssumption DEF RoleOK, WorkerPcs, pc
    <3>4. WaitOK(c', t, x)
      <4>1. Due(c', Await("fn", t)) = 0 /\ Due(c', Await("cleanup", t)) = 0 /\ Due(c', Await("close", t)) = 0
        BY <1>10
      <4>2. x.res = "none" => Due(c', Op(x.o, x.k, t)) > 0
        BY <1>1, <1>8, <3>2 DEF WaitOK
      <4> QED BY <4>1, <4>2 DEF WaitOK
    <3>5. PhaseOK(c', t, x)
      BY <1>2, <1>7, <3>2 DEF PhaseOK, FreePcs, SameBut, pc
    <3> QED BY <3>2, <3>3, <3>4, <3>5 DEF ThreadOK, pc
  <2> QED BY <2>1, <2>2
<1>12. PICK x \in ThreadState : /\ th' = [th EXCEPT ![t] = x] /\ x.pc \in {"idle", "wait"}
                                /\ ThreadOK(c', t, x)
  BY <1>11
<1>13. ThreadsOK' /\ Alone' /\ PendingDue' /\ AcceptDue'
  <2>1. th[t].pc \in Blocked /\ x.pc \in Blocked
    BY <1>1, <1>12 DEF Blocked
  <2>2. c'.accepting = c.accepting /\ \A o \in Objs : c'.obj[o].pend = c.obj[o].pend
    BY <1>7 DEF SameBut
  <2>3. \A f : Due(c', f) = Due(c, f)
    BY <1>8
  <2> QED BY <1>1, <1>9, <1>12, <2>1, <2>2, <2>3, CountedMoves
<1>14. Initiating' = Initiating \ {t}
  BY <1>1, <1>12, InitiatingMoves DEF Initiate
<1>15. ActiveCounts'
  BY <1>5, <1>7, <1>14, InitiatingCounts DEF ActiveCounts
<1>16. Drained'
  <2>1. SUFFICES ASSUME c'.closed, ~Draining' PROVE Initiating' = {}
    BY DEF Drained
  <2>2. /\ th'[t] = x
        /\ \A u \in Threads : u # t => th'[u] = th[u]
    BY <1>1, <1>12, OneMoves
  <2>3. ~Draining
    BY <1>1, <2>1, <2>2 DEF Draining
  <2>4. Drained
    BY DEF ApiInvariant
  <2> QED BY <1>7, <1>14, <2>1, <2>3, <2>4 DEF Drained
<1> QED BY <1>1, <1>3, <1>8, <1>13, <1>15, <1>16 DEF ApiInvariant

\* A task that concerns nobody but t.
Concerns(x, t) ==
  /\ \A u \in Threads \union {none} : u # t => /\ \A o, k : Key(x) # Op(o, k, u)
                                               /\ \A type : Key(x) # Await(type, u)
  /\ \A o : Key(x) # Arm(o)

\* A thread posts such a task and goes on.
LEMMA PostMoves ==
  ASSUME ApiInvariant, NEW t \in Threads, NEW x \in ThreadState, th' = [th EXCEPT ![t] = x],
         io' = io, LeftOK', c.threads = "run", NEW task \in Tasks, c' = Post(c, task), Concerns(task, t),
         MayGo(t, x), ThreadOK(c', t, x)
  PROVE  ApiInvariant'
<1>1. t # none /\ \A o, k : Key(task) # Op(o, k, none)
  <2>1. t # none
    BY CApiAssumption DEF Threads
  <2> QED BY <2>1 DEF Concerns
<1>2. /\ CoreOK(c') /\ IoOK(c', io)
      /\ c'.closed = c.closed /\ c'.active = c.active /\ c'.accepting = c.accepting
      /\ \A o \in Objs : c'.obj[o].pend = c.obj[o].pend
      /\ \A f : Due(c', f) \in Nat /\ Due(c, f) \in Nat
      /\ \A f : Due(c', f) = Due(c, f) + (IF f = Key(task) THEN 1 ELSE 0)
  BY <1>1, Posts
<1>3. SameCounts
  <2>1. \A o \in Objs, k \in Kinds : Due(c', Op(o, k, none)) = Due(c, Op(o, k, none))
    BY <1>1, <1>2
  <2>2. \A o \in Objs : Due(c', Arm(o)) = Due(c, Arm(o))
    BY <1>2 DEF Concerns
  <2> QED BY <1>2, <2>1, <2>2 DEF SameCounts
<1>4. \A u \in Threads \ {t} : ThreadOK(c', u, th[u])
  <2>1. SUFFICES ASSUME NEW u \in Threads, u # t PROVE ThreadOK(c', u, th[u])
    OBVIOUS
  <2>2. (\A o, k : Key(task) # Op(o, k, u)) /\ \A type : Key(task) # Await(type, u)
    BY <2>1 DEF Concerns
  <2> QED BY <1>1, <2>2, PostKeeps
<1> QED BY <1>2, <1>3, <1>4, ThreadMoves

\* A blocking operation is on its way to the engine: its call waits for it.
LEMMA InitiateStep ==
  ASSUME ApiInvariant, NEW t \in Threads, initiate(t)
  PROVE  ApiInvariant'
<1> DEFINE op == Op(th[t].o, th[t].k, t)
           task == [type |-> "op", op |-> op, gen |-> c.gen]
<1>1. /\ c \in Core /\ ThreadsOK /\ th[t].pc = "initiate" /\ io' = io
      /\ RoleOK(t, th[t]) /\ PhaseOK(c, t, th[t]) /\ th[t] \in ThreadState
  BY ThreadFacts DEF ApiInvariant, CoreOK, initiate, At
<1>2. t \in Workers /\ th[t].k \in Kinds /\ th[t].o \in Objs /\ c.threads = "run"
  <2>1. c.threads = "run"
    BY <1>1, NeedsThreads
  <2> QED BY <1>1, <2>1 DEF RoleOK, MainPcs, FreePcs, Threads, ThreadState
<1>3. LeftOK'
  <2>1. left' = left
    BY DEF initiate
  <2> QED BY <2>1, LeftSpent DEF ApiInvariant
<1>4. c' = Post(c, task) /\ Go(t, "end")
  BY DEF initiate
<1>5. op \in Ops /\ task \in Tasks /\ Key(task) = op
  <2>1. op \in Ops
    BY <1>2, KeysTyped
  <2>2. c.gen \in Nat
    BY <1>1 DEF Core
  <2> HIDE DEF op
  <2> QED BY <2>1, <2>2 DEF Tasks, Key, OpTypes
<1>6. Concerns(task, t)
  <2> HIDE DEF task
  <2> QED BY <1>5, KeysDiffer DEF Concerns
<1>7. /\ c'.closed = c.closed /\ c'.threads = c.threads
      /\ \A f : Due(c', f) \in Nat /\ Due(c, f) \in Nat
      /\ \A f : Due(c', f) = Due(c, f) + (IF f = Key(task) THEN 1 ELSE 0)
  <2>1. \A o \in Objs, k \in {"recv", "send"} : Key(task) # Op(o, k, none)
    <3>1. t # none
      BY CApiAssumption DEF Threads
    <3> QED BY <1>5, <3>1, KeysDiffer
  <2> HIDE DEF task
  <2> QED BY <1>2, <1>4, <1>5, <2>1, Posts
<1>8. PICK x \in ThreadState : /\ th' = [th EXCEPT ![t] = x]
                               /\ x.pc = "end" /\ x.o = th[t].o /\ x.k = th[t].k /\ x.res = th[t].res
  <2> DEFINE pc == "end"
  <2>1. pc \in WorkerPcs \union MainPcs /\ Go(t, pc)
    BY <1>4 DEF WorkerPcs
  <2> HIDE DEF pc
  <2>2. \E x \in ThreadState : /\ th' = [th EXCEPT ![t] = x]
                               /\ x.pc = pc /\ x.o = th[t].o /\ x.k = th[t].k /\ x.res = th[t].res
    BY <1>1, <2>1, Goes
  <2> QED BY <2>2 DEF pc
<1>9. ThreadOK(c', t, x)
  <2>1. RoleOK(t, x)
    BY <1>2, <1>8, CApiAssumption DEF RoleOK, WorkerPcs
  <2>2. WaitOK(c', t, x)
    <3>1. \A type \in {"fn", "cleanup", "close"} : Due(c', Await(type, t)) = 0
      <4>1. \A type \in {"fn", "cleanup", "close"} : Due(c, Await(type, t)) = 0
        BY <1>1, AwaitsNothing
      <4>2. \A type : Await(type, t) # Key(task)
        <5> HIDE DEF task
        <5> QED BY <1>5, KeysDiffer
      <4> HIDE DEF task
      <4> QED BY <1>7, <4>1, <4>2
    <3>2. Due(c', Await("fn", t)) = 0 /\ Due(c', Await("cleanup", t)) = 0 /\ Due(c', Await("close", t)) = 0
      BY <3>1
    <3>3. Due(c', Op(x.o, x.k, t)) > 0
      <4>1. Op(x.o, x.k, t) = Key(task)
        BY <1>5, <1>8
      <4> HIDE DEF task
      <4> QED BY <1>7, <4>1
    <3> QED BY <3>2, <3>3 DEF WaitOK
  <2>3. PhaseOK(c', t, x)
    BY <1>2, <1>7, <1>8 DEF PhaseOK, FreePcs
  <2> QED BY <2>1, <2>2, <2>3 DEF ThreadOK
<1>10. MayGo(t, x)
  BY <1>1, <1>8 DEF MayGo, Initiate, Draws, FreePcs, Blocked
<1> HIDE DEF task
<1> QED BY <1>1, <1>2, <1>3, <1>4, <1>5, <1>6, <1>8, <1>9, <1>10, PostMoves

\* Initiating throws, and end_op follows.
LEMMA InitiateThrowsStep ==
  ASSUME ApiInvariant, NEW t \in Threads, initiate_throws(t)
  PROVE  ApiInvariant'
<1> DEFINE x == [th[t] EXCEPT !.pc = "end", !.res = "failed"]
<1>1. /\ ThreadsOK /\ th[t].pc = "initiate" /\ io' = io /\ c' = c
      /\ RoleOK(t, th[t]) /\ PhaseOK(c, t, th[t]) /\ th[t] \in ThreadState
  BY ThreadFacts DEF ApiInvariant, initiate_throws, At
<1>2. t \in Workers /\ th[t].k \in Kinds /\ c.threads = "run"
  <2>1. c.threads = "run"
    BY <1>1, NeedsThreads
  <2> QED BY <1>1, <2>1 DEF RoleOK, MainPcs, FreePcs, Threads
<1>3. LeftOK'
  <2>1. left' = [left EXCEPT !.faults = @ - 1]
    BY DEF initiate_throws
  <2> QED BY <2>1, LeftSpent DEF ApiInvariant
<1>4. th' = [th EXCEPT ![t] = x]
  BY <1>1 DEF initiate_throws, ThreadsOK
<1>5. x \in ThreadState /\ x.pc = "end" /\ x.k = th[t].k /\ x.res = "failed"
  BY <1>1 DEF ThreadState, WorkerPcs
<1> HIDE DEF x
<1>6. ThreadOK(c, t, x)
  <2>1. RoleOK(t, x)
    BY <1>2, <1>5, CApiAssumption DEF RoleOK, WorkerPcs
  <2>2. \A type \in {"fn", "cleanup", "close"} : Due(c, Await(type, t)) = 0
    BY <1>1, AwaitsNothing
  <2>3. WaitOK(c, t, x)
    <3>1. x.res # "none"
      BY <1>5
    <3> QED BY <2>2, <3>1, WaitsForNothing
  <2>4. PhaseOK(c, t, x)
    BY <1>2, <1>5 DEF PhaseOK, FreePcs
  <2> QED BY <2>1, <2>3, <2>4 DEF ThreadOK
<1>7. MayGo(t, x)
  BY <1>1, <1>5 DEF MayGo, Initiate, Draws, FreePcs, Blocked
<1> QED BY <1>1, <1>3, <1>4, <1>5, <1>6, <1>7, OnlyMoves

\* A call that runs on the executor waits for its task.
LEMMA OnIoStep ==
  ASSUME ApiInvariant, NEW t \in Threads, on_io(t)
  PROVE  ApiInvariant'
<1> DEFINE fn == "fn"
           task == [type |-> "fn", by |-> t]
<1>1. /\ c \in Core /\ ThreadsOK /\ th[t].pc = "on_io" /\ io' = io
      /\ RoleOK(t, th[t]) /\ PhaseOK(c, t, th[t]) /\ th[t] \in ThreadState
  BY ThreadFacts DEF ApiInvariant, CoreOK, on_io, At
<1>2. t \in Workers /\ c.threads = "run"
  <2>1. c.threads = "run"
    BY <1>1, NeedsThreads
  <2> QED BY <1>1, <2>1 DEF RoleOK, MainPcs, FreePcs, Threads
<1>3. LeftOK'
  <2>1. left' = left
    BY DEF on_io
  <2> QED BY <2>1, LeftSpent DEF ApiInvariant
<1>4. c' = Post(c, task) /\ Go(t, "future")
  BY DEF on_io
<1>5. task = Await("fn", t) /\ task \in Tasks /\ Key(task) = Await("fn", t)
  <2>1. task = Await("fn", t)
    BY DEF Await
  <2>2. fn \in {"fn", "cleanup", "close"}
    OBVIOUS
  <2> HIDE DEF fn
  <2>3. Await(fn, t) \in Tasks /\ Key(Await(fn, t)) = Await(fn, t)
    BY <2>2, KeysTyped
  <2> QED BY <2>1, <2>3 DEF fn
<1>6. Concerns(task, t)
  <2> HIDE DEF task
  <2> QED BY <1>5, KeysDiffer DEF Concerns
<1>7. /\ c'.closed = c.closed /\ c'.threads = c.threads
      /\ \A f : Due(c', f) \in Nat /\ Due(c, f) \in Nat
      /\ \A f : Due(c', f) = Due(c, f) + (IF f = Key(task) THEN 1 ELSE 0)
  <2>1. \A o \in Objs, k \in {"recv", "send"} : Key(task) # Op(o, k, none)
    BY <1>5, KeysDiffer
  <2> HIDE DEF task
  <2> QED BY <1>2, <1>4, <1>5, <2>1, Posts
<1>8. PICK x \in ThreadState : /\ th' = [th EXCEPT ![t] = x]
                               /\ x.pc = "future" /\ x.o = th[t].o /\ x.k = th[t].k /\ x.res = th[t].res
  <2> DEFINE pc == "future"
  <2>1. pc \in WorkerPcs \union MainPcs /\ Go(t, pc)
    BY <1>4 DEF WorkerPcs, MainPcs, FreePcs
  <2> HIDE DEF pc
  <2>2. \E x \in ThreadState : /\ th' = [th EXCEPT ![t] = x]
                               /\ x.pc = pc /\ x.o = th[t].o /\ x.k = th[t].k /\ x.res = th[t].res
    BY <1>1, <2>1, Goes
  <2> QED BY <2>2 DEF pc
<1>9. ThreadOK(c', t, x)
  <2>1. RoleOK(t, x)
    BY <1>2, <1>8, CApiAssumption DEF RoleOK, WorkerPcs
  <2>2. WaitOK(c', t, x)
    <3>1. \A type \in {"fn", "cleanup", "close"} : Due(c, Await(type, t)) = 0
      BY <1>1, AwaitsNothing
    <3>2. Await("fn", t) = Key(task) /\ Await("cleanup", t) # Key(task) /\ Await("close", t) # Key(task)
      <4>1. "cleanup" # "fn" /\ "close" # "fn"
        OBVIOUS
      <4> HIDE DEF task
      <4> QED BY <1>5, <4>1, KeysDiffer
    <3> HIDE DEF task
    <3>3. Due(c', Await("fn", t)) = 1 /\ Due(c', Await("cleanup", t)) = 0 /\ Due(c', Await("close", t)) = 0
      BY <1>7, <3>1, <3>2
    <3> QED BY <1>2, <1>8, <3>3 DEF WaitOK
  <2>3. PhaseOK(c', t, x)
    BY <1>2, <1>7, <1>8 DEF PhaseOK, FreePcs
  <2> QED BY <2>1, <2>2, <2>3 DEF ThreadOK
<1>10. MayGo(t, x)
  <2>1. \A u \in Threads \ {t} : th[u].pc \notin FreePcs
    BY <1>1, NobodyElseFrees DEF Blocked
  <2> QED BY <1>1, <1>8, <2>1 DEF MayGo, Initiate, Draws, FreePcs
<1> HIDE DEF task
<1> QED BY <1>1, <1>2, <1>3, <1>4, <1>5, <1>6, <1>8, <1>9, <1>10, PostMoves

\* A blocking call returns; an accepted connection gets its handle.
LEMMA WaitStep ==
  ASSUME ApiInvariant, NEW t \in Threads, wait_completion(t)
  PROVE  ApiInvariant'
<1>1. /\ c \in Core /\ ThreadsOK /\ th[t].pc = "wait" /\ th[t].res # "none" /\ io' = io
      /\ RoleOK(t, th[t]) /\ PhaseOK(c, t, th[t]) /\ th[t] \in ThreadState
  BY ThreadFacts DEF ApiInvariant, CoreOK, wait_completion, At
<1>2. t \in Workers /\ t # main /\ th[t].o \in Objs /\ c.threads # "none"
  BY <1>1, CApiAssumption DEF RoleOK, MainPcs, FreePcs, Threads, ThreadState, PhaseOK
<1>3. LeftOK'
  <2>1. left' = left
    BY DEF wait_completion
  <2> QED BY <2>1, LeftSpent DEF ApiInvariant
<1>4. th' = [th EXCEPT ![t] = Idle]
  BY DEF wait_completion, Return
<1>5. \A type \in {"fn", "cleanup", "close"} : Due(c, Await(type, t)) = 0
  BY <1>1, AwaitsNothing
<1>6. MayGo(t, Idle)
  BY <1>1 DEF MayGo, Idle, Initiate, Draws, FreePcs, Blocked
<1>7. CASE ~(th[t].k = "accept" /\ th[t].res = "ok")
  <2>1. c' = c
    BY <1>7 DEF wait_completion
  <2>2. ThreadOK(c, t, Idle) /\ Idle \in ThreadState
    BY <1>2, <1>5, Comes
  <2> QED BY <1>1, <1>3, <1>4, <1>6, <2>1, <2>2, OnlyMoves
<1>8. CASE th[t].k = "accept" /\ th[t].res = "ok"
  <2> DEFINE o == th[t].o
             h == [c.obj[o] EXCEPT !.held = TRUE]
  <2>1. c' = WithHandle(c, o, h)
    <3>1. c' = [c EXCEPT !.obj[o].held = TRUE]
      BY <1>8 DEF wait_completion
    <3> QED BY <1>1, <1>2, <3>1 DEF WithHandle, Core
  <2>2. Grants(o, h) /\ h.pend = c.obj[o].pend
    <3>1. c.obj[o] \in Handles
      BY <1>1, <1>2 DEF Core
    <3>2. h \in Handles /\ h.st = c.obj[o].st /\ h.held /\ h.aio = c.obj[o].aio /\ h.pend = c.obj[o].pend
      BY <3>1 DEF Handles
    <3> HIDE DEF h
    <3> QED BY <2>1, <3>2 DEF Grants
  <2> HIDE DEF h
  <2>3. /\ CoreOK(c') /\ IoOK(c', io)
        /\ c'.closed = c.closed /\ c'.active = c.active /\ c'.accepting = c.accepting
        /\ c'.threads = c.threads
        /\ c'.obj[o] = h /\ \A p \in Objs : p # o => c'.obj[p] = c.obj[p]
        /\ \A p \in Objs : c'.obj[p].aio = c.obj[p].aio
        /\ \A f : Due(c', f) = Due(c, f) /\ Due(c, f) \in Nat
        /\ \A u \in Threads : ThreadOK(c', u, th[u])
    <3> HIDE DEF o
    <3>1. o \in Objs
      BY <1>2 DEF o
    <3> QED BY <1>2, <2>2, <3>1, GrantKeeps
  <2>4. SameCounts
    <3>1. \A p \in Objs : c'.obj[p].pend = c.obj[p].pend
      BY <2>2, <2>3
    <3> QED BY <2>3, <3>1 DEF SameCounts
  <2>5. ThreadOK(c', t, Idle) /\ Idle \in ThreadState
    <3>1. \A type \in {"fn", "cleanup", "close"} : Due(c', Await(type, t)) = 0
      BY <1>5, <2>3
    <3> QED BY <1>2, <3>1, Comes
  <2> QED BY <1>1, <1>3, <1>4, <1>6, <2>3, <2>4, <2>5, ThreadMoves
<1> QED BY <1>7, <1>8

\* What is kept when a thread that neither initiates nor drains moves, whatever
\* is asked for or armed.
LEMMA OtherMoves ==
  ASSUME ApiInvariant, NEW t \in Threads, NEW x \in ThreadState, th' = [th EXCEPT ![t] = x], io' = io,
         th[t].pc \notin Initiate \union Draws \union FreePcs, x.pc \notin Initiate \union FreePcs,
         th[t].pc \notin Blocked, c'.closed => c.closed, c'.active = c.active,
         ThreadOK(c', t, x), \A u \in Threads \ {t} : ThreadOK(c', u, th[u])
  PROVE  ThreadsOK' /\ Alone' /\ ActiveCounts' /\ Drained'
<1>1. ThreadsOK /\ Alone /\ ActiveCounts /\ Drained
  BY DEF ApiInvariant
<1>2. ThreadsOK'
  BY <1>1, StayRight
<1>3. Alone'
  <2>1. \A u \in Threads \ {t} : th[u].pc \notin FreePcs
    BY NobodyElseFrees
  <2>2. x.pc \notin FreePcs
    OBVIOUS
  <2> QED BY <1>1, <2>1, <2>2, StaysAlone
<1>4. Initiating' = Initiating
  <2>1. x.pc \in Initiate <=> th[t].pc \in Initiate
    OBVIOUS
  <2> QED BY <1>1, <2>1, InitiatingMoves
<1>5. Drained'
  <2>1. th[t].pc \notin Draws
    OBVIOUS
  <2> QED BY <1>1, <1>4, <2>1, StaysDrained
<1> QED BY <1>1, <1>2, <1>3, <1>4, <1>5 DEF ActiveCounts

\* A read or write with a callback is on its way; its flag stays set.
LEMMA AskStep ==
  ASSUME ApiInvariant, NEW t \in Threads, ask(t)
  PROVE  ApiInvariant'
<1> DEFINE o == th[t].o
           k == th[t].k
           op == Op(o, k, none)
           task == [type |-> "op", op |-> op, gen |-> c.gen]
<1>1. /\ c \in Core /\ ThreadsOK /\ th[t].pc = "ask" /\ io' = io
      /\ RoleOK(t, th[t]) /\ PhaseOK(c, t, th[t]) /\ th[t] \in ThreadState
  BY ThreadFacts DEF ApiInvariant, CoreOK, ask, At
<1>2. t \in Workers /\ t # main /\ k \in {"recv", "send"} /\ o \in Objs /\ c.threads = "run" /\ c.obj[o].aio
  <2>1. c.threads = "run"
    BY <1>1, NeedsThreads
  <2> QED BY <1>1, <2>1, CApiAssumption DEF RoleOK, MainPcs, FreePcs, Threads, ThreadState, PhaseOK
<1>3. LeftOK'
  <2>1. left' = left
    BY DEF ask
  <2> QED BY <2>1, LeftSpent DEF ApiInvariant
<1>4. c' = Post(c, task) /\ th' = [th EXCEPT ![t] = Idle]
  BY DEF ask, Return
<1>5. op \in Ops /\ task \in Tasks /\ Key(task) = op
  <2>1. op \in Ops
    BY <1>2, KeysTyped DEF Kinds
  <2>2. c.gen \in Nat
    BY <1>1 DEF Core
  <2> HIDE DEF op
  <2> QED BY <2>1, <2>2 DEF Tasks, Key, OpTypes
<1> HIDE DEF task
<1>6. \A p \in Objs, j \in {"recv", "send"} : Key(task) = Op(p, j, none) => c.obj[p].aio
  <2>1. \A p, j : Op(p, j, none) = Key(task) => p = o
    BY <1>5, KeysDiffer
  <2> HIDE DEF o, k
  <2> QED BY <1>2, <2>1
<1>7. /\ CoreOK(c') /\ IoOK(c', io)
      /\ c'.closed = c.closed /\ c'.active = c.active /\ c'.accepting = c.accepting
      /\ c'.threads = c.threads
      /\ \A p \in Objs : c'.obj[p].pend = c.obj[p].pend
      /\ \A f : Due(c', f) \in Nat /\ Due(c, f) \in Nat
      /\ \A f : Due(c', f) = Due(c, f) + (IF f = Key(task) THEN 1 ELSE 0)
  BY <1>2, <1>4, <1>5, <1>6, Posts
<1>8. \A u \in Threads : ThreadOK(c', u, th[u])
  <2>1. SUFFICES ASSUME NEW u \in Threads PROVE ThreadOK(c', u, th[u])
    OBVIOUS
  <2>2. u # none
    BY CApiAssumption DEF Threads
  <2>3. (\A p, j : Key(task) # Op(p, j, u)) /\ \A type : Key(task) # Await(type, u)
    BY <1>5, <2>2, KeysDiffer
  <2> QED BY <1>2, <1>4, <1>5, <1>6, <2>3, PostKeeps
<1>9. ThreadOK(c', t, Idle) /\ Idle \in ThreadState
  <2>1. \A type \in {"fn", "cleanup", "close"} : Due(c', Await(type, t)) = 0
    <3>1. \A type \in {"fn", "cleanup", "close"} : Due(c, Await(type, t)) = 0
      BY <1>1, AwaitsNothing
    <3>2. \A type : Await(type, t) # Key(task)
      BY <1>5, KeysDiffer
    <3> QED BY <1>7, <3>1, <3>2
  <2> QED BY <1>2, <2>1, Comes
<1>10. Idle.pc = "idle"
  BY DEF Idle
<1>11. ThreadsOK' /\ Alone' /\ ActiveCounts' /\ Drained'
  <2>1. /\ th[t].pc \notin Initiate \union Draws \union FreePcs /\ Idle.pc \notin Initiate \union FreePcs
        /\ th[t].pc \notin Blocked
    BY <1>1, <1>10 DEF Initiate, Draws, FreePcs, Blocked
  <2> QED BY <1>1, <1>4, <1>7, <1>8, <1>9, <2>1, OtherMoves
<1>12. PendingDue'
  <2>1. SUFFICES ASSUME NEW p \in Objs, NEW j \in {"recv", "send"}, Single(p, j)
                 PROVE  Due(c', Op(p, j, none)) + Cardinality(Asking(p, j)')
                          = IF j \in c'.obj[p].pend THEN 1 ELSE 0
    BY DEF PendingDue, Single
  <2>2. Due(c, Op(p, j, none)) + Cardinality(Asking(p, j)) = IF j \in c.obj[p].pend THEN 1 ELSE 0
    BY <2>1 DEF ApiInvariant, PendingDue
  <2>3. /\ t \in Asking(p, j) <=> p = o /\ j = k
        /\ Asking(p, j)' = Asking(p, j) \ {t}
    <3>1. Idle.pc # "ask" /\ th[t].pc = "ask" /\ Idle \in ThreadState /\ ThreadsOK
      BY <1>1, <1>9, <1>10
    <3> QED BY <1>4, <3>1, AskingMoves
  <2>4. /\ Due(c', Op(p, j, none)) \in Nat /\ Due(c, Op(p, j, none)) \in Nat
        /\ Due(c', Op(p, j, none)) = Due(c, Op(p, j, none)) + (IF Op(p, j, none) = Key(task) THEN 1 ELSE 0)
    BY <1>7
  <2>5. Op(p, j, none) = Key(task) <=> p = o /\ j = k
    BY <1>5, KeysDiffer
  <2>6. Cardinality(Asking(p, j)) \in Nat
    BY AskingCounts
  <2>7. CASE p = o /\ j = k
    <3>1. Cardinality(Asking(p, j)') = Cardinality(Asking(p, j)) - 1
      BY <2>3, <2>7, AskingCounts
    <3>2. Due(c', Op(p, j, none)) = Due(c, Op(p, j, none)) + 1
      BY <2>4, <2>5, <2>7
    <3> HIDE DEF o, k
    <3> QED BY <1>7, <2>2, <2>4, <2>6, <3>1, <3>2
  <2>8. CASE ~(p = o /\ j = k)
    <3>1. Asking(p, j)' = Asking(p, j)
      BY <2>3, <2>8
    <3>2. Due(c', Op(p, j, none)) = Due(c, Op(p, j, none))
      BY <2>4, <2>5, <2>8
    <3> HIDE DEF o, k
    <3> QED BY <1>7, <2>2, <3>1, <3>2
  <2> QED BY <2>7, <2>8
<1>13. AcceptDue'
  <2>1. th'[main] = th[main]
    <3>1. main \in Threads
      BY DEF Threads
    <3> QED BY <1>1, <1>2, <1>4, <1>9, <3>1, OneMoves
  <2>2. \A p \in Objs : MainArms(p)' = MainArms(p) /\ IoArms(p)' = IoArms(p)
    BY <1>1, <2>1 DEF MainArms, IoArms
  <2>3. \A p \in Objs : Due(c', Op(p, "accept", none)) = Due(c, Op(p, "accept", none)) /\ Due(c', Arm(p)) = Due(c, Arm(p))
    <3>1. k # "accept"
      BY <1>2
    <3>2. \A p \in Objs : Op(p, "accept", none) # Key(task) /\ Arm(p) # Key(task)
      BY <1>5, <3>1, KeysDiffer
    <3> QED BY <1>7, <3>2
  <2> QED BY <1>7, <2>2, <2>3 DEF ApiInvariant, AcceptDue
<1> QED BY <1>1, <1>3, <1>7, <1>11, <1>12, <1>13 DEF ApiInvariant

\* It could not be initiated: the flag is taken back.
LEMMA AskThrowsStep ==
  ASSUME ApiInvariant, NEW t \in Threads, ask_throws(t)
  PROVE  ApiInvariant'
<1> DEFINE o == th[t].o
           k == th[t].k
           h == [c.obj[o] EXCEPT !.pend = @ \ {k}]
<1>1. /\ c \in Core /\ ThreadsOK /\ th[t].pc = "ask" /\ io' = io
      /\ RoleOK(t, th[t]) /\ PhaseOK(c, t, th[t]) /\ th[t] \in ThreadState
  BY ThreadFacts DEF ApiInvariant, CoreOK, ask_throws, At
<1>2. t \in Workers /\ t # main /\ k \in {"recv", "send"} /\ o \in Objs /\ c.threads = "run"
  <2>1. c.threads = "run"
    BY <1>1, NeedsThreads
  <2> QED BY <1>1, <2>1, CApiAssumption DEF RoleOK, MainPcs, FreePcs, Threads, ThreadState, PhaseOK
<1>3. LeftOK'
  <2>1. left' = [left EXCEPT !.faults = @ - 1]
    BY DEF ask_throws
  <2> QED BY <2>1, LeftSpent DEF ApiInvariant
<1>4. th' = [th EXCEPT ![t] = Idle]
  BY DEF ask_throws, Return
<1>5. Grants(o, h) /\ h.pend = c.obj[o].pend \ {k}
  <2>1. c.obj[o] \in Handles
    BY <1>1, <1>2 DEF Core
  <2>2. c' = WithHandle(c, o, h)
    <3>1. c' = [c EXCEPT !.obj[o].pend = @ \ {k}]
      BY DEF ask_throws
    <3> QED BY <1>1, <1>2, <3>1 DEF WithHandle, Core
  <2>3. h \in Handles /\ h.st = c.obj[o].st /\ h.held = c.obj[o].held /\ h.aio = c.obj[o].aio /\ h.pend = c.obj[o].pend \ {k}
    BY <2>1 DEF Handles
  <2> HIDE DEF h
  <2> QED BY <2>2, <2>3 DEF Grants
<1> HIDE DEF h, o, k
<1>6. /\ CoreOK(c') /\ IoOK(c', io)
      /\ c'.closed = c.closed /\ c'.active = c.active /\ c'.accepting = c.accepting
      /\ c'.threads = c.threads
      /\ c'.obj[o] = h /\ \A p \in Objs : p # o => c'.obj[p] = c.obj[p]
      /\ \A p \in Objs : c'.obj[p].aio = c.obj[p].aio
      /\ \A f : Due(c', f) = Due(c, f) /\ Due(c, f) \in Nat
      /\ \A u \in Threads : ThreadOK(c', u, th[u])
  <2>1. c.threads # "none" /\ o \in Objs /\ Grants(o, h)
    BY <1>2, <1>5
  <2> QED BY <2>1, GrantKeeps
<1>7. ThreadOK(c', t, Idle) /\ Idle \in ThreadState
  <2>1. \A type \in {"fn", "cleanup", "close"} : Due(c', Await(type, t)) = 0
    <3>1. \A type \in {"fn", "cleanup", "close"} : Due(c, Await(type, t)) = 0
      BY <1>1, AwaitsNothing
    <3> QED BY <1>6, <3>1
  <2> QED BY <1>2, <2>1, Comes
<1>8. Idle.pc = "idle"
  BY DEF Idle
<1>9. ThreadsOK' /\ Alone' /\ ActiveCounts' /\ Drained'
  <2>1. /\ th[t].pc \notin Initiate \union Draws \union FreePcs /\ Idle.pc \notin Initiate \union FreePcs
        /\ th[t].pc \notin Blocked
    BY <1>1, <1>8 DEF Initiate, Draws, FreePcs, Blocked
  <2> QED BY <1>1, <1>4, <1>6, <1>7, <2>1, OtherMoves
<1>10. PendingDue'
  <2>1. SUFFICES ASSUME NEW p \in Objs, NEW j \in {"recv", "send"}, Single(p, j)
                 PROVE  Due(c', Op(p, j, none)) + Cardinality(Asking(p, j)')
                          = IF j \in c'.obj[p].pend THEN 1 ELSE 0
    BY DEF PendingDue, Single
  <2>2. Due(c, Op(p, j, none)) + Cardinality(Asking(p, j)) = IF j \in c.obj[p].pend THEN 1 ELSE 0
    BY <2>1 DEF ApiInvariant, PendingDue
  <2>3. /\ t \in Asking(p, j) <=> p = o /\ j = k
        /\ Asking(p, j)' = Asking(p, j) \ {t}
    <3>1. Idle.pc # "ask" /\ th[t].pc = "ask" /\ Idle \in ThreadState /\ ThreadsOK
      BY <1>1, <1>7, <1>8
    <3> QED BY <1>4, <3>1, AskingMoves DEF o, k
  <2>4. Due(c', Op(p, j, none)) = Due(c, Op(p, j, none)) /\ Due(c, Op(p, j, none)) \in Nat
    BY <1>6
  <2>5. Cardinality(Asking(p, j)) \in Nat
    BY AskingCounts
  <2>6. CASE p = o /\ j = k
    <3>1. Cardinality(Asking(p, j)') = Cardinality(Asking(p, j)) - 1 /\ Cardinality(Asking(p, j)) > 0
      <4>1. t \in Asking(p, j) /\ IsFiniteSet(Asking(p, j))
        BY <2>3, <2>6, AskingCounts
      <4>2. Cardinality(Asking(p, j)) # 0
        BY <4>1, FS_EmptySet
      <4> QED BY <2>3, <2>5, <4>1, <4>2, AskingCounts
    <3>2. j \notin c'.obj[p].pend
      BY <1>5, <1>6, <2>6
    <3> QED BY <2>2, <2>4, <2>5, <3>1, <3>2
  <2>7. CASE ~(p = o /\ j = k)
    <3>1. Asking(p, j)' = Asking(p, j)
      BY <2>3, <2>7
    <3>2. j \in c'.obj[p].pend <=> j \in c.obj[p].pend
      BY <1>5, <1>6, <2>7
    <3> QED BY <2>2, <2>4, <3>1, <3>2
  <2> QED BY <2>6, <2>7
<1>11. AcceptDue'
  <2>1. th'[main] = th[main]
    <3>1. main \in Threads
      BY DEF Threads
    <3> QED BY <1>1, <1>2, <1>4, <1>7, <3>1, OneMoves
  <2>2. \A p \in Objs : MainArms(p)' = MainArms(p) /\ IoArms(p)' = IoArms(p)
    BY <1>1, <2>1 DEF MainArms, IoArms
  <2>3. \A p \in Objs : Due(c', Op(p, "accept", none)) = Due(c, Op(p, "accept", none)) /\ Due(c', Arm(p)) = Due(c, Arm(p))
    BY <1>6
  <2>4. c'.accepting = c.accepting /\ AcceptDue
    BY <1>6 DEF ApiInvariant
  <2> QED BY <2>2, <2>3, <2>4 DEF AcceptDue
<1> QED BY <1>1, <1>3, <1>6, <1>9, <1>10, <1>11 DEF ApiInvariant

\* post(): cancelling the accepts of a paused listener waits for its task.
LEMMA PostCancelStep ==
  ASSUME ApiInvariant, NEW t \in Threads, post_cancel(t)
  PROVE  ApiInvariant'
<1> DEFINE o == th[t].o
           task == [type |-> "cancel", o |-> o]
<1>1. /\ c \in Core /\ ThreadsOK /\ th[t].pc = "cancel" /\ io' = io
      /\ RoleOK(t, th[t]) /\ th[t] \in ThreadState
  BY ThreadFacts DEF ApiInvariant, CoreOK, post_cancel, At
<1>2. c.threads = "run" /\ o \in Objs
  <2>1. c.threads = "run"
    BY <1>1, NeedsThreads
  <2> QED BY <1>1, <2>1 DEF ThreadState
<1>3. LeftOK'
  <2>1. left' = left
    BY DEF post_cancel
  <2> QED BY <2>1, LeftSpent DEF ApiInvariant
<1>4. c' = Post(c, task) /\ th' = [th EXCEPT ![t] = Idle]
  BY DEF post_cancel, Return
<1> HIDE DEF o
<1>5. task \in Tasks /\ task = [type |-> "cancel", o |-> o] /\ Key(task) = task
  BY <1>2 DEF Tasks, Key, OpTypes
<1>6. task.type = "cancel" /\ DOMAIN task = {"type", "o"}
  OBVIOUS
<1> HIDE DEF task
<1>7. Concerns(task, t)
  <2>1. \A p, k, u : task # Op(p, k, u)
    BY <1>6 DEF Op
  <2>2. \A type, u : task # Await(type, u)
    BY <1>6 DEF Await
  <2>3. \A p : task # Arm(p)
    BY <1>6 DEF Arm
  <2> QED BY <1>5, <2>1, <2>2, <2>3 DEF Concerns
<1>8. /\ c'.threads = c.threads
      /\ \A f : Due(c', f) \in Nat /\ Due(c, f) \in Nat
      /\ \A f : Due(c', f) = Due(c, f) + (IF f = Key(task) THEN 1 ELSE 0)
  <2>1. \A p \in Objs, j \in {"recv", "send"} : Key(task) # Op(p, j, none)
    BY <1>5, <1>6 DEF Op
  <2> QED BY <1>2, <1>4, <1>5, <2>1, Posts
<1>9. ThreadOK(c', t, Idle) /\ Idle \in ThreadState
  <2>1. \A type \in {"fn", "cleanup", "close"} : Due(c', Await(type, t)) = 0
    <3>1. \A type \in {"fn", "cleanup", "close"} : Due(c, Await(type, t)) = 0
      BY <1>1, AwaitsNothing
    <3>2. \A type : Await(type, t) # Key(task)
      BY <1>5, <1>6 DEF Await
    <3> QED BY <1>8, <3>1, <3>2
  <2> QED BY <1>2, <1>8, <2>1, Comes
<1>10. MayGo(t, Idle)
  <2>1. Idle.pc = "idle"
    BY DEF Idle
  <2> QED BY <1>1, <2>1 DEF MayGo, Initiate, Draws, FreePcs, Blocked
<1> QED BY <1>1, <1>2, <1>3, <1>4, <1>5, <1>7, <1>9, <1>10, PostMoves

\* A callback accept is armed, unless the engine was closed meanwhile.
LEMMA ArmStep ==
  ASSUME ApiInvariant, NEW t \in Threads, NEW o \in Objs, th[t].pc = "arm", th[t].o = o,
         c' = arm_accept(c, o), th' = [th EXCEPT ![t] = Idle], io' = io, left' = left
  PROVE  ApiInvariant'
<1>1. /\ c \in Core /\ ThreadsOK /\ RoleOK(t, th[t]) /\ th[t] \in ThreadState
      /\ CoreOK(c) /\ IoOK(c, io)
  BY ThreadFacts DEF ApiInvariant, CoreOK
<1>2. t = main /\ c.threads = "run"
  <2>1. c.threads = "run"
    BY NeedsThreads
  <2> QED BY <1>1, <2>1 DEF RoleOK, WorkerPcs, FreePcs, Threads
<1>3. LeftOK'
  BY LeftSpent DEF ApiInvariant
<1>4. /\ CoreOK(c') /\ IoOK(c', io)
      /\ c'.closed = c.closed /\ c'.active = c.active /\ c'.accepting = c.accepting
      /\ c'.threads = c.threads
      /\ \A p \in Objs : c'.obj[p].pend = c.obj[p].pend
      /\ \A f : Due(c', f) \in Nat /\ Due(c, f) \in Nat
      /\ \A f : f # Arm(o) => Due(c', f) = Due(c, f)
      /\ Due(c', Arm(o)) <= Due(c, Arm(o)) + 1
      /\ \A u \in Threads : ThreadOK(c', u, th[u])
  <2>1. CASE c.closed
    <3>1. c' = c
      BY <2>1 DEF arm_accept
    <3>2. \A f : Due(c, f) \in Nat
      BY <1>1, DueType
    <3>3. \A u \in Threads : ThreadOK(c, u, th[u])
      BY <1>1 DEF ThreadsOK
    <3> QED BY <1>1, <3>1, <3>2, <3>3
  <2>2. CASE ~c.closed
    <3> DEFINE task == Arm(o)
    <3>1. c' = Post(c, task) /\ task \in Tasks /\ Key(task) = task
      BY <2>2, KeysTyped DEF arm_accept, Arm
    <3>2. /\ \A p, k, u : Key(task) # Op(p, k, u)
          /\ \A type, u : Key(task) # Await(type, u)
      BY <3>1, KeysDiffer
    <3> HIDE DEF task
    <3>3. /\ CoreOK(c') /\ IoOK(c', io)
          /\ c'.closed = c.closed /\ c'.active = c.active /\ c'.accepting = c.accepting
          /\ c'.threads = c.threads
          /\ \A p \in Objs : c'.obj[p].pend = c.obj[p].pend
          /\ \A f : Due(c', f) \in Nat /\ Due(c, f) \in Nat
          /\ \A f : Due(c', f) = Due(c, f) + (IF f = Key(task) THEN 1 ELSE 0)
      BY <1>2, <3>1, <3>2, Posts
    <3>4. \A u \in Threads : ThreadOK(c', u, th[u])
      BY <1>2, <3>1, <3>2, PostKeeps
    <3>5. Key(task) = Arm(o)
      BY <3>1 DEF task
    <3> QED BY <3>3, <3>4, <3>5
  <2> QED BY <2>1, <2>2
<1>5. ThreadOK(c', t, Idle) /\ Idle \in ThreadState
  <2>1. \A type \in {"fn", "cleanup", "close"} : Due(c', Await(type, t)) = 0
    <3>1. \A type \in {"fn", "cleanup", "close"} : Due(c, Await(type, t)) = 0
      BY AwaitsNothing
    <3>2. \A type : Await(type, t) # Arm(o)
      BY KeysDiffer
    <3> QED BY <1>4, <3>1, <3>2
  <2> QED BY <1>2, <1>4, <2>1, Comes
<1>6. Idle.pc = "idle"
  BY DEF Idle
<1>7. ThreadsOK' /\ Alone' /\ ActiveCounts' /\ Drained'
  <2>1. /\ th[t].pc \notin Initiate \union Draws \union FreePcs /\ Idle.pc \notin Initiate \union FreePcs
        /\ th[t].pc \notin Blocked
    BY <1>6 DEF Initiate, Draws, FreePcs, Blocked
  <2> QED BY <1>4, <1>5, <2>1, OtherMoves
<1>8. PendingDue'
  <2>1. SUFFICES ASSUME NEW p \in Objs, NEW j \in {"recv", "send"}, Single(p, j)
                 PROVE  Due(c', Op(p, j, none)) + Cardinality(Asking(p, j)')
                          = IF j \in c'.obj[p].pend THEN 1 ELSE 0
    BY DEF PendingDue, Single
  <2>2. Due(c, Op(p, j, none)) + Cardinality(Asking(p, j)) = IF j \in c.obj[p].pend THEN 1 ELSE 0
    BY <2>1 DEF ApiInvariant, PendingDue
  <2>3. Asking(p, j)' = Asking(p, j)
    <3>1. Idle.pc # "ask" /\ th[t].pc # "ask"
      BY <1>6
    <3> QED BY <1>1, <1>5, <3>1, AskingMoves
  <2>4. Due(c', Op(p, j, none)) = Due(c, Op(p, j, none))
    BY <1>4, KeysDiffer
  <2> QED BY <1>4, <2>2, <2>3, <2>4
<1>9. AcceptDue'
  <2>1. SUFFICES ASSUME NEW p \in Objs
                 PROVE  Due(c', Op(p, "accept", none)) + Due(c', Arm(p)) + MainArms(p)' + IoArms(p)'
                          <= IF c'.accepting[p] THEN 1 ELSE 0
    BY DEF AcceptDue
  <2>2. Due(c, Op(p, "accept", none)) + Due(c, Arm(p)) + MainArms(p) + IoArms(p)
          <= IF c.accepting[p] THEN 1 ELSE 0
    BY DEF ApiInvariant, AcceptDue
  <2>3. th'[main].pc = "idle"
    BY <1>1, <1>2, <1>5, <1>6, OneMoves
  <2>4. MainArms(p)' = 0 /\ IoArms(p)' = IoArms(p) /\ IoArms(p) \in Nat
    BY <2>3 DEF MainArms, IoArms
  <2>5. MainArms(p) = IF p = o THEN 1 ELSE 0
    BY <1>2 DEF MainArms
  <2>6. Due(c', Op(p, "accept", none)) = Due(c, Op(p, "accept", none))
    BY <1>4, KeysDiffer
  <2>7. Due(c', Arm(p)) <= Due(c, Arm(p)) + (IF p = o THEN 1 ELSE 0)
    <3>1. Due(c', Arm(p)) \in Nat /\ Due(c, Arm(p)) \in Nat
      BY <1>4
    <3>2. CASE p = o
      BY <1>4, <3>2
    <3>3. CASE p # o
      <4>1. Arm(p) # Arm(o)
        BY <3>3, KeysDiffer
      <4> QED BY <1>4, <3>1, <3>3, <4>1
    <3> QED BY <3>2, <3>3
  <2>8. /\ Due(c', Arm(p)) \in Nat /\ Due(c, Arm(p)) \in Nat /\ Due(c, Op(p, "accept", none)) \in Nat
        /\ c'.accepting = c.accepting
    BY <1>4
  <2> QED BY <2>2, <2>4, <2>5, <2>6, <2>7, <2>8
<1> QED BY <1>3, <1>4, <1>7, <1>8, <1>9 DEF ApiInvariant

\* An accept with a callback is registered, or the listening is paused.
LEMMA RegisterStep ==
  ASSUME ApiInvariant, NEW name, EngineCall(main, name), NEW o \in Objs, NEW on, register(main, o, on)
  PROVE  ApiInvariant'
<1> DEFINE t == main
           k == IF on THEN "resume" ELSE "pause"
           x == [pc |-> "register", o |-> o, k |-> k, res |-> "none"]
<1>1. th[t].pc = "idle" /\ c.handle = "ok" /\ t \in Threads
  BY DEF EngineCall, Call, At, Threads
<1>2. c' = c /\ io' = io /\ LeftOK'
  <2>1. left' = [left EXCEPT !.n = @ - 1]
    BY DEF EngineCall, Call
  <2>2. LeftOK'
    BY <2>1, LeftSpent DEF ApiInvariant
  <2> QED BY <2>2 DEF EngineCall, Call, register
<1>3. CASE c.closed
  <2>1. th' = th
    BY <1>3 DEF register
  <2> QED BY <1>2, <2>1, NothingMoves
<1>4. CASE ~c.closed
  <2>1. th' = [th EXCEPT ![t] = x]
    BY <1>4 DEF register
  <2>2. c.threads = "run"
    BY <1>4 DEF ApiInvariant, CoreOK, Core
  <2>3. x \in ThreadState /\ x.pc = "register"
    <3>1. k \in ThreadKinds
      BY DEF ThreadKinds
    <3> HIDE DEF k
    <3> QED BY <3>1 DEF ThreadState, MainPcs
  <2> HIDE DEF x
  <2>4. WaitOK(c, t, x)
    <3>1. \A type \in {"fn", "cleanup", "close"} : Due(c, Await(type, t)) = 0
      BY <1>1, AwaitsNothing
    <3>2. x.pc \notin {"end", "wait"}
      BY <2>3
    <3> QED BY <3>1, <3>2, WaitsForNothing
  <2>5. ThreadOK(c, t, x)
    <3>1. RoleOK(t, x)
      BY <2>3, CApiAssumption DEF RoleOK, MainPcs
    <3>2. PhaseOK(c, t, x)
      BY <2>2, <2>3 DEF PhaseOK, FreePcs
    <3> QED BY <2>4, <3>1, <3>2 DEF ThreadOK
  <2>6. MayGo(t, x)
    <3>1. \A u \in Threads : th[u].pc \notin FreePcs
      BY <1>1, NobodyFrees
    <3> QED BY <1>1, <2>3, <3>1 DEF MayGo, Initiate, Draws, FreePcs, Blocked
  <2> QED BY <1>1, <1>2, <2>1, <2>3, <2>5, <2>6, OnlyMoves
<1> QED BY <1>3, <1>4

\* Under aio_mu: the flag of the accept goes up with the one that arms it.
LEMMA SetCbStep ==
  ASSUME ApiInvariant, NEW t \in Threads, set_cb(t)
  PROVE  ApiInvariant'
<1> DEFINE o == th[t].o
           on == th[t].k = "resume"
<1>1. /\ c \in Core /\ CoreOK(c) /\ ThreadsOK /\ th[t].pc = "register" /\ io' = io
      /\ RoleOK(t, th[t]) /\ PhaseOK(c, t, th[t]) /\ th[t] \in ThreadState
  BY ThreadFacts DEF ApiInvariant, CoreOK, set_cb, At
<1>2. t = main /\ o \in Objs /\ c.threads = "run"
  <2>1. c.threads = "run"
    BY <1>1, NeedsThreads
  <2> QED BY <1>1, <2>1 DEF RoleOK, WorkerPcs, FreePcs, Threads, ThreadState
<1>3. LeftOK'
  <2>1. left' = left
    BY DEF set_cb
  <2> QED BY <2>1, LeftSpent DEF ApiInvariant
<1>4. /\ c' = [c EXCEPT !.cb[o] = on, !.accepting[o] = @ \/ on]
      /\ \/ on /\ ~c.accepting[o] /\ Go(t, "arm")
         \/ ~on /\ c.accepting[o] /\ Go(t, "cancel")
         \/ ~(on /\ ~c.accepting[o]) /\ Return(t)
  BY DEF set_cb
<1>5. on \in BOOLEAN
  OBVIOUS
<1> HIDE DEF o, on
<1>6. /\ c' \in Core /\ SameBut(c, c') /\ c'.active = c.active /\ c'.closed = c.closed
      /\ c'.gone = c.gone /\ c'.handle = c.handle
      /\ c'.accepting = [c.accepting EXCEPT ![o] = @ \/ on]
  BY <1>1, <1>2, <1>4, <1>5 DEF Core, SameBut
<1>7. \A p \in Objs : c'.accepting[p] = (c.accepting[p] \/ (on /\ p = o))
  <2>1. c.accepting \in [Objs -> BOOLEAN]
    BY <1>1 DEF Core
  <2> QED BY <1>2, <1>5, <1>6, <2>1
<1>8. /\ CoreOK(c') /\ IoOK(c', io)
      /\ \A f : Due(c', f) = Due(c, f) /\ Due(c, f) \in Nat
      /\ \A u \in Threads :
           (th[u].pc \in FreePcs => c'.handle = c.handle /\ (c.closed => c'.closed)) => ThreadOK(c', u, th[u])
  <2>1. (c.gone => c'.gone) /\ (c'.gone <=> c'.handle # "ok") /\ (c.threads = "gone" => c'.handle = "freed")
    BY <1>1, <1>6 DEF CoreOK
  <2> QED BY <1>2, <1>6, <2>1, FlagsChange
<1>9. \A u \in Threads : ThreadOK(c', u, th[u])
  BY <1>6, <1>8
<1>10. \A type \in {"fn", "cleanup", "close"} : Due(c', Await(type, t)) = 0
  <2>1. \A type \in {"fn", "cleanup", "close"} : Due(c, Await(type, t)) = 0
    BY <1>1, AwaitsNothing
  <2> QED BY <1>8, <2>1
<1>11. \E x \in ThreadState :
         /\ th' = [th EXCEPT ![t] = x] /\ x.pc \in {"arm", "cancel", "idle"} /\ ThreadOK(c', t, x)
         /\ x.pc = "arm" => x.o = o /\ on /\ ~c.accepting[o]
  <2>1. ASSUME NEW x \in ThreadState, x.pc \in {"arm", "cancel"} PROVE ThreadOK(c', t, x)
    <3>1. RoleOK(t, x)
      BY <1>2, <2>1, CApiAssumption DEF RoleOK, MainPcs
    <3>2. WaitOK(c', t, x)
      <4>1. x.pc \notin {"end", "wait"}
        BY <2>1
      <4> QED BY <1>10, <4>1, WaitsForNothing
    <3>3. PhaseOK(c', t, x)
      BY <1>2, <1>6, <2>1 DEF PhaseOK, FreePcs, SameBut
    <3> QED BY <3>1, <3>2, <3>3 DEF ThreadOK
  <2>2. CASE on /\ ~c.accepting[o] /\ Go(t, "arm")
    <3>1. PICK x \in ThreadState : /\ th' = [th EXCEPT ![t] = x]
                                   /\ x.pc = "arm" /\ x.o = th[t].o /\ x.k = th[t].k /\ x.res = th[t].res
      <4> DEFINE pc == "arm"
      <4>1. pc \in WorkerPcs \union MainPcs /\ Go(t, pc)
        BY <2>2 DEF WorkerPcs, MainPcs, FreePcs
      <4> HIDE DEF pc
      <4>2. \E x \in ThreadState : /\ th' = [th EXCEPT ![t] = x]
                                   /\ x.pc = pc /\ x.o = th[t].o /\ x.k = th[t].k /\ x.res = th[t].res
        BY <1>1, <4>1, Goes
      <4> QED BY <4>2 DEF pc
    <3> QED BY <2>1, <2>2, <3>1 DEF o
  <2>3. CASE ~on /\ c.accepting[o] /\ Go(t, "cancel")
    <3>1. PICK x \in ThreadState : /\ th' = [th EXCEPT ![t] = x]
                                   /\ x.pc = "cancel" /\ x.o = th[t].o /\ x.k = th[t].k /\ x.res = th[t].res
      <4> DEFINE pc == "cancel"
      <4>1. pc \in WorkerPcs \union MainPcs /\ Go(t, pc)
        BY <2>3 DEF WorkerPcs, MainPcs, FreePcs
      <4> HIDE DEF pc
      <4>2. \E x \in ThreadState : /\ th' = [th EXCEPT ![t] = x]
                                   /\ x.pc = pc /\ x.o = th[t].o /\ x.k = th[t].k /\ x.res = th[t].res
        BY <1>1, <4>1, Goes
      <4> QED BY <4>2 DEF pc
    <3> QED BY <2>1, <3>1
  <2>4. CASE Return(t)
    <3>1. th' = [th EXCEPT ![t] = Idle] /\ Idle.pc = "idle"
      BY <2>4 DEF Return, Idle
    <3>2. ThreadOK(c', t, Idle) /\ Idle \in ThreadState
      <4>1. c'.threads = "run"
        BY <1>2, <1>6 DEF SameBut
      <4> QED BY <1>10, <4>1, Comes
    <3> QED BY <3>1, <3>2
  <2> QED BY <1>4, <2>2, <2>3, <2>4
<1>12. PICK x \in ThreadState :
         /\ th' = [th EXCEPT ![t] = x] /\ x.pc \in {"arm", "cancel", "idle"} /\ ThreadOK(c', t, x)
         /\ x.pc = "arm" => x.o = o /\ on /\ ~c.accepting[o]
  BY <1>11
<1>13. ThreadsOK' /\ Alone' /\ ActiveCounts' /\ Drained'
  <2>1. /\ th[t].pc \notin Initiate \union Draws \union FreePcs /\ x.pc \notin Initiate \union FreePcs
        /\ th[t].pc \notin Blocked
    BY <1>1, <1>12 DEF Initiate, Draws, FreePcs, Blocked
  <2> QED BY <1>1, <1>6, <1>9, <1>12, <2>1, OtherMoves
<1>14. PendingDue'
  <2>1. SUFFICES ASSUME NEW p \in Objs, NEW j \in {"recv", "send"}, Single(p, j)
                 PROVE  Due(c', Op(p, j, none)) + Cardinality(Asking(p, j)')
                          = IF j \in c'.obj[p].pend THEN 1 ELSE 0
    BY DEF PendingDue, Single
  <2>2. Due(c, Op(p, j, none)) + Cardinality(Asking(p, j)) = IF j \in c.obj[p].pend THEN 1 ELSE 0
    BY <2>1 DEF ApiInvariant, PendingDue
  <2>3. Asking(p, j)' = Asking(p, j)
    <3>1. x.pc # "ask" /\ th[t].pc # "ask" /\ th' = [th EXCEPT ![t] = x] /\ ThreadsOK
      BY <1>1, <1>12
    <3> QED BY <3>1, AskingMoves
  <2>4. Due(c', Op(p, j, none)) = Due(c, Op(p, j, none)) /\ c'.obj = c.obj
    BY <1>6, <1>8 DEF SameBut
  <2> QED BY <2>2, <2>3, <2>4
<1>15. AcceptDue'
  <2>1. SUFFICES ASSUME NEW p \in Objs
                 PROVE  Due(c', Op(p, "accept", none)) + Due(c', Arm(p)) + MainArms(p)' + IoArms(p)'
                          <= IF c'.accepting[p] THEN 1 ELSE 0
    BY DEF AcceptDue
  <2>2. Due(c, Op(p, "accept", none)) + Due(c, Arm(p)) + MainArms(p) + IoArms(p)
          <= IF c.accepting[p] THEN 1 ELSE 0
    BY DEF ApiInvariant, AcceptDue
  <2>3. th'[main] = x
    BY <1>1, <1>2, <1>12, OneMoves
  <2>4. MainArms(p) = 0 /\ IoArms(p)' = IoArms(p) /\ IoArms(p) \in Nat
    BY <1>1, <1>2 DEF MainArms, IoArms
  <2>5. /\ Due(c', Op(p, "accept", none)) = Due(c, Op(p, "accept", none)) /\ Due(c, Op(p, "accept", none)) \in Nat
        /\ Due(c', Arm(p)) = Due(c, Arm(p)) /\ Due(c, Arm(p)) \in Nat
    BY <1>8
  <2>6. CASE x.pc = "arm" /\ p = o
    <3>1. MainArms(p)' = 1
      BY <1>12, <2>3, <2>6 DEF MainArms
    <3>2. ~c.accepting[p] /\ c'.accepting[p]
      BY <1>7, <1>12, <2>6
    <3> QED BY <2>2, <2>4, <2>5, <3>1, <3>2
  <2>7. CASE ~(x.pc = "arm" /\ p = o)
    <3>1. MainArms(p)' = 0
      BY <1>12, <2>3, <2>7 DEF MainArms
    <3>2. c.accepting[p] => c'.accepting[p]
      BY <1>7
    <3> QED BY <2>2, <2>4, <2>5, <3>1, <3>2
  <2> QED BY <2>6, <2>7
<1> QED BY <1>1, <1>3, <1>8, <1>13, <1>14, <1>15 DEF ApiInvariant

-----------------------------------------------------------------------------
(***************************************************************************)
(* The engine's life: open, close_data, shutdown.                          *)
(***************************************************************************)
\* What is known of the thread that opens or closes the engine.
LEMMA MainIs ==
  ASSUME ApiInvariant, NEW t \in Threads, th[t].pc \in {"build", "threads", "opened", "drain", "close"}
  PROVE  t = main /\ c.threads # "gone" /\ \A u \in Threads \ {t} : th[u].pc \notin FreePcs
<1>1. RoleOK(t, th[t]) /\ PhaseOK(c, t, th[t])
  BY ThreadFacts DEF ApiInvariant
<1>2. t = main
  BY <1>1 DEF RoleOK, WorkerPcs, FreePcs, Threads
<1>3. c.threads # "gone"
  BY <1>1 DEF PhaseOK
<1>4. \A u \in Threads \ {t} : th[u].pc \notin FreePcs
  BY NobodyElseFrees DEF Blocked
<1> QED BY <1>2, <1>3, <1>4

\* A thread of main's own, that waits for nothing.
LEMMA MainAt ==
  ASSUME NEW v, NEW x \in ThreadState, x.pc \in {"build", "threads", "opened", "drain", "close"},
         \A type \in {"fn", "cleanup", "close"} : Due(v, Await(type, main)) = 0,
         v.threads # "gone",
         v.threads = "none" => x.pc \in {"build", "threads"} /\ (x.pc = "build" => v.gen = 0 /\ ~v.eng)
  PROVE  ThreadOK(v, main, x)
<1>1. RoleOK(main, x)
  BY CApiAssumption DEF RoleOK, MainPcs
<1>2. WaitOK(v, main, x)
  <2>1. x.pc \notin {"end", "wait"}
    OBVIOUS
  <2> QED BY <2>1, WaitsForNothing
<1>3. PhaseOK(v, main, x)
  BY DEF PhaseOK, FreePcs
<1> QED BY <1>1, <1>2, <1>3 DEF ThreadOK

\* main waits for the one task it posted.
LEMMA MainAwaits ==
  ASSUME NEW v, NEW x \in ThreadState, NEW type \in {"cleanup", "close"}, x.pc = "future",
         Due(v, Await("fn", main)) = 0,
         type = "cleanup" => Due(v, Await("cleanup", main)) = 1 /\ Due(v, Await("close", main)) = 0,
         type = "close" => Due(v, Await("cleanup", main)) = 0 /\ Due(v, Await("close", main)) = 1,
         v.threads = "run"
  PROVE  ThreadOK(v, main, x)
<1>1. RoleOK(main, x)
  BY CApiAssumption DEF RoleOK, MainPcs
<1>2. WaitOK(v, main, x)
  BY DEF WaitOK
<1>3. PhaseOK(v, main, x)
  BY DEF PhaseOK, FreePcs
<1> QED BY <1>1, <1>2, <1>3 DEF ThreadOK

\* The first open, or one that waits for the old engine to be cleaned up.
LEMMA OpenStep ==
  ASSUME ApiInvariant, engine_open(main)
  PROVE  ApiInvariant'
<1> DEFINE t == main
           type == "cleanup"
           task == [type |-> "cleanup", by |-> t]
<1>1. /\ c \in Core /\ CoreOK(c) /\ ThreadsOK /\ th[t].pc = "idle" /\ c.handle = "ok" /\ t \in Threads /\ io' = io
      /\ PhaseOK(c, t, th[t])
  <2>1. t \in Threads /\ ThreadsOK
    BY DEF Threads, ApiInvariant
  <2>2. PhaseOK(c, t, th[t])
    BY <2>1, ThreadFacts
  <2> QED BY <2>1, <2>2 DEF ApiInvariant, CoreOK, engine_open, EngineCall, Call, At
<1>2. LeftOK'
  <2>1. left' = [left EXCEPT !.n = @ - 1]
    BY DEF engine_open, EngineCall, Call
  <2> QED BY <2>1, LeftSpent DEF ApiInvariant
<1>3. /\ \A f \in {"fn", "cleanup", "close"} : Due(c, Await(f, t)) = 0
      /\ c.threads # "gone" /\ (c.threads = "none" => c.gen = 0 /\ ~c.eng)
      /\ \A u \in Threads : th[u].pc \notin FreePcs
  <2>1. \A f \in {"fn", "cleanup", "close"} : Due(c, Await(f, t)) = 0
    BY <1>1, AwaitsNothing
  <2>2. c.threads # "gone"
    BY <1>1 DEF CoreOK
  <2>3. c.threads = "none" => c.gen = 0 /\ ~c.eng
    BY <1>1 DEF PhaseOK
  <2>4. \A u \in Threads : th[u].pc \notin FreePcs
    BY <1>1, NobodyFrees
  <2> QED BY <2>1, <2>2, <2>3, <2>4
<1>4. CASE c.gen = 0
  <2>1. c' = c /\ Go(t, "build")
    BY <1>4 DEF engine_open
  <2>2. PICK x \in ThreadState : /\ th' = [th EXCEPT ![t] = x]
                                 /\ x.pc = "build" /\ x.o = th[t].o /\ x.k = th[t].k /\ x.res = th[t].res
    <3> DEFINE pc == "build"
    <3>1. pc \in WorkerPcs \union MainPcs /\ Go(t, pc)
      BY <2>1 DEF WorkerPcs, MainPcs, FreePcs
    <3> HIDE DEF pc
    <3>2. \E x \in ThreadState : /\ th' = [th EXCEPT ![t] = x]
                                 /\ x.pc = pc /\ x.o = th[t].o /\ x.k = th[t].k /\ x.res = th[t].res
      BY <1>1, <3>1, Goes
    <3> QED BY <3>2 DEF pc
  <2>3. ThreadOK(c, t, x)
    <3>1. c.threads = "none" => x.pc \in {"build", "threads"} /\ (x.pc = "build" => c.gen = 0 /\ ~c.eng)
      BY <1>3, <2>2
    <3> QED BY <1>3, <2>2, <3>1, MainAt
  <2>4. MayGo(t, x)
    BY <1>1, <1>3, <2>2 DEF MayGo, Initiate, Draws, FreePcs
  <2> QED BY <1>1, <1>2, <2>1, <2>2, <2>3, <2>4, OnlyMoves
<1>5. CASE c.gen # 0
  <2>1. c' = Post(c, task) /\ Go(t, "future")
    BY <1>5 DEF engine_open
  <2>2. c.threads = "run"
    BY <1>1, <1>3, <1>5 DEF Core
  <2>3. task = Await(type, t) /\ type \in {"fn", "cleanup", "close"}
    BY DEF Await
  <2> HIDE DEF task, type
  <2>4. task \in Tasks /\ Key(task) = Await(type, t)
    BY <1>1, <2>3, KeysTyped
  <2>5. Concerns(task, t)
    BY <2>4, KeysDiffer DEF Concerns
  <2>6. /\ c'.threads = c.threads
        /\ \A f : Due(c', f) \in Nat /\ Due(c, f) \in Nat
        /\ \A f : Due(c', f) = Due(c, f) + (IF f = Key(task) THEN 1 ELSE 0)
    <3>1. \A o \in Objs, k \in {"recv", "send"} : Key(task) # Op(o, k, none)
      BY <2>4, KeysDiffer
    <3> QED BY <2>1, <2>2, <2>4, <3>1, Posts
  <2>7. PICK x \in ThreadState : /\ th' = [th EXCEPT ![t] = x]
                                 /\ x.pc = "future" /\ x.o = th[t].o /\ x.k = th[t].k /\ x.res = th[t].res
    <3> DEFINE pc == "future"
    <3>1. pc \in WorkerPcs \union MainPcs /\ Go(t, pc)
      BY <2>1 DEF WorkerPcs, MainPcs, FreePcs
    <3> HIDE DEF pc
    <3>2. \E x \in ThreadState : /\ th' = [th EXCEPT ![t] = x]
                                 /\ x.pc = pc /\ x.o = th[t].o /\ x.k = th[t].k /\ x.res = th[t].res
      BY <1>1, <3>1, Goes
    <3> QED BY <3>2 DEF pc
  <2>8. ThreadOK(c', t, x)
    <3>1. type = "cleanup"
      BY DEF type
    <3>2. Await("fn", t) # Key(task) /\ Await("close", t) # Key(task) /\ Await("cleanup", t) = Key(task)
      BY <2>4, <3>1, KeysDiffer
    <3>3. Due(c', Await("fn", t)) = 0 /\ Due(c', Await("close", t)) = 0 /\ Due(c', Await("cleanup", t)) = 1
      BY <1>3, <2>6, <3>2
    <3>4. c'.threads = "run"
      BY <2>2, <2>6
    <3> QED BY <2>7, <3>1, <3>3, <3>4, MainAwaits
  <2>9. MayGo(t, x)
    BY <1>1, <1>3, <2>7 DEF MayGo, Initiate, Draws, FreePcs
  <2> QED BY <1>1, <1>2, <2>1, <2>2, <2>4, <2>5, <2>7, <2>8, <2>9, PostMoves
<1> QED BY <1>4, <1>5

\* The engine could not be opened.
LEMMA OpenFailsStep ==
  ASSUME ApiInvariant, NEW t \in Threads, open_fails(t)
  PROVE  ApiInvariant'
<1>1. /\ ThreadsOK /\ th[t].pc = "build" /\ io' = io /\ c' = c /\ th' = [th EXCEPT ![t] = Idle]
      /\ PhaseOK(c, t, th[t])
  BY ThreadFacts DEF ApiInvariant, open_fails, At, Return
<1>2. LeftOK'
  <2>1. left' = [left EXCEPT !.faults = @ - 1]
    BY DEF open_fails
  <2> QED BY <2>1, LeftSpent DEF ApiInvariant
<1>3. ThreadOK(c, t, Idle) /\ Idle \in ThreadState
  <2>1. \A type \in {"fn", "cleanup", "close"} : Due(c, Await(type, t)) = 0
    BY <1>1, AwaitsNothing
  <2>2. t = main /\ c.threads = "none" => c.gen = 0 /\ ~c.eng
    BY <1>1 DEF PhaseOK
  <2> QED BY <2>1, <2>2, Comes
<1>4. MayGo(t, Idle)
  <2>1. Idle.pc = "idle"
    BY DEF Idle
  <2> QED BY <1>1, <2>1 DEF MayGo, Initiate, Draws, FreePcs, Blocked
<1> QED BY <1>1, <1>2, <1>3, <1>4, OnlyMoves

\* The engine is there.
LEMMA OpenEngineStep ==
  ASSUME ApiInvariant, NEW t \in Threads, open_engine(t)
  PROVE  ApiInvariant'
<1>1. /\ c \in Core /\ CoreOK(c) /\ IoOK(c, io) /\ ThreadsOK /\ th[t].pc = "build" /\ io' = io
      /\ PhaseOK(c, t, th[t])
  BY ThreadFacts DEF ApiInvariant, CoreOK, open_engine, At
<1>2. t = main /\ c.threads # "gone" /\ \A u \in Threads \ {t} : th[u].pc \notin FreePcs
  BY <1>1, MainIs
<1>3. LeftOK'
  <2>1. left' = left
    BY DEF open_engine
  <2> QED BY <2>1, LeftSpent DEF ApiInvariant
<1>4. c' = [c EXCEPT !.eng = TRUE, !.gen = @ + 1] /\ Go(t, "threads")
  BY DEF open_engine
<1>5. /\ c' \in Core /\ c'.eng /\ c'.gen = c.gen + 1 /\ c.gen \in Nat
      /\ c'.queue = c.queue /\ c'.ops = c.ops /\ c'.obj = c.obj
      /\ c'.closed = c.closed /\ c'.gone = c.gone /\ c'.active = c.active
      /\ c'.threads = c.threads /\ c'.accepting = c.accepting /\ c'.handle = c.handle
      /\ c'.returned = c.returned /\ c'.late = c.late /\ c'.stale = c.stale
  <2>1. c.gen \in Nat
    BY <1>1 DEF Core
  <2>2. c.gen + 1 \in Nat
    BY <2>1
  <2> QED BY <1>1, <1>4, <2>1, <2>2 DEF Core
<1>6. \A f : Due(c', f) = Due(c, f) /\ Due(c, f) \in Nat
  <2>1. SameEngine(c, c')
    BY <1>5 DEF SameEngine
  <2> QED BY <1>1, <2>1, SameDue, DueType
<1>7. CoreOK(c') /\ IoOK(c', io)
  <2>1. Holds(c')
    BY <1>5 DEF Holds
  <2>2. \A o \in Objs, k \in {"recv", "send"} : Due(c', Op(o, k, none)) > 0 => c'.obj[o].aio
    BY <1>1, <1>5, <1>6 DEF CoreOK
  <2>3. CoreOK(c')
    BY <1>1, <1>5, <2>1, <2>2 DEF CoreOK
  <2>4. IoOK(c', io)
    BY <1>1, <1>5 DEF IoOK
  <2> QED BY <2>3, <2>4
<1>8. SameCounts
  BY <1>5, <1>6 DEF SameCounts
<1>9. PICK x \in ThreadState : /\ th' = [th EXCEPT ![t] = x]
                               /\ x.pc = "threads" /\ x.o = th[t].o /\ x.k = th[t].k /\ x.res = th[t].res
  <2> DEFINE pc == "threads"
  <2>1. pc \in WorkerPcs \union MainPcs /\ Go(t, pc)
    BY <1>4 DEF WorkerPcs, MainPcs, FreePcs
  <2> HIDE DEF pc
  <2>2. \E x \in ThreadState : /\ th' = [th EXCEPT ![t] = x]
                               /\ x.pc = pc /\ x.o = th[t].o /\ x.k = th[t].k /\ x.res = th[t].res
    BY <1>1, <2>1, Goes
  <2> QED BY <2>2 DEF pc
<1>10. ThreadOK(c', t, x)
  <2>1. \A type \in {"fn", "cleanup", "close"} : Due(c', Await(type, main)) = 0
    BY <1>1, <1>2, <1>6, AwaitsNothing
  <2>2. /\ c'.threads # "gone"
        /\ c'.threads = "none" => x.pc \in {"build", "threads"} /\ (x.pc = "build" => c'.gen = 0 /\ ~c'.eng)
    BY <1>2, <1>5, <1>9
  <2>3. x.pc \in {"build", "threads", "opened", "drain", "close"}
    BY <1>9
  <2> QED BY <1>2, <1>9, <2>1, <2>2, <2>3, MainAt
<1>11. \A u \in Threads \ {t} : ThreadOK(c', u, th[u])
  <2>1. SUFFICES ASSUME NEW u \in Threads, u # t PROVE ThreadOK(c', u, th[u])
    OBVIOUS
  <2>2. ThreadOK(c, u, th[u])
    BY <1>1 DEF ThreadsOK
  <2>3. /\ \A o \in Objs, k \in Kinds : Due(c', Op(o, k, u)) = Due(c, Op(o, k, u))
        /\ \A type \in {"fn", "cleanup", "close"} : Due(c', Await(type, u)) = Due(c, Await(type, u))
    BY <1>6
  <2>4. u # main /\ c'.threads = c.threads /\ c'.handle = c.handle /\ c'.closed = c.closed
        /\ \A o \in Objs : c.obj[o].aio => c'.obj[o].aio
    BY <1>2, <1>5, <2>1
  <2> QED BY <2>2, <2>3, <2>4, OthersKeep
<1>12. MayGo(t, x)
  BY <1>1, <1>2, <1>9 DEF MayGo, Initiate, Draws, FreePcs
<1>13. c'.closed => c.closed \/ x.pc \in Draws
  BY <1>5
<1> QED BY <1>1, <1>3, <1>7, <1>8, <1>9, <1>10, <1>11, <1>12, <1>13, ThreadMoves

\* The io threads run.
LEMMA OpenThreadsStep ==
  ASSUME ApiInvariant, NEW t \in Threads, open_threads(t)
  PROVE  ApiInvariant'
<1>1. /\ c \in Core /\ CoreOK(c) /\ IoOK(c, io) /\ ThreadsOK /\ th[t].pc = "threads" /\ io' = io
  BY DEF ApiInvariant, CoreOK, open_threads, At
<1>2. t = main /\ c.threads # "gone" /\ \A u \in Threads \ {t} : th[u].pc \notin FreePcs
  BY <1>1, MainIs
<1>3. LeftOK'
  <2>1. left' = left
    BY DEF open_threads
  <2> QED BY <2>1, LeftSpent DEF ApiInvariant
<1>4. c' = [c EXCEPT !.threads = "run"] /\ Go(t, "opened")
  BY DEF open_threads
<1>5. /\ c' \in Core /\ c'.eng = c.eng /\ c'.gen = c.gen
      /\ c'.queue = c.queue /\ c'.ops = c.ops /\ c'.obj = c.obj
      /\ c'.closed = c.closed /\ c'.gone = c.gone /\ c'.active = c.active
      /\ c'.threads = "run" /\ c'.accepting = c.accepting /\ c'.handle = c.handle
      /\ c'.returned = c.returned /\ c'.late = c.late /\ c'.stale = c.stale
  BY <1>1, <1>4 DEF Core
<1>6. \A f : Due(c', f) = Due(c, f) /\ Due(c, f) \in Nat
  <2>1. SameEngine(c, c')
    BY <1>5 DEF SameEngine
  <2> QED BY <1>1, <2>1, SameDue, DueType
<1>7. CoreOK(c') /\ IoOK(c', io)
  <2>1. Holds(c')
    BY <1>1, <1>5 DEF Holds, CoreOK
  <2>2. \A o \in Objs, k \in {"recv", "send"} : Due(c', Op(o, k, none)) > 0 => c'.obj[o].aio
    BY <1>1, <1>5, <1>6 DEF CoreOK
  <2>3. CoreOK(c')
    BY <1>1, <1>5, <2>1, <2>2 DEF CoreOK
  <2>4. IoOK(c', io)
    BY <1>1, <1>5 DEF IoOK
  <2> QED BY <2>3, <2>4
<1>8. SameCounts
  BY <1>5, <1>6 DEF SameCounts
<1>9. PICK x \in ThreadState : /\ th' = [th EXCEPT ![t] = x]
                               /\ x.pc = "opened" /\ x.o = th[t].o /\ x.k = th[t].k /\ x.res = th[t].res
  <2> DEFINE pc == "opened"
  <2>1. pc \in WorkerPcs \union MainPcs /\ Go(t, pc)
    BY <1>4 DEF WorkerPcs, MainPcs, FreePcs
  <2> HIDE DEF pc
  <2>2. \E x \in ThreadState : /\ th' = [th EXCEPT ![t] = x]
                               /\ x.pc = pc /\ x.o = th[t].o /\ x.k = th[t].k /\ x.res = th[t].res
    BY <1>1, <2>1, Goes
  <2> QED BY <2>2 DEF pc
<1>10. ThreadOK(c', t, x)
  <2>1. \A type \in {"fn", "cleanup", "close"} : Due(c', Await(type, main)) = 0
    BY <1>1, <1>2, <1>6, AwaitsNothing
  <2>2. x.pc \in {"build", "threads", "opened", "drain", "close"} /\ c'.threads = "run"
    BY <1>5, <1>9
  <2> QED BY <1>2, <1>9, <2>1, <2>2, MainAt
<1>11. \A u \in Threads \ {t} : ThreadOK(c', u, th[u])
  <2>1. SUFFICES ASSUME NEW u \in Threads, u # t PROVE ThreadOK(c', u, th[u])
    OBVIOUS
  <2>2. ThreadOK(c, u, th[u])
    BY <1>1 DEF ThreadsOK
  <2>3. th[u].pc = "ask" => c'.obj[th[u].o].aio
    BY <1>5, <2>2 DEF ThreadOK, PhaseOK
  <2>4. th[u].pc \notin FreePcs
    BY <1>2, <2>1
  <2>5. \A f : Due(c', f) = Due(c, f)
    BY <1>6
  <2> QED BY <1>5, <2>2, <2>3, <2>4, <2>5, ThreadKeeps
<1>12. MayGo(t, x)
  BY <1>1, <1>2, <1>9 DEF MayGo, Initiate, Draws, FreePcs
<1>13. c'.closed => c.closed \/ x.pc \in Draws
  BY <1>5
<1> QED BY <1>1, <1>3, <1>7, <1>8, <1>9, <1>10, <1>11, <1>12, <1>13, ThreadMoves

\* What depends on a flag of the core that is put up or down by a thread that
\* nobody frees the engine beside.
LEMMA FlagMoves ==
  ASSUME ApiInvariant, NEW t \in Threads, NEW x \in ThreadState, th' = [th EXCEPT ![t] = x],
         io' = io, LeftOK', MayGo(t, x), c' \in Core, SameBut(c, c'),
         c'.active = c.active, c'.accepting = c.accepting,
         c.closed => c'.closed \/ c.threads = "run",
         c.gone => c'.gone, c'.gone <=> c'.handle # "ok", c.threads = "gone" => c'.handle = "freed",
         c'.closed => c.closed \/ x.pc \in Draws,
         \A u \in Threads \ {t} : th[u].pc \in FreePcs => c'.handle = c.handle /\ (c.closed => c'.closed),
         ThreadOK(c', t, x)
  PROVE  ApiInvariant'
<1>1. /\ CoreOK(c') /\ IoOK(c', io)
      /\ \A f : Due(c', f) = Due(c, f) /\ Due(c, f) \in Nat
      /\ \A u \in Threads :
           (th[u].pc \in FreePcs => c'.handle = c.handle /\ (c.closed => c'.closed)) => ThreadOK(c', u, th[u])
  BY FlagsChange
<1>2. SameCounts
  BY <1>1 DEF SameCounts, SameBut
<1>3. \A u \in Threads \ {t} : ThreadOK(c', u, th[u])
  BY <1>1
<1> QED BY <1>1, <1>2, <1>3, ThreadMoves

\* The engine is open for calls.
LEMMA OpenFlagStep ==
  ASSUME ApiInvariant, NEW t \in Threads, open_flag(t)
  PROVE  ApiInvariant'
<1>1. /\ c \in Core /\ CoreOK(c) /\ th[t].pc = "opened" /\ io' = io /\ th' = [th EXCEPT ![t] = Idle]
      /\ c.threads = "run"
  <2>1. th[t].pc = "opened"
    BY DEF open_flag, At
  <2> QED BY <2>1, NeedsThreads DEF ApiInvariant, CoreOK, open_flag, Return
<1>2. t = main /\ \A u \in Threads \ {t} : th[u].pc \notin FreePcs
  BY <1>1, MainIs
<1>3. LeftOK'
  <2>1. left' = left
    BY DEF open_flag
  <2> QED BY <2>1, LeftSpent DEF ApiInvariant
<1>4. c' = [c EXCEPT !.closed = FALSE]
  BY DEF open_flag
<1>5. /\ c' \in Core /\ SameBut(c, c') /\ c'.closed = FALSE
      /\ c'.gone = c.gone /\ c'.active = c.active
      /\ c'.accepting = c.accepting /\ c'.handle = c.handle
  BY <1>1, <1>4 DEF Core, SameBut
<1>6. c.gone <=> c.handle # "ok"
  BY <1>1 DEF CoreOK
<1>7. \A f : Due(c', f) = Due(c, f)
  <2>1. SameEngine(c, c')
    BY <1>5 DEF SameEngine, SameBut
  <2> QED BY <2>1, SameDue
<1>8. ThreadOK(c', t, Idle) /\ Idle \in ThreadState
  <2>1. \A type \in {"fn", "cleanup", "close"} : Due(c', Await(type, t)) = 0
    BY <1>1, <1>7, AwaitsNothing
  <2>2. c'.threads = "run"
    BY <1>1, <1>5 DEF SameBut
  <2> QED BY <2>1, <2>2, Comes
<1>9. MayGo(t, Idle)
  <2>1. Idle.pc = "idle"
    BY DEF Idle
  <2> QED BY <1>1, <2>1 DEF MayGo, Initiate, Draws, FreePcs, Blocked
<1> QED BY <1>1, <1>2, <1>3, <1>5, <1>6, <1>8, <1>9, FlagMoves

\* A close of the engine begins, or there is nothing to close.
LEMMA CloseCallStep ==
  ASSUME ApiInvariant, engine_close_call(main)
  PROVE  ApiInvariant'
<1> DEFINE t == main
<1>1. /\ c \in Core /\ CoreOK(c) /\ ThreadsOK /\ th[t].pc = "idle" /\ c.handle = "ok" /\ t \in Threads /\ io' = io
  BY DEF Threads, ApiInvariant, CoreOK, engine_close_call, EngineCall, Call, At
<1>2. LeftOK'
  <2>1. left' = [left EXCEPT !.n = @ - 1]
    BY DEF engine_close_call, EngineCall, Call
  <2> QED BY <2>1, LeftSpent DEF ApiInvariant
<1>3. CASE c.closed
  <2>1. c' = c /\ th' = th
    BY <1>3 DEF engine_close_call
  <2> QED BY <1>1, <1>2, <2>1, NothingMoves
<1>4. CASE ~c.closed
  <2>1. c' = [c EXCEPT !.closed = TRUE] /\ Go(t, "drain")
    BY <1>4 DEF engine_close_call
  <2>2. /\ c' \in Core /\ SameBut(c, c') /\ c'.closed = TRUE
        /\ c'.gone = c.gone /\ c'.active = c.active
        /\ c'.accepting = c.accepting /\ c'.handle = c.handle
    BY <1>1, <2>1 DEF Core, SameBut
  <2>3. (c.gone <=> c.handle # "ok") /\ c.threads = "run"
    BY <1>1, <1>4 DEF CoreOK, Core
  <2>4. \A f : Due(c', f) = Due(c, f)
    <3>1. SameEngine(c, c')
      BY <2>2 DEF SameEngine, SameBut
    <3> QED BY <3>1, SameDue
  <2>5. PICK x \in ThreadState : /\ th' = [th EXCEPT ![t] = x]
                                 /\ x.pc = "drain" /\ x.o = th[t].o /\ x.k = th[t].k /\ x.res = th[t].res
    <3> DEFINE pc == "drain"
    <3>1. pc \in WorkerPcs \union MainPcs /\ Go(t, pc)
      BY <2>1 DEF WorkerPcs, MainPcs, FreePcs
    <3> HIDE DEF pc
    <3>2. \E x \in ThreadState : /\ th' = [th EXCEPT ![t] = x]
                                 /\ x.pc = pc /\ x.o = th[t].o /\ x.k = th[t].k /\ x.res = th[t].res
      BY <1>1, <3>1, Goes
    <3> QED BY <3>2 DEF pc
  <2>6. ThreadOK(c', t, x)
    <3>1. \A type \in {"fn", "cleanup", "close"} : Due(c', Await(type, main)) = 0
      BY <1>1, <2>4, AwaitsNothing
    <3>2. x.pc \in {"build", "threads", "opened", "drain", "close"} /\ c'.threads = "run"
      BY <2>2, <2>3, <2>5 DEF SameBut
    <3> QED BY <2>5, <3>1, <3>2, MainAt
  <2>7. \A u \in Threads : th[u].pc \notin FreePcs
    BY <1>1, NobodyFrees
  <2>8. MayGo(t, x)
    BY <1>1, <2>5, <2>7 DEF MayGo, Initiate, Draws, FreePcs
  <2>9. x.pc \in Draws
    BY <2>5 DEF Draws
  <2> QED BY <1>1, <1>2, <2>2, <2>3, <2>5, <2>6, <2>7, <2>8, <2>9, FlagMoves
<1> QED BY <1>3, <1>4

\* Nobody is in begin_op any more.
LEMMA DrainStep ==
  ASSUME ApiInvariant, NEW t \in Threads, drain(t)
  PROVE  ApiInvariant'
<1>1. ThreadsOK /\ th[t].pc = "drain" /\ io' = io /\ c' = c /\ c.active = 0 /\ c.threads = "run"
  <2>1. th[t].pc = "drain"
    BY DEF drain, At
  <2> QED BY <2>1, NeedsThreads DEF ApiInvariant, drain
<1>2. t = main /\ \A u \in Threads \ {t} : th[u].pc \notin FreePcs
  BY <1>1, MainIs
<1>3. LeftOK'
  <2>1. left' = left
    BY DEF drain
  <2> QED BY <2>1, LeftSpent DEF ApiInvariant
<1>4. Go(t, "close")
  BY DEF drain
<1>5. PICK x \in ThreadState : /\ th' = [th EXCEPT ![t] = x]
                               /\ x.pc = "close" /\ x.o = th[t].o /\ x.k = th[t].k /\ x.res = th[t].res
  <2> DEFINE pc == "close"
  <2>1. pc \in WorkerPcs \union MainPcs /\ Go(t, pc)
    BY <1>4 DEF WorkerPcs, MainPcs, FreePcs
  <2> HIDE DEF pc
  <2>2. \E x \in ThreadState : /\ th' = [th EXCEPT ![t] = x]
                               /\ x.pc = pc /\ x.o = th[t].o /\ x.k = th[t].k /\ x.res = th[t].res
    BY <1>1, <2>1, Goes
  <2> QED BY <2>2 DEF pc
<1>6. ThreadOK(c, t, x)
  <2>1. \A type \in {"fn", "cleanup", "close"} : Due(c, Await(type, main)) = 0
    BY <1>1, <1>2, AwaitsNothing
  <2>2. x.pc \in {"build", "threads", "opened", "drain", "close"}
    BY <1>5
  <2> QED BY <1>1, <1>2, <1>5, <2>1, <2>2, MainAt
<1>7. MayGo(t, x)
  BY <1>1, <1>2, <1>5 DEF MayGo, Initiate, Draws, FreePcs
<1> QED BY <1>1, <1>3, <1>5, <1>6, <1>7, OnlyMoves

\* The engine is closed by a task, if it is open.
LEMMA CloseDataStep ==
  ASSUME ApiInvariant, NEW t \in Threads, close_data(t)
  PROVE  ApiInvariant'
<1> DEFINE type == "close"
           task == [type |-> "close", by |-> t]
<1>1. ThreadsOK /\ th[t].pc = "close" /\ io' = io /\ c.threads = "run"
  <2>1. th[t].pc = "close"
    BY DEF close_data, At
  <2> QED BY <2>1, NeedsThreads DEF ApiInvariant, close_data
<1>2. t = main /\ \A u \in Threads \ {t} : th[u].pc \notin FreePcs
  BY <1>1, MainIs
<1>3. LeftOK'
  <2>1. left' = left
    BY DEF close_data
  <2> QED BY <2>1, LeftSpent DEF ApiInvariant
<1>4. \A f \in {"fn", "cleanup", "close"} : Due(c, Await(f, t)) = 0
  BY <1>1, AwaitsNothing
<1>5. CASE ~c.eng
  <2>1. c' = c /\ th' = [th EXCEPT ![t] = Idle]
    BY <1>5 DEF close_data, Return
  <2>2. ThreadOK(c, t, Idle) /\ Idle \in ThreadState
    BY <1>1, <1>4, Comes
  <2>3. MayGo(t, Idle)
    <3>1. Idle.pc = "idle"
      BY DEF Idle
    <3> QED BY <1>1, <3>1 DEF MayGo, Initiate, Draws, FreePcs, Blocked
  <2> QED BY <1>1, <1>3, <2>1, <2>2, <2>3, OnlyMoves
<1>6. CASE c.eng
  <2>1. c' = Post(c, task) /\ Go(t, "future")
    BY <1>6 DEF close_data
  <2>3. task = Await(type, t) /\ type \in {"fn", "cleanup", "close"}
    BY DEF Await
  <2> HIDE DEF task, type
  <2>4. task \in Tasks /\ Key(task) = Await(type, t)
    BY <1>1, <2>3, KeysTyped
  <2>5. Concerns(task, t)
    BY <2>4, KeysDiffer DEF Concerns
  <2>6. /\ c'.threads = c.threads
        /\ \A f : Due(c', f) \in Nat /\ Due(c, f) \in Nat
        /\ \A f : Due(c', f) = Due(c, f) + (IF f = Key(task) THEN 1 ELSE 0)
    <3>1. \A o \in Objs, k \in {"recv", "send"} : Key(task) # Op(o, k, none)
      BY <2>4, KeysDiffer
    <3> QED BY <1>1, <2>1, <2>4, <3>1, Posts
  <2>7. PICK x \in ThreadState : /\ th' = [th EXCEPT ![t] = x]
                                 /\ x.pc = "future" /\ x.o = th[t].o /\ x.k = th[t].k /\ x.res = th[t].res
    <3> DEFINE pc == "future"
    <3>1. pc \in WorkerPcs \union MainPcs /\ Go(t, pc)
      BY <2>1 DEF WorkerPcs, MainPcs, FreePcs
    <3> HIDE DEF pc
    <3>2. \E x \in ThreadState : /\ th' = [th EXCEPT ![t] = x]
                                 /\ x.pc = pc /\ x.o = th[t].o /\ x.k = th[t].k /\ x.res = th[t].res
      BY <1>1, <3>1, Goes
    <3> QED BY <3>2 DEF pc
  <2>8. ThreadOK(c', t, x)
    <3>1. type = "close"
      BY DEF type
    <3>2. Await("fn", t) # Key(task) /\ Await("cleanup", t) # Key(task) /\ Await("close", t) = Key(task)
      BY <2>4, <3>1, KeysDiffer
    <3>3. Due(c', Await("fn", t)) = 0 /\ Due(c', Await("cleanup", t)) = 0 /\ Due(c', Await("close", t)) = 1
      BY <1>4, <2>6, <3>2
    <3>4. c'.threads = "run"
      BY <1>1, <2>6
    <3> QED BY <1>2, <2>7, <3>1, <3>3, <3>4, MainAwaits
  <2>9. MayGo(t, x)
    BY <1>1, <1>2, <2>7 DEF MayGo, Initiate, Draws, FreePcs
  <2> QED BY <1>1, <1>3, <2>1, <2>4, <2>5, <2>7, <2>8, <2>9, PostMoves
<1> QED BY <1>5, <1>6

\* What is known of the thread that frees the engine.
LEMMA FreeIs ==
  ASSUME ApiInvariant, NEW t \in Threads, th[t].pc \in FreePcs
  PROVE  /\ t \in {main, fin} /\ c.handle = "freeing" /\ c.gone /\ c.threads # "gone"
         /\ t = fin => c.threads = "run"
         /\ c.threads = "none" => c.gen = 0 /\ ~c.eng
         /\ th[t].pc # "shutdown" => c.closed
         /\ \A u \in Threads \ {t} : th[u].pc \in Blocked /\ th[u].pc \notin FreePcs
<1>1. RoleOK(t, th[t]) /\ PhaseOK(c, t, th[t])
  BY ThreadFacts DEF ApiInvariant
<1>2. t \in {main, fin}
  BY <1>1 DEF RoleOK, WorkerPcs, FreePcs, Threads
<1>3. c.handle = "freeing" /\ c.gone /\ c.threads \in {"none", "run", "gone"}
  BY <1>1 DEF PhaseOK, ApiInvariant, CoreOK, Core
<1>4. c.threads # "gone"
  BY <1>1 DEF PhaseOK, FreePcs
<1>5. c.threads = "none" => t = main /\ c.gen = 0 /\ ~c.eng
  BY <1>1 DEF PhaseOK, FreePcs
<1>6. t = fin => c.threads = "run"
  BY <1>3, <1>4, <1>5, CApiAssumption
<1>7. \A u \in Threads \ {t} : th[u].pc \in Blocked /\ th[u].pc \notin FreePcs
  BY DEF ApiInvariant, Alone, Blocked, FreePcs
<1>8. th[t].pc # "shutdown" => c.closed
  BY <1>1 DEF PhaseOK
<1> QED BY <1>2, <1>3, <1>4, <1>5, <1>6, <1>7, <1>8

\* A thread that frees the engine, and waits for nothing.
LEMMA FreeAt ==
  ASSUME NEW v, NEW t \in {main, fin}, NEW x \in ThreadState, x.pc \in FreePcs,
         \A type \in {"fn", "cleanup", "close"} : Due(v, Await(type, t)) = 0,
         v.threads # "gone", t = fin => v.threads = "run",
         v.threads = "none" => v.gen = 0 /\ ~v.eng,
         v.handle = "freeing", x.pc # "shutdown" => v.closed
  PROVE  ThreadOK(v, t, x)
<1>1. RoleOK(t, x)
  BY CApiAssumption DEF RoleOK, MainPcs, FreePcs
<1>2. WaitOK(v, t, x)
  <2>1. x.pc \notin {"end", "wait"}
    BY DEF FreePcs
  <2> QED BY <2>1, WaitsForNothing
<1>3. PhaseOK(v, t, x)
  <2>1. t # main => v.threads # "none"
    OBVIOUS
  <2>2. x.pc # "ask" /\ x.pc # "threads"
    BY DEF FreePcs
  <2> QED BY <2>1, <2>2 DEF PhaseOK
<1> QED BY <1>1, <1>2, <1>3 DEF ThreadOK

\* The engine is to be freed: no callback begins any more.
LEMMA FreeStep ==
  ASSUME ApiInvariant, engine_free(main)
  PROVE  ApiInvariant'
<1> DEFINE t == main
<1>1. /\ c \in Core /\ CoreOK(c) /\ ThreadsOK /\ th[t].pc = "idle" /\ c.handle = "ok" /\ t \in Threads /\ io' = io
      /\ PhaseOK(c, t, th[t])
  <2>1. t \in Threads /\ ThreadsOK
    BY DEF Threads, ApiInvariant
  <2>2. PhaseOK(c, t, th[t])
    BY <2>1, ThreadFacts
  <2> QED BY <2>1, <2>2 DEF ApiInvariant, CoreOK, engine_free, EngineCall, Call, At
<1>2. LeftOK'
  <2>1. left' = [left EXCEPT !.n = @ - 1]
    BY DEF engine_free, EngineCall, Call
  <2> QED BY <2>1, LeftSpent DEF ApiInvariant
<1>3. c' = [c EXCEPT !.gone = TRUE, !.handle = "freeing"] /\ Go(t, "shutdown")
  BY DEF engine_free
<1>4. /\ c' \in Core /\ SameBut(c, c') /\ c'.closed = c.closed
      /\ c'.gone /\ c'.active = c.active
      /\ c'.accepting = c.accepting /\ c'.handle = "freeing"
  BY <1>1, <1>3 DEF Core, SameBut
<1>5. c.threads # "gone" /\ (c.threads = "none" => c.gen = 0 /\ ~c.eng)
  BY <1>1 DEF CoreOK, PhaseOK
<1>6. \A u \in Threads \ {t} : th[u].pc \in Blocked /\ th[u].pc \notin FreePcs
  BY DEF engine_free, OthersBlocked, Blocked, FreePcs
<1>7. \A f : Due(c', f) = Due(c, f)
  <2>1. SameEngine(c, c')
    BY <1>4 DEF SameEngine, SameBut
  <2> QED BY <2>1, SameDue
<1>8. PICK x \in ThreadState : /\ th' = [th EXCEPT ![t] = x]
                               /\ x.pc = "shutdown" /\ x.o = th[t].o /\ x.k = th[t].k /\ x.res = th[t].res
  <2> DEFINE pc == "shutdown"
  <2>1. pc \in WorkerPcs \union MainPcs /\ Go(t, pc)
    BY <1>3 DEF WorkerPcs, MainPcs, FreePcs
  <2> HIDE DEF pc
  <2>2. \E x \in ThreadState : /\ th' = [th EXCEPT ![t] = x]
                               /\ x.pc = pc /\ x.o = th[t].o /\ x.k = th[t].k /\ x.res = th[t].res
    BY <1>1, <2>1, Goes
  <2> QED BY <2>2 DEF pc
<1>9. ThreadOK(c', t, x)
  <2>1. \A type \in {"fn", "cleanup", "close"} : Due(c', Await(type, t)) = 0
    BY <1>1, <1>7, AwaitsNothing
  <2>2. c'.threads # "gone" /\ (c'.threads = "none" => c'.gen = 0 /\ ~c'.eng)
    BY <1>4, <1>5 DEF SameBut
  <2>3. t \in {main, fin} /\ t # fin /\ x.pc \in FreePcs
    BY <1>8, CApiAssumption DEF FreePcs
  <2> QED BY <1>4, <1>8, <2>1, <2>2, <2>3, FreeAt
<1>10. MayGo(t, x)
  BY <1>1, <1>6, <1>8 DEF MayGo, Initiate, Draws, FreePcs
<1> QED BY <1>1, <1>2, <1>4, <1>5, <1>6, <1>8, <1>9, <1>10, FlagMoves

\* Calls are refused from now on.
LEMMA ShutdownStep ==
  ASSUME ApiInvariant, NEW t \in Threads, shutdown(t)
  PROVE  ApiInvariant'
<1> DEFINE pc == IF c.closed THEN "reset_guard" ELSE "shut_drain"
<1>1. c \in Core /\ CoreOK(c) /\ ThreadsOK /\ th[t].pc = "shutdown" /\ io' = io
  BY DEF ApiInvariant, CoreOK, shutdown, At
<1>2. /\ t \in {main, fin} /\ c.handle = "freeing" /\ c.gone /\ c.threads # "gone"
      /\ t = fin => c.threads = "run"
      /\ c.threads = "none" => c.gen = 0 /\ ~c.eng
      /\ \A u \in Threads \ {t} : th[u].pc \in Blocked /\ th[u].pc \notin FreePcs
  <2>1. th[t].pc \in FreePcs
    BY <1>1 DEF FreePcs
  <2> QED BY <2>1, FreeIs
<1>3. LeftOK'
  <2>1. left' = left
    BY DEF shutdown
  <2> QED BY <2>1, LeftSpent DEF ApiInvariant
<1>4. c' = [c EXCEPT !.closed = TRUE] /\ Go(t, pc)
  BY DEF shutdown
<1>5. /\ c' \in Core /\ SameBut(c, c') /\ c'.closed = TRUE
      /\ c'.gone = c.gone /\ c'.active = c.active
      /\ c'.accepting = c.accepting /\ c'.handle = c.handle
  BY <1>1, <1>4 DEF Core, SameBut
<1>6. \A f : Due(c', f) = Due(c, f)
  <2>1. SameEngine(c, c')
    BY <1>5 DEF SameEngine, SameBut
  <2> QED BY <2>1, SameDue
<1>7. pc \in {"reset_guard", "shut_drain"} /\ (~c.closed => pc = "shut_drain")
  OBVIOUS
<1> HIDE DEF pc
<1>8. PICK x \in ThreadState : /\ th' = [th EXCEPT ![t] = x]
                               /\ x.pc = pc /\ x.o = th[t].o /\ x.k = th[t].k /\ x.res = th[t].res
  <2>1. pc \in WorkerPcs \union MainPcs
    BY <1>7 DEF MainPcs, FreePcs
  <2> QED BY <1>1, <1>4, <2>1, Goes
<1>9. ThreadOK(c', t, x)
  <2>1. \A type \in {"fn", "cleanup", "close"} : Due(c', Await(type, t)) = 0
    BY <1>1, <1>6, AwaitsNothing
  <2>2. /\ c'.threads # "gone" /\ (c'.threads = "none" => c'.gen = 0 /\ ~c'.eng)
        /\ t = fin => c'.threads = "run"
    BY <1>2, <1>5 DEF SameBut
  <2>3. x.pc \in FreePcs
    BY <1>7, <1>8 DEF FreePcs
  <2> QED BY <1>2, <1>5, <1>8, <2>1, <2>2, <2>3, FreeAt
<1>10. MayGo(t, x)
  <2>1. th[t].pc \in FreePcs
    BY <1>1 DEF FreePcs
  <2> QED BY <1>1, <1>2, <1>7, <1>8, <2>1 DEF MayGo, Initiate, Draws
<1>11. c'.closed => c.closed \/ x.pc \in Draws
  BY <1>7, <1>8 DEF Draws
<1> QED BY <1>1, <1>2, <1>3, <1>5, <1>8, <1>9, <1>10, <1>11, FlagMoves

\* Where op_mu is kept until the engine is closed.
LEMMA ShutDrainStep ==
  ASSUME ApiInvariant, NEW t \in Threads, shut_drain(t)
  PROVE  ApiInvariant'
<1> DEFINE type == "close"
           task == [type |-> "close", by |-> t]
           v == [c EXCEPT !.mu = t]
<1>1. /\ c \in Core /\ CoreOK(c) /\ IoOK(c, io) /\ ThreadsOK /\ th[t].pc = "shut_drain" /\ io' = io
      /\ c.active = 0
  BY DEF ApiInvariant, CoreOK, shut_drain, At
<1>2. /\ t \in {main, fin} /\ c.handle = "freeing" /\ c.gone /\ c.threads # "gone"
      /\ t = fin => c.threads = "run"
      /\ c.threads = "none" => c.gen = 0 /\ ~c.eng
      /\ c.closed
      /\ \A u \in Threads \ {t} : th[u].pc \in Blocked /\ th[u].pc \notin FreePcs
  <2>1. th[t].pc \in FreePcs /\ th[t].pc # "shutdown"
    BY <1>1 DEF FreePcs
  <2> QED BY <2>1, FreeIs
<1>3. LeftOK'
  <2>1. left' = left
    BY DEF shut_drain
  <2> QED BY <2>1, LeftSpent DEF ApiInvariant
<1>4. \A f \in {"fn", "cleanup", "close"} : Due(c, Await(f, t)) = 0
  BY <1>1, AwaitsNothing
<1>5. th[t].pc \in FreePcs
  BY <1>1 DEF FreePcs
<1>6. CASE ~c.eng
  <2>1. c' = c /\ Go(t, "reset_guard")
    BY <1>6 DEF shut_drain
  <2>2. PICK x \in ThreadState : /\ th' = [th EXCEPT ![t] = x]
                                 /\ x.pc = "reset_guard" /\ x.o = th[t].o /\ x.k = th[t].k /\ x.res = th[t].res
    <3> DEFINE pc == "reset_guard"
    <3>1. pc \in WorkerPcs \union MainPcs /\ Go(t, pc)
      BY <2>1 DEF WorkerPcs, MainPcs, FreePcs
    <3> HIDE DEF pc
    <3>2. \E x \in ThreadState : /\ th' = [th EXCEPT ![t] = x]
                                 /\ x.pc = pc /\ x.o = th[t].o /\ x.k = th[t].k /\ x.res = th[t].res
      BY <1>1, <3>1, Goes
    <3> QED BY <3>2 DEF pc
  <2>3. ThreadOK(c, t, x)
    <3>1. x.pc \in FreePcs
      BY <2>2 DEF FreePcs
    <3> QED BY <1>2, <1>4, <2>2, <3>1, FreeAt
  <2>4. MayGo(t, x)
    BY <1>1, <1>2, <1>5, <2>2 DEF MayGo, Initiate, Draws
  <2> QED BY <1>1, <1>3, <2>1, <2>2, <2>3, <2>4, OnlyMoves
<1>7. CASE c.eng
  <2>1. c' = Post(v, task) /\ Go(t, "shut_future")
    BY <1>7 DEF shut_drain
  <2>2. c.threads = "run"
    BY <1>1, <1>2, <1>7 DEF Core
  <2>3. /\ v \in Core /\ SameBut(c, v) /\ v.closed = c.closed
        /\ v.gone = c.gone /\ v.active = c.active /\ v.accepting = c.accepting /\ v.handle = c.handle
    BY <1>1, <1>2 DEF Core, SameBut
  <2>4. task = Await(type, t) /\ type \in {"fn", "cleanup", "close"}
    BY DEF Await
  <2> HIDE DEF task, type, v
  <2>5. task \in Tasks /\ Key(task) = Await(type, t)
    BY <2>4, KeysTyped
  <2>6. Concerns(task, t)
    BY <2>5, KeysDiffer DEF Concerns
  <2>7. /\ c' \in Core /\ (Holds(v) => Holds(c'))
        /\ c'.closed = c.closed /\ c'.gone = c.gone /\ c'.active = c.active
        /\ c'.threads = c.threads
        /\ c'.accepting = c.accepting /\ c'.handle = c.handle /\ c'.returned = c.returned
        /\ c'.late = c.late /\ c'.stale = c.stale
        /\ \A o \in Objs : /\ c'.obj[o].held = c.obj[o].held /\ c'.obj[o].aio = c.obj[o].aio
                           /\ c'.obj[o].pend = c.obj[o].pend
        /\ \A f : Due(c', f) = Due(c, f) + (IF f = Key(task) THEN 1 ELSE 0)
        /\ \A f : Due(c', f) \in Nat /\ Due(c, f) \in Nat
    <3>1. Adds(v, c', Key(task))
      BY <2>1, <2>3, <2>5, PostAdds
    <3>2. Moves(v, c')
      BY <3>1 DEF Adds
    <3>3. \A f : Due(v, f) = Due(c, f)
      <4>1. SameEngine(c, v)
        BY <2>3 DEF SameEngine, SameBut
      <4> QED BY <4>1, SameDue
    <3>4. \A f : Due(c', f) = Due(c, f) + (IF f = Key(task) THEN 1 ELSE 0)
      BY <3>1, <3>3 DEF Adds
    <3>5. /\ c' \in Core /\ (Holds(v) => Holds(c'))
          /\ c'.closed = v.closed /\ c'.gone = v.gone /\ c'.active = v.active
          /\ c'.threads = v.threads
          /\ c'.accepting = v.accepting /\ c'.handle = v.handle /\ c'.returned = v.returned
          /\ c'.late = v.late /\ c'.stale = v.stale
          /\ \A o \in Objs : /\ c'.obj[o].held = v.obj[o].held /\ c'.obj[o].aio = v.obj[o].aio
                             /\ c'.obj[o].pend = v.obj[o].pend
      BY <3>2, MovesKeeps
    <3>6. \A f : Due(c', f) \in Nat /\ Due(c, f) \in Nat
      BY <1>1, <3>5, DueType
    <3>7. /\ v.obj = c.obj /\ v.threads = c.threads /\ v.returned = c.returned
          /\ v.late = c.late /\ v.stale = c.stale
      BY <2>3 DEF SameBut
    <3> QED BY <2>3, <3>4, <3>5, <3>6, <3>7
  <2>8. Holds(c')
    <3>1. Holds(v)
      BY <1>1, <2>3 DEF CoreOK, Holds, SameBut
    <3> QED BY <2>7, <3>1
  <2>9. \A o \in Objs, k \in {"recv", "send"} : Due(c', Op(o, k, none)) = Due(c, Op(o, k, none))
    <3>1. \A o, k : Key(task) # Op(o, k, none)
      BY <2>5, KeysDiffer
    <3> QED BY <2>7, <3>1
  <2>10. CoreOK(c')
    <3>1. \A o \in Objs, k \in {"recv", "send"} : Due(c', Op(o, k, none)) > 0 => c'.obj[o].aio
      BY <1>1, <2>7, <2>9 DEF CoreOK
    <3> QED BY <1>1, <2>2, <2>7, <2>8, <3>1 DEF CoreOK
  <2>11. IoOK(c', io)
    BY <1>1, <2>7 DEF IoOK, IoState
  <2>12. SameCounts
    <3>1. \A o, k : Key(task) # Op(o, k, none)
      BY <2>5, KeysDiffer
    <3>2. \A o \in Objs, k \in Kinds : Due(c', Op(o, k, none)) = Due(c, Op(o, k, none))
      BY <2>7, <3>1
    <3>3. \A o \in Objs : Due(c', Arm(o)) = Due(c, Arm(o))
      BY <2>6, <2>7 DEF Concerns
    <3> QED BY <2>7, <3>2, <3>3 DEF SameCounts
  <2>13. PICK x \in ThreadState : /\ th' = [th EXCEPT ![t] = x]
                                  /\ x.pc = "shut_future" /\ x.o = th[t].o /\ x.k = th[t].k /\ x.res = th[t].res
    <3> DEFINE pc == "shut_future"
    <3>1. pc \in WorkerPcs \union MainPcs /\ Go(t, pc)
      BY <2>1 DEF WorkerPcs, MainPcs, FreePcs
    <3> HIDE DEF pc
    <3>2. \E x \in ThreadState : /\ th' = [th EXCEPT ![t] = x]
                                 /\ x.pc = pc /\ x.o = th[t].o /\ x.k = th[t].k /\ x.res = th[t].res
      BY <1>1, <3>1, Goes
    <3> QED BY <3>2 DEF pc
  <2>14. ThreadOK(c', t, x)
    <3>1. type = "close"
      BY DEF type
    <3>2. Await("fn", t) # Key(task) /\ Await("cleanup", t) # Key(task) /\ Await("close", t) = Key(task)
      BY <2>5, <3>1, KeysDiffer
    <3>3. Due(c', Await("fn", t)) = 0 /\ Due(c', Await("cleanup", t)) = 0 /\ Due(c', Await("close", t)) = 1
      BY <1>4, <2>7, <3>2
    <3>4. c'.threads = "run" /\ c'.closed /\ c'.handle = "freeing"
      BY <1>2, <2>2, <2>7
    <3>5. RoleOK(t, x)
      BY <1>2, <2>13, CApiAssumption DEF RoleOK, MainPcs, FreePcs
    <3>6. WaitOK(c', t, x)
      BY <1>2, <2>13, <3>3 DEF WaitOK
    <3>7. PhaseOK(c', t, x)
      BY <2>13, <3>4 DEF PhaseOK, FreePcs
    <3> QED BY <3>5, <3>6, <3>7 DEF ThreadOK
  <2>15. \A u \in Threads \ {t} : ThreadOK(c', u, th[u])
    <3>1. SUFFICES ASSUME NEW u \in Threads, u # t PROVE ThreadOK(c', u, th[u])
      OBVIOUS
    <3>2. (\A o, k : Key(task) # Op(o, k, u)) /\ \A f : Key(task) # Await(f, u)
      BY <2>6, <3>1 DEF Concerns
    <3>3. /\ \A o \in Objs, k \in Kinds : Due(c', Op(o, k, u)) = Due(c, Op(o, k, u))
          /\ \A f \in {"fn", "cleanup", "close"} : Due(c', Await(f, u)) = Due(c, Await(f, u))
      BY <2>7, <3>2
    <3>4. ThreadOK(c, u, th[u])
      BY <1>1 DEF ThreadsOK
    <3> QED BY <2>2, <2>7, <3>3, <3>4, OthersKeep
  <2>16. MayGo(t, x)
    <3>1. x.pc \notin {"initiate", "end", "ask", "arm"}
      BY <2>13
    <3> QED BY <1>1, <1>2, <1>5, <3>1 DEF MayGo, Initiate, Draws
  <2> QED BY <1>1, <1>3, <2>7, <2>10, <2>11, <2>12, <2>13, <2>14, <2>15, <2>16, ThreadMoves
<1> QED BY <1>6, <1>7

\* op_mu is let go, or the work guard: what both leave of the invariant.
LEMMA FreeMoves ==
  ASSUME ApiInvariant, NEW t \in Threads, th[t].pc \in {"shut_unlock", "reset_guard"}, io' = io, left' = left,
         c' \in Core, SameBut(c, c'), c'.closed = c.closed, c'.gone = c.gone, c'.active = c.active,
         c'.accepting = c.accepting, c'.handle = c.handle,
         NEW pc \in {"reset_guard", "join"}, Go(t, pc)
  PROVE  ApiInvariant'
<1>1. /\ t \in {main, fin} /\ c.handle = "freeing" /\ c.gone /\ c.threads # "gone"
      /\ t = fin => c.threads = "run"
      /\ c.threads = "none" => c.gen = 0 /\ ~c.eng
      /\ c.closed /\ th[t].pc \in FreePcs
      /\ \A u \in Threads \ {t} : th[u].pc \in Blocked /\ th[u].pc \notin FreePcs
  <2>1. th[t].pc \in FreePcs /\ th[t].pc # "shutdown"
    BY DEF FreePcs
  <2> QED BY <2>1, FreeIs
<1>2. LeftOK' /\ ThreadsOK
  BY LeftSpent DEF ApiInvariant
<1>3. \A f : Due(c', f) = Due(c, f)
  <2>1. SameEngine(c, c')
    BY DEF SameEngine, SameBut
  <2> QED BY <2>1, SameDue
<1>4. PICK x \in ThreadState : /\ th' = [th EXCEPT ![t] = x]
                               /\ x.pc = pc /\ x.o = th[t].o /\ x.k = th[t].k /\ x.res = th[t].res
  <2>1. pc \in WorkerPcs \union MainPcs
    BY DEF MainPcs, FreePcs
  <2> QED BY <1>2, <2>1, Goes
<1>5. ThreadOK(c', t, x)
  <2>1. \A type \in {"fn", "cleanup", "close"} : Due(c', Await(type, t)) = 0
    BY <1>3, AwaitsNothing
  <2>2. /\ c'.threads # "gone" /\ (c'.threads = "none" => c'.gen = 0 /\ ~c'.eng)
        /\ t = fin => c'.threads = "run"
    BY <1>1 DEF SameBut
  <2>3. x.pc \in FreePcs
    BY <1>4 DEF FreePcs
  <2> QED BY <1>1, <1>4, <2>1, <2>2, <2>3, FreeAt
<1>6. MayGo(t, x)
  BY <1>1, <1>4 DEF MayGo, Initiate, Draws
<1> QED BY <1>1, <1>2, <1>4, <1>5, <1>6, FlagMoves

\* shutdown lets op_mu go ...
LEMMA ShutUnlockStep ==
  ASSUME ApiInvariant, NEW t \in Threads, shut_unlock(t)
  PROVE  ApiInvariant'
<1>1. c \in Core /\ th[t].pc = "shut_unlock" /\ io' = io /\ left' = left
  BY DEF ApiInvariant, CoreOK, shut_unlock, At
<1>2. c' = [c EXCEPT !.mu = none] /\ Go(t, "reset_guard")
  BY DEF shut_unlock
<1>3. /\ c' \in Core /\ SameBut(c, c') /\ c'.closed = c.closed
      /\ c'.gone = c.gone /\ c'.active = c.active
      /\ c'.accepting = c.accepting /\ c'.handle = c.handle
  BY <1>1, <1>2 DEF Core, SameBut
<1> DEFINE pc == "reset_guard"
<1>4. pc \in {"reset_guard", "join"} /\ Go(t, pc)
  BY <1>2
<1> HIDE DEF pc
<1> QED BY <1>1, <1>3, <1>4, FreeMoves

\* ... and the io threads end when they have no more work.
LEMMA ResetGuardStep ==
  ASSUME ApiInvariant, NEW t \in Threads, reset_guard(t)
  PROVE  ApiInvariant'
<1>1. c \in Core /\ th[t].pc = "reset_guard" /\ io' = io /\ left' = left
  BY DEF ApiInvariant, CoreOK, reset_guard, At
<1>2. c' = [c EXCEPT !.guard = FALSE] /\ Go(t, "join")
  BY DEF reset_guard
<1>3. /\ c' \in Core /\ SameBut(c, c') /\ c'.closed = c.closed
      /\ c'.gone = c.gone /\ c'.active = c.active
      /\ c'.accepting = c.accepting /\ c'.handle = c.handle
  BY <1>1, <1>2 DEF Core, SameBut
<1> DEFINE pc == "join"
<1>4. pc \in {"reset_guard", "join"} /\ Go(t, pc)
  BY <1>2
<1> HIDE DEF pc
<1> QED BY <1>1, <1>3, <1>4, FreeMoves

\* The io threads have run out of work: nobody waits, nothing is left.
LEMMA JoinStep ==
  ASSUME ApiInvariant, NEW t \in Threads, join(t)
  PROVE  ApiInvariant'
<1>1. /\ c \in Core /\ CoreOK(c) /\ IoOK(c, io) /\ ThreadsOK /\ th[t].pc = "join" /\ io' = io
      /\ th' = [th EXCEPT ![t] = Idle]
  BY DEF ApiInvariant, CoreOK, join, At, Return
<1>2. /\ c.handle = "freeing" /\ c.gone /\ c.threads # "gone" /\ c.closed
      /\ \A u \in Threads \ {t} : th[u].pc \in Blocked /\ th[u].pc \notin FreePcs
  <2>1. th[t].pc \in FreePcs /\ th[t].pc # "shutdown"
    BY <1>1 DEF FreePcs
  <2> QED BY <2>1, FreeIs
<1>3. LeftOK'
  <2>1. left' = left
    BY DEF join
  <2> QED BY <2>1, LeftSpent DEF ApiInvariant
<1>4. c' = [c EXCEPT !.threads = "gone", !.handle = "freed", !.returned = TRUE]
  BY DEF join
<1>5. c.queue = <<>> /\ c.ops = <<>> /\ io.pc = "idle"
  <2>1. CASE c.threads = "run"
    <3>1. OutOfWork
      BY <2>1 DEF join
    <3> QED BY <1>1, <3>1 DEF OutOfWork, CoreOK, Holds
  <2>2. CASE c.threads = "none"
    BY <1>1, <2>2 DEF CoreOK, IoOK
  <2> QED BY <1>1, <1>2, <2>1, <2>2 DEF Core
<1>6. \A f : Due(c, f) = 0
  <2>1. SUFFICES ASSUME NEW f PROVE Due(c, f) = 0
    OBVIOUS
  <2>2. Occurs(<<>>, This(f)) = 0 /\ Occurs(<<>>, Carries(f)) = 0
    BY OccursEmpty
  <2> QED BY <1>5, <2>2 DEF Due
<1>7. /\ c' \in Core /\ c'.eng = c.eng /\ c'.gen = c.gen
      /\ c'.queue = c.queue /\ c'.ops = c.ops /\ c'.obj = c.obj
      /\ c'.closed = c.closed /\ c'.gone = c.gone /\ c'.active = c.active
      /\ c'.threads = "gone" /\ c'.accepting = c.accepting /\ c'.handle = "freed"
      /\ c'.returned /\ c'.late = c.late /\ c'.stale = c.stale
  BY <1>1, <1>4 DEF Core
<1>8. \A f : Due(c', f) = 0
  <2>1. SameEngine(c, c')
    BY <1>7 DEF SameEngine
  <2> QED BY <1>6, <2>1, SameDue
<1>9. CoreOK(c') /\ IoOK(c', io)
  <2>1. Holds(c')
    BY <1>1, <1>7 DEF Holds, CoreOK
  <2>2. \A o \in Objs, k \in {"recv", "send"} : Due(c', Op(o, k, none)) > 0 => c'.obj[o].aio
    BY <1>8
  <2>3. c'.ops = <<>> /\ \A i \in DOMAIN c'.queue : c'.queue[i].type = "close_socket"
    BY <1>5, <1>7
  <2>4. CoreOK(c')
    BY <1>1, <1>2, <1>7, <2>1, <2>2, <2>3 DEF CoreOK
  <2>5. IoOK(c', io)
    BY <1>1, <1>5, <1>7 DEF IoOK
  <2> QED BY <2>4, <2>5
<1>10. SameCounts
  BY <1>6, <1>7, <1>8 DEF SameCounts
<1>11. ThreadOK(c', t, Idle) /\ Idle \in ThreadState
  <2>1. \A type \in {"fn", "cleanup", "close"} : Due(c', Await(type, t)) = 0
    BY <1>8
  <2>2. c'.threads # "none"
    BY <1>7
  <2> QED BY <2>1, <2>2, Comes
<1>12. Initiating = {}
  <2>1. ~Draining
    BY <1>1, <1>2, <1>5 DEF Draining, Blocked
  <2> QED BY <1>2, <2>1 DEF ApiInvariant, Drained
<1>13. \A u \in Threads \ {t} : ThreadOK(c', u, th[u])
  <2>1. SUFFICES ASSUME NEW u \in Threads, u # t PROVE ThreadOK(c', u, th[u])
    OBVIOUS
  <2>2. RoleOK(u, th[u]) /\ WaitOK(c, u, th[u])
    BY <1>1, ThreadFacts
  <2>3. th[u].pc \in {"idle", "begin", "wait"}
    BY <1>2, <1>12, <2>1 DEF Blocked, Initiating
  <2>4. th[u].pc = "wait" => th[u].res # "none"
    BY <1>6, <2>2 DEF WaitOK
  <2>5. WaitOK(c', u, th[u])
    <3>1. th[u].pc \notin {"end", "wait"} \/ th[u].res # "none"
      BY <2>3, <2>4
    <3>2. \A type \in {"fn", "cleanup", "close"} : Due(c', Await(type, u)) = 0
      BY <1>8
    <3> QED BY <3>1, <3>2, WaitsForNothing
  <2>6. PhaseOK(c', u, th[u])
    BY <1>7, <2>3, <2>4 DEF PhaseOK, FreePcs
  <2> QED BY <2>2, <2>5, <2>6 DEF ThreadOK
<1>14. MayGo(t, Idle)
  <2>1. Idle.pc = "idle"
    BY DEF Idle
  <2> QED BY <1>1, <2>1 DEF MayGo, Initiate, Draws, FreePcs, Blocked
<1>15. c'.closed => c.closed
  BY <1>7
<1> QED BY <1>1, <1>3, <1>9, <1>10, <1>11, <1>13, <1>14, <1>15, ThreadMoves

-----------------------------------------------------------------------------
(***************************************************************************)
(* The executor: tasks, completions, callbacks.                            *)
(***************************************************************************)
\* Every thread stays where it is; a result may be there.
PcsStay == \A u \in Threads : th'[u].pc = th[u].pc /\ th'[u].o = th[u].o /\ th'[u].k = th[u].k

\* What depends on where the threads are only.
LEMMA Stay ==
  ASSUME PcsStay
  PROVE  /\ Initiating' = Initiating
         /\ \A o, k : Asking(o, k)' = Asking(o, k)
         /\ \A o : MainArms(o)' = MainArms(o)
         /\ Alone => Alone'
         /\ (\E t \in Threads : th[t].pc \in Draws) => \E t \in Threads : th'[t].pc \in Draws
<1>1. Initiating' = Initiating
  BY DEF PcsStay, Initiating
<1>2. \A o, k : Asking(o, k)' = Asking(o, k)
  BY DEF PcsStay, Asking, At
<1>3. \A o : MainArms(o)' = MainArms(o)
  BY DEF PcsStay, MainArms, Threads
<1>4. Alone => Alone'
  BY DEF PcsStay, Alone
<1>5. (\E t \in Threads : th[t].pc \in Draws) => \E t \in Threads : th'[t].pc \in Draws
  BY DEF PcsStay
<1> QED BY <1>1, <1>2, <1>3, <1>4, <1>5

\* A read or write that is due no more has its flag down, one that is due once
\* more has it up.
PendingMoves ==
  \A o \in Objs, k \in {"recv", "send"} : Single(o, k) =>
    Due(c', Op(o, k, none)) + (IF k \in c.obj[o].pend THEN 1 ELSE 0)
      = Due(c, Op(o, k, none)) + (IF k \in c'.obj[o].pend THEN 1 ELSE 0)

\* So has an accept, or its flag stays up.
AcceptMoves ==
  \A o \in Objs :
    Due(c', Op(o, "accept", none)) + Due(c', Arm(o)) + IoArms(o)' + (IF c.accepting[o] THEN 1 ELSE 0)
      <= Due(c, Op(o, "accept", none)) + Due(c, Arm(o)) + IoArms(o) + (IF c'.accepting[o] THEN 1 ELSE 0)

\* A step of the executor.
LEMMA IoMoves ==
  ASSUME ApiInvariant, PcsStay, ThreadsOK', CoreOK(c'), IoOK(c', io'), LeftOK', c'.active = c.active,
         c'.closed => c.closed \/ io'.pc = "drain",
         io.pc = "drain" => io'.pc = "drain" \/ c.active = 0,
         PendingMoves, AcceptMoves
  PROVE  ApiInvariant'
<1>1. ThreadsOK /\ Alone /\ ActiveCounts /\ Drained /\ PendingDue /\ AcceptDue /\ c \in Core /\ c' \in Core
  BY DEF ApiInvariant, CoreOK
<1>2. /\ Initiating' = Initiating
      /\ \A o, k : Asking(o, k)' = Asking(o, k)
      /\ \A o : MainArms(o)' = MainArms(o)
      /\ Alone => Alone'
      /\ (\E t \in Threads : th[t].pc \in Draws) => \E t \in Threads : th'[t].pc \in Draws
  BY Stay
<1>3. Alone' /\ ActiveCounts'
  BY <1>1, <1>2 DEF ActiveCounts
<1>4. \A f : Due(c, f) \in Nat /\ Due(c', f) \in Nat
  BY <1>1, DueType
<1>5. Drained'
  <2>1. SUFFICES ASSUME c'.closed, ~Draining' PROVE Initiating = {}
    BY <1>2 DEF Drained
  <2>2. c.closed /\ ~(\E t \in Threads : th[t].pc \in Draws) /\ io'.pc # "drain"
    BY <1>2, <2>1 DEF Draining, Draws
  <2>3. CASE io.pc = "drain"
    <3>1. IsFiniteSet(Initiating) /\ Cardinality(Initiating) = 0
      BY <1>1, <2>2, <2>3, ThreadsFinite DEF Initiating, ActiveCounts
    <3> QED BY <3>1, FS_EmptySet
  <2>4. CASE io.pc # "drain"
    BY <1>1, <2>2, <2>4 DEF Drained, Draining, Draws
  <2> QED BY <2>3, <2>4
<1>6. PendingDue'
  <2>1. SUFFICES ASSUME NEW o \in Objs, NEW k \in {"recv", "send"}, Single(o, k)
                 PROVE  Due(c', Op(o, k, none)) + Cardinality(Asking(o, k)')
                          = IF k \in c'.obj[o].pend THEN 1 ELSE 0
    BY DEF PendingDue, Single
  <2>2. Due(c, Op(o, k, none)) + Cardinality(Asking(o, k)) = IF k \in c.obj[o].pend THEN 1 ELSE 0
    BY <1>1, <2>1 DEF PendingDue
  <2>3. Due(c', Op(o, k, none)) + (IF k \in c.obj[o].pend THEN 1 ELSE 0)
          = Due(c, Op(o, k, none)) + (IF k \in c'.obj[o].pend THEN 1 ELSE 0)
    BY <2>1 DEF PendingMoves
  <2>4. Asking(o, k)' = Asking(o, k) /\ Cardinality(Asking(o, k)) \in Nat
    BY <1>2, AskingCounts
  <2> QED BY <1>4, <2>2, <2>3, <2>4
<1>7. AcceptDue'
  <2>1. SUFFICES ASSUME NEW o \in Objs
                 PROVE  Due(c', Op(o, "accept", none)) + Due(c', Arm(o)) + MainArms(o)' + IoArms(o)'
                          <= IF c'.accepting[o] THEN 1 ELSE 0
    BY DEF AcceptDue
  <2>2. Due(c, Op(o, "accept", none)) + Due(c, Arm(o)) + MainArms(o) + IoArms(o)
          <= IF c.accepting[o] THEN 1 ELSE 0
    BY <1>1 DEF AcceptDue
  <2>3. Due(c', Op(o, "accept", none)) + Due(c', Arm(o)) + IoArms(o)' + (IF c.accepting[o] THEN 1 ELSE 0)
          <= Due(c, Op(o, "accept", none)) + Due(c, Arm(o)) + IoArms(o) + (IF c'.accepting[o] THEN 1 ELSE 0)
    BY DEF AcceptMoves
  <2>4. MainArms(o)' = MainArms(o) /\ MainArms(o) \in Nat /\ IoArms(o) \in Nat /\ IoArms(o)' \in Nat
    BY <1>2 DEF MainArms, IoArms
  <2> QED BY <1>4, <2>2, <2>3, <2>4
<1> QED BY <1>3, <1>5, <1>6, <1>7 DEF ApiInvariant

\* The threads stay right when none of them moves.
LEMMA ThreadsKeep ==
  ASSUME ApiInvariant, th' = th, c'.threads = c.threads, c.threads = "run", c'.handle = c.handle,
         c.closed => c'.closed, \A o \in Objs : c.obj[o].aio => c'.obj[o].aio,
         \A u \in Workers, o \in Objs, k \in Kinds : Due(c', Op(o, k, u)) = Due(c, Op(o, k, u)),
         \A u \in Threads, type \in {"fn", "cleanup", "close"} :
           Due(c', Await(type, u)) = Due(c, Await(type, u))
  PROVE  ThreadsOK' /\ PcsStay
<1>1. ThreadsOK /\ th \in [Threads -> ThreadState]
  BY DEF ApiInvariant, ThreadsOK
<1>2. ASSUME NEW u \in Threads PROVE ThreadOK(c', u, th[u])
  <2>1. ThreadOK(c, u, th[u])
    BY <1>1 DEF ThreadsOK
  <2>2. \A type \in {"fn", "cleanup", "close"} : Due(c', Await(type, u)) = Due(c, Await(type, u))
    OBVIOUS
  <2>3. u \in Workers => \A o \in Objs, k \in Kinds : Due(c', Op(o, k, u)) = Due(c, Op(o, k, u))
    OBVIOUS
  <2> QED BY <2>1, <2>2, <2>3, OthersKeep
<1> QED BY <1>1, <1>2 DEF ThreadsOK, PcsStay

\* The caller of a blocking operation finds its result.
LEMMA SlotFinishStep ==
  ASSUME ApiInvariant, slot_finish
  PROVE  ApiInvariant'
<1> DEFINE t == Now.op.by
           x == [th[t] EXCEPT !.res = Now.res]
           type == "done"
<1>1. Task(type) /\ t # none /\ c' = Popped /\ th' = [th EXCEPT ![t].res = Now.res] /\ io' = io /\ left' = left
  BY DEF slot_finish
<1>2. /\ c \in Core /\ Holds(c) /\ c.threads = "run" /\ io.pc = "idle"
      /\ Now \in Tasks /\ Now.type = type
      /\ Popped \in Core /\ Holds(Popped) /\ Moves(c, Popped)
      /\ \A f : Due(c, f) = Due(Popped, f) + (IF f = Key(Now) THEN 1 ELSE 0)
      /\ \A f : Due(c, f) \in Nat /\ Due(Popped, f) \in Nat
  <2> HIDE DEF type
  <2> QED BY <1>1, TaskTaken
<1>3. Now.op \in Ops /\ Now.res \in Results /\ Key(Now) = Now.op /\ t \in Workers /\ Now.op = Op(Now.op.o, Now.op.k, t)
  <2>1. Now.op \in Ops /\ Now.res \in Results /\ Key(Now) = Now.op
    BY <1>2, TaskTypes
  <2> QED BY <1>1, <2>1 DEF Ops, Op
<1> DEFINE o == Now.op.o
           k == Now.op.k
<1>4. Key(Now) = Op(o, k, t)
  BY <1>3
<1> HIDE DEF o, k
<1>5. /\ c' \in Core /\ c'.closed = c.closed /\ c'.active = c.active /\ c'.accepting = c.accepting
      /\ c'.threads = c.threads /\ c'.handle = c.handle /\ c'.gone = c.gone /\ c'.returned = c.returned
      /\ c'.late = c.late /\ c'.stale = c.stale /\ Holds(c')
      /\ \A p \in Objs : /\ c'.obj[p].held = c.obj[p].held /\ c'.obj[p].aio = c.obj[p].aio
                         /\ c'.obj[p].pend = c.obj[p].pend
  <2>1. Moves(c, c') /\ Holds(c)
    BY <1>1, <1>2
  <2> QED BY <2>1, MovesKeeps
<1>6. \A f : f # Key(Now) => Due(c', f) = Due(c, f)
  BY <1>1, <1>2
<1>7. (\A p, j : Due(c', Op(p, j, none)) = Due(c, Op(p, j, none))) /\ \A p : Due(c', Arm(p)) = Due(c, Arm(p))
  BY <1>1, <1>4, <1>6, KeysDiffer
<1>8. \A f, u : Due(c', Await(f, u)) = Due(c, Await(f, u))
  BY <1>4, <1>6, KeysDiffer
<1>9. \A p, j, u : u # t => Due(c', Op(p, j, u)) = Due(c, Op(p, j, u))
  BY <1>4, <1>6, KeysDiffer
<1>10. CoreOK(c) /\ IoOK(c, io) /\ ThreadsOK /\ th \in [Threads -> ThreadState] /\ t \in Threads
  BY <1>3 DEF ApiInvariant, ThreadsOK, Threads
<1>11. CoreOK(c')
  <2>1. \A p \in Objs, j \in {"recv", "send"} : Due(c', Op(p, j, none)) > 0 => c'.obj[p].aio
    BY <1>5, <1>7, <1>10 DEF CoreOK
  <2> QED BY <1>2, <1>5, <1>10, <2>1 DEF CoreOK
<1>12. IoOK(c', io')
  BY <1>1, <1>2, <1>5, <1>10 DEF IoOK
<1>13. /\ x \in ThreadState /\ x.pc = th[t].pc /\ x.o = th[t].o /\ x.k = th[t].k /\ x.res # "none"
       /\ th' = [th EXCEPT ![t] = x]
  <2>1. th[t] \in ThreadState /\ Now.res # "none" /\ Now.res \in Results \union {"none", "failed"}
    BY <1>3, <1>10 DEF Results
  <2> QED BY <1>1, <1>10, <2>1 DEF ThreadState
<1> HIDE DEF x
<1>14. ThreadOK(c', t, x)
  <2>1. RoleOK(t, th[t]) /\ WaitOK(c, t, th[t]) /\ PhaseOK(c, t, th[t])
    BY <1>10, ThreadFacts
  <2>2. RoleOK(t, x)
    BY <1>13, <2>1 DEF RoleOK
  <2>3. WaitOK(c', t, x)
    BY <1>8, <1>13, <2>1 DEF WaitOK
  <2>4. PhaseOK(c', t, x)
    <3>1. x.o \in Objs
      BY <1>13 DEF ThreadState
    <3> QED BY <1>2, <1>5, <1>13, <2>1, <3>1 DEF PhaseOK
  <2> QED BY <2>2, <2>3, <2>4 DEF ThreadOK
<1>15. \A u \in Threads \ {t} : ThreadOK(c', u, th[u])
  <2>1. SUFFICES ASSUME NEW u \in Threads, u # t PROVE ThreadOK(c', u, th[u])
    OBVIOUS
  <2>2. ThreadOK(c, u, th[u])
    BY <1>10 DEF ThreadsOK
  <2>3. /\ \A p \in Objs, j \in Kinds : Due(c', Op(p, j, u)) = Due(c, Op(p, j, u))
        /\ \A f \in {"fn", "cleanup", "close"} : Due(c', Await(f, u)) = Due(c, Await(f, u))
    BY <1>8, <1>9, <2>1
  <2> QED BY <1>2, <1>5, <2>2, <2>3, OthersKeep
<1>16. ThreadsOK'
  BY <1>10, <1>13, <1>14, <1>15, StayRight
<1>17. PcsStay
  <2>1. /\ th'[t] = x
        /\ \A u \in Threads : u # t => th'[u] = th[u]
    BY <1>10, <1>13, OneMoves
  <2> QED BY <1>13, <2>1 DEF PcsStay
<1>18. PendingMoves
  BY <1>5, <1>7 DEF PendingMoves
<1>19. AcceptMoves
  <2>1. \A p : IoArms(p)' = IoArms(p)
    BY <1>1 DEF IoArms
  <2>2. SUFFICES ASSUME NEW p \in Objs
                 PROVE  Due(c', Op(p, "accept", none)) + Due(c', Arm(p)) + IoArms(p)' + (IF c.accepting[p] THEN 1 ELSE 0)
                          <= Due(c, Op(p, "accept", none)) + Due(c, Arm(p)) + IoArms(p) + (IF c'.accepting[p] THEN 1 ELSE 0)
    BY DEF AcceptMoves
  <2>3. Due(c, Op(p, "accept", none)) \in Nat /\ Due(c, Arm(p)) \in Nat /\ IoArms(p) \in Nat
    BY <1>2 DEF IoArms
  <2> QED BY <1>5, <1>7, <2>1, <2>3
<1>20. LeftOK'
  BY <1>1, LeftSpent DEF ApiInvariant
<1>21. (c'.closed => c.closed) /\ io.pc # "drain"
  BY <1>2, <1>5
<1> QED BY <1>5, <1>11, <1>12, <1>16, <1>17, <1>18, <1>19, <1>20, <1>21, IoMoves

\* A task somebody waits for is taken: its waiter is waiting, for nothing else.
LEMMA WaiterIs ==
  ASSUME ApiInvariant, NEW type \in {"fn", "cleanup", "close"}, Task(type), NEW t, t = Now.by
  PROVE  /\ t \in Threads /\ Key(Now) = Await(type, t)
         /\ type = "fn" => t \in Workers /\ th[t].pc = "future"
         /\ type = "cleanup" => t = main /\ th[t].pc = "future"
         /\ type = "close" => \/ t = main /\ th[t].pc = "future"
                              \/ t \in {main, fin} /\ th[t].pc = "shut_future"
         /\ \A f \in {"fn", "cleanup", "close"} : Due(Popped, Await(f, t)) = 0
<1>1. /\ Now \in Tasks /\ Now.type = type
      /\ \A f : Due(c, f) = Due(Popped, f) + (IF f = Key(Now) THEN 1 ELSE 0)
      /\ \A f : Due(c, f) \in Nat /\ Due(Popped, f) \in Nat
  BY TaskTaken
<1>2. t \in Threads /\ Key(Now) = Await(type, t)
  BY <1>1, TaskTypes
<1>3. WaitOK(c, t, th[t])
  BY <1>2, ThreadFacts DEF ApiInvariant
<1>4. /\ Due(c, Await("fn", t)) + Due(c, Await("cleanup", t)) + Due(c, Await("close", t)) <= 1
      /\ Due(c, Await("fn", t)) > 0 => t \in Workers /\ th[t].pc = "future"
      /\ Due(c, Await("cleanup", t)) > 0 => t = main /\ th[t].pc = "future"
      /\ Due(c, Await("close", t)) > 0 =>
           \/ t = main /\ th[t].pc = "future"
           \/ t \in {main, fin} /\ th[t].pc = "shut_future"
  BY <1>3 DEF WaitOK
<1>5. Due(c, Await(type, t)) = Due(Popped, Await(type, t)) + 1
  BY <1>1, <1>2
<1>6. Due(c, Await(type, t)) > 0
  BY <1>1, <1>5
<1>7. \A f \in {"fn", "cleanup", "close"} : f # type => Due(c, Await(f, t)) = 0
  BY <1>1, <1>4, <1>6
<1>8. Due(c, Await(type, t)) <= 1
  BY <1>1, <1>4
<1>9. \A f \in {"fn", "cleanup", "close"} : Due(Popped, Await(f, t)) = 0
  <2>1. Due(Popped, Await(type, t)) = 0
    BY <1>1, <1>5, <1>8
  <2>2. \A f \in {"fn", "cleanup", "close"} : f # type => Due(Popped, Await(f, t)) = 0
    <3>1. \A f : f # type => Await(f, t) # Await(type, t)
      BY KeysDiffer
    <3> QED BY <1>1, <1>2, <1>7, <3>1
  <2> QED BY <2>1, <2>2
<1> QED BY <1>2, <1>4, <1>6, <1>9

\* The waiter of a task goes on when it has run.
LEMMA WaiterMoves ==
  ASSUME ApiInvariant, NEW type \in {"fn", "cleanup", "close"}, Task(type), NEW t, t = Now.by,
         Moves(Popped, c'), \A f : Due(c', f) = Due(Popped, f),
         NEW x \in ThreadState, th' = [th EXCEPT ![t] = x], io' = io, LeftOK', MayGo(t, x),
         ThreadOK(c', t, x)
  PROVE  ApiInvariant'
<1>1. /\ c \in Core /\ Holds(c) /\ c.threads = "run"
      /\ Popped \in Core /\ Moves(c, Popped)
      /\ \A f : Due(c, f) = Due(Popped, f) + (IF f = Key(Now) THEN 1 ELSE 0)
      /\ \A f : Due(c, f) \in Nat /\ Due(Popped, f) \in Nat
  BY TaskTaken
<1>2. t \in Threads /\ Key(Now) = Await(type, t)
  BY WaiterIs
<1>3. /\ c' \in Core /\ c'.closed = c.closed /\ c'.active = c.active /\ c'.accepting = c.accepting
      /\ c'.threads = c.threads /\ c'.handle = c.handle /\ c'.gone = c.gone /\ c'.returned = c.returned
      /\ c'.late = c.late /\ c'.stale = c.stale /\ Holds(c')
      /\ \A p \in Objs : /\ c'.obj[p].held = c.obj[p].held /\ c'.obj[p].aio = c.obj[p].aio
                         /\ c'.obj[p].pend = c.obj[p].pend
  <2>1. Moves(c, c') /\ Holds(c)
    BY <1>1, MovesTwice
  <2> QED BY <2>1, MovesKeeps
<1>4. \A f : f # Await(type, t) => Due(c', f) = Due(c, f)
  BY <1>1, <1>2
<1>5. /\ \A o, k, u : Due(c', Op(o, k, u)) = Due(c, Op(o, k, u))
      /\ \A o : Due(c', Arm(o)) = Due(c, Arm(o))
      /\ \A f, u : u # t => Due(c', Await(f, u)) = Due(c, Await(f, u))
  BY <1>4, KeysDiffer
<1>6. CoreOK(c) /\ IoOK(c, io) /\ ThreadsOK
  BY DEF ApiInvariant
<1>7. CoreOK(c')
  <2>1. \A p \in Objs, j \in {"recv", "send"} : Due(c', Op(p, j, none)) > 0 => c'.obj[p].aio
    BY <1>3, <1>5, <1>6 DEF CoreOK
  <2> QED BY <1>1, <1>3, <1>6, <2>1 DEF CoreOK
<1>8. IoOK(c', io)
  BY <1>3, <1>6 DEF IoOK, IoState
<1>9. SameCounts
  BY <1>3, <1>5 DEF SameCounts
<1>10. \A u \in Threads \ {t} : ThreadOK(c', u, th[u])
  <2>1. SUFFICES ASSUME NEW u \in Threads, u # t PROVE ThreadOK(c', u, th[u])
    OBVIOUS
  <2>2. ThreadOK(c, u, th[u])
    BY <1>6 DEF ThreadsOK
  <2>3. /\ \A p \in Objs, j \in Kinds : Due(c', Op(p, j, u)) = Due(c, Op(p, j, u))
        /\ \A f \in {"fn", "cleanup", "close"} : Due(c', Await(f, u)) = Due(c, Await(f, u))
    BY <1>5, <2>1
  <2> QED BY <1>1, <1>3, <2>2, <2>3, OthersKeep
<1> QED BY <1>2, <1>3, <1>7, <1>8, <1>9, <1>10, ThreadMoves

\* The function of a worker's on_io.
LEMMA RunFnStep ==
  ASSUME ApiInvariant, RunFn
  PROVE  ApiInvariant'
<1> DEFINE t == Now.by
           type == "fn"
<1>1. Task(type) /\ th' = [th EXCEPT ![t] = Idle] /\ io' = io /\ left' = left
  BY DEF RunFn, Return
<1>2. type \in {"fn", "cleanup", "close"} /\ type = "fn"
  OBVIOUS
<1> HIDE DEF type, t
<1>3. /\ t \in Threads /\ t \in Workers /\ th[t].pc = "future"
      /\ \A f \in {"fn", "cleanup", "close"} : Due(Popped, Await(f, t)) = 0
  BY <1>1, <1>2, WaiterIs DEF t
<1>4. /\ c.threads = "run" /\ Popped \in Core /\ Holds(Popped) /\ Moves(c, Popped) /\ th[t].o \in Objs
  <2>1. th[t].o \in Objs
    BY <1>3 DEF ApiInvariant, ThreadsOK, ThreadState
  <2> QED BY <1>1, <2>1, TaskTaken
<1>5. Passes(Popped, c')
  <2>1. CASE th[t].k \in {"close", "reset"}
    <3>1. c' = socket_close(Popped, th[t].o)
      BY <2>1 DEF RunFn, t
    <3> QED BY <1>4, <3>1, SocketPasses
  <2>2. CASE th[t].k \notin {"close", "reset"}
    <3>1. c' = Popped
      BY <2>2 DEF RunFn, t
    <3>2. Moves(Popped, Popped)
      <4>1. \A o \in Objs : Popped.obj[o] \in Handles
        BY <1>4 DEF Core
      <4>2. \A o \in Objs : Popped.obj[o] = [Popped.obj[o] EXCEPT !.st = Popped.obj[o].st]
        BY <4>1 DEF Handles
      <4> QED BY <1>4, <4>2 DEF Moves
    <3> QED BY <3>1, <3>2 DEF Passes
  <2> QED BY <2>1, <2>2
<1>6. Moves(Popped, c') /\ \A f : Due(c', f) = Due(Popped, f)
  BY <1>5 DEF Passes
<1>7. ThreadOK(c', t, Idle) /\ Idle \in ThreadState
  <2>1. \A f \in {"fn", "cleanup", "close"} : Due(c', Await(f, t)) = 0
    BY <1>3, <1>6
  <2>2. c'.threads = "run"
    BY <1>4, <1>6, MovesKeeps
  <2> QED BY <1>3, <2>1, <2>2, Comes
<1>8. MayGo(t, Idle)
  <2>1. Idle.pc = "idle"
    BY DEF Idle
  <2> QED BY <1>3, <2>1 DEF MayGo, Initiate, Draws, FreePcs, Blocked
<1>9. LeftOK'
  BY <1>1, LeftSpent DEF ApiInvariant
<1>10. t = Now.by
  BY DEF t
<1> QED BY <1>1, <1>2, <1>6, <1>7, <1>8, <1>9, <1>10, WaiterMoves

\* The old engine is cleaned up for a new one.
LEMMA RunCleanupStep ==
  ASSUME ApiInvariant, RunCleanup
  PROVE  ApiInvariant'
<1> DEFINE t == Now.by
           type == "cleanup"
<1>1. Task(type) /\ Go(t, "build") /\ io' = io /\ left' = left /\ c' = engine_close(Popped)
  BY DEF RunCleanup
<1>2. type \in {"fn", "cleanup", "close"} /\ type = "cleanup"
  OBVIOUS
<1> HIDE DEF type, t
<1>3. /\ t \in Threads /\ t = main /\ th[t].pc = "future"
      /\ \A f \in {"fn", "cleanup", "close"} : Due(Popped, Await(f, t)) = 0
  BY <1>1, <1>2, WaiterIs DEF t
<1>4. c.threads = "run" /\ Popped \in Core /\ Moves(c, Popped)
  BY <1>1, TaskTaken
<1>5. Moves(Popped, c') /\ \A f : Due(c', f) = Due(Popped, f)
  BY <1>1, <1>4, ClosePasses DEF Passes
<1>6. c'.threads = "run"
  BY <1>4, <1>5, MovesKeeps
<1>7. ThreadsOK
  BY DEF ApiInvariant
<1>8. PICK x \in ThreadState : /\ th' = [th EXCEPT ![t] = x]
                               /\ x.pc = "build" /\ x.o = th[t].o /\ x.k = th[t].k /\ x.res = th[t].res
  <2> DEFINE pc == "build"
  <2>1. pc \in WorkerPcs \union MainPcs /\ Go(t, pc)
    BY <1>1 DEF WorkerPcs, MainPcs, FreePcs
  <2> HIDE DEF pc
  <2>2. \E x \in ThreadState : /\ th' = [th EXCEPT ![t] = x]
                               /\ x.pc = pc /\ x.o = th[t].o /\ x.k = th[t].k /\ x.res = th[t].res
    BY <1>3, <1>7, <2>1, Goes
  <2> QED BY <2>2 DEF pc
<1>9. ThreadOK(c', t, x)
  <2>1. \A f \in {"fn", "cleanup", "close"} : Due(c', Await(f, main)) = 0
    BY <1>3, <1>5
  <2>2. x.pc \in {"build", "threads", "opened", "drain", "close"}
    BY <1>8
  <2> QED BY <1>3, <1>6, <1>8, <2>1, <2>2, MainAt
<1>10. MayGo(t, x)
  <2>1. \A u \in Threads \ {t} : th[u].pc \notin FreePcs
    BY <1>3, NobodyElseFrees DEF Blocked
  <2> QED BY <1>3, <1>8, <2>1 DEF MayGo, Initiate, Draws, FreePcs
<1>11. LeftOK'
  BY <1>1, LeftSpent DEF ApiInvariant
<1>12. t = Now.by
  BY DEF t
<1> QED BY <1>1, <1>2, <1>5, <1>8, <1>9, <1>10, <1>11, <1>12, WaiterMoves

\* The engine is closed, for a call that closes it or for one that frees it.
LEMMA RunCloseStep ==
  ASSUME ApiInvariant, RunClose
  PROVE  ApiInvariant'
<1> DEFINE t == Now.by
           type == "close"
<1>1. Task(type) /\ io' = io /\ left' = left /\ c' = engine_close(Popped)
  BY DEF RunClose
<1>2. type \in {"fn", "cleanup", "close"} /\ type = "close"
  OBVIOUS
<1> HIDE DEF type
<1>3. /\ t \in Threads
      /\ \/ t = main /\ th[t].pc = "future"
         \/ t \in {main, fin} /\ th[t].pc = "shut_future"
      /\ \A f \in {"fn", "cleanup", "close"} : Due(Popped, Await(f, t)) = 0
  BY <1>1, <1>2, WaiterIs
<1>4. c.threads = "run" /\ Popped \in Core /\ Moves(c, Popped)
  BY <1>1, TaskTaken
<1>5. Moves(Popped, c') /\ \A f : Due(c', f) = Due(Popped, f)
  BY <1>1, <1>4, ClosePasses DEF Passes
<1>6. c'.threads = "run" /\ c'.closed = c.closed /\ c'.handle = c.handle
  <2>1. Popped.threads = c.threads /\ Popped.closed = c.closed /\ Popped.handle = c.handle
    BY <1>4, MovesKeeps
  <2> QED BY <1>4, <1>5, <2>1, MovesKeeps
<1>7. ThreadsOK /\ LeftOK'
  BY <1>1, LeftSpent DEF ApiInvariant
<1>8. \A f \in {"fn", "cleanup", "close"} : Due(c', Await(f, t)) = 0
  BY <1>3, <1>5
<1>9. CASE th[t].pc = "future"
  <2>1. th' = [th EXCEPT ![t] = Idle]
    BY <1>9 DEF RunClose, Return, At
  <2> HIDE DEF t
  <2>2. ThreadOK(c', t, Idle) /\ Idle \in ThreadState
    BY <1>3, <1>6, <1>8, Comes
  <2>3. MayGo(t, Idle)
    <3>1. Idle.pc = "idle"
      BY DEF Idle
    <3> QED BY <1>9, <3>1 DEF MayGo, Initiate, Draws, FreePcs, Blocked
  <2>4. t = Now.by
    BY DEF t
  <2> QED BY <1>1, <1>2, <1>5, <1>7, <2>1, <2>2, <2>3, <2>4, WaiterMoves
<1>10. CASE th[t].pc = "shut_future"
  <2>1. Go(t, "shut_unlock")
    BY <1>10 DEF RunClose, At
  <2> HIDE DEF t
  <2>2. /\ t \in {main, fin} /\ c.handle = "freeing" /\ c.closed /\ th[t].pc \in FreePcs
        /\ \A u \in Threads \ {t} : th[u].pc \in Blocked /\ th[u].pc \notin FreePcs
    <3>1. th[t].pc \in FreePcs /\ th[t].pc # "shutdown"
      BY <1>10 DEF FreePcs
    <3> QED BY <1>3, <3>1, FreeIs
  <2>3. PICK x \in ThreadState : /\ th' = [th EXCEPT ![t] = x]
                                 /\ x.pc = "shut_unlock" /\ x.o = th[t].o /\ x.k = th[t].k /\ x.res = th[t].res
    <3> DEFINE pc == "shut_unlock"
    <3>1. pc \in WorkerPcs \union MainPcs /\ Go(t, pc)
      BY <2>1 DEF WorkerPcs, MainPcs, FreePcs
    <3> HIDE DEF pc
    <3>2. \E x \in ThreadState : /\ th' = [th EXCEPT ![t] = x]
                                 /\ x.pc = pc /\ x.o = th[t].o /\ x.k = th[t].k /\ x.res = th[t].res
      BY <1>3, <1>7, <3>1, Goes
    <3> QED BY <3>2 DEF pc
  <2>4. ThreadOK(c', t, x)
    <3>1. x.pc \in FreePcs
      BY <2>3 DEF FreePcs
    <3> QED BY <1>6, <1>8, <2>2, <2>3, <3>1, FreeAt
  <2>5. MayGo(t, x)
    BY <1>10, <2>2, <2>3 DEF MayGo, Initiate, Draws
  <2>6. t = Now.by
    BY DEF t
  <2> QED BY <1>1, <1>2, <1>5, <1>7, <2>3, <2>4, <2>5, <2>6, WaiterMoves
<1> QED BY <1>3, <1>9, <1>10

\* The core stays right while the io threads run.
LEMMA CoreKeeps ==
  ASSUME CoreOK(c), c.threads = "run", c' \in Core, Holds(c'), c'.threads = "run", c'.gone = c.gone,
         c'.handle = c.handle, c'.returned = c.returned, c'.late = c.late, c'.stale = c.stale,
         \A o \in Objs, k \in {"recv", "send"} : Due(c', Op(o, k, none)) > 0 => c'.obj[o].aio
  PROVE  CoreOK(c')
BY DEF CoreOK

\* Accepts that are not concerned.
LEMMA AcceptsSame ==
  ASSUME c \in Core, c'.accepting = c.accepting, io'.pc # "arm",
         \A o \in Objs : /\ Due(c', Op(o, "accept", none)) = Due(c, Op(o, "accept", none))
                         /\ Due(c', Arm(o)) = Due(c, Arm(o))
  PROVE  AcceptMoves
<1>1. SUFFICES ASSUME NEW o \in Objs
               PROVE  Due(c', Op(o, "accept", none)) + Due(c', Arm(o)) + IoArms(o)' + (IF c.accepting[o] THEN 1 ELSE 0)
                        <= Due(c, Op(o, "accept", none)) + Due(c, Arm(o)) + IoArms(o) + (IF c'.accepting[o] THEN 1 ELSE 0)
  BY DEF AcceptMoves
<1>2. Due(c, Op(o, "accept", none)) \in Nat /\ Due(c, Arm(o)) \in Nat
  BY DueType
<1>3. IoArms(o)' = 0 /\ IoArms(o) \in Nat
  BY DEF IoArms
<1> QED BY <1>2, <1>3

\* An accept that was asked for reaches the engine, or the flag goes down.
LEMMA RunArmStep ==
  ASSUME ApiInvariant, RunArm
  PROVE  ApiInvariant'
<1> DEFINE o == Now.o
           type == "arm"
           op == Op(o, "accept", none)
<1>1. Task(type) /\ th' = th /\ io' = io /\ left' = left
  BY DEF RunArm
<1>2. /\ c \in Core /\ Holds(c) /\ c.threads = "run" /\ io.pc = "idle"
      /\ Now \in Tasks /\ Now.type = type
      /\ Popped \in Core /\ Holds(Popped) /\ Moves(c, Popped)
      /\ \A f : Due(c, f) = Due(Popped, f) + (IF f = Key(Now) THEN 1 ELSE 0)
      /\ \A f : Due(c, f) \in Nat /\ Due(Popped, f) \in Nat
  <2> HIDE DEF type
  <2> QED BY <1>1, TaskTaken
<1>3. o \in Objs /\ Key(Now) = Arm(o)
  BY <1>2, TaskTypes DEF Arm
<1>4. op \in Ops
  BY <1>3, KeysTyped DEF Kinds
<1> HIDE DEF o, type
<1>5. /\ \A p, k, u : Due(Popped, Op(p, k, u)) = Due(c, Op(p, k, u))
      /\ \A f, u : Due(Popped, Await(f, u)) = Due(c, Await(f, u))
      /\ \A p : p # o => Due(Popped, Arm(p)) = Due(c, Arm(p))
      /\ Due(c, Arm(o)) = Due(Popped, Arm(o)) + 1
  <2>1. \A f : f # Arm(o) => Due(Popped, f) = Due(c, f)
    BY <1>2, <1>3
  <2>2. Due(c, Arm(o)) = Due(Popped, Arm(o)) + 1
    BY <1>2, <1>3
  <2> QED BY <2>1, <2>2, KeysDiffer
<1>6. /\ Popped.closed = c.closed /\ Popped.active = c.active /\ Popped.accepting = c.accepting
      /\ Popped.threads = c.threads /\ Popped.handle = c.handle /\ Popped.gone = c.gone
      /\ Popped.returned = c.returned /\ Popped.late = c.late /\ Popped.stale = c.stale
      /\ \A p \in Objs : /\ Popped.obj[p].held = c.obj[p].held /\ Popped.obj[p].aio = c.obj[p].aio
                         /\ Popped.obj[p].pend = c.obj[p].pend
  BY <1>2, MovesKeeps
\* What both cases have in common.
<1> DEFINE Common ==
             /\ c' \in Core /\ Holds(c')
             /\ c'.closed = c.closed /\ c'.active = c.active /\ c'.threads = c.threads
             /\ c'.handle = c.handle /\ c'.gone = c.gone /\ c'.returned = c.returned
             /\ c'.late = c.late /\ c'.stale = c.stale
             /\ \A p \in Objs : /\ c'.obj[p].held = c.obj[p].held /\ c'.obj[p].aio = c.obj[p].aio
                                /\ c'.obj[p].pend = c.obj[p].pend
             /\ \A p, u, k : k # "accept" \/ u # none => Due(c', Op(p, k, u)) = Due(c, Op(p, k, u))
             /\ \A f, u : Due(c', Await(f, u)) = Due(c, Await(f, u))
<1>7. ASSUME c.closed PROVE Common /\ AcceptMoves
  <2> DEFINE acc == [c.accepting EXCEPT ![o] = FALSE]
  <2>1. c' = [Popped EXCEPT !.accepting = acc]
    BY <1>6, <1>7 DEF RunArm, o
  <2>2. acc \in [Objs -> BOOLEAN] /\ acc[o] = FALSE /\ \A p \in Objs : p # o => acc[p] = c.accepting[p]
    BY <1>2, <1>3 DEF Core
  <2> HIDE DEF acc
  <2>3. /\ c' \in Core /\ c'.accepting = acc /\ c'.queue = Popped.queue /\ c'.ops = Popped.ops
        /\ c'.obj = Popped.obj /\ c'.eng = Popped.eng /\ c'.gen = Popped.gen
        /\ c'.closed = Popped.closed /\ c'.active = Popped.active /\ c'.threads = Popped.threads
        /\ c'.handle = Popped.handle /\ c'.gone = Popped.gone /\ c'.returned = Popped.returned
        /\ c'.late = Popped.late /\ c'.stale = Popped.stale
    BY <1>2, <2>1, <2>2 DEF Core
  <2>4. Holds(c')
    BY <1>2, <2>3 DEF Holds
  <2>5. \A f : Due(c', f) = Due(Popped, f)
    <3>1. SameEngine(Popped, c')
      BY <2>3 DEF SameEngine
    <3> QED BY <3>1, SameDue
  <2>6. Common
    BY <1>5, <1>6, <2>3, <2>4, <2>5
  <2>7. AcceptMoves
    <3>1. SUFFICES ASSUME NEW p \in Objs
                   PROVE  Due(c', Op(p, "accept", none)) + Due(c', Arm(p)) + IoArms(p)' + (IF c.accepting[p] THEN 1 ELSE 0)
                            <= Due(c, Op(p, "accept", none)) + Due(c, Arm(p)) + IoArms(p) + (IF c'.accepting[p] THEN 1 ELSE 0)
      BY DEF AcceptMoves
    <3>2. Due(c, Op(p, "accept", none)) \in Nat /\ Due(c, Arm(p)) \in Nat /\ IoArms(p) = 0 /\ IoArms(p)' = 0
      BY <1>1, <1>2 DEF IoArms
    <3>3. Due(c', Op(p, "accept", none)) = Due(c, Op(p, "accept", none))
      BY <1>5, <2>5
    <3>4. CASE p = o
      <4>1. Due(c, Arm(p)) = Due(c', Arm(p)) + 1 /\ Due(c', Arm(p)) \in Nat
        BY <1>2, <1>5, <2>5, <3>4
      <4> QED BY <3>2, <3>3, <4>1
    <3>5. CASE p # o
      <4>1. Due(c', Arm(p)) = Due(c, Arm(p)) /\ c'.accepting[p] = c.accepting[p]
        BY <1>5, <2>2, <2>3, <2>5, <3>5
      <4> QED BY <3>2, <3>3, <4>1
    <3> QED BY <3>4, <3>5
  <2> QED BY <2>6, <2>7
<1>8. ASSUME ~c.closed PROVE Common /\ AcceptMoves
  <2>1. c' = engine_start(Popped, op, c.gen)
    BY <1>8 DEF RunArm, o
  <2>2. Adds(Popped, c', op)
    BY <1>2, <1>4, <2>1, StartAdds
  <2>3. Moves(Popped, c') /\ \A f : Due(c', f) = Due(Popped, f) + (IF f = op THEN 1 ELSE 0)
    BY <2>2 DEF Adds
  <2>4. /\ c' \in Core /\ (Holds(c) => Holds(c'))
        /\ c'.closed = c.closed /\ c'.active = c.active /\ c'.threads = c.threads /\ c'.accepting = c.accepting
        /\ c'.handle = c.handle /\ c'.gone = c.gone /\ c'.returned = c.returned
        /\ c'.late = c.late /\ c'.stale = c.stale
        /\ \A p \in Objs : /\ c'.obj[p].held = c.obj[p].held /\ c'.obj[p].aio = c.obj[p].aio
                           /\ c'.obj[p].pend = c.obj[p].pend
    <3>1. Moves(c, c')
      BY <1>2, <2>3, MovesTwice
    <3> QED BY <3>1, MovesKeeps
  <2>5. /\ \A p, u, k : p # o \/ k # "accept" \/ u # none => Op(p, k, u) # op
        /\ \A f, u : Await(f, u) # op
        /\ \A p : Arm(p) # op
    BY KeysDiffer
  <2>6. \A p, u, k : p # o \/ k # "accept" \/ u # none => Due(c', Op(p, k, u)) = Due(c, Op(p, k, u))
    BY <1>2, <1>5, <2>3, <2>5
  <2>7. \A f, u : Due(c', Await(f, u)) = Due(c, Await(f, u))
    BY <1>2, <1>5, <2>3, <2>5
  <2>8. Common
    BY <1>2, <2>4, <2>6, <2>7
  <2>9. AcceptMoves
    <3>1. SUFFICES ASSUME NEW p \in Objs
                   PROVE  Due(c', Op(p, "accept", none)) + Due(c', Arm(p)) + IoArms(p)' + (IF c.accepting[p] THEN 1 ELSE 0)
                            <= Due(c, Op(p, "accept", none)) + Due(c, Arm(p)) + IoArms(p) + (IF c'.accepting[p] THEN 1 ELSE 0)
      BY DEF AcceptMoves
    <3>2. Due(c, Op(p, "accept", none)) \in Nat /\ Due(Popped, Arm(p)) \in Nat /\ IoArms(p) = 0 /\ IoArms(p)' = 0
      BY <1>1, <1>2 DEF IoArms
    <3>3. Due(c', Arm(p)) = Due(Popped, Arm(p))
      BY <1>2, <2>3, <2>5
    <3>4. CASE p = o
      <4>1. Due(c, Arm(p)) = Due(Popped, Arm(p)) + 1
        BY <1>5, <3>4
      <4>2. Due(c', Op(p, "accept", none)) = Due(c, Op(p, "accept", none)) + 1
        BY <1>5, <2>3, <3>4
      <4> QED BY <2>4, <3>2, <3>3, <4>1, <4>2
    <3>5. CASE p # o
      <4>1. Due(Popped, Arm(p)) = Due(c, Arm(p))
        BY <1>5, <3>5
      <4>2. Due(c', Op(p, "accept", none)) = Due(c, Op(p, "accept", none))
        BY <2>6, <3>5
      <4> QED BY <2>4, <3>2, <3>3, <4>1, <4>2
    <3> QED BY <3>4, <3>5
  <2> QED BY <2>8, <2>9
<1>9. Common /\ AcceptMoves
  BY <1>7, <1>8
<1>10. /\ c' \in Core /\ Holds(c')
       /\ c'.closed = c.closed /\ c'.active = c.active /\ c'.threads = c.threads
       /\ c'.handle = c.handle /\ c'.gone = c.gone /\ c'.returned = c.returned
       /\ c'.late = c.late /\ c'.stale = c.stale
       /\ \A p \in Objs : /\ c'.obj[p].held = c.obj[p].held /\ c'.obj[p].aio = c.obj[p].aio
                          /\ c'.obj[p].pend = c.obj[p].pend
  BY <1>9
<1>11. /\ \A p, u, k : k # "accept" \/ u # none => Due(c', Op(p, k, u)) = Due(c, Op(p, k, u))
       /\ \A f, u : Due(c', Await(f, u)) = Due(c, Await(f, u))
  BY <1>9
<1> HIDE DEF Common, op
<1>12. CoreOK(c) /\ IoOK(c, io)
  BY DEF ApiInvariant
<1>13. CoreOK(c')
  <2>1. \A p \in Objs, k \in {"recv", "send"} : Due(c', Op(p, k, none)) > 0 => c'.obj[p].aio
    BY <1>10, <1>11, <1>12 DEF CoreOK
  <2> QED BY <1>2, <1>10, <1>12, <2>1, CoreKeeps
<1>14. IoOK(c', io')
  BY <1>1, <1>2, <1>10, <1>12 DEF IoOK
<1>15. ThreadsOK' /\ PcsStay
  <2>1. \A u \in Workers, p \in Objs, k \in Kinds : Due(c', Op(p, k, u)) = Due(c, Op(p, k, u))
    <3>1. \A u \in Workers : u # none
      BY CApiAssumption
    <3> QED BY <1>11, <3>1
  <2>2. \A u \in Threads, f \in {"fn", "cleanup", "close"} : Due(c', Await(f, u)) = Due(c, Await(f, u))
    BY <1>11
  <2> QED BY <1>1, <1>2, <1>10, <2>1, <2>2, ThreadsKeep
<1>16. PendingMoves
  <2>1. \A p \in Objs, k \in {"recv", "send"} : Due(c', Op(p, k, none)) = Due(c, Op(p, k, none))
    BY <1>11
  <2> QED BY <1>10, <2>1 DEF PendingMoves
<1>17. LeftOK'
  BY <1>1, LeftSpent DEF ApiInvariant
<1>18. (c'.closed => c.closed) /\ io.pc # "drain"
  BY <1>2, <1>10
<1> QED BY <1>9, <1>10, <1>13, <1>14, <1>15, <1>16, <1>17, <1>18, IoMoves

\* A step of the executor that no thread takes part in.
LEMMA IoAlone ==
  ASSUME ApiInvariant, th' = th, LeftOK', c.threads = "run",
         c' \in Core, Holds(c'), c'.threads = c.threads, c'.gone = c.gone, c'.handle = c.handle,
         c'.returned = c.returned, c'.late = c.late, c'.stale = c.stale, c'.active = c.active,
         c.closed => c'.closed, \A o \in Objs : c.obj[o].aio => c'.obj[o].aio,
         c'.closed => c.closed \/ io'.pc = "drain",
         io.pc = "drain" => io'.pc = "drain" \/ c.active = 0,
         \A o, k, by : by # none => Due(c', Op(o, k, by)) = Due(c, Op(o, k, by)),
         \A type, u : Due(c', Await(type, u)) = Due(c, Await(type, u)),
         \A o \in Objs, k \in {"recv", "send"} : Due(c', Op(o, k, none)) > 0 => c'.obj[o].aio,
         IoOK(c', io'), PendingMoves, AcceptMoves
  PROVE  ApiInvariant'
<1>1. CoreOK(c')
  <2>1. CoreOK(c)
    BY DEF ApiInvariant
  <2> QED BY <2>1, CoreKeeps
<1>2. ThreadsOK' /\ PcsStay
  <2>1. \A u \in Workers, p \in Objs, k \in Kinds : Due(c', Op(p, k, u)) = Due(c, Op(p, k, u))
    <3>1. \A u \in Workers : u # none
      BY CApiAssumption
    <3> QED BY <3>1
  <2>2. \A u \in Threads, f \in {"fn", "cleanup", "close"} : Due(c', Await(f, u)) = Due(c, Await(f, u))
    OBVIOUS
  <2> QED BY <2>1, <2>2, ThreadsKeep
<1> QED BY <1>1, <1>2, IoMoves

\* One in which only the engine and the executor move on.
LEMMA EngineIo ==
  ASSUME ApiInvariant, th' = th, LeftOK', c.threads = "run",
         Moves(c, c'), \A f : Due(c', f) = Due(c, f), IoOK(c', io'),
         io'.pc \notin {"arm", "drain"}, io.pc = "drain" => c.active = 0
  PROVE  ApiInvariant'
<1>1. CoreOK(c) /\ c \in Core /\ Holds(c)
  BY DEF ApiInvariant, CoreOK
<1>2. /\ c' \in Core /\ (Holds(c) => Holds(c'))
      /\ c'.closed = c.closed /\ c'.gone = c.gone /\ c'.active = c.active
      /\ c'.threads = c.threads /\ c'.accepting = c.accepting /\ c'.handle = c.handle
      /\ c'.returned = c.returned /\ c'.late = c.late /\ c'.stale = c.stale
      /\ \A o \in Objs : /\ c'.obj[o].held = c.obj[o].held /\ c'.obj[o].aio = c.obj[o].aio
                         /\ c'.obj[o].pend = c.obj[o].pend
  BY MovesKeeps
<1>3. PendingMoves
  BY <1>2 DEF PendingMoves
<1>4. AcceptMoves
  BY <1>1, <1>2, AcceptsSame
<1>5. \A o \in Objs, k \in {"recv", "send"} : Due(c', Op(o, k, none)) > 0 => c'.obj[o].aio
  BY <1>1, <1>2 DEF CoreOK
<1> QED BY <1>1, <1>2, <1>3, <1>4, <1>5, IoAlone

\* One in which only the executor does.
LEMMA OnlyIo ==
  ASSUME ApiInvariant, th' = th, c' = c, LeftOK', c.threads = "run", IoOK(c, io'),
         io'.pc \notin {"arm", "drain"}, io.pc # "drain"
  PROVE  ApiInvariant'
<1>1. c \in Core
  BY DEF ApiInvariant, CoreOK
<1>2. Moves(c, c')
  <2>1. \A o \in Objs : c.obj[o] = [c.obj[o] EXCEPT !.st = c.obj[o].st]
    <3>1. \A o \in Objs : c.obj[o] \in Handles
      BY <1>1 DEF Core
    <3> QED BY <3>1 DEF Handles
  <2> QED BY <1>1, <2>1 DEF Moves
<1>3. (\A f : Due(c', f) = Due(c, f)) /\ IoOK(c', io')
  OBVIOUS
<1> QED BY <1>2, <1>3, EngineIo

\* The executor that rests.
LEMMA Rests ==
  ASSUME NEW v
  PROVE  IoOK(v, Resting) /\ Resting.pc = "idle"
BY DEF IoOK, Resting, IoState, Objs

\* An accept is pending no more, and its connection is taken if it has one.
LEMMA AcceptDoneStep ==
  ASSUME ApiInvariant, accept_done
  PROVE  ApiInvariant'
<1> DEFINE o == Now.op.o
           type == "done"
           acc == [c.accepting EXCEPT ![o] = FALSE]
<1>1. Task(type) /\ th' = th /\ left' = left /\ Now.op.by = none /\ Now.op.k = "accept"
  BY DEF accept_done
<1>2. /\ c \in Core /\ Holds(c) /\ c.threads = "run" /\ io.pc = "idle"
      /\ Now \in Tasks /\ Now.type = type
      /\ Popped \in Core /\ Holds(Popped) /\ Moves(c, Popped)
      /\ \A f : Due(c, f) = Due(Popped, f) + (IF f = Key(Now) THEN 1 ELSE 0)
      /\ \A f : Due(c, f) \in Nat /\ Due(Popped, f) \in Nat
  <2> HIDE DEF type
  <2> QED BY <1>1, TaskTaken
<1>3. o \in Objs /\ Key(Now) = Op(o, "accept", none)
  <2>1. Now.op \in Ops /\ Key(Now) = Now.op
    BY <1>2, TaskTypes
  <2> QED BY <1>1, <2>1 DEF Ops, Op
<1>4. io' = [pc |-> "take", o |-> o, k |-> "accept"] \/ io' = io
  BY DEF accept_done
<1>5. /\ Popped.closed = c.closed /\ Popped.active = c.active /\ Popped.accepting = c.accepting
      /\ Popped.threads = c.threads /\ Popped.handle = c.handle /\ Popped.gone = c.gone
      /\ Popped.returned = c.returned /\ Popped.late = c.late /\ Popped.stale = c.stale
      /\ \A p \in Objs : /\ Popped.obj[p].held = c.obj[p].held /\ Popped.obj[p].aio = c.obj[p].aio
                         /\ Popped.obj[p].pend = c.obj[p].pend
  BY <1>2, MovesKeeps
<1>6. c' = [Popped EXCEPT !.accepting = acc]
  BY <1>5 DEF accept_done
<1>7. acc \in [Objs -> BOOLEAN] /\ acc[o] = FALSE /\ \A p \in Objs : p # o => acc[p] = c.accepting[p]
  BY <1>2, <1>3 DEF Core
<1> HIDE DEF o, type, acc
<1>8. /\ c' \in Core /\ c'.accepting = acc /\ c'.queue = Popped.queue /\ c'.ops = Popped.ops
      /\ c'.obj = Popped.obj /\ c'.eng = Popped.eng /\ c'.gen = Popped.gen
      /\ c'.closed = Popped.closed /\ c'.active = Popped.active /\ c'.threads = Popped.threads
      /\ c'.handle = Popped.handle /\ c'.gone = Popped.gone /\ c'.returned = Popped.returned
      /\ c'.late = Popped.late /\ c'.stale = Popped.stale
  BY <1>2, <1>6, <1>7 DEF Core
<1>9. Holds(c')
  BY <1>2, <1>8 DEF Holds
<1>10. \A f : Due(c', f) = Due(Popped, f)
  <2>1. SameEngine(Popped, c')
    BY <1>8 DEF SameEngine
  <2> QED BY <2>1, SameDue
<1>11. /\ \A p, k, by : p # o \/ k # "accept" \/ by # none => Due(c', Op(p, k, by)) = Due(c, Op(p, k, by))
       /\ \A f, u : Due(c', Await(f, u)) = Due(c, Await(f, u))
       /\ \A p : Due(c', Arm(p)) = Due(c, Arm(p))
  <2>1. \A f : f # Op(o, "accept", none) => Due(c', f) = Due(c, f)
    BY <1>2, <1>3, <1>10
  <2> QED BY <2>1, KeysDiffer
<1>12. AcceptMoves
  <2>1. SUFFICES ASSUME NEW p \in Objs
                 PROVE  Due(c', Op(p, "accept", none)) + Due(c', Arm(p)) + IoArms(p)' + (IF c.accepting[p] THEN 1 ELSE 0)
                          <= Due(c, Op(p, "accept", none)) + Due(c, Arm(p)) + IoArms(p) + (IF c'.accepting[p] THEN 1 ELSE 0)
    BY DEF AcceptMoves
  <2>2. Due(c, Op(p, "accept", none)) \in Nat /\ Due(c, Arm(p)) \in Nat /\ IoArms(p) = 0 /\ IoArms(p)' = 0
    BY <1>2, <1>4 DEF IoArms
  <2>3. Due(c', Arm(p)) = Due(c, Arm(p))
    BY <1>11
  <2>4. CASE p = o
    <3>1. /\ Due(c, Op(p, "accept", none)) = Due(c', Op(p, "accept", none)) + 1
          /\ Due(c', Op(p, "accept", none)) \in Nat
      BY <1>2, <1>3, <1>10, <2>4
    <3> QED BY <2>2, <2>3, <3>1
  <2>5. CASE p # o
    <3>1. Due(c', Op(p, "accept", none)) = Due(c, Op(p, "accept", none)) /\ c'.accepting[p] = c.accepting[p]
      BY <1>7, <1>8, <1>11, <2>5
    <3> QED BY <2>2, <2>3, <3>1
  <2> QED BY <2>4, <2>5
<1>13. PendingMoves
  <2>1. \A p \in Objs, k \in {"recv", "send"} : Due(c', Op(p, k, none)) = Due(c, Op(p, k, none))
    BY <1>11
  <2> QED BY <1>5, <1>8, <2>1 DEF PendingMoves
<1>14. IoOK(c', io')
  <2>1. c'.threads = "run" /\ IoOK(c, io)
    BY <1>2, <1>5, <1>8 DEF ApiInvariant
  <2> QED BY <1>2, <1>3, <1>4, <2>1 DEF IoOK, IoState, Kinds
<1>15. LeftOK'
  BY <1>1, LeftSpent DEF ApiInvariant
<1>16. \A p \in Objs, k \in {"recv", "send"} : Due(c', Op(p, k, none)) > 0 => c'.obj[p].aio
  <2>1. CoreOK(c)
    BY DEF ApiInvariant
  <2> QED BY <1>5, <1>8, <1>11, <2>1 DEF CoreOK
<1>17. /\ c'.threads = c.threads /\ c'.gone = c.gone /\ c'.handle = c.handle
       /\ c'.returned = c.returned /\ c'.late = c.late /\ c'.stale = c.stale /\ c'.active = c.active
       /\ c'.closed = c.closed /\ \A p \in Objs : c'.obj[p].aio = c.obj[p].aio
  BY <1>5, <1>8
<1>18. \A p, k, by : by # none => Due(c', Op(p, k, by)) = Due(c, Op(p, k, by))
  BY <1>11
<1> QED BY <1>1, <1>2, <1>8, <1>9, <1>11, <1>12, <1>13, <1>14, <1>15, <1>16, <1>17, <1>18, IoAlone

\* The connection becomes a handle, or is closed.
LEMMA AcceptTakeStep ==
  ASSUME ApiInvariant, accept_take
  PROVE  ApiInvariant'
<1> DEFINE o == io.o
<1>1. /\ c \in Core /\ CoreOK(c) /\ Holds(c) /\ io.pc = "take" /\ io \in IoState /\ c.threads = "run"
      /\ o \in Objs /\ th' = th /\ left' = left
  BY DEF ApiInvariant, CoreOK, IoOK, accept_take, IoState
<1>2. LeftOK'
  BY <1>1, LeftSpent DEF ApiInvariant
<1>3. CASE c.closed \/ c.gone \/ ~c.cb[o]
  <2>1. c' = socket_close(c, o) /\ io' = Resting
    BY <1>3 DEF accept_take
  <2> HIDE DEF o
  <2>2. Moves(c, c') /\ \A f : Due(c', f) = Due(c, f)
    BY <1>1, <2>1, SocketPasses DEF Passes
  <2>3. IoOK(c', io') /\ io'.pc = "idle"
    BY <2>1, Rests
  <2> QED BY <1>1, <1>2, <2>2, <2>3, EngineIo
<1>4. CASE ~(c.closed \/ c.gone \/ ~c.cb[o])
  <2> DEFINE h == [c.obj[o] EXCEPT !.held = TRUE, !.aio = TRUE]
  <2>1. h \in Handles /\ h.st = c.obj[o].st /\ h.held /\ h.aio /\ h.pend = c.obj[o].pend
    <3>1. c.obj[o] \in Handles
      BY <1>1 DEF Core
    <3> QED BY <3>1 DEF Handles
  <2>2. c' = [c EXCEPT !.obj[o] = h] /\ io' = [io EXCEPT !.pc = "call"] /\ ~c.gone
    <3>1. c' = [c EXCEPT !.obj[o].held = TRUE, !.obj[o].aio = TRUE]
      BY <1>4 DEF accept_take
    <3>2. [c EXCEPT !.obj[o].held = TRUE, !.obj[o].aio = TRUE] = [c EXCEPT !.obj[o] = h]
      BY <1>1 DEF Core
    <3> QED BY <1>4, <3>1, <3>2 DEF accept_take
  <2> HIDE DEF h, o
  <2>3. /\ c' \in Core /\ (Holds(c) => Holds(c')) /\ SameEngine(c, c')
        /\ c'.eng = c.eng /\ \A f \in Flags : c'[f] = c[f]
        /\ c'.obj[o] = h /\ \A p \in Objs : p # o => c'.obj[p] = c.obj[p]
    <3>1. c' = WithHandle(c, o, h)
      BY <2>2 DEF WithHandle
    <3> QED BY <1>1, <2>1, <3>1, HandleChanges
  <2>4. /\ c'.closed = c.closed /\ c'.gone = c.gone /\ c'.active = c.active
        /\ c'.threads = c.threads /\ c'.accepting = c.accepting /\ c'.handle = c.handle
        /\ c'.returned = c.returned /\ c'.late = c.late /\ c'.stale = c.stale
    BY <2>3, FlagsNamed
  <2>5. \A f : Due(c', f) = Due(c, f)
    BY <2>3, SameDue
  <2>6. \A p \in Objs : (c.obj[p].aio => c'.obj[p].aio) /\ c'.obj[p].pend = c.obj[p].pend
    BY <2>1, <2>3
  <2>7. io'.pc = "call" /\ io'.o = o /\ io' \in IoState
    BY <1>1, <2>2 DEF IoState, o
  <2>8. IoOK(c', io')
    <3>1. ~c'.returned
      BY <1>1, <2>2, <2>4 DEF CoreOK
    <3> QED BY <1>1, <2>1, <2>3, <2>4, <2>7, <3>1 DEF IoOK
  <2>9. PendingMoves
    BY <2>5, <2>6 DEF PendingMoves
  <2>10. AcceptMoves
    BY <1>1, <2>4, <2>5, <2>7, AcceptsSame
  <2>11. \A p \in Objs, k \in {"recv", "send"} : Due(c', Op(p, k, none)) > 0 => c'.obj[p].aio
    BY <1>1, <2>5, <2>6 DEF CoreOK
  <2> QED BY <1>1, <1>2, <2>3, <2>4, <2>5, <2>6, <2>8, <2>9, <2>10, <2>11, IoAlone
<1> QED BY <1>3, <1>4

\* Another accept is wanted, or the executor rests.
LEMMA AcceptRearmStep ==
  ASSUME ApiInvariant, accept_rearm
  PROVE  ApiInvariant'
<1> DEFINE o == io.o
           acc == [c.accepting EXCEPT ![o] = TRUE]
<1>1. /\ c \in Core /\ CoreOK(c) /\ Holds(c) /\ io.pc = "rearm" /\ io \in IoState /\ c.threads = "run"
      /\ o \in Objs /\ th' = th /\ left' = left
  BY DEF ApiInvariant, CoreOK, IoOK, accept_rearm, IoState
<1>2. LeftOK'
  BY <1>1, LeftSpent DEF ApiInvariant
<1>3. CASE ~(~c.accepting[o] /\ ~c.gone /\ ~c.closed /\ c.cb[o])
  <2>1. c' = c /\ io' = Resting
    BY <1>3 DEF accept_rearm
  <2>2. IoOK(c, io') /\ io'.pc = "idle"
    BY <2>1, Rests
  <2> QED BY <1>1, <1>2, <2>1, <2>2, OnlyIo
<1>4. CASE ~c.accepting[o] /\ ~c.gone /\ ~c.closed /\ c.cb[o]
  <2>1. c' = [c EXCEPT !.accepting = acc] /\ io' = [io EXCEPT !.pc = "arm"] /\ ~c.accepting[o]
    BY <1>4 DEF accept_rearm
  <2>2. acc \in [Objs -> BOOLEAN] /\ acc[o] = TRUE /\ \A p \in Objs : p # o => acc[p] = c.accepting[p]
    BY <1>1 DEF Core
  <2> HIDE DEF acc
  <2>3. /\ c' \in Core /\ c'.accepting = acc /\ c'.queue = c.queue /\ c'.ops = c.ops
        /\ c'.obj = c.obj /\ c'.eng = c.eng /\ c'.gen = c.gen
        /\ c'.closed = c.closed /\ c'.active = c.active /\ c'.threads = c.threads
        /\ c'.handle = c.handle /\ c'.gone = c.gone /\ c'.returned = c.returned
        /\ c'.late = c.late /\ c'.stale = c.stale
    BY <1>1, <2>1, <2>2 DEF Core
  <2>4. Holds(c')
    BY <1>1, <2>3 DEF Holds
  <2>5. \A f : Due(c', f) = Due(c, f)
    <3>1. SameEngine(c, c')
      BY <2>3 DEF SameEngine
    <3> QED BY <3>1, SameDue
  <2>6. io'.pc = "arm" /\ io'.o = o /\ io' \in IoState
    BY <1>1, <2>1 DEF IoState
  <2> HIDE DEF o
  <2>7. AcceptMoves
    <3>1. SUFFICES ASSUME NEW p \in Objs
                   PROVE  Due(c', Op(p, "accept", none)) + Due(c', Arm(p)) + IoArms(p)' + (IF c.accepting[p] THEN 1 ELSE 0)
                            <= Due(c, Op(p, "accept", none)) + Due(c, Arm(p)) + IoArms(p) + (IF c'.accepting[p] THEN 1 ELSE 0)
      BY DEF AcceptMoves
    <3>2. Due(c, Op(p, "accept", none)) \in Nat /\ Due(c, Arm(p)) \in Nat
      BY <1>1, DueType
    <3>3. Due(c', Op(p, "accept", none)) = Due(c, Op(p, "accept", none)) /\ Due(c', Arm(p)) = Due(c, Arm(p))
      BY <2>5
    <3>4. IoArms(p) = 0 /\ IoArms(p)' = IF p = o THEN 1 ELSE 0
      BY <1>1, <2>6 DEF IoArms
    <3>5. CASE p = o
      <4>1. ~c.accepting[p] /\ c'.accepting[p]
        BY <2>1, <2>2, <2>3, <3>5
      <4> QED BY <3>2, <3>3, <3>4, <3>5, <4>1
    <3>6. CASE p # o
      <4>1. c'.accepting[p] = c.accepting[p]
        BY <2>2, <2>3, <3>6
      <4> QED BY <3>2, <3>3, <3>4, <3>6, <4>1
    <3> QED BY <3>5, <3>6
  <2>8. PendingMoves
    BY <2>3, <2>5 DEF PendingMoves
  <2>9. IoOK(c', io')
    BY <1>1, <2>3, <2>6 DEF IoOK
  <2>10. \A p \in Objs, k \in {"recv", "send"} : Due(c', Op(p, k, none)) > 0 => c'.obj[p].aio
    BY <1>1, <2>3, <2>5 DEF CoreOK
  <2> QED BY <1>1, <1>2, <2>3, <2>4, <2>5, <2>7, <2>8, <2>9, <2>10, IoAlone
<1> QED BY <1>3, <1>4

\* It is asked for, unless the engine is closed.
LEMMA AcceptArmStep ==
  ASSUME ApiInvariant, accept_arm
  PROVE  ApiInvariant'
<1> DEFINE o == io.o
           task == Arm(o)
<1>1. /\ c \in Core /\ CoreOK(c) /\ Holds(c) /\ io.pc = "arm" /\ io \in IoState /\ c.threads = "run"
      /\ o \in Objs /\ th' = th /\ left' = left /\ io' = Resting
  BY DEF ApiInvariant, CoreOK, IoOK, accept_arm, IoState
<1>2. LeftOK'
  BY <1>1, LeftSpent DEF ApiInvariant
<1>3. \A v : IoOK(v, io') /\ io'.pc = "idle"
  BY <1>1, Rests
<1>4. CASE c.closed
  <2>1. c' = c
    BY <1>4 DEF accept_arm, arm_accept
  <2> QED BY <1>1, <1>2, <1>3, <2>1, OnlyIo
<1>5. CASE ~c.closed
  <2>1. c' = Post(c, task)
    BY <1>5 DEF accept_arm, arm_accept, Arm
  <2>2. task \in Tasks /\ Key(task) = Arm(o)
    BY <1>1, KeysTyped
  <2> HIDE DEF task, o
  <2>3. Moves(c, c') /\ \A f : Due(c', f) = Due(c, f) + (IF f = Arm(o) THEN 1 ELSE 0)
    BY <1>1, <2>1, <2>2, PostAdds DEF Adds
  <2>4. /\ c' \in Core /\ (Holds(c) => Holds(c'))
        /\ c'.closed = c.closed /\ c'.gone = c.gone /\ c'.active = c.active
        /\ c'.threads = c.threads /\ c'.accepting = c.accepting /\ c'.handle = c.handle
        /\ c'.returned = c.returned /\ c'.late = c.late /\ c'.stale = c.stale
        /\ \A p \in Objs : /\ c'.obj[p].held = c.obj[p].held /\ c'.obj[p].aio = c.obj[p].aio
                           /\ c'.obj[p].pend = c.obj[p].pend
    BY <2>3, MovesKeeps
  <2>5. \A f : Due(c, f) \in Nat
    BY <1>1, DueType
  <2>6. /\ \A p, k, by : Due(c', Op(p, k, by)) = Due(c, Op(p, k, by))
        /\ \A f, u : Due(c', Await(f, u)) = Due(c, Await(f, u))
        /\ \A p : p # o => Due(c', Arm(p)) = Due(c, Arm(p))
    <3>1. \A f : f # Arm(o) => Due(c', f) = Due(c, f)
      BY <2>3, <2>5
    <3> QED BY <3>1, KeysDiffer
  <2>7. AcceptMoves
    <3>1. SUFFICES ASSUME NEW p \in Objs
                   PROVE  Due(c', Op(p, "accept", none)) + Due(c', Arm(p)) + IoArms(p)' + (IF c.accepting[p] THEN 1 ELSE 0)
                            <= Due(c, Op(p, "accept", none)) + Due(c, Arm(p)) + IoArms(p) + (IF c'.accepting[p] THEN 1 ELSE 0)
      BY DEF AcceptMoves
    <3>2. Due(c, Op(p, "accept", none)) \in Nat /\ Due(c, Arm(p)) \in Nat
      BY <2>5
    <3>3. Due(c', Op(p, "accept", none)) = Due(c, Op(p, "accept", none)) /\ c'.accepting[p] = c.accepting[p]
      BY <2>4, <2>6
    <3>4. IoArms(p)' = 0 /\ IoArms(p) = IF p = o THEN 1 ELSE 0
      BY <1>1, <1>3 DEF IoArms, o
    <3>5. CASE p = o
      <4>1. Due(c', Arm(p)) = Due(c, Arm(p)) + 1
        BY <2>3, <2>5, <3>5
      <4> QED BY <3>2, <3>3, <3>4, <3>5, <4>1
    <3>6. CASE p # o
      <4>1. Due(c', Arm(p)) = Due(c, Arm(p))
        BY <2>6, <3>6
      <4> QED BY <3>2, <3>3, <3>4, <3>6, <4>1
    <3> QED BY <3>5, <3>6
  <2>8. PendingMoves
    BY <2>4, <2>6 DEF PendingMoves
  <2>9. \A p \in Objs, k \in {"recv", "send"} : Due(c', Op(p, k, none)) > 0 => c'.obj[p].aio
    BY <1>1, <2>4, <2>6 DEF CoreOK
  <2>10. IoOK(c', io') /\ io.pc # "drain"
    BY <1>1, <1>3
  <2> QED BY <1>1, <1>2, <2>4, <2>6, <2>7, <2>8, <2>9, <2>10, IoAlone
<1> QED BY <1>4, <1>5

\* A read or a write is pending no more.
LEMMA OpDoneStep ==
  ASSUME ApiInvariant, op_done
  PROVE  ApiInvariant'
<1> DEFINE o == Now.op.o
           k == Now.op.k
           type == "done"
           h == [Popped.obj[o] EXCEPT !.pend = @ \ {k}]
<1>1. Task(type) /\ th' = th /\ left' = left /\ Now.op.by = none /\ k # "accept"
      /\ io' = [pc |-> "check", o |-> o, k |-> k]
  BY DEF op_done
<1>2. /\ c \in Core /\ Holds(c) /\ c.threads = "run" /\ io.pc = "idle"
      /\ Now \in Tasks /\ Now.type = type
      /\ Popped \in Core /\ Holds(Popped) /\ Moves(c, Popped)
      /\ \A f : Due(c, f) = Due(Popped, f) + (IF f = Key(Now) THEN 1 ELSE 0)
      /\ \A f : Due(c, f) \in Nat /\ Due(Popped, f) \in Nat
  <2> HIDE DEF type, o, k
  <2> QED BY <1>1, TaskTaken
<1>3. o \in Objs /\ k \in {"recv", "send"} /\ Key(Now) = Op(o, k, none)
  <2>1. Now.op \in Ops /\ Key(Now) = Now.op
    BY <1>2, TaskTypes
  <2> QED BY <1>1, <2>1 DEF Ops, Op, Kinds
<1>4. c' = WithHandle(Popped, o, h)
  <2>1. c' = [Popped EXCEPT !.obj[o].pend = @ \ {k}]
    BY DEF op_done
  <2>2. Popped.obj \in [Objs -> Handles]
    BY <1>2 DEF Core
  <2> HIDE DEF o, k
  <2>3. [Popped EXCEPT !.obj[o].pend = @ \ {k}] = [Popped EXCEPT !.obj[o] = h]
    OBVIOUS
  <2> QED BY <2>1, <2>3 DEF WithHandle
<1>5. h \in Handles /\ h.st = Popped.obj[o].st /\ h.held = Popped.obj[o].held /\ h.aio = Popped.obj[o].aio /\ h.pend = Popped.obj[o].pend \ {k}
  <2> HIDE DEF o, k
  <2>1. Popped.obj[o] \in Handles
    BY <1>2, <1>3 DEF Core
  <2> QED BY <2>1 DEF Handles
<1> HIDE DEF o, k, h, type
<1>6. /\ Popped.closed = c.closed /\ Popped.active = c.active /\ Popped.accepting = c.accepting
      /\ Popped.threads = c.threads /\ Popped.handle = c.handle /\ Popped.gone = c.gone
      /\ Popped.returned = c.returned /\ Popped.late = c.late /\ Popped.stale = c.stale
      /\ \A p \in Objs : /\ Popped.obj[p].held = c.obj[p].held /\ Popped.obj[p].aio = c.obj[p].aio
                         /\ Popped.obj[p].pend = c.obj[p].pend
  BY <1>2, MovesKeeps
<1>7. /\ c' \in Core /\ (Holds(Popped) => Holds(c')) /\ SameEngine(Popped, c')
      /\ c'.eng = Popped.eng /\ \A f \in Flags : c'[f] = Popped[f]
      /\ c'.obj[o] = h /\ \A p \in Objs : p # o => c'.obj[p] = Popped.obj[p]
  BY <1>2, <1>3, <1>4, <1>5, HandleChanges
<1>8. /\ c'.closed = c.closed /\ c'.gone = c.gone /\ c'.active = c.active
      /\ c'.threads = c.threads /\ c'.accepting = c.accepting /\ c'.handle = c.handle
      /\ c'.returned = c.returned /\ c'.late = c.late /\ c'.stale = c.stale
  <2>1. /\ c'.closed = Popped.closed /\ c'.gone = Popped.gone /\ c'.active = Popped.active
        /\ c'.threads = Popped.threads /\ c'.accepting = Popped.accepting /\ c'.handle = Popped.handle
        /\ c'.returned = Popped.returned /\ c'.late = Popped.late /\ c'.stale = Popped.stale
    BY <1>7, FlagsNamed
  <2> QED BY <1>6, <2>1
<1>9. \A f : Due(c', f) = Due(Popped, f)
  BY <1>7, SameDue
<1>10. /\ \A p, j, by : p # o \/ j # k \/ by # none => Due(c', Op(p, j, by)) = Due(c, Op(p, j, by))
       /\ \A f, u : Due(c', Await(f, u)) = Due(c, Await(f, u))
       /\ \A p : Due(c', Arm(p)) = Due(c, Arm(p))
  <2>1. \A f : f # Op(o, k, none) => Due(c', f) = Due(c, f)
    BY <1>2, <1>3, <1>9
  <2> QED BY <2>1, KeysDiffer
<1>11. Due(c, Op(o, k, none)) = Due(c', Op(o, k, none)) + 1 /\ Due(c', Op(o, k, none)) \in Nat
  BY <1>2, <1>3, <1>9
<1>12. \A p \in Objs : c'.obj[p].aio = c.obj[p].aio
  BY <1>5, <1>6, <1>7
<1>13. PendingMoves
  <2>1. SUFFICES ASSUME NEW p \in Objs, NEW j \in {"recv", "send"}, Single(p, j)
                 PROVE  Due(c', Op(p, j, none)) + (IF j \in c.obj[p].pend THEN 1 ELSE 0)
                          = Due(c, Op(p, j, none)) + (IF j \in c'.obj[p].pend THEN 1 ELSE 0)
    BY DEF PendingMoves
  <2>2. CASE p = o /\ j = k
    <3>1. Due(c, Op(p, j, none)) + Cardinality(Asking(p, j)) = IF j \in c.obj[p].pend THEN 1 ELSE 0
      BY <2>1 DEF ApiInvariant, PendingDue
    <3>2. Cardinality(Asking(p, j)) \in Nat
      BY AskingCounts
    <3>3. Due(c, Op(p, j, none)) = Due(c', Op(p, j, none)) + 1 /\ Due(c', Op(p, j, none)) \in Nat
      BY <1>11, <2>2
    <3>4. j \in c.obj[p].pend
      BY <3>1, <3>2, <3>3
    <3>5. j \notin c'.obj[p].pend
      BY <1>5, <1>7, <2>2
    <3> QED BY <3>3, <3>4, <3>5
  <2>3. CASE ~(p = o /\ j = k)
    <3>1. Due(c', Op(p, j, none)) = Due(c, Op(p, j, none))
      BY <1>10, <2>3
    <3>2. j \in c'.obj[p].pend <=> j \in c.obj[p].pend
      BY <1>5, <1>6, <1>7, <2>3
    <3> QED BY <3>1, <3>2
  <2> QED BY <2>2, <2>3
<1>14. io'.pc = "check" /\ io'.o = o /\ io' \in IoState
  BY <1>1, <1>3 DEF IoState, Kinds, o, k
<1>15. AcceptMoves
  <2>1. \A p \in Objs : Due(c', Op(p, "accept", none)) = Due(c, Op(p, "accept", none))
    BY <1>3, <1>10
  <2> QED BY <1>2, <1>8, <1>10, <1>14, <2>1, AcceptsSame
<1>16. CoreOK(c)
  BY DEF ApiInvariant
<1>17. \A p \in Objs, j \in {"recv", "send"} : Due(c', Op(p, j, none)) > 0 => c'.obj[p].aio
  <2>1. SUFFICES ASSUME NEW p \in Objs, NEW j \in {"recv", "send"}, Due(c', Op(p, j, none)) > 0
                 PROVE  c.obj[p].aio
    BY <1>12
  <2>2. Due(c, Op(p, j, none)) > 0
    BY <1>2, <1>10, <1>11, <2>1
  <2> QED BY <1>16, <2>2 DEF CoreOK
<1>18. IoOK(c', io')
  <2>1. c.obj[o].aio
    <3>1. Due(c, Op(o, k, none)) > 0
      BY <1>11
    <3> QED BY <1>3, <1>16, <3>1 DEF CoreOK
  <2> QED BY <1>2, <1>3, <1>8, <1>12, <1>14, <2>1 DEF IoOK
<1>19. LeftOK'
  BY <1>1, LeftSpent DEF ApiInvariant
<1>20. \A p, j, by : by # none => Due(c', Op(p, j, by)) = Due(c, Op(p, j, by))
  BY <1>10
<1> QED BY <1>1, <1>2, <1>7, <1>8, <1>10, <1>12, <1>13, <1>15, <1>17, <1>18, <1>19, <1>20, IoAlone

\* The application is called unless the handle or the engine is freed.
LEMMA OpCheckStep ==
  ASSUME ApiInvariant, op_check
  PROVE  ApiInvariant'
<1>1. /\ CoreOK(c) /\ io.pc = "check" /\ io \in IoState /\ c.threads = "run" /\ c.obj[io.o].aio
      /\ th' = th /\ left' = left /\ c' = c
  BY DEF ApiInvariant, IoOK, op_check
<1>2. LeftOK'
  BY <1>1, LeftSpent DEF ApiInvariant
<1>3. IoOK(c, io') /\ io'.pc \in {"idle", "call"}
  <2>1. CASE ~c.obj[io.o].held \/ c.gone
    <3>1. io' = Resting
      BY <2>1 DEF op_check
    <3> QED BY <3>1, Rests
  <2>2. CASE ~(~c.obj[io.o].held \/ c.gone)
    <3>1. io' = [io EXCEPT !.pc = "call"]
      BY <2>2 DEF op_check
    <3>2. io'.pc = "call" /\ io'.o = io.o /\ io' \in IoState
      BY <1>1, <3>1 DEF IoState
    <3>3. ~c.returned
      BY <1>1, <2>2 DEF CoreOK
    <3> QED BY <1>1, <2>2, <3>2, <3>3 DEF IoOK
  <2> QED BY <2>1, <2>2
<1> QED BY <1>1, <1>2, <1>3, OnlyIo

\* The application's function is called with a handle it has, and not after
\* the engine was freed: what the history would record does not happen.
LEMMA CalledIs ==
  ASSUME ApiInvariant, io.pc = "call"
  PROVE  /\ Called = c
         /\ c \in Core /\ CoreOK(c) /\ Holds(c) /\ c.threads = "run"
         /\ io.o \in Objs /\ c.obj[io.o].held /\ c.obj[io.o].aio /\ ~c.returned
<1>1. /\ c \in Core /\ CoreOK(c) /\ Holds(c) /\ c.threads = "run"
      /\ io.o \in Objs /\ c.obj[io.o].held /\ c.obj[io.o].aio /\ ~c.returned
      /\ c.late = FALSE /\ c.stale = FALSE
  BY DEF ApiInvariant, CoreOK, Core, IoOK, IoState
<1>2. Called = [c EXCEPT !.late = c.late, !.stale = c.stale]
  BY <1>1 DEF Called
<1>3. [c EXCEPT !.late = c.late, !.stale = c.stale] = c
  BY <1>1 DEF Core
<1> QED BY <1>1, <1>2, <1>3

\* What the executor does after a call.
LEMMA DoneIs ==
  ASSUME ApiInvariant, io.pc \in {"call", "drain"}, NEW v, v.threads = "run"
  PROVE  IoOK(v, Done) /\ Done.pc \in {"idle", "rearm"}
<1>1. io \in IoState
  BY DEF ApiInvariant, IoOK
<1>2. CASE io.k = "accept"
  <2> DEFINE x == [io EXCEPT !.pc = "rearm"]
  <2>1. Done = x
    BY <1>2 DEF Done
  <2>2. x \in IoState /\ x.pc = "rearm"
    BY <1>1 DEF IoState
  <2> HIDE DEF x
  <2> QED BY <2>1, <2>2 DEF IoOK
<1>3. CASE io.k # "accept"
  <2>1. Done = Resting
    BY <1>3 DEF Done
  <2> QED BY <2>1, Rests
<1> QED BY <1>2, <1>3

\* A core is a move of itself.
LEMMA MovesNot ==
  ASSUME NEW v \in Core
  PROVE  Moves(v, v)
<1>1. \A o \in Objs : v.obj[o] \in Handles
  BY DEF Core
<1>2. \A o \in Objs : v.obj[o] = [v.obj[o] EXCEPT !.st = v.obj[o].st]
  BY <1>1 DEF Handles
<1> QED BY <1>2 DEF Moves

\* A callback returns.
LEMMA CallbackStep ==
  ASSUME ApiInvariant, callback
  PROVE  ApiInvariant'
<1>1. io.pc = "call" /\ th' = th /\ left' = left /\ c' = Called /\ io' = Done
  BY DEF callback
<1>2. c' = c /\ c.threads = "run"
  BY <1>1, CalledIs
<1>3. IoOK(c, io') /\ io'.pc \in {"idle", "rearm"}
  BY <1>1, <1>2, DoneIs
<1>4. LeftOK'
  BY <1>1, LeftSpent DEF ApiInvariant
<1> QED BY <1>1, <1>2, <1>3, <1>4, OnlyIo

\* It asks for the next read or write.
LEMMA CallbackAsksStep ==
  ASSUME ApiInvariant, NEW k \in {"recv", "send"}, callback_asks(k)
  PROVE  ApiInvariant'
<1> DEFINE o == io.o
           op == Op(o, k, none)
           pend == IF Single(o, k) THEN c.obj[o].pend \union {k} ELSE c.obj[o].pend
           h == [c.obj[o] EXCEPT !.pend = pend]
           v == [c EXCEPT !.obj[o] = h]
<1>1. /\ io.pc = "call" /\ th' = th /\ io' = Done /\ \E act : left' = [left EXCEPT !.acts = @ \ {act}]
      /\ Single(o, k) => k \notin c.obj[o].pend
  BY DEF callback_asks, Acting, CanAsk
<1>2. /\ Called = c /\ c \in Core /\ CoreOK(c) /\ Holds(c) /\ c.threads = "run" /\ o \in Objs
      /\ c.obj[o].aio
  BY <1>1, CalledIs
<1>3. c' = engine_start(v, op, c.gen)
  <2>1. c.obj \in [Objs -> Handles]
    BY <1>2 DEF Core
  <2>2. [c EXCEPT !.obj[o].pend = IF Single(o, k) THEN @ \union {k} ELSE @] = v
    <3> HIDE DEF o
    <3> QED OBVIOUS
  <2> QED BY <1>2, <2>2 DEF callback_asks
<1>4. h \in Handles /\ h.st = c.obj[o].st /\ h.held = c.obj[o].held /\ h.aio = c.obj[o].aio /\ h.pend = pend
  <2>1. c.obj[o] \in Handles
    BY <1>2 DEF Core
  <2> HIDE DEF o
  <2> QED BY <2>1 DEF Handles
<1>5. op \in Ops
  BY <1>2, KeysTyped DEF Kinds
<1>6. k \in pend <=> k \in c.obj[o].pend \/ Single(o, k)
  OBVIOUS
<1>7. \A j : j # k => (j \in pend <=> j \in c.obj[o].pend)
  OBVIOUS
<1> HIDE DEF h, pend
<1>8. /\ v \in Core /\ (Holds(c) => Holds(v)) /\ SameEngine(c, v)
      /\ v.eng = c.eng /\ \A f \in Flags : v[f] = c[f]
      /\ v.obj[o] = h /\ \A p \in Objs : p # o => v.obj[p] = c.obj[p]
  <2>1. v = WithHandle(c, o, h)
    BY DEF WithHandle
  <2> HIDE DEF v, o
  <2> QED BY <1>2, <1>4, <2>1, HandleChanges
<1> HIDE DEF v, o
<1>9. /\ v.closed = c.closed /\ v.gone = c.gone /\ v.active = c.active
      /\ v.threads = c.threads /\ v.accepting = c.accepting /\ v.handle = c.handle
      /\ v.returned = c.returned /\ v.late = c.late /\ v.stale = c.stale
  BY <1>8, FlagsNamed
<1>10. Moves(v, c') /\ \A f : Due(c', f) = Due(c, f) + (IF f = op THEN 1 ELSE 0)
  <2>1. \A f : Due(v, f) = Due(c, f)
    BY <1>8, SameDue
  <2>2. Adds(v, c', op)
    BY <1>2, <1>3, <1>5, <1>8, StartAdds
  <2> QED BY <2>1, <2>2 DEF Adds
<1>11. /\ c' \in Core /\ Holds(c')
       /\ c'.closed = c.closed /\ c'.gone = c.gone /\ c'.active = c.active
       /\ c'.threads = c.threads /\ c'.accepting = c.accepting /\ c'.handle = c.handle
       /\ c'.returned = c.returned /\ c'.late = c.late /\ c'.stale = c.stale
       /\ \A p \in Objs : c'.obj[p].aio = v.obj[p].aio /\ c'.obj[p].pend = v.obj[p].pend
  <2>1. /\ c' \in Core /\ (Holds(v) => Holds(c'))
        /\ c'.closed = v.closed /\ c'.gone = v.gone /\ c'.active = v.active
        /\ c'.threads = v.threads /\ c'.accepting = v.accepting /\ c'.handle = v.handle
        /\ c'.returned = v.returned /\ c'.late = v.late /\ c'.stale = v.stale
        /\ \A p \in Objs : c'.obj[p].aio = v.obj[p].aio /\ c'.obj[p].pend = v.obj[p].pend
    BY <1>10, MovesKeeps
  <2> QED BY <1>2, <1>8, <1>9, <2>1
<1>12. \A p \in Objs : c'.obj[p].aio = c.obj[p].aio
  BY <1>4, <1>8, <1>11
<1>13. \A f : Due(c, f) \in Nat
  BY <1>2, DueType
<1>14. /\ \A p, j, by : p # o \/ j # k \/ by # none => Due(c', Op(p, j, by)) = Due(c, Op(p, j, by))
       /\ \A f, u : Due(c', Await(f, u)) = Due(c, Await(f, u))
       /\ \A p : Due(c', Arm(p)) = Due(c, Arm(p))
  <2>1. \A f : f # op => Due(c', f) = Due(c, f)
    BY <1>10, <1>13
  <2> QED BY <2>1, KeysDiffer
<1>15. PendingMoves
  <2>1. SUFFICES ASSUME NEW p \in Objs, NEW j \in {"recv", "send"}, Single(p, j)
                 PROVE  Due(c', Op(p, j, none)) + (IF j \in c.obj[p].pend THEN 1 ELSE 0)
                          = Due(c, Op(p, j, none)) + (IF j \in c'.obj[p].pend THEN 1 ELSE 0)
    BY DEF PendingMoves
  <2>2. CASE p = o /\ j = k
    <3>1. Due(c', Op(p, j, none)) = Due(c, Op(p, j, none)) + 1 /\ Due(c, Op(p, j, none)) \in Nat
      BY <1>10, <1>13, <2>2
    <3>2. j \notin c.obj[p].pend
      BY <1>1, <2>1, <2>2
    <3>3. j \in c'.obj[p].pend
      BY <1>4, <1>6, <1>8, <1>11, <2>1, <2>2
    <3> QED BY <3>1, <3>2, <3>3
  <2>3. CASE ~(p = o /\ j = k)
    <3>1. Due(c', Op(p, j, none)) = Due(c, Op(p, j, none))
      BY <1>14, <2>3
    <3>2. j \in c'.obj[p].pend <=> j \in c.obj[p].pend
      BY <1>4, <1>7, <1>8, <1>11, <2>3
    <3> QED BY <3>1, <3>2
  <2> QED BY <2>2, <2>3
<1>16. IoOK(c', io') /\ io'.pc \in {"idle", "rearm"}
  BY <1>1, <1>2, <1>11, DoneIs
<1>17. AcceptMoves
  <2>1. \A p \in Objs : Due(c', Op(p, "accept", none)) = Due(c, Op(p, "accept", none))
    BY <1>14
  <2> QED BY <1>2, <1>11, <1>14, <1>16, <2>1, AcceptsSame
<1>18. \A p \in Objs, j \in {"recv", "send"} : Due(c', Op(p, j, none)) > 0 => c'.obj[p].aio
  <2>1. SUFFICES ASSUME NEW p \in Objs, NEW j \in {"recv", "send"}, Due(c', Op(p, j, none)) > 0
                 PROVE  c.obj[p].aio
    BY <1>12
  <2>2. CASE p = o
    BY <1>2, <2>2
  <2>3. CASE p # o
    <3>1. Due(c, Op(p, j, none)) > 0
      BY <1>14, <2>1, <2>3
    <3> QED BY <1>2, <3>1 DEF CoreOK
  <2> QED BY <2>2, <2>3
<1>19. LeftOK'
  BY <1>1, LeftSpent DEF ApiInvariant
<1>20. \A p, j, by : by # none => Due(c', Op(p, j, by)) = Due(c, Op(p, j, by))
  BY <1>14
<1> QED BY <1>1, <1>2, <1>11, <1>12, <1>14, <1>15, <1>16, <1>17, <1>18, <1>19, <1>20, IoAlone

\* It frees the handle it is given, and closes its socket.
LEMMA CallbackFreesStep ==
  ASSUME ApiInvariant, callback_frees
  PROVE  ApiInvariant'
<1> DEFINE o == io.o
           h == [c.obj[o] EXCEPT !.held = FALSE]
           v == [c EXCEPT !.obj[o] = h]
<1>1. io.pc = "call" /\ th' = th /\ io' = Done /\ \E act : left' = [left EXCEPT !.acts = @ \ {act}]
  BY DEF callback_frees, Acting
<1>2. /\ Called = c /\ c \in Core /\ CoreOK(c) /\ Holds(c) /\ c.threads = "run" /\ o \in Objs
      /\ c.obj[o].aio
  BY <1>1, CalledIs
<1>3. c' = socket_close(v, o)
  <2>1. [c EXCEPT !.obj[o].held = FALSE] = v
    <3>1. c.obj \in [Objs -> Handles]
      BY <1>2 DEF Core
    <3> HIDE DEF o
    <3> QED OBVIOUS
  <2> QED BY <1>2, <2>1 DEF callback_frees
<1>4. h \in Handles /\ h.st = c.obj[o].st /\ h.held = FALSE /\ h.aio = c.obj[o].aio /\ h.pend = c.obj[o].pend
  <2>1. c.obj[o] \in Handles
    BY <1>2 DEF Core
  <2> HIDE DEF o
  <2> QED BY <2>1 DEF Handles
<1> HIDE DEF h
<1>5. /\ v \in Core /\ (Holds(c) => Holds(v)) /\ SameEngine(c, v)
      /\ v.eng = c.eng /\ \A f \in Flags : v[f] = c[f]
      /\ v.obj[o] = h /\ \A p \in Objs : p # o => v.obj[p] = c.obj[p]
  <2>1. v = WithHandle(c, o, h)
    BY DEF WithHandle
  <2> HIDE DEF v, o
  <2> QED BY <1>2, <1>4, <2>1, HandleChanges
<1> HIDE DEF v, o
<1>6. /\ v.closed = c.closed /\ v.gone = c.gone /\ v.active = c.active
      /\ v.threads = c.threads /\ v.accepting = c.accepting /\ v.handle = c.handle
      /\ v.returned = c.returned /\ v.late = c.late /\ v.stale = c.stale
  BY <1>5, FlagsNamed
<1>7. Moves(v, c') /\ \A f : Due(c', f) = Due(c, f)
  <2>1. \A f : Due(v, f) = Due(c, f)
    BY <1>5, SameDue
  <2>2. Passes(v, c')
    BY <1>2, <1>3, <1>5, SocketPasses
  <2> QED BY <2>1, <2>2 DEF Passes
<1>8. /\ c' \in Core /\ Holds(c')
      /\ c'.closed = c.closed /\ c'.gone = c.gone /\ c'.active = c.active
      /\ c'.threads = c.threads /\ c'.accepting = c.accepting /\ c'.handle = c.handle
      /\ c'.returned = c.returned /\ c'.late = c.late /\ c'.stale = c.stale
      /\ \A p \in Objs : c'.obj[p].aio = v.obj[p].aio /\ c'.obj[p].pend = v.obj[p].pend
  <2>1. /\ c' \in Core /\ (Holds(v) => Holds(c'))
        /\ c'.closed = v.closed /\ c'.gone = v.gone /\ c'.active = v.active
        /\ c'.threads = v.threads /\ c'.accepting = v.accepting /\ c'.handle = v.handle
        /\ c'.returned = v.returned /\ c'.late = v.late /\ c'.stale = v.stale
        /\ \A p \in Objs : c'.obj[p].aio = v.obj[p].aio /\ c'.obj[p].pend = v.obj[p].pend
    BY <1>7, MovesKeeps
  <2> QED BY <1>2, <1>5, <1>6, <2>1
<1>9. \A p \in Objs : c'.obj[p].aio = c.obj[p].aio /\ c'.obj[p].pend = c.obj[p].pend
  BY <1>4, <1>5, <1>8
<1>10. PendingMoves
  BY <1>7, <1>9 DEF PendingMoves
<1>11. IoOK(c', io') /\ io'.pc \in {"idle", "rearm"}
  BY <1>1, <1>2, <1>8, DoneIs
<1>12. AcceptMoves
  BY <1>2, <1>7, <1>8, <1>11, AcceptsSame
<1>13. \A p \in Objs, j \in {"recv", "send"} : Due(c', Op(p, j, none)) > 0 => c'.obj[p].aio
  BY <1>2, <1>7, <1>9 DEF CoreOK
<1>14. LeftOK'
  BY <1>1, LeftSpent DEF ApiInvariant
<1> QED BY <1>1, <1>2, <1>7, <1>8, <1>9, <1>10, <1>11, <1>12, <1>13, <1>14, IoAlone

\* It closes the engine: closed goes up, and the callback waits for begin_op.
LEMMA CallbackClosesStep ==
  ASSUME ApiInvariant, callback_closes
  PROVE  ApiInvariant'
<1>1. /\ io.pc = "call" /\ th' = th /\ io' = (IF c.closed THEN Done ELSE [io EXCEPT !.pc = "drain"])
      /\ \E act : left' = [left EXCEPT !.acts = @ \ {act}]
  BY DEF callback_closes, Acting
<1>2. Called = c /\ c \in Core /\ CoreOK(c) /\ Holds(c) /\ c.threads = "run"
  BY <1>1, CalledIs
<1>3. c' = [c EXCEPT !.closed = TRUE]
  BY <1>2 DEF callback_closes
<1>4. /\ c' \in Core /\ c'.closed = TRUE /\ c'.accepting = c.accepting /\ c'.queue = c.queue
      /\ c'.ops = c.ops /\ c'.obj = c.obj /\ c'.eng = c.eng /\ c'.gen = c.gen
      /\ c'.active = c.active /\ c'.threads = c.threads
      /\ c'.handle = c.handle /\ c'.gone = c.gone /\ c'.returned = c.returned
      /\ c'.late = c.late /\ c'.stale = c.stale
  BY <1>2, <1>3 DEF Core
<1>5. Holds(c')
  BY <1>2, <1>4 DEF Holds
<1>6. \A f : Due(c', f) = Due(c, f)
  <2>1. SameEngine(c, c')
    BY <1>4 DEF SameEngine
  <2> QED BY <2>1, SameDue
<1>7. IoOK(c', io') /\ io'.pc # "arm" /\ (~c.closed => io'.pc = "drain")
  <2>1. CASE c.closed
    <3>1. io' = Done
      BY <1>1, <2>1
    <3> QED BY <1>1, <1>2, <1>4, <2>1, <3>1, DoneIs
  <2>2. CASE ~c.closed
    <3>1. io \in IoState
      BY DEF ApiInvariant, IoOK
    <3>2. io' \in IoState /\ io'.pc = "drain"
      BY <1>1, <2>2, <3>1 DEF IoState
    <3> QED BY <1>2, <1>4, <3>2 DEF IoOK
  <2> QED BY <2>1, <2>2
<1>8. PendingMoves
  BY <1>4, <1>6 DEF PendingMoves
<1>9. AcceptMoves
  BY <1>2, <1>4, <1>6, <1>7, AcceptsSame
<1>10. \A p \in Objs, j \in {"recv", "send"} : Due(c', Op(p, j, none)) > 0 => c'.obj[p].aio
  BY <1>2, <1>4, <1>6 DEF CoreOK
<1>11. LeftOK'
  BY <1>1, LeftSpent DEF ApiInvariant
<1> QED BY <1>1, <1>2, <1>4, <1>5, <1>6, <1>7, <1>8, <1>9, <1>10, <1>11, IoAlone

\* The engine is closed where the callback runs.
LEMMA CallbackDrainedStep ==
  ASSUME ApiInvariant, callback_drained
  PROVE  ApiInvariant'
<1>1. /\ io.pc = "drain" /\ c.active = 0 /\ io' = Done /\ th' = th /\ left' = left
      /\ c' = IF c.eng THEN engine_close(c) ELSE c
  BY DEF callback_drained
<1>2. c \in Core /\ c.threads = "run"
  BY <1>1 DEF ApiInvariant, CoreOK, IoOK
<1>3. Moves(c, c') /\ \A f : Due(c', f) = Due(c, f)
  <2>1. CASE c.eng
    <3>1. c' = engine_close(c)
      BY <1>1, <2>1
    <3>2. Passes(c, c')
      BY <1>2, <3>1, ClosePasses
    <3> QED BY <3>2 DEF Passes
  <2>2. CASE ~c.eng
    <3>1. c' = c
      BY <1>1, <2>2
    <3> QED BY <1>2, <3>1, MovesNot
  <2> QED BY <2>1, <2>2
<1>4. c'.threads = "run"
  BY <1>2, <1>3, MovesKeeps
<1>5. IoOK(c', io') /\ io'.pc \in {"idle", "rearm"}
  BY <1>1, <1>4, DoneIs
<1>6. LeftOK'
  BY <1>1, LeftSpent DEF ApiInvariant
<1> QED BY <1>1, <1>2, <1>3, <1>5, <1>6, EngineIo

\* It pauses the listening: the accept that is pending is told to end.
LEMMA CallbackPausesStep ==
  ASSUME ApiInvariant, callback_pauses
  PROVE  ApiInvariant'
<1> DEFINE o == io.o
           cb == [c.cb EXCEPT ![o] = FALSE]
           v == [c EXCEPT !.cb = cb]
           task == [type |-> "cancel", o |-> o]
<1>1. /\ io.pc = "call" /\ th' = th /\ io' = Done
      /\ \E act : left' = [left EXCEPT !.acts = @ \ {act}]
  BY DEF callback_pauses, Acting
<1>2. Called = c /\ c \in Core /\ CoreOK(c) /\ Holds(c) /\ c.threads = "run" /\ o \in Objs
  BY <1>1, CalledIs
<1>3. c' = IF c.accepting[o] THEN Post(v, task) ELSE v
  BY <1>2 DEF callback_pauses
<1>4. cb \in [Objs -> BOOLEAN]
  BY <1>2 DEF Core
<1>5. /\ task \in Tasks /\ Key(task) = task
      /\ \A p, k, by : Op(p, k, by) # task
      /\ \A f, u : Await(f, u) # task
      /\ \A p : Arm(p) # task
  <2>1. task \in Tasks /\ Key(task) = task
    BY <1>2 DEF Tasks, Key, OpTypes
  <2>2. ASSUME NEW p, NEW k, NEW by PROVE Op(p, k, by) # task
    <3>1. "type" \in DOMAIN task /\ "type" \notin DOMAIN Op(p, k, by)
      BY DEF Op
    <3> HIDE DEF task
    <3> QED BY <3>1
  <2>3. ASSUME NEW f, NEW u PROVE Await(f, u) # task
    <3>1. "o" \in DOMAIN task /\ "o" \notin DOMAIN Await(f, u)
      BY DEF Await
    <3> HIDE DEF task
    <3> QED BY <3>1
  <2>4. ASSUME NEW p PROVE Arm(p) # task
    <3>1. task.type = "cancel" /\ Arm(p).type = "arm"
      BY DEF Arm
    <3> HIDE DEF task
    <3> QED BY <3>1
  <2> HIDE DEF task
  <2> QED BY <2>1, <2>2, <2>3, <2>4
<1> HIDE DEF cb, task
<1>6. /\ v \in Core /\ v.accepting = c.accepting /\ v.queue = c.queue
      /\ v.ops = c.ops /\ v.obj = c.obj /\ v.eng = c.eng /\ v.gen = c.gen
      /\ v.closed = c.closed /\ v.active = c.active /\ v.threads = c.threads
      /\ v.handle = c.handle /\ v.gone = c.gone /\ v.returned = c.returned
      /\ v.late = c.late /\ v.stale = c.stale
  BY <1>2, <1>4 DEF Core
<1> HIDE DEF v, o
<1>7. Holds(v) /\ \A f : Due(v, f) = Due(c, f)
  <2>1. SameEngine(c, v)
    BY <1>6 DEF SameEngine
  <2>2. Holds(v)
    BY <1>2, <1>6 DEF Holds
  <2> QED BY <2>1, <2>2, SameDue
<1>8. /\ Moves(v, c')
      /\ \A p, k, by : Due(c', Op(p, k, by)) = Due(c, Op(p, k, by))
      /\ \A f, u : Due(c', Await(f, u)) = Due(c, Await(f, u))
      /\ \A p : Due(c', Arm(p)) = Due(c, Arm(p))
  <2>1. Moves(v, c') /\ \A f : f # task => Due(c', f) = Due(c, f)
    <3>1. CASE c.accepting[o]
      <4>1. c' = Post(v, task)
        BY <1>3, <3>1
      <4>2. Adds(v, c', Key(task))
        BY <1>5, <1>6, <4>1, PostAdds
      <4>3. \A f : Due(v, f) \in Nat
        BY <1>6, DueType
      <4> QED BY <1>5, <1>7, <4>2, <4>3 DEF Adds
    <3>2. CASE ~c.accepting[o]
      <4>1. c' = v
        BY <1>3, <3>2
      <4>2. Moves(v, v)
        BY <1>6, MovesNot
      <4> QED BY <1>7, <4>1, <4>2
    <3> QED BY <3>1, <3>2
  <2> QED BY <1>5, <2>1
<1>9. /\ c' \in Core /\ Holds(c')
      /\ c'.closed = c.closed /\ c'.gone = c.gone /\ c'.active = c.active
      /\ c'.threads = c.threads /\ c'.accepting = c.accepting /\ c'.handle = c.handle
      /\ c'.returned = c.returned /\ c'.late = c.late /\ c'.stale = c.stale
      /\ \A p \in Objs : c'.obj[p].aio = c.obj[p].aio /\ c'.obj[p].pend = c.obj[p].pend
  <2>1. /\ c' \in Core /\ (Holds(v) => Holds(c'))
        /\ c'.closed = v.closed /\ c'.gone = v.gone /\ c'.active = v.active
        /\ c'.threads = v.threads /\ c'.accepting = v.accepting /\ c'.handle = v.handle
        /\ c'.returned = v.returned /\ c'.late = v.late /\ c'.stale = v.stale
        /\ \A p \in Objs : c'.obj[p].aio = v.obj[p].aio /\ c'.obj[p].pend = v.obj[p].pend
    BY <1>8, MovesKeeps
  <2> QED BY <1>6, <1>7, <2>1
<1>10. PendingMoves
  BY <1>8, <1>9 DEF PendingMoves
<1>11. IoOK(c', io') /\ io'.pc \in {"idle", "rearm"}
  BY <1>1, <1>2, <1>9, DoneIs
<1>12. AcceptMoves
  BY <1>2, <1>8, <1>9, <1>11, AcceptsSame
<1>13. \A p \in Objs, j \in {"recv", "send"} : Due(c', Op(p, j, none)) > 0 => c'.obj[p].aio
  BY <1>2, <1>8, <1>9 DEF CoreOK
<1>14. LeftOK'
  BY <1>1, LeftSpent DEF ApiInvariant
<1> QED BY <1>1, <1>2, <1>8, <1>9, <1>10, <1>11, <1>12, <1>13, <1>14, IoAlone

\* It frees the engine, by a thread that shuts it down.
LEMMA CallbackFreesEngineStep ==
  ASSUME ApiInvariant, callback_frees_engine
  PROVE  ApiInvariant'
<1> DEFINE t == fin
<1>1. /\ io.pc = "call" /\ io' = Done /\ \E act : left' = [left EXCEPT !.acts = @ \ {act}]
      /\ c.handle = "ok" /\ OthersBlocked(t) /\ Go(t, "shutdown")
  BY DEF callback_frees_engine, Acting
<1>2. Called = c /\ c \in Core /\ CoreOK(c) /\ Holds(c) /\ c.threads = "run"
  BY <1>1, CalledIs
<1>3. c' = [c EXCEPT !.gone = TRUE, !.handle = "freeing", !.returned = TRUE]
  BY <1>2 DEF callback_frees_engine
<1>4. /\ c' \in Core /\ c'.queue = c.queue /\ c'.ops = c.ops /\ c'.obj = c.obj /\ c'.eng = c.eng
      /\ c'.gen = c.gen /\ c'.threads = c.threads /\ c'.late = c.late /\ c'.stale = c.stale
      /\ c'.closed = c.closed /\ c'.active = c.active /\ c'.accepting = c.accepting
      /\ c'.gone = TRUE /\ c'.returned = TRUE /\ c'.handle = "freeing"
  BY <1>2, <1>3 DEF Core
<1>5. (\A f : Due(c', f) = Due(c, f)) /\ Holds(c')
  <2>1. SameEngine(c, c')
    BY <1>4 DEF SameEngine
  <2>2. Holds(c')
    BY <1>2, <1>4 DEF Holds
  <2> QED BY <2>1, <2>2, SameDue
<1>6. CoreOK(c')
  BY <1>2, <1>4, <1>5 DEF CoreOK
<1>7. IoOK(c', io') /\ io'.pc \in {"idle", "rearm"}
  BY <1>1, <1>2, <1>4, DoneIs
<1>8. ThreadsOK /\ t \in Threads /\ t \in {main, fin} /\ Alone /\ ActiveCounts /\ Drained
  BY DEF ApiInvariant, Threads
<1>9. \A u \in Threads : th[u].pc \notin FreePcs
  BY <1>1, NobodyFrees
<1>10. th[t].pc = "idle"
  <2>1. RoleOK(t, th[t])
    BY <1>8, ThreadFacts
  <2> QED BY <1>8, <1>9, <2>1 DEF RoleOK
<1>11. \A u \in Threads \ {t} : th[u].pc \in Blocked
  BY <1>1 DEF OthersBlocked, Blocked
<1>12. PICK x \in ThreadState : /\ th' = [th EXCEPT ![t] = x]
                                /\ x.pc = "shutdown" /\ x.o = th[t].o /\ x.k = th[t].k /\ x.res = th[t].res
  <2> DEFINE pc == "shutdown"
  <2>1. pc \in WorkerPcs \union MainPcs /\ Go(t, pc)
    BY <1>1 DEF WorkerPcs, MainPcs, FreePcs
  <2> HIDE DEF pc
  <2>2. \E x \in ThreadState : /\ th' = [th EXCEPT ![t] = x]
                               /\ x.pc = pc /\ x.o = th[t].o /\ x.k = th[t].k /\ x.res = th[t].res
    BY <1>8, <2>1, Goes
  <2> QED BY <2>2 DEF pc
<1> HIDE DEF t
<1>13. ThreadsOK'
  <2>1. ThreadOK(c', t, x)
    <3>1. \A type \in {"fn", "cleanup", "close"} : Due(c', Await(type, t)) = 0
      BY <1>5, <1>8, <1>10, AwaitsNothing
    <3>2. x.pc \in FreePcs
      BY <1>12 DEF FreePcs
    <3> QED BY <1>2, <1>4, <1>8, <1>12, <3>1, <3>2, FreeAt
  <2>2. \A u \in Threads \ {t} : ThreadOK(c', u, th[u])
    <3>1. SUFFICES ASSUME NEW u \in Threads PROVE ThreadOK(c', u, th[u])
      OBVIOUS
    <3>2. ThreadOK(c, u, th[u]) /\ th[u].pc \notin FreePcs
      BY <1>8, <1>9, ThreadFacts
    <3> QED BY <1>2, <1>4, <1>5, <3>2, OthersKeep
  <2> QED BY <1>8, <1>12, <2>1, <2>2, StayRight
<1>14. Alone'
  <2>1. x.pc \in FreePcs /\ \A u \in Threads \ {t} : th[u].pc \notin FreePcs
    BY <1>9, <1>12 DEF FreePcs
  <2> QED BY <1>8, <1>11, <1>12, <2>1, StaysAlone
<1>15. Initiating' = Initiating /\ \A p, k : Asking(p, k)' = Asking(p, k)
  <2>1. x.pc \notin Initiate /\ th[t].pc \notin Initiate /\ x.pc # "ask" /\ th[t].pc # "ask"
    BY <1>10, <1>12 DEF Initiate
  <2>2. Initiating' = Initiating
    BY <1>8, <1>12, <2>1, InitiatingMoves
  <2>3. \A p, k : Asking(p, k)' = Asking(p, k)
    BY <1>8, <1>12, <2>1, AskingMoves
  <2> QED BY <2>2, <2>3
<1>16. ActiveCounts'
  BY <1>4, <1>8, <1>15 DEF ActiveCounts
<1>17. Drained'
  <2>1. \A u \in Threads : th[u].pc \in Draws => th'[u].pc \in Draws
    BY <1>8, <1>10, <1>12, OneMoves DEF Draws
  <2>2. Draining => Draining'
    BY <1>1, <2>1 DEF Draining, Draws
  <2> QED BY <1>4, <1>8, <1>15, <2>2 DEF Drained
<1>18. PendingDue'
  BY <1>4, <1>5, <1>15 DEF PendingDue, ApiInvariant
<1>19. AcceptDue'
  <2>1. \A p \in Objs : MainArms(p)' = MainArms(p)
    <3>1. th'[main] = th[main] \/ (t = main /\ th'[main] = x)
      BY <1>8, <1>12, OneMoves DEF Threads
    <3> QED BY <1>10, <1>12, <3>1 DEF MainArms
  <2>2. \A p \in Objs : IoArms(p)' = 0 /\ IoArms(p) = 0
    BY <1>1, <1>7 DEF IoArms
  <2>3. AcceptDue
    BY DEF ApiInvariant
  <2> QED BY <1>4, <1>5, <2>1, <2>2, <2>3 DEF AcceptDue
<1>20. LeftOK'
  BY <1>1, LeftSpent DEF ApiInvariant
<1> QED BY <1>6, <1>7, <1>13, <1>14, <1>16, <1>17, <1>18, <1>19, <1>20 DEF ApiInvariant

-----------------------------------------------------------------------------
(***************************************************************************)
(* Every step keeps the invariant.                                         *)
(***************************************************************************)
\* Calls of the application's threads.
LEMMA CallsKeep ==
  ASSUME ApiInvariant, NEW t \in Workers, Calls(t)
  PROVE  ApiInvariant'
<1>1. \A o \in {"tcp", "udp"} : o \in Objs
  BY DEF Objs
<1>2. \A k \in {"accept", "recv", "send", "close", "reset", "is_open", "set_timeout"} : k \in ThreadKinds
  BY DEF ThreadKinds, Kinds
<1>3. \A k \in {"accept", "recv", "send"} : k \in Kinds
  BY DEF Kinds
<1>4. ASSUME NEW name, NEW pc \in {"begin", "on_io"}, NEW o \in {"tcp", "udp"},
             NEW k \in {"accept", "recv", "send", "close", "reset", "is_open", "set_timeout"},
             Call(t, name), Enter(t, pc, o, k), pc = "begin" => k \in {"accept", "recv", "send"}
      PROVE  ApiInvariant'
  BY <1>1, <1>2, <1>3, <1>4, EnterStep
<1>5. ASSUME NEW name, NEW o \in {"tcp", "udp"}, ObjCall(t, name, o), free_handle(t, o) PROVE ApiInvariant'
  BY <1>1, <1>5, FreeHandleStep
<1>6. ASSUME NEW name, NEW o \in {"tcp", "udp"}, NEW k \in {"recv", "send"}, ObjCall(t, name, o), async_op(t, o, k)
      PROVE  ApiInvariant'
  BY <1>1, <1>6, AsyncStep
<1>7. ASSUME tcp_accept(t) \/ udp_accept(t) PROVE ApiInvariant'
  BY <1>4, <1>7 DEF tcp_accept, udp_accept, EngineCall
<1>8. ASSUME tcp_recv(t) \/ tcp_send(t) \/ udp_recvfrom(t) \/ udp_sendto(t) PROVE ApiInvariant'
  BY <1>4, <1>8 DEF tcp_recv, tcp_send, udp_recvfrom, udp_sendto, ObjCall
<1>9. ASSUME tcp_close(t) \/ tcp_reset(t) \/ tcp_is_open(t) PROVE ApiInvariant'
  BY <1>4, <1>9 DEF tcp_close, tcp_reset, tcp_is_open, ObjCall
<1>10. ASSUME udp_close(t) \/ udp_is_open(t) \/ udp_set_timeout(t) PROVE ApiInvariant'
  BY <1>4, <1>10 DEF udp_close, udp_is_open, udp_set_timeout, ObjCall
<1>11. ASSUME tcp_free(t) \/ udp_free(t) PROVE ApiInvariant'
  BY <1>5, <1>11 DEF tcp_free, udp_free
<1>12. ASSUME tcp_async_recv(t) \/ tcp_async_send(t) \/ udp_async_recvfrom(t) \/ udp_async_sendto(t)
       PROVE  ApiInvariant'
  BY <1>6, <1>12 DEF tcp_async_recv, tcp_async_send, udp_async_recvfrom, udp_async_sendto
<1> QED BY <1>7, <1>8, <1>9, <1>10, <1>11, <1>12 DEF Calls

\* Calls that concern the engine.
LEMMA EngineCallsKeep ==
  ASSUME ApiInvariant, EngineCalls(main)
  PROVE  ApiInvariant'
<1>1. CASE engine_open(main)
  BY <1>1, OpenStep
<1>2. CASE engine_close_call(main)
  BY <1>2, CloseCallStep
<1>3. CASE engine_free(main)
  BY <1>3, FreeStep
<1>4. ASSUME NEW on \in BOOLEAN, tcp_async_accept(main, on) \/ udp_async_accept(main, on) PROVE ApiInvariant'
  <2>1. \A o \in {"tcp", "udp"} : o \in Objs
    BY DEF Objs
  <2>2. ASSUME NEW name, NEW o \in {"tcp", "udp"}, EngineCall(main, name), register(main, o, on) PROVE ApiInvariant'
    BY <2>1, <2>2, RegisterStep
  <2>3. CASE tcp_async_accept(main, on)
    BY <2>2, <2>3 DEF tcp_async_accept
  <2>4. CASE udp_async_accept(main, on)
    BY <2>2, <2>4 DEF udp_async_accept
  <2> QED BY <1>4, <2>3, <2>4
<1> QED BY <1>1, <1>2, <1>3, <1>4 DEF EngineCalls

\* Steps inside a call.
LEMMA ThreadStepsKeep ==
  ASSUME ApiInvariant, NEW t \in Threads, ThreadSteps(t)
  PROVE  ApiInvariant'
<1>1. CASE begin_op(t) \/ initiate(t) \/ end_op(t) \/ wait_completion(t) \/ on_io(t)
  BY <1>1, BeginStep, InitiateStep, EndStep, WaitStep, OnIoStep
<1>2. CASE open_engine(t) \/ open_threads(t) \/ open_flag(t)
  BY <1>2, OpenEngineStep, OpenThreadsStep, OpenFlagStep
<1>3. CASE drain(t) \/ close_data(t) \/ shutdown(t) \/ shut_drain(t)
  BY <1>3, DrainStep, CloseDataStep, ShutdownStep, ShutDrainStep
<1>4. CASE shut_unlock(t) \/ reset_guard(t) \/ join(t)
  BY <1>4, ShutUnlockStep, ResetGuardStep, JoinStep
<1>5. CASE set_cb(t) \/ post_cancel(t) \/ ask(t)
  BY <1>5, SetCbStep, PostCancelStep, AskStep
<1>6. ASSUME NEW o \in {"tcp", "udp"}, At(t, "arm"), th[t].o = o, c' = arm_accept(c, o), Return(t),
             UNCHANGED <<io, left>>
      PROVE  ApiInvariant'
  <2>1. o \in Objs /\ th[t].pc = "arm" /\ th' = [th EXCEPT ![t] = Idle] /\ io' = io /\ left' = left
    BY <1>6 DEF Objs, At, Return
  <2> QED BY <1>6, <2>1, ArmStep
<1>7. CASE arm_tcp_accept(t)
  BY <1>6, <1>7 DEF arm_tcp_accept
<1>8. CASE arm_udp_accept(t)
  BY <1>6, <1>8 DEF arm_udp_accept
<1> QED BY <1>1, <1>2, <1>3, <1>4, <1>5, <1>7, <1>8 DEF ThreadSteps

\* The executor's.
LEMMA IoStepsKeep ==
  ASSUME ApiInvariant, IoSteps
  PROVE  ApiInvariant'
<1>1. CASE RunOp \/ RunHop \/ slot_finish \/ RunFn
  BY <1>1, RunOpStep, RunHopStep, SlotFinishStep, RunFnStep
<1>2. CASE RunCloseSocket \/ RunCleanup \/ RunClose \/ RunArm \/ RunCancel
  BY <1>2, RunCloseSocketStep, RunCleanupStep, RunCloseStep, RunArmStep, RunCancelStep
<1>3. CASE accept_done \/ accept_take \/ accept_rearm \/ accept_arm
  BY <1>3, AcceptDoneStep, AcceptTakeStep, AcceptRearmStep, AcceptArmStep
<1>4. CASE op_done \/ op_check \/ callback \/ callback_drained
  BY <1>4, OpDoneStep, OpCheckStep, CallbackStep, CallbackDrainedStep
<1> QED BY <1>1, <1>2, <1>3, <1>4 DEF IoSteps

\* What the application's function does.
LEMMA CallbackActsKeep ==
  ASSUME ApiInvariant, CallbackActs
  PROVE  ApiInvariant'
<1>1. ASSUME NEW k \in {"recv", "send"}, callback_asks(k) PROVE ApiInvariant'
  BY <1>1, CallbackAsksStep
<1>2. CASE callback_frees \/ callback_pauses
  BY <1>2, CallbackFreesStep, CallbackPausesStep
<1>3. CASE callback_closes \/ callback_frees_engine
  BY <1>3, CallbackClosesStep, CallbackFreesEngineStep
<1> QED BY <1>1, <1>2, <1>3 DEF CallbackActs

\* The step.
LEMMA ApiNext ==
  ASSUME ApiInvariant, [Next]_vars
  PROVE  ApiInvariant'
<1>1. LeftOK
  BY DEF ApiInvariant
<1>2. ASSUME NEW t \in left.workers, Calls(t) PROVE ApiInvariant'
  <2>1. t \in Workers
    BY <1>1 DEF LeftOK
  <2> QED BY <1>2, <2>1, CallsKeep
<1>3. CASE EngineCalls(main)
  BY <1>3, EngineCallsKeep
<1>4. ASSUME NEW t \in Threads, ThreadSteps(t) PROVE ApiInvariant'
  BY <1>4, ThreadStepsKeep
<1>5. ASSUME NEW t \in Threads, Faults(t) PROVE ApiInvariant'
  BY <1>5, InitiateThrowsStep, OpenFailsStep, AskThrowsStep DEF Faults
<1>6. CASE IoSteps
  BY <1>6, IoStepsKeep
<1>7. CASE CallbackActs
  BY <1>7, CallbackActsKeep
<1>8. ASSUME NEW i \in DOMAIN c.ops, Arrive(i) PROVE ApiInvariant'
  BY <1>8, ArriveStep
<1>9. CASE DeviceFails
  BY <1>9, DeviceFailsStep
<1>10. CASE UNCHANGED vars \/ SweepFires \/ on_sweep
  <2>1. c' = c /\ th' = th /\ io' = io /\ left' = left
    BY <1>10 DEF vars, SweepFires, on_sweep
  <2>2. LeftOK'
    BY <1>1, <2>1, LeftSpent
  <2> QED BY <2>1, <2>2, NothingMoves
<1> QED BY <1>2, <1>3, <1>4, <1>5, <1>6, <1>7, <1>8, <1>9, <1>10 DEF Next

\* It holds to begin with.
LEMMA ApiInit ==
  ASSUME Init
  PROVE  ApiInvariant
<1>1. c = [closed |-> TRUE, gone |-> FALSE, active |-> 0, mu |-> none, eng |-> FALSE, gen |-> 0,
           guard |-> TRUE, threads |-> "none", queue |-> <<>>, ops |-> <<>>,
           cb |-> [o \in Objs |-> FALSE], accepting |-> [o \in Objs |-> FALSE],
           obj |-> [o \in Objs |-> NoHandle], handle |-> "ok", returned |-> FALSE,
           late |-> FALSE, stale |-> FALSE]
  BY DEF Init
<1>2. NoHandle \in Handles /\ NoHandle.st = "none" /\ NoHandle.held = FALSE /\ NoHandle.pend = {}
  BY DEF NoHandle, Handles
<1> HIDE DEF NoHandle
<1>3. /\ c.closed = TRUE /\ c.gone = FALSE /\ c.active = 0 /\ c.mu = none /\ c.eng = FALSE /\ c.gen = 0
      /\ c.guard = TRUE /\ c.threads = "none" /\ c.queue = <<>> /\ c.ops = <<>>
      /\ c.accepting = [o \in Objs |-> FALSE] /\ c.obj = [o \in Objs |-> NoHandle]
      /\ c.handle = "ok" /\ c.returned = FALSE /\ c.late = FALSE /\ c.stale = FALSE
  BY <1>1
<1>4. c \in Core
  <2>1. <<>> \in Seq(Tasks) /\ <<>> \in Seq(Ops)
    OBVIOUS
  <2>2. [o \in Objs |-> NoHandle] \in [Objs -> Handles] /\ [o \in Objs |-> FALSE] \in [Objs -> BOOLEAN]
    BY <1>2
  <2> QED BY <1>1, <2>1, <2>2 DEF Core
<1>5. \A f : Due(c, f) = 0
  BY <1>3, OccursEmpty DEF Due
<1>6. CoreOK(c)
  <2>1. Holds(c)
    BY <1>2, <1>3 DEF Holds
  <2> QED BY <1>2, <1>3, <1>4, <1>5, <2>1 DEF CoreOK
<1>7. IoOK(c, io) /\ io.pc = "idle"
  BY Rests DEF Init
<1>8. th = [t \in Threads |-> Idle] /\ \A t \in Threads : th[t].pc = "idle"
  BY DEF Init, Idle
<1>9. ThreadsOK
  <2>1. ASSUME NEW t \in Threads PROVE ThreadOK(c, t, Idle) /\ Idle \in ThreadState
    <3>1. \A type \in {"fn", "cleanup", "close"} : Due(c, Await(type, t)) = 0
      BY <1>5
    <3>2. c.gen = 0 /\ ~c.eng
      BY <1>3
    <3> QED BY <3>1, <3>2, Comes
  <2>2. \A t \in Threads : ThreadOK(c, t, th[t]) /\ th[t] \in ThreadState
    BY <1>8, <2>1
  <2> QED BY <1>8, <2>2 DEF ThreadsOK
<1>10. Alone /\ Initiating = {} /\ \A o, k : Asking(o, k) = {}
  BY <1>8 DEF Alone, FreePcs, Initiating, Asking, At
<1>11. Cardinality({}) = 0
  BY FS_EmptySet
<1>12. ActiveCounts /\ Drained
  BY <1>3, <1>10, <1>11 DEF ActiveCounts, Drained
<1>13. PendingDue
  <2>1. SUFFICES ASSUME NEW o \in Objs, NEW k \in {"recv", "send"}
                 PROVE  Due(c, Op(o, k, none)) + Cardinality(Asking(o, k)) = IF k \in c.obj[o].pend THEN 1 ELSE 0
    BY DEF PendingDue
  <2>2. c.obj[o].pend = {} /\ Due(c, Op(o, k, none)) = 0 /\ Asking(o, k) = {}
    BY <1>2, <1>3, <1>5, <1>10
  <2> QED BY <1>11, <2>2
<1>14. AcceptDue
  <2>1. \A o \in Objs : MainArms(o) = 0 /\ IoArms(o) = 0
    BY <1>7, <1>8 DEF MainArms, IoArms, Threads
  <2> QED BY <1>3, <1>5, <2>1 DEF AcceptDue
<1>15. LeftOK
  <2>1. left \in Scripts
    BY DEF Init
  <2> QED BY <2>1, CApiAssumption DEF LeftOK
<1> QED BY <1>6, <1>7, <1>9, <1>10, <1>12, <1>13, <1>14, <1>15 DEF ApiInvariant

\* The inductive invariant: whatever the application's threads, their callbacks
\* and the executor do, the core, the threads and what is under way agree.
THEOREM ApiAgrees ==
  Spec => []ApiInvariant
<1>1. Init => ApiInvariant
  BY ApiInit
<1>2. ApiInvariant /\ [Next]_vars => ApiInvariant'
  BY ApiNext
<1> QED BY <1>1, <1>2, PTL DEF Spec

-----------------------------------------------------------------------------
(***************************************************************************)
(* What the API promises.                                                  *)
(***************************************************************************)
\* aio_gone, alive: no callback begins after tunio_engine_free returned, and
\* none is given a handle that an earlier one freed.
THEOREM NoLateCallback ==
  Spec => []CallbacksValid
<1>1. ApiInvariant => CallbacksValid
  BY DEF ApiInvariant, CoreOK, CallbacksValid
<1> QED BY <1>1, ApiAgrees, PTL

\* shutdown: what the io threads leave behind depends on nobody, and nobody
\* waits for them.
THEOREM ThreadsEndLast ==
  Spec => []IoOutlivesCalls
<1>1. ApiInvariant => IoOutlivesCalls
  <2>1. SUFFICES ASSUME ApiInvariant, c.threads = "gone" PROVE IoOutlivesCalls
    BY DEF IoOutlivesCalls
  <2>2. c.ops = <<>> /\ \A i \in DOMAIN c.queue : c.queue[i].type = "close_socket"
    BY <2>1 DEF ApiInvariant, CoreOK
  <2>3. \A t \in Threads : th[t].pc \in {"idle", "begin"} \/ (At(t, "wait") /\ th[t].res # "none")
    <3>1. \A t \in Threads : PhaseOK(c, t, th[t])
      BY <2>1 DEF ApiInvariant, ThreadsOK, ThreadOK
    <3> QED BY <2>1, <3>1 DEF PhaseOK, At
  <2> QED BY <2>2, <2>3 DEF IoOutlivesCalls
<1> QED BY <1>1, ApiAgrees, PTL

\* An operation that is in the engine, or on its way there or back.
InEngine(o, k) == {i \in DOMAIN c.ops : c.ops[i].o = o /\ c.ops[i].k = k /\ c.ops[i].by = none}
OnTheWay(o, k) ==
  {i \in DOMAIN c.queue : /\ c.queue[i].type \in {"op", "hop", "done"}
                          /\ c.queue[i].op.o = o /\ c.queue[i].op.k = k /\ c.queue[i].op.by = none}

\* It is due as often as it is there.
LEMMA DueFlies ==
  ASSUME c \in Core, NEW o \in Objs, NEW k \in Kinds
  PROVE  Due(c, Op(o, k, none)) = Cardinality(InEngine(o, k)) + Cardinality(OnTheWay(o, k))
<1> DEFINE e == Op(o, k, none)
<1>1. c.ops \in Seq(Ops) /\ c.queue \in Seq(Tasks)
  BY DEF Core
<1>2. \A x \in Ops : x = e <=> x.o = o /\ x.k = k /\ x.by = none
  BY DEF Ops, Op
<1>3. \A x \in Tasks : x \in Carries(e) <=> /\ x.type \in {"op", "hop", "done"}
                                            /\ x.op.o = o /\ x.op.k = k /\ x.op.by = none
  <2>1. SUFFICES ASSUME NEW x \in Tasks
                 PROVE  Key(x) = e <=> /\ x.type \in {"op", "hop", "done"}
                                       /\ x.op.o = o /\ x.op.k = k /\ x.op.by = none
    BY DEF Carries
  <2>2. CASE x.type \in OpTypes
    <3>1. x.op \in Ops
      BY <2>2 DEF OpTypes, Tasks, Awaited
    <3> HIDE DEF e
    <3> QED BY <1>2, <2>2, <3>1 DEF Key, OpTypes
  <2>3. CASE x.type \notin OpTypes
    <3>1. "type" \in DOMAIN x /\ "type" \notin DOMAIN e
      BY DEF Tasks, Awaited, Op
    <3> HIDE DEF e
    <3>2. Key(x) = x
      BY <2>3 DEF Key
    <3> QED BY <2>3, <3>1, <3>2 DEF OpTypes
  <2> QED BY <2>2, <2>3
<1> HIDE DEF e
<1>4. Where(c.ops, This(e)) = InEngine(o, k)
  BY <1>1, <1>2 DEF Where, This, InEngine
<1>5. Where(c.queue, Carries(e)) = OnTheWay(o, k)
  BY <1>1, <1>3 DEF Where, OnTheWay
<1> QED BY <1>4, <1>5 DEF Due, Occurs, e

\* The tasks that arm an accept, and the threads about to post one.
ArmTasks(o) == {i \in DOMAIN c.queue : c.queue[i].type = "arm" /\ c.queue[i].o = o}
ArmThreads(o) == {t \in Threads : At(t, "arm") /\ th[t].o = o}

\* Only the thread that registers arms.
LEMMA ArmsAre ==
  ASSUME ApiInvariant, NEW o \in Objs
  PROVE  Due(c, Arm(o)) = Cardinality(ArmTasks(o)) /\ MainArms(o) = Cardinality(ArmThreads(o))
<1> DEFINE e == Arm(o)
<1>1. c.ops \in Seq(Ops) /\ c.queue \in Seq(Tasks)
  BY DEF ApiInvariant, CoreOK, Core
<1>2. \A x \in Ops : x # e
  <2>1. \A x \in Ops : "type" \notin DOMAIN x
    BY DEF Ops
  <2>2. "type" \in DOMAIN e
    BY DEF Arm
  <2> QED BY <2>1, <2>2
<1>3. \A x \in Tasks : x \in Carries(e) <=> x.type = "arm" /\ x.o = o
  <2>1. SUFFICES ASSUME NEW x \in Tasks PROVE Key(x) = e <=> x.type = "arm" /\ x.o = o
    BY DEF Carries
  <2>2. CASE x.type \in OpTypes
    <3>1. Key(x) \in Ops
      BY <2>2 DEF OpTypes, Tasks, Awaited, Key
    <3> QED BY <1>2, <2>2, <3>1 DEF OpTypes
  <2>3. CASE x.type \notin OpTypes
    <3>1. Key(x) = x
      BY <2>3 DEF Key
    <3>2. x = e => x.type = "arm" /\ x.o = o
      BY DEF Arm
    <3>3. x.type = "arm" => x = [type |-> "arm", o |-> x.o]
      BY <2>3 DEF Tasks, Awaited
    <3> QED BY <3>1, <3>2, <3>3 DEF Arm
  <2> QED BY <2>2, <2>3
<1> HIDE DEF e
<1>4. Where(c.ops, This(e)) = {}
  BY <1>1, <1>2 DEF Where, This
<1>5. Where(c.queue, Carries(e)) = ArmTasks(o)
  BY <1>1, <1>3 DEF Where, ArmTasks
<1>6. IsFiniteSet(ArmTasks(o)) /\ Cardinality(ArmTasks(o)) \in Nat
  BY <1>1, <1>5, OccursType DEF Occurs
<1>7. Due(c, Arm(o)) = Cardinality(ArmTasks(o))
  BY <1>4, <1>5, <1>6, FS_EmptySet DEF Due, Occurs, e
<1>8. \A t \in Threads : th[t].pc = "arm" => t = main
  <2>1. \A t \in Threads : RoleOK(t, th[t])
    BY DEF ApiInvariant, ThreadsOK, ThreadOK
  <2> QED BY <2>1 DEF RoleOK, WorkerPcs, FreePcs, Threads
<1>9. MainArms(o) = Cardinality(ArmThreads(o))
  <2>1. CASE th[main].pc = "arm" /\ th[main].o = o
    <3>1. ArmThreads(o) = {main}
      BY <1>8, <2>1 DEF ArmThreads, At, Threads
    <3> QED BY <2>1, <3>1, FS_Singleton DEF MainArms
  <2>2. CASE ~(th[main].pc = "arm" /\ th[main].o = o)
    <3>1. ArmThreads(o) = {}
      BY <1>8, <2>2 DEF ArmThreads, At
    <3> QED BY <2>2, <3>1, FS_EmptySet DEF MainArms
  <2> QED BY <2>1, <2>2
<1> QED BY <1>7, <1>9

\* tcp_accepting, udp_accepting: however registrations, pauses and callbacks
\* interleave, one accept at most is under way for each, and none while the
\* flag is down.
THEOREM AcceptsOneAtATime ==
  Spec => []OneAccept
<1>1. ApiInvariant => OneAccept
  <2>1. SUFFICES ASSUME ApiInvariant, NEW o \in Objs
                 PROVE  Cardinality(InEngine(o, "accept")) + Cardinality(OnTheWay(o, "accept"))
                          + (Cardinality(ArmTasks(o)) + Cardinality(ArmThreads(o)) + IoArms(o))
                          <= IF c.accepting[o] THEN 1 ELSE 0
    BY DEF OneAccept, InFlight, InQueue, InEngine, OnTheWay, ArmTasks, ArmThreads, IoArms
  <2>2. c \in Core /\ AcceptDue
    BY <2>1 DEF ApiInvariant, CoreOK
  <2>3. Due(c, Op(o, "accept", none)) = Cardinality(InEngine(o, "accept")) + Cardinality(OnTheWay(o, "accept"))
    <3> DEFINE k == "accept"
    <3>1. k \in Kinds
      BY DEF Kinds
    <3> HIDE DEF k
    <3>2. Due(c, Op(o, k, none)) = Cardinality(InEngine(o, k)) + Cardinality(OnTheWay(o, k))
      BY <2>2, <3>1, DueFlies
    <3> QED BY <3>2 DEF k
  <2>4. Due(c, Arm(o)) = Cardinality(ArmTasks(o)) /\ MainArms(o) = Cardinality(ArmThreads(o))
    BY <2>1, ArmsAre
  <2>5. /\ Due(c, Op(o, "accept", none)) + Due(c, Arm(o)) + MainArms(o) + IoArms(o)
             <= IF c.accepting[o] THEN 1 ELSE 0
        /\ Due(c, Op(o, "accept", none)) \in Nat /\ Due(c, Arm(o)) \in Nat
        /\ MainArms(o) \in Nat /\ IoArms(o) \in Nat
    <3>1. Due(c, Op(o, "accept", none)) \in Nat /\ Due(c, Arm(o)) \in Nat
      BY <2>2, DueType
    <3> QED BY <2>2, <3>1 DEF AcceptDue, MainArms, IoArms
  <2>6. Cardinality(ArmTasks(o)) \in Nat /\ Cardinality(ArmThreads(o)) \in Nat
    BY <2>4, <2>5
  <2> QED BY <2>3, <2>4, <2>5, <2>6
<1> QED BY <1>1, ApiAgrees, PTL

\* active counts the calls in begin_op, and a read's or a write's flag is up
\* exactly while the operation is under way, so that none is refused later and
\* none doubled.
THEOREM FlagsAreTrue ==
  Spec => []ApiInv
<1>1. ApiInvariant => TypeOK
  <2>1. SUFFICES ASSUME ApiInvariant PROVE TypeOK
    OBVIOUS
  <2>2. c \in Core /\ Holds(c) /\ ActiveCounts
    BY <2>1 DEF ApiInvariant, CoreOK
  <2>3. \A o \in Objs : c.obj[o].st \in {"none", "open", "closed"} /\ c.obj[o].pend \subseteq {"recv", "send"}
    BY <2>2 DEF Core, Handles
  <2> QED BY <2>2, <2>3 DEF TypeOK, Core, Holds, ActiveCounts, Initiating
<1>2. ApiInvariant => PendingExact
  <2>1. SUFFICES ASSUME ApiInvariant, NEW o \in Objs, NEW k \in {"recv", "send"}, Single(o, k)
                 PROVE  Cardinality(InEngine(o, k)) + Cardinality(OnTheWay(o, k)) + Cardinality(Asking(o, k))
                          = IF k \in c.obj[o].pend THEN 1 ELSE 0
    BY DEF PendingExact, InFlight, InQueue, InEngine, OnTheWay, Asking
  <2>2. Due(c, Op(o, k, none)) = Cardinality(InEngine(o, k)) + Cardinality(OnTheWay(o, k))
    <3>1. c \in Core /\ k \in Kinds
      BY <2>1 DEF ApiInvariant, CoreOK, Kinds
    <3> QED BY <3>1, DueFlies
  <2>3. Due(c, Op(o, k, none)) + Cardinality(Asking(o, k)) = IF k \in c.obj[o].pend THEN 1 ELSE 0
    BY <2>1 DEF ApiInvariant, PendingDue
  <2> QED BY <2>2, <2>3
<1>3. ApiInvariant => ApiInv
  BY <1>1, <1>2 DEF ApiInv
<1> QED BY <1>3, ApiAgrees, PTL

=============================================================================
