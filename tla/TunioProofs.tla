----------------------------- MODULE TunioProofs -----------------------------
(***************************************************************************)
(* Proofs about the life of an engine, for any endpoints and limits, any   *)
(* device and any script.                                                  *)
(***************************************************************************)
EXTENDS Tunio, DataLemmas

-----------------------------------------------------------------------------
(***************************************************************************)
(* What an operator leaves alone.  The members of w are those of the       *)
(* device, those of the TCP engines, the queue of the strand and the rest. *)
(***************************************************************************)
Fields ==
  {"open", "epoch", "inflight", "slots", "per_queue", "fds", "descs", "reads", "polls", "wintun",
   "local", "replies", "tcp", "engs", "flows", "accs", "conns", "queue", "misrouted"}

SameDevice(v, u) ==
  u.fds = v.fds /\ u.descs = v.descs /\ u.reads = v.reads /\ u.polls = v.polls
SameTcp(v, u) ==
  u.engs = v.engs /\ u.flows = v.flows /\ u.accs = v.accs /\ u.conns = v.conns
SameLife(v, u) ==
  /\ u.open = v.open /\ u.epoch = v.epoch /\ u.inflight = v.inflight /\ u.slots = v.slots
  /\ u.per_queue = v.per_queue /\ u.wintun = v.wintun /\ u.local = v.local
  /\ u.replies = v.replies /\ u.tcp = v.tcp /\ u.misrouted = v.misrouted

\* A step of the device, and one of a TCP engine.
DeviceOnly(v, u) == DOMAIN u = Fields /\ SameTcp(v, u) /\ SameLife(v, u)
TcpOnly(v, u) == DOMAIN u = Fields /\ SameDevice(v, u) /\ SameLife(v, u) /\ u.queue = v.queue

\* Two steps of one kind make one.
LEMMA DeviceTrans ==
  ASSUME NEW v, NEW u, NEW x, DeviceOnly(v, u), DeviceOnly(u, x)
  PROVE  DeviceOnly(v, x)
BY DEF DeviceOnly, SameTcp, SameLife

\* The same of the engines.
LEMMA TcpTrans ==
  ASSUME NEW v, NEW u, NEW x, TcpOnly(v, u), TcpOnly(u, x)
  PROVE  TcpOnly(v, x)
BY DEF TcpOnly, SameDevice, SameLife

-----------------------------------------------------------------------------
(* The queue of the strand: tasks are added at its end. *)

\* p is q and after it some of T.
Longer(q, p, T) ==
  /\ IsSeq(q) /\ IsSeq(p) /\ Len(q) <= Len(p)
  /\ \A i \in 1 .. Len(q) : p[i] = q[i]
  /\ \A i \in 1 .. Len(p) : i > Len(q) => p[i] \in T

\* Nothing is added.
LEMMA LongerSelf ==
  ASSUME NEW q, IsSeq(q), NEW T
  PROVE  Longer(q, q, T)
<1>1. Len(q) \in Nat
  BY SeqIs
<1> QED BY <1>1 DEF Longer

\* One task is added.
LEMMA LongerAdd ==
  ASSUME NEW q, NEW p, NEW T, Longer(q, p, T), NEW x \in T, NEW r, r = Add(p, x)
  PROVE  Longer(q, r, T)
<1>1. IsSeq(p) /\ Len(p) \in Nat /\ Len(q) \in Nat /\ Len(q) <= Len(p)
  BY SeqIs DEF Longer
<1>2. /\ IsSeq(r) /\ Len(r) = Len(p) + 1
      /\ \A i \in 1 .. Len(p) : r[i] = p[i]
      /\ r[Len(p) + 1] = x
  BY <1>1, SeqAppend
<1>3. ASSUME NEW i \in 1 .. Len(q) PROVE r[i] = q[i]
  <2>1. i \in 1 .. Len(p)
    BY <1>1
  <2> QED BY <1>2, <2>1 DEF Longer
<1>4. ASSUME NEW i \in 1 .. Len(r), i > Len(q) PROVE r[i] \in T
  <2>1. i \in 1 .. Len(p) \/ i = Len(p) + 1
    BY <1>1, <1>2
  <2> QED BY <1>2, <1>4, <2>1 DEF Longer
<1> QED BY <1>1, <1>2, <1>3, <1>4 DEF Longer

-----------------------------------------------------------------------------
(***************************************************************************)
(* The loops.  Each one's recursive function exists: it is built up one    *)
(* round at a time.  kind tells which loop it is, arg what it is over.     *)
(***************************************************************************)
EndRead(rs, q, n) ==
  IF \E r \in rs : r.slot = n
  THEN Append(q, ReadDone(CHOOSE r \in rs : r.slot = n, "aborted"))
  ELSE q

Round(kind, x, n, arg) ==
  CASE kind = "reads" -> EndRead(arg, x, n)
    [] kind = "abort" -> post_accept(x, arg[n], "aborted", 0)
    [] OTHER -> IF n \in arg THEN close_flow(x, n) ELSE x

\* g[n] is what the loop has made of b after n rounds, of m.
RunsOf(kind, b, arg, g, m) ==
  /\ DOMAIN g = 0 .. m /\ g = [n \in 0 .. m |-> g[n]] /\ g[0] = b
  /\ \A n \in 1 .. m : g[n] = Round(kind, g[n - 1], n, arg)

\* The rounds of a loop, one after another.
LEMMA LoopExists ==
  ASSUME NEW kind, NEW b, NEW arg, NEW L \in Nat
  PROVE  \E g : RunsOf(kind, b, arg, g, L)
<1> DEFINE S == {m \in Nat : \E g : RunsOf(kind, b, arg, g, m)}
<1>1. 0 \in S
  <2> DEFINE g == [n \in 0 .. 0 |-> b]
  <2>1. RunsOf(kind, b, arg, g, 0)
    BY DEF RunsOf
  <2> QED BY <2>1
<1>2. ASSUME NEW m \in Nat, m \in S PROVE m + 1 \in S
  <2>1. PICK f : RunsOf(kind, b, arg, f, m)
    BY <1>2
  <2> DEFINE x == Round(kind, f[m], m + 1, arg)
  <2> DEFINE g == [n \in 0 .. m + 1 |-> IF n = m + 1 THEN x ELSE f[n]]
  <2> HIDE DEF x
  <2>2. DOMAIN g = 0 .. m + 1 /\ g = [n \in 0 .. m + 1 |-> g[n]] /\ g[m + 1] = x
    OBVIOUS
  <2>3. \A n \in 0 .. m : g[n] = f[n]
    OBVIOUS
  <2> HIDE DEF g
  <2>4. g[0] = b
    BY <2>1, <2>3 DEF RunsOf
  <2>5. ASSUME NEW n \in 1 .. m + 1 PROVE g[n] = Round(kind, g[n - 1], n, arg)
    <3>1. CASE n = m + 1
      <4>1. n - 1 = m /\ g[m] = f[m]
        BY <3>1, <2>3
      <4> QED BY <3>1, <4>1, <2>2 DEF x
    <3>2. CASE n \in 1 .. m
      <4>1. g[n] = f[n] /\ n - 1 \in 0 .. m
        BY <3>2, <2>3
      <4>2. g[n - 1] = f[n - 1]
        BY <4>1, <2>3
      <4>3. f[n] = Round(kind, f[n - 1], n, arg)
        BY <2>1, <3>2 DEF RunsOf
      <4> QED BY <4>1, <4>2, <4>3
    <3> QED BY <3>1, <3>2
  <2>6. RunsOf(kind, b, arg, g, m + 1)
    BY <2>2, <2>4, <2>5 DEF RunsOf
  <2> QED BY <2>6
<1>3. Nat \subseteq S
  <2> HIDE DEF S
  <2> QED BY <1>1, <1>2, NatBySet
<1> QED BY <1>3

\* The loop over the slots of Release.
LEMMA EndReadsLoop ==
  ASSUME NEW v, v.slots \in Nat
  PROVE  \E h : /\ h[0] = v.queue /\ h[v.slots] = end_reads(v)
                /\ \A n \in 1 .. v.slots : h[n] = EndRead(v.reads, h[n - 1], n)
<1> DEFINE L == v.slots
           Is(g) == g = [n \in 0 .. L |-> IF n = 0 THEN v.queue
                           ELSE IF \E r \in v.reads : r.slot = n
                                THEN Append(g[n - 1],
                                            ReadDone(CHOOSE r \in v.reads : r.slot = n, "aborted"))
                                ELSE g[n - 1]]
           h == CHOOSE g : Is(g)
<1>1. PICK g : RunsOf("reads", v.queue, v.reads, g, L)
  BY LoopExists
<1>2. L \in Nat
  OBVIOUS
<1>3. \A n \in 0 .. L : n = 0 \/ n \in 1 .. L
  BY <1>2
<1>4. Is(g)
  <2>1. \A n \in 1 .. L : g[n] = EndRead(v.reads, g[n - 1], n)
    BY <1>1 DEF RunsOf, Round
  <2> HIDE DEF L
  <2>2. \A n \in 0 .. L : g[n] = IF n = 0 THEN v.queue
                           ELSE IF \E r \in v.reads : r.slot = n
                                THEN Append(g[n - 1],
                                            ReadDone(CHOOSE r \in v.reads : r.slot = n, "aborted"))
                                ELSE g[n - 1]
    BY <1>1, <1>3, <2>1 DEF RunsOf, EndRead
  <2> QED BY <1>1, <2>2 DEF RunsOf
<1>5. Is(h)
  <2> HIDE DEF Is
  <2> QED BY <1>4
<1>6. end_reads(v) = h[L]
  BY DEF end_reads
<1> HIDE DEF h
<1>7. h[0] = v.queue /\ \A n \in 1 .. L : h[n] = EndRead(v.reads, h[n - 1], n)
  <2> HIDE DEF L
  <2>1. 0 \in 0 .. L /\ \A n \in 1 .. L : n \in 0 .. L /\ n # 0
    BY <1>2
  <2> QED BY <1>5, <2>1 DEF EndRead
<1> QED BY <1>6, <1>7

\* Ends(v) are the tasks that end the reads that wait.
Ends(v) == {ReadDone(r, "aborted") : r \in v.reads}

\* They are added to the queue.
LEMMA EndReadsIs ==
  ASSUME NEW v, v.slots \in Nat, IsSeq(v.queue)
  PROVE  Longer(v.queue, end_reads(v), Ends(v))
<1>1. PICK h : /\ h[0] = v.queue /\ h[v.slots] = end_reads(v)
               /\ \A n \in 1 .. v.slots : h[n] = EndRead(v.reads, h[n - 1], n)
  BY EndReadsLoop
<1> DEFINE L == v.slots
           S == {n \in Nat : n <= L => Longer(v.queue, h[n], Ends(v))}
<1>2. 0 \in S
  BY <1>1, LongerSelf
<1>3. ASSUME NEW n \in Nat, n \in S PROVE n + 1 \in S
  <2> SUFFICES ASSUME n + 1 <= L PROVE Longer(v.queue, h[n + 1], Ends(v))
    OBVIOUS
  <2>1. n <= L /\ n + 1 \in 1 .. L /\ (n + 1) - 1 = n
    OBVIOUS
  <2>2. Longer(v.queue, h[n], Ends(v)) /\ h[n + 1] = EndRead(v.reads, h[n], n + 1)
    BY <1>1, <1>3, <2>1
  <2>3. CASE \E r \in v.reads : r.slot = n + 1
    <3> DEFINE x == ReadDone(CHOOSE r \in v.reads : r.slot = n + 1, "aborted")
    <3>1. x \in Ends(v)
      BY <2>3 DEF Ends
    <3>2. h[n + 1] = Add(h[n], x)
      BY <2>2, <2>3 DEF EndRead, Add
    <3> HIDE DEF x
    <3> QED BY <2>2, <3>1, <3>2, LongerAdd
  <2>4. CASE ~\E r \in v.reads : r.slot = n + 1
    BY <2>2, <2>4 DEF EndRead
  <2> QED BY <2>3, <2>4
<1>4. Nat \subseteq S
  <2> HIDE DEF S
  <2> QED BY <1>2, <1>3, NatBySet
<1>5. L \in S
  BY <1>4
<1> QED BY <1>1, <1>5

-----------------------------------------------------------------------------
(***************************************************************************)
(* What open() makes.  A descriptor is settled when the device has it or   *)
(* its owner does: the device took it and it is open, or the library made  *)
(* it and closed it, or the caller has it as it was.                       *)
(***************************************************************************)
FdFields == {"own", "adopted", "closes"}

Settled(d) ==
  /\ DOMAIN d = FdFields /\ d.own \in {"lib", "user"} /\ d.adopted \in BOOLEAN
  /\ d.closes = IF ~d.adopted /\ d.own = "lib" THEN 1 ELSE 0

\* It was only just made.
Raw(d, own) ==
  DOMAIN d = FdFields /\ d.own = own /\ d.adopted = FALSE /\ d.closes = 0

AllSettled(s) == IsSeq(s) /\ \A i \in DOMAIN s : Settled(s[i])
AllRaw(s, own) == IsSeq(s) /\ \A i \in DOMAIN s : Raw(s[i], own)
AllTaken(s) == \A i \in DOMAIN s : s[i].adopted = TRUE

\* New descriptors.
LEMMA OpenedIs ==
  ASSUME NEW own, NEW n \in Nat
  PROVE  AllRaw(Opened(own, n), own) /\ Len(Opened(own, n)) = n
<1> DEFINE s == Opened(own, n)
<1>1. DOMAIN s = 1 .. n /\ s = [i \in 1 .. n |-> s[i]]
  BY DEF Opened
<1>2. IsSeq(s) /\ Len(s) = n
  <2> HIDE DEF s
  <2> QED BY <1>1, SeqMade
<1>3. \A i \in DOMAIN s : Raw(s[i], own)
  BY DEF Opened, Raw, FdFields
<1> QED BY <1>2, <1>3 DEF AllRaw

\* They are closed, or the device takes them.
LEMMA ClosedIs ==
  ASSUME NEW s, AllRaw(s, "lib")
  PROVE  AllSettled(Closed(s)) /\ Len(Closed(s)) = Len(s)
<1> DEFINE t == Closed(s)
<1>1. IsSeq(s) /\ Len(s) \in Nat /\ DOMAIN s = 1 .. Len(s)
  BY SeqIs DEF AllRaw
<1>2. DOMAIN t = 1 .. Len(s) /\ t = [i \in 1 .. Len(s) |-> t[i]]
  BY <1>1 DEF Closed
<1>3. IsSeq(t) /\ Len(t) = Len(s)
  <2> HIDE DEF t
  <2> QED BY <1>1, <1>2, SeqMade
<1>4. ASSUME NEW i \in DOMAIN t PROVE Settled(t[i])
  <2>1. i \in DOMAIN s /\ t[i] = [s[i] EXCEPT !.closes = @ + 1] /\ Raw(s[i], "lib")
    BY <1>1, <1>2 DEF Closed, AllRaw, close_fd
  <2> DEFINE c == s[i]
             x == [c EXCEPT !.closes = @ + 1]
  <2>2. t[i] = x /\ Raw(c, "lib")
    BY <2>1
  <2> HIDE DEF c
  <2>3. DOMAIN x = FdFields /\ x.own = "lib" /\ x.adopted = FALSE /\ x.closes = 1
    BY <2>2 DEF Raw, FdFields
  <2> HIDE DEF x, t
  <2> QED BY <2>2, <2>3 DEF Settled
<1> QED BY <1>3, <1>4 DEF AllSettled

\* The device takes them.
LEMMA AdoptedIs ==
  ASSUME NEW s, NEW own \in {"lib", "user"}, AllRaw(s, own)
  PROVE  AllSettled(Adopted(s)) /\ AllTaken(Adopted(s)) /\ Len(Adopted(s)) = Len(s)
<1> DEFINE t == Adopted(s)
<1>1. IsSeq(s) /\ Len(s) \in Nat /\ DOMAIN s = 1 .. Len(s)
  BY SeqIs DEF AllRaw
<1>2. DOMAIN t = 1 .. Len(s) /\ t = [i \in 1 .. Len(s) |-> t[i]]
  BY <1>1 DEF Adopted
<1>3. IsSeq(t) /\ Len(t) = Len(s)
  <2> HIDE DEF t
  <2> QED BY <1>1, <1>2, SeqMade
<1>4. \A i \in DOMAIN t : Settled(t[i]) /\ t[i].adopted = TRUE
  BY DEF Adopted, AllRaw, Raw, FdFields, Settled
<1> QED BY <1>3, <1>4 DEF AllSettled, AllTaken

\* The caller keeps them.
LEMMA UserSettled ==
  ASSUME NEW s, AllRaw(s, "user")
  PROVE  AllSettled(s)
BY DEF AllRaw, AllSettled, Raw, Settled

\* The parts of one open().
LEMMA SettledConcat ==
  ASSUME NEW s, NEW t, AllSettled(s), AllSettled(t)
  PROVE  AllSettled(s \o t) /\ Len(s \o t) = Len(s) + Len(t) /\ ToSet(s) \subseteq ToSet(s \o t)
<1>1. IsSeq(s) /\ IsSeq(t)
  BY DEF AllSettled
<1>2. /\ IsSeq(s \o t) /\ Len(s \o t) = Len(s) + Len(t)
      /\ ToSet(s \o t) = ToSet(s) \cup ToSet(t)
  BY <1>1, SeqConcat
<1>3. \A x \in ToSet(s) \cup ToSet(t) : Settled(x)
  BY DEF AllSettled, ToSet
<1>4. \A i \in DOMAIN (s \o t) : Settled((s \o t)[i])
  BY <1>2, <1>3 DEF ToSet
<1> QED BY <1>2, <1>4 DEF AllSettled

\* Raw ones side by side.
LEMMA RawConcat ==
  ASSUME NEW s, NEW t, NEW own, NEW way, AllRaw(s, own), AllRaw(t, way)
  PROVE  /\ IsSeq(s \o t) /\ Len(s \o t) = Len(s) + Len(t)
         /\ \A i \in DOMAIN (s \o t) : Raw((s \o t)[i], own) \/ Raw((s \o t)[i], way)
<1>1. IsSeq(s) /\ IsSeq(t)
  BY DEF AllRaw
<1>2. /\ IsSeq(s \o t) /\ Len(s \o t) = Len(s) + Len(t)
      /\ ToSet(s \o t) = ToSet(s) \cup ToSet(t)
  BY <1>1, SeqConcat
<1>3. \A x \in ToSet(s) \cup ToSet(t) : Raw(x, own) \/ Raw(x, way)
  BY DEF AllRaw, ToSet
<1> QED BY <1>2, <1>3 DEF ToSet

\* The device takes a handle and what was made beside it.
LEMMA AdoptedBoth ==
  ASSUME NEW s, NEW t, NEW own \in {"lib", "user"}, AllRaw(s, own), AllRaw(t, "lib")
  PROVE  AllSettled(Adopted(s \o t)) /\ AllTaken(Adopted(s \o t))
         /\ Len(Adopted(s \o t)) = Len(s) + Len(t)
<1> DEFINE x == s \o t
           y == Adopted(x)
<1>1. IsSeq(x) /\ Len(x) = Len(s) + Len(t) /\ \A i \in DOMAIN x : Raw(x[i], own) \/ Raw(x[i], "lib")
  BY RawConcat
<1> HIDE DEF x
<1>2. Len(x) \in Nat /\ DOMAIN x = 1 .. Len(x)
  BY <1>1, SeqIs
<1>3. DOMAIN y = 1 .. Len(x) /\ y = [i \in 1 .. Len(x) |-> y[i]]
  BY <1>2 DEF Adopted
<1>4. IsSeq(y) /\ Len(y) = Len(x)
  <2> HIDE DEF y
  <2> QED BY <1>2, <1>3, SeqMade
<1>5. \A i \in DOMAIN y : Settled(y[i]) /\ y[i].adopted = TRUE
  BY <1>1 DEF Adopted, Raw, FdFields, Settled
<1> QED BY <1>1, <1>4, <1>5 DEF AllSettled, AllTaken, x

\* Closed sockets that were opened by the way.
LEMMA SocketIs ==
  AllSettled(Closed(Opened("lib", 1))) /\ AllSettled(<<>>)
<1>1. AllSettled(Closed(Opened("lib", 1)))
  BY OpenedIs, ClosedIs
<1>2. AllSettled(<<>>)
  BY SeqEmpty, SeqIs DEF AllSettled
<1> QED BY <1>1, <1>2

\* A device has a queue it was given.
Has(s) == \E i \in DOMAIN s : s[i].adopted = TRUE

\* The queues of a device are configured, or closed.
LEMMA ConfigureIs ==
  ASSUME NEW s, AllRaw(s, "lib"), Len(s) >= 1, NEW dev, NEW fault
  PROVE  /\ AllSettled(configure_linux(s, dev, fault)) /\ AllSettled(configure_utun(s, dev, fault))
         /\ fault = NoFault => Has(configure_linux(s, dev, fault))
                               /\ Has(configure_utun(s, dev, fault))
<1> DEFINE sock == Closed(Opened("lib", 1))
           ip6 == IF SetsIpv6(dev) THEN sock ELSE <<>>
           a == adopt_fds(s, fault)
<1>1. AllSettled(sock) /\ AllSettled(ip6)
  BY SocketIs
<1>2. AllSettled(Closed(s)) /\ AllSettled(Adopted(s)) /\ AllTaken(Adopted(s))
      /\ Len(Adopted(s)) = Len(s)
  BY ClosedIs, AdoptedIs
<1>3. AllSettled(a)
  BY <1>2 DEF adopt_fds
<1>4. /\ add_ipv6_linux(dev) = ip6 /\ add_ipv6_utun(dev) = ip6
  BY DEF add_ipv6_linux, add_ipv6_utun
<1>5. configure_linux(s, dev, fault) =
        CASE fault.at = "socket" -> Closed(s)
          [] fault.at = "ioctl" -> Closed(s) \o sock
          [] fault.at = "ip6" -> Closed(s) \o sock \o ip6
          [] OTHER -> a \o sock \o ip6
  BY <1>4 DEF configure_linux
<1>6. configure_utun(s, dev, fault) = configure_linux(s, dev, fault)
  BY <1>4, <1>5 DEF configure_utun
<1> HIDE DEF sock, ip6
<1>7. AllSettled(Closed(s) \o sock) /\ AllSettled(Closed(s) \o sock \o ip6)
  BY <1>1, <1>2, SettledConcat
<1>8. AllSettled(a \o sock) /\ AllSettled(a \o sock \o ip6)
      /\ ToSet(a) \subseteq ToSet(a \o sock) /\ ToSet(a \o sock) \subseteq ToSet(a \o sock \o ip6)
  <2> HIDE DEF a
  <2> QED BY <1>1, <1>3, SettledConcat
<1>9. AllSettled(configure_linux(s, dev, fault))
  <2> HIDE DEF a
  <2> QED BY <1>2, <1>5, <1>7, <1>8
<1>10. ASSUME fault = NoFault PROVE Has(configure_linux(s, dev, fault))
  <2>1. fault.at = "none"
    BY <1>10 DEF NoFault
  <2>2. a = Adopted(s)
    BY <2>1 DEF adopt_fds
  <2>3. configure_linux(s, dev, fault) = a \o sock \o ip6
    <3> HIDE DEF a
    <3> QED BY <1>5, <2>1
  <2> HIDE DEF a
  <2>4. IsSeq(a) /\ Len(a) >= 1 /\ AllTaken(a)
    BY <1>2, <2>2 DEF AllSettled
  <2>5. DOMAIN a = 1 .. Len(a) /\ Len(a) \in Nat
    BY <2>4, SeqIs
  <2>6. 1 \in DOMAIN a
    BY <2>4, <2>5
  <2>7. a[1] \in ToSet(a \o sock \o ip6) /\ a[1].adopted = TRUE
    BY <1>8, <2>4, <2>6 DEF ToSet, AllTaken
  <2> QED BY <2>3, <2>7 DEF Has, ToSet
<1> QED BY <1>6, <1>9, <1>10

\* What a device of POSIX opens.
LEMMA PosixOpenIs ==
  ASSUME NEW dev, dev.mode \in {"linux", "utun", "inject"}, dev.queues \in Nat \ {0},
         NEW fault \in posix_faults(dev) \cup {NoFault}
  PROVE  /\ AllSettled(posix_open(dev, fault))
         /\ fault = NoFault => Has(posix_open(dev, fault))
<1> DEFINE x == posix_open(dev, fault)
<1>1. fault = NoFault => fault.at = "none"
  BY DEF NoFault
<1>2. CASE dev.mode = "linux"
  <2> DEFINE s == open_queues(dev, fault)
  <2>1. x = CASE fault.at = "config" -> <<>>
              [] fault.at \in {"open", "setiff"} -> s
              [] OTHER -> configure_linux(s, dev, fault)
    BY <1>2 DEF posix_open, open_linux
  <2> HIDE DEF s
  <2>2. CASE fault.at = "config"
    BY <1>1, <2>1, <2>2, SocketIs
  <2>3. CASE fault.at \in {"open", "setiff"}
    <3>1. fault.q \in 1 .. dev.queues
      BY <1>2, <2>3 DEF posix_faults, NoFault, SetsIpv6
    <3>2. fault.q \in Nat /\ fault.q - 1 \in Nat
      BY <3>1
    <3>3. AllSettled(s)
      BY <2>3, <3>2, OpenedIs, ClosedIs DEF open_queues, s
    <3> QED BY <1>1, <2>1, <2>3, <3>3
  <2>4. CASE ~(fault.at \in {"config", "open", "setiff"})
    <3>1. s = Opened("lib", dev.queues)
      BY <2>4 DEF open_queues, s
    <3>2. AllRaw(s, "lib") /\ Len(s) >= 1
      BY <3>1, OpenedIs
    <3>3. x = configure_linux(s, dev, fault)
      BY <2>1, <2>4
    <3> HIDE DEF x
    <3> QED BY <3>2, <3>3, ConfigureIs DEF x
  <2> QED BY <2>2, <2>3, <2>4
<1>3. CASE dev.mode = "utun"
  <2> DEFINE s == open_utun(fault)
  <2>1. x = CASE fault.at = "config" -> <<>>
              [] fault.at \in {"open", "connect"} -> s
              [] OTHER -> configure_utun(s, dev, fault)
    BY <1>3 DEF posix_open, open_apple
  <2> HIDE DEF s
  <2>2. CASE fault.at = "config"
    BY <1>1, <2>1, <2>2, SocketIs
  <2>3. CASE fault.at \in {"open", "connect"}
    <3>3. AllSettled(s)
      BY <2>3, SocketIs DEF open_utun, s
    <3> QED BY <1>1, <2>1, <2>3, <3>3
  <2>4. CASE ~(fault.at \in {"config", "open", "connect"})
    <3>1. s = Opened("lib", 1)
      BY <2>4 DEF open_utun, s
    <3>2. AllRaw(s, "lib") /\ Len(s) >= 1
      BY <3>1, OpenedIs
    <3>3. x = configure_utun(s, dev, fault)
      BY <2>1, <2>4
    <3> HIDE DEF x
    <3> QED BY <3>2, <3>3, ConfigureIs DEF x
  <2> QED BY <2>2, <2>3, <2>4
<1>4. CASE dev.mode = "inject"
  <2> DEFINE s == Opened("user", dev.queues)
  <2>1. x = IF fault.at \in {"config", "assign"} THEN s ELSE Adopted(s)
    BY <1>4 DEF posix_open, assign_queues
  <2>2. AllRaw(s, "user") /\ Len(s) = dev.queues
    BY OpenedIs
  <2> HIDE DEF s
  <2>3. AllSettled(s) /\ AllSettled(Adopted(s)) /\ AllTaken(Adopted(s))
        /\ Len(Adopted(s)) = dev.queues
    BY <2>2, UserSettled, AdoptedIs
  <2>4. Has(Adopted(s))
    <3>1. 1 \in DOMAIN Adopted(s)
      <4>1. DOMAIN Adopted(s) = 1 .. dev.queues
        BY <2>3, SeqIs DEF AllSettled
      <4> QED BY <4>1
    <3> QED BY <2>3, <3>1 DEF AllTaken, Has
  <2> QED BY <1>1, <2>1, <2>3, <2>4
<1> QED BY <1>2, <1>3, <1>4

\* What a Wintun device opens.
LEMMA WintunOpenIs ==
  ASSUME NEW dev, dev.mode \in {"wintun", "wintun_inject"},
         NEW fault \in wintun_faults(dev) \cup {NoFault}
  PROVE  /\ AllSettled(wintun_open(dev, fault))
         /\ fault = NoFault => Has(wintun_open(dev, fault))
<1> DEFINE x == wintun_open(dev, fault)
           g == register_rings(fault)
<1>1. fault = NoFault => fault.at = "none"
  BY DEF NoFault
<1>2. fault.at \in {"map", "event"} => fault.q \in 1 .. 2
  BY DEF wintun_faults, NoFault
<1>3. fault.at = "none" => g = Opened("lib", 4)
  BY DEF register_rings
<1>4. fault.at \in {"map", "view", "event", "register"} => AllSettled(g)
  <2>1. CASE fault.at = "map"
    <3>1. fault.q - 1 \in Nat
      BY <1>2, <2>1
    <3> QED BY <2>1, <3>1, OpenedIs, ClosedIs DEF register_rings
  <2>2. CASE fault.at = "view"
    BY <2>2, OpenedIs, ClosedIs DEF register_rings
  <2>3. CASE fault.at = "event"
    <3>1. 1 + fault.q \in Nat
      BY <1>2, <2>3
    <3> QED BY <2>3, <3>1, OpenedIs, ClosedIs DEF register_rings
  <2>4. CASE fault.at = "register"
    BY <2>4, OpenedIs, ClosedIs DEF register_rings
  <2> QED BY <2>1, <2>2, <2>3, <2>4
<1>5. fault.at \in {"none", "config", "view", "register", "adapter", "device", "map", "event"}
      /\ (fault.at \in {"adapter", "device"} => dev.mode = "wintun")
  BY DEF wintun_faults, NoFault
<1> HIDE DEF g
<1>6. AllRaw(Opened("lib", 1), "lib") /\ AllRaw(Opened("lib", 2), "lib")
      /\ AllRaw(Opened("lib", 4), "lib") /\ AllRaw(Opened("user", 1), "user")
      /\ Len(Opened("lib", 2)) = 2 /\ Len(Opened("lib", 4)) = 4 /\ Len(Opened("user", 1)) = 1
  BY OpenedIs
<1>7. \A own \in {"lib", "user"} : \A s : AllRaw(s, own) /\ Len(s) \in Nat =>
         AllSettled(Adopted(s \o Opened("lib", 4))) /\ Has(Adopted(s \o Opened("lib", 4)))
  <2> SUFFICES ASSUME NEW own \in {"lib", "user"}, NEW s, AllRaw(s, own), Len(s) \in Nat
               PROVE  AllSettled(Adopted(s \o Opened("lib", 4)))
                      /\ Has(Adopted(s \o Opened("lib", 4)))
    OBVIOUS
  <2> DEFINE y == Adopted(s \o Opened("lib", 4))
  <2>1. AllSettled(y) /\ AllTaken(y) /\ Len(y) = Len(s) + 4
    BY <1>6, AdoptedBoth
  <2> HIDE DEF y
  <2>2. DOMAIN y = 1 .. Len(y)
    BY <2>1, SeqIs DEF AllSettled
  <2>3. 1 \in DOMAIN y
    BY <2>1, <2>2
  <2> QED BY <2>1, <2>3 DEF AllTaken, Has, y
<1>8. CASE dev.mode = "wintun"
  <2>1. x = CASE fault.at \in {"config", "adapter"} -> <<>>
              [] fault.at = "device" -> Closed(Opened("lib", 1))
              [] fault.at = "none" -> Adopted(Opened("lib", 2) \o g)
              [] OTHER -> Closed(Opened("lib", 2)) \o g
    BY <1>8 DEF wintun_open, wintun_open_own, g
  <2>2. CASE fault.at \in {"config", "adapter"}
    BY <1>1, <2>1, <2>2, SocketIs
  <2>3. CASE fault.at = "device"
    BY <1>1, <2>1, <2>3, SocketIs
  <2>4. CASE fault.at = "none"
    BY <1>3, <1>6, <1>7, <2>1, <2>4
  <2>5. CASE fault.at \in {"map", "view", "event", "register"}
    <3>1. AllSettled(Closed(Opened("lib", 2)) \o g)
      BY <1>4, <1>6, <2>5, ClosedIs, SettledConcat
    <3> QED BY <1>1, <2>1, <2>5, <3>1
  <2> QED BY <1>5, <2>2, <2>3, <2>4, <2>5
<1>9. CASE dev.mode = "wintun_inject"
  <2>1. x = CASE fault.at = "config" -> Opened("user", 1)
              [] fault.at = "none" -> Adopted(Opened("user", 1) \o g)
              [] OTHER -> Opened("user", 1) \o g
    BY <1>9 DEF wintun_open, wintun_assign, g
  <2>2. CASE fault.at = "config"
    BY <1>1, <1>6, <2>1, <2>2, UserSettled
  <2>4. CASE fault.at = "none"
    BY <1>3, <1>6, <1>7, <2>1, <2>4
  <2>5. CASE fault.at \in {"map", "view", "event", "register"}
    <3>1. AllSettled(Opened("user", 1) \o g)
      BY <1>4, <1>6, <2>5, UserSettled, SettledConcat
    <3> QED BY <1>1, <2>1, <2>5, <3>1
  <2> QED BY <1>5, <1>9, <2>2, <2>4, <2>5
<1> QED BY <1>8, <1>9

-----------------------------------------------------------------------------
(***************************************************************************)
(* The device.  Its descriptors are open, taken and nobody else's; every   *)
(* other one was closed once or is the caller's own.                       *)
(***************************************************************************)
FdOk(d, mine) ==
  /\ DOMAIN d = FdFields /\ d.own \in {"lib", "user"} /\ d.adopted \in BOOLEAN
  /\ d.closes = IF ~mine /\ (d.adopted \/ d.own = "lib") THEN 1 ELSE 0
  /\ mine => d.adopted

Handles(v) ==
  /\ IsSeq(v.fds) /\ v.descs \subseteq DOMAIN v.fds
  /\ \A i \in DOMAIN v.fds : FdOk(v.fds[i], i \in v.descs)
  /\ v.descs = {} => v.reads = {}

\* They are finitely many.
LEMMA HandlesFinite ==
  ASSUME NEW v, Handles(v)
  PROVE  IsFiniteSet(v.descs) /\ Cardinality(v.descs) \in Nat
         /\ (v.descs # {} => Cardinality(v.descs) # 0)
<1>1. DOMAIN v.fds = 1 .. Len(v.fds) /\ Len(v.fds) \in Nat
  BY SeqIs DEF Handles
<1>2. IsFiniteSet(1 .. Len(v.fds))
  BY <1>1, FS_Interval
<1>3. IsFiniteSet(v.descs)
  BY <1>1, <1>2, FS_Subset DEF Handles
<1> QED BY <1>3, FS_CardinalityType, FS_EmptySet

\* What device_close does.
CloseDone(v, u) ==
  /\ DeviceOnly(v, u) /\ u.polls = v.polls /\ u.descs = {} /\ u.reads = {}
  /\ Longer(v.queue, u.queue, Ends(v))

\* The descriptors are closed and the reads end.
LEMMA CloseIs ==
  ASSUME NEW v, DOMAIN v = Fields, v.slots \in Nat, IsSeq(v.queue), Handles(v),
         NEW u, u = device_close(v)
  PROVE  CloseDone(v, u) /\ Handles(u) /\ Len(u.fds) = Len(v.fds)
         /\ (v.descs = {} => u = v) /\ (v.descs # {} => u.queue = end_reads(v))
<1>1. CASE v.descs = {}
  <2>1. u = v
    BY <1>1 DEF device_close, is_open
  <2>2. Longer(v.queue, v.queue, Ends(v))
    BY LongerSelf
  <2> QED BY <1>1, <2>1, <2>2 DEF CloseDone, Handles, DeviceOnly, SameTcp, SameLife
<1>2. CASE v.descs # {}
  <2> DEFINE F == [i \in DOMAIN v.fds |-> IF i \in v.descs
                                          THEN close_fd(v.fds[i]) ELSE v.fds[i]]
             q == end_reads(v)
  <2>1. u = [v EXCEPT !.fds = F, !.descs = {}, !.reads = {}, !.queue = q]
    BY <1>2 DEF device_close, is_open, Release
  <2> HIDE DEF F, q
  <2>2. DeviceOnly(v, u) /\ u.polls = v.polls /\ u.descs = {} /\ u.reads = {} /\ u.queue = q
        /\ u.fds = F
    BY <2>1 DEF Fields, DeviceOnly, SameTcp, SameLife
  <2>3. Longer(v.queue, u.queue, Ends(v))
    BY <2>2, EndReadsIs DEF q
  <2>4. Len(v.fds) \in Nat /\ DOMAIN v.fds = 1 .. Len(v.fds)
    BY SeqIs DEF Handles
  <2>5. DOMAIN F = 1 .. Len(v.fds) /\ F = [i \in 1 .. Len(v.fds) |-> F[i]]
    BY <2>4 DEF F
  <2>6. IsSeq(F) /\ Len(F) = Len(v.fds)
    BY <2>4, <2>5, SeqMade
  <2>7. ASSUME NEW i \in DOMAIN F PROVE FdOk(F[i], i \in u.descs)
    <3> DEFINE d == v.fds[i]
    <3>1. FdOk(d, i \in v.descs)
      BY <2>4, <2>5 DEF Handles
    <3>2. CASE i \in v.descs
      <4> DEFINE x == [d EXCEPT !.closes = @ + 1]
      <4>1. F[i] = x
        BY <2>4, <2>5, <3>2 DEF F, close_fd
      <4> HIDE DEF d
      <4>2. /\ DOMAIN x = FdFields /\ x.own = d.own /\ x.adopted = d.adopted /\ x.closes = 1
            /\ d.adopted
        BY <3>1, <3>2 DEF FdOk, FdFields
      <4> HIDE DEF x
      <4> QED BY <2>2, <3>1, <4>1, <4>2 DEF FdOk
    <3>3. CASE i \notin v.descs
      <4>1. F[i] = d
        BY <2>4, <2>5, <3>3 DEF F
      <4> HIDE DEF d
      <4> QED BY <2>2, <3>1, <3>3, <4>1 DEF FdOk
    <3> QED BY <3>2, <3>3
  <2>8. Handles(u)
    BY <2>2, <2>6, <2>7 DEF Handles
  <2> QED BY <1>2, <2>2, <2>3, <2>6, <2>8 DEF CloseDone, q
<1> QED BY <1>1, <1>2

\* A device that is described, and a call that may fail.
DevOk(dev) ==
  /\ dev.mode \in {"linux", "utun", "inject", "wintun", "wintun_inject"}
  /\ dev.queues \in Nat \ {0}

\* What device_open does.
OpenDone(v, u) ==
  /\ DeviceOnly(v, u) /\ u.polls = v.polls /\ u.reads \subseteq v.reads
  /\ Longer(v.queue, u.queue, Ends(v))

\* The descriptors of the device that was open are closed, those of the new
\* one are settled.
LEMMA OpenIs ==
  ASSUME NEW v, DOMAIN v = Fields, v.slots \in Nat, IsSeq(v.queue), Handles(v),
         NEW dev, DevOk(dev), NEW fault \in Faults(dev) \cup {NoFault},
         NEW u, u = device_open(v, dev, fault)
  PROVE  /\ OpenDone(v, u) /\ Handles(u)
         /\ v.descs = {} => u.queue = v.queue
         /\ fault = NoFault => u.descs # {} /\ u.reads = {}
<1> DEFINE made == IF Wintun(dev) THEN wintun_open(dev, fault) ELSE posix_open(dev, fault)
           taken == {i \in DOMAIN made : made[i].adopted}
           closing == dev.mode # "inject" \/ taken # {}
           old == IF closing THEN device_close(v) ELSE v
           n == Len(v.fds)
<1>1. AllSettled(made) /\ (fault = NoFault => Has(made))
  <2>1. CASE Wintun(dev)
    BY <2>1, WintunOpenIs DEF Wintun, Faults
  <2>2. CASE ~Wintun(dev)
    BY <2>2, PosixOpenIs DEF Wintun, Faults, DevOk
  <2> QED BY <2>1, <2>2
<1>2. u = [old EXCEPT !.fds = @ \o made,
                      !.descs = IF taken = {} THEN @ ELSE {n + i : i \in taken}]
  BY DEF device_open
<1> HIDE DEF made
<1>3. CloseDone(v, device_close(v)) /\ Handles(device_close(v)) /\ Len(device_close(v).fds) = n
      /\ (v.descs = {} => device_close(v) = v)
  BY CloseIs
<1>4. /\ DeviceOnly(v, old) /\ old.polls = v.polls /\ old.reads \subseteq v.reads
      /\ Longer(v.queue, old.queue, Ends(v)) /\ Handles(old) /\ Len(old.fds) = n
      /\ closing => old.descs = {} /\ old.reads = {}
      /\ v.descs = {} => old.queue = v.queue
  <2>1. CASE closing
    BY <1>3, <2>1 DEF CloseDone
  <2>2. CASE ~closing
    BY <2>2, LongerSelf DEF DeviceOnly, SameTcp, SameLife
  <2> QED BY <2>1, <2>2
<1>5. taken # {} => closing
  OBVIOUS
<1> HIDE DEF old, closing
<1>6. /\ DeviceOnly(old, u) /\ u.polls = old.polls /\ u.reads = old.reads /\ u.queue = old.queue
      /\ u.fds = old.fds \o made
      /\ u.descs = IF taken = {} THEN old.descs ELSE {n + i : i \in taken}
  BY <1>2, <1>4 DEF Fields, DeviceOnly, SameTcp, SameLife
<1>7. OpenDone(v, u)
  BY <1>4, <1>6, DeviceTrans DEF OpenDone
<1>8. /\ IsSeq(u.fds) /\ Len(u.fds) = n + Len(made)
      /\ \A i \in 1 .. n : u.fds[i] = old.fds[i]
      /\ \A i \in 1 .. Len(made) : u.fds[n + i] = made[i]
  <2>1. IsSeq(old.fds) /\ IsSeq(made)
    BY <1>1, <1>4 DEF Handles, AllSettled
  <2>2. u.fds = old.fds \o made /\ Len(old.fds) = n
    BY <1>4, <1>6
  <2> DEFINE a == old.fds
             b == a \o made
  <2>3. IsSeq(a) /\ IsSeq(made)
    BY <2>1
  <2>4. u.fds = b /\ Len(a) = n /\ a = old.fds
    BY <2>2
  <2>5. b = a \o made
    OBVIOUS
  <2> HIDE DEF a, b, n
  <2>6. IsSeq(b) /\ Len(b) = Len(a) + Len(made)
    BY ONLY <2>3, <2>5, SeqConcat
  <2>7. \A i \in 1 .. Len(a) : b[i] = a[i]
    BY ONLY <2>3, <2>5, SeqConcat
  <2>8. \A i \in 1 .. Len(made) : b[Len(a) + i] = made[i]
    BY ONLY <2>3, <2>5, SeqConcat
  <2> QED BY ONLY <2>4, <2>6, <2>7, <2>8
<1>9. /\ n \in Nat /\ DOMAIN old.fds = 1 .. n /\ Len(made) \in Nat /\ DOMAIN made = 1 .. Len(made)
      /\ DOMAIN u.fds = 1 .. n + Len(made)
  BY <1>1, <1>4, <1>8, SeqIs DEF Handles, AllSettled
<1> HIDE DEF n
<1>10. taken \subseteq 1 .. Len(made)
  BY <1>9
<1>11. u.descs \subseteq DOMAIN u.fds
  <2>1. CASE taken = {}
    <3>1. old.descs \subseteq 1 .. n
      BY <1>4, <1>9 DEF Handles
    <3> QED BY <1>6, <1>9, <2>1, <3>1
  <2>2. CASE taken # {}
    <3>1. \A i \in taken : n + i \in 1 .. n + Len(made)
      BY <1>9, <1>10
    <3> HIDE DEF taken
    <3> QED BY <1>6, <1>9, <2>2, <3>1
  <2> QED BY <2>1, <2>2
<1>12. ASSUME NEW i \in DOMAIN u.fds PROVE FdOk(u.fds[i], i \in u.descs)
  <2>1. CASE i \in 1 .. n
    <3>1. i \in u.descs <=> i \in old.descs
      <4>1. CASE taken = {}
        BY <1>6, <4>1
      <4>2. CASE taken # {}
        <5>1. \A j \in taken : n + j # i
          BY <1>9, <1>10, <2>1
        <5>2. old.descs = {}
          BY <1>4, <1>5, <4>2
        <5> HIDE DEF taken
        <5> QED BY <1>6, <4>2, <5>1, <5>2
      <4> QED BY <4>1, <4>2
    <3>2. FdOk(old.fds[i], i \in old.descs)
      BY <1>4, <1>9, <2>1 DEF Handles
    <3> QED BY <1>8, <2>1, <3>1, <3>2
  <2>2. CASE ~(i \in 1 .. n)
    <3>1. i - n \in 1 .. Len(made) /\ n + (i - n) = i
      BY <1>9, <2>2
    <3>2. u.fds[i] = made[i - n] /\ Settled(made[i - n])
      BY <1>1, <1>8, <1>9, <3>1 DEF AllSettled
    <3>3. i \in u.descs <=> made[i - n].adopted
      <4>1. CASE taken = {}
        <5>1. ~made[i - n].adopted
          BY <1>9, <3>1, <4>1
        <5>2. i \notin old.descs
          BY <1>4, <1>9, <2>2 DEF Handles
        <5> QED BY <1>6, <4>1, <5>1, <5>2
      <4>2. CASE taken # {}
        <5>1. i \in u.descs <=> \E j \in taken : i = n + j
          BY <1>6, <4>2
        <5>2. (\E j \in taken : i = n + j) <=> i - n \in taken
          BY <1>9, <1>10, <3>1
        <5> QED BY <1>9, <3>1, <5>1, <5>2
      <4> QED BY <4>1, <4>2
    <3> QED BY <3>2, <3>3 DEF Settled, FdOk
  <2> QED BY <2>1, <2>2
<1>13. u.descs = {} => u.reads = {}
  <2>1. CASE taken = {}
    BY <1>4, <1>6, <2>1 DEF Handles
  <2>2. CASE taken # {}
    BY <1>4, <1>5, <1>6, <2>2
  <2> QED BY <2>1, <2>2
<1>14. fault = NoFault => u.descs # {} /\ u.reads = {}
  <2> SUFFICES ASSUME fault = NoFault PROVE u.descs # {} /\ u.reads = {}
    OBVIOUS
  <2>1. taken # {}
    BY <1>1 DEF Has
  <2>2. u.descs # {}
    <3> HIDE DEF taken
    <3> QED BY <1>6, <2>1
  <2> QED BY <1>4, <1>5, <1>6, <2>1, <2>2
<1> QED BY <1>4, <1>6, <1>7, <1>8, <1>11, <1>12, <1>13, <1>14 DEF Handles

-----------------------------------------------------------------------------
(***************************************************************************)
(* The flow table and the lists.                                           *)
(***************************************************************************)
FlowFields == {"gen", "key", "st", "accepted", "pending"}
EngineFields == {"table", "pend", "waiters", "sweep", "closed", "late"}
AccFields == {"epoch", "gen", "st", "fid", "times"}

Fids(v) == DOMAIN v.flows
Gens(v) == DOMAIN v.engs
Accs(v) == DOMAIN v.accs

FlowOk(v, d) ==
  /\ DOMAIN d = FlowFields /\ d.gen \in Gens(v) /\ d.key \in Keys /\ d.st \in FlowStates
  /\ d.accepted \in BOOLEAN /\ d.pending \in BOOLEAN
EngineOk(e) ==
  /\ DOMAIN e = EngineFields /\ DOMAIN e.table = Keys /\ IsSeq(e.pend) /\ IsSeq(e.waiters)

Shape(v) ==
  /\ DOMAIN v = Fields /\ IsSeq(v.flows) /\ IsSeq(v.engs) /\ IsSeq(v.accs)
  /\ \A f \in Fids(v) : FlowOk(v, v.flows[f])
  /\ \A g \in Gens(v) : EngineOk(v.engs[g])
  /\ \A i \in Accs(v) : DOMAIN v.accs[i] = AccFields

Live(v, g) == {f \in Fids(v) : v.flows[f].gen = g /\ v.flows[f].st # "CLOSED"}

\* The table has the flows that live, under their keys.
Tables(v) ==
  /\ \A g \in Gens(v), k \in Keys : LET f == v.engs[g].table[k] IN
       f # 0 => f \in Live(v, g) /\ v.flows[f].key = k
  /\ \A f \in Fids(v) : v.flows[f].st # "CLOSED" =>
       v.engs[v.flows[f].gen].table[v.flows[f].key] = f

\* A flow that lives and that nobody has waits for an accept.
Unclaimed(v, f) == v.flows[f].st # "CLOSED" /\ ~v.flows[f].accepted

Rising(q) == \A i, j \in DOMAIN q : i < j => q[i] < q[j]

Lists(v) ==
  /\ \A g \in Gens(v) :
       /\ Rising(v.engs[g].pend)
       /\ \A f : f \in ToSet(v.engs[g].pend) <=> f \in Live(v, g) /\ Unclaimed(v, f)
       /\ v.engs[g].waiters # <<>> => v.engs[g].pend = <<>>
  /\ \A f \in Fids(v) : /\ v.flows[f].pending <=> Unclaimed(v, f)
                        /\ Unclaimed(v, f) => v.flows[f].st = "SYN_RCVD"

Waiters(v) ==
  \A g \in Gens(v) :
    /\ Distinct(v.engs[g].waiters)
    /\ \A i \in ToSet(v.engs[g].waiters) :
         i \in Accs(v) /\ v.accs[i].st = "wait" /\ v.accs[i].gen = g

Has1(v, i) == v.accs[i].st = "ok"

Accepts(v) ==
  /\ \A i \in Accs(v) :
       /\ v.accs[i].times = IF v.accs[i].st = "wait" THEN 0 ELSE 1
       /\ Has1(v, i) => LET f == v.accs[i].fid IN
            f \in Fids(v) /\ v.flows[f].accepted /\ v.flows[f].gen = v.accs[i].gen
  /\ \A i, j \in Accs(v) : Has1(v, i) /\ Has1(v, j) /\ v.accs[i].fid = v.accs[j].fid => i = j

Connected(v) == {f \in Fids(v) : v.flows[f].st \notin HalfOpen \cup {"CLOSED"}}

Counts(v) ==
  /\ v.conns = Cardinality(Connected(v))
  /\ \A g \in Gens(v) : Cardinality(Live(v, g)) <= MaxTcpFlows

\* A closed engine has no flows and nobody waits; its sweep ended, or was on its way.
Closings(v) ==
  \A g \in Gens(v) : v.engs[g].closed =>
    /\ v.engs[g].waiters = <<>> /\ Live(v, g) = {}
    /\ v.engs[g].sweep # "none" => v.engs[g].late

FlowsInv(v) ==
  Shape(v) /\ Tables(v) /\ Lists(v) /\ Waiters(v) /\ Accepts(v) /\ Counts(v) /\ Closings(v)

\* While close_all runs, its engine is closed and has accepts that wait.
FlowsBut(v, g) ==
  /\ Shape(v) /\ Tables(v) /\ Lists(v) /\ Waiters(v) /\ Accepts(v) /\ Counts(v)
  /\ \A h \in Gens(v) : v.engs[h].closed =>
       /\ h # g => v.engs[h].waiters = <<>>
       /\ Live(v, h) = {}
       /\ v.engs[h].sweep # "none" => v.engs[h].late

\* The accepts that are still on their way to the strand.
Free(v) ==
  {i \in Accs(v) : v.accs[i].st = "wait" /\ \A g \in Gens(v) : i \notin ToSet(v.engs[g].waiters)}

-----------------------------------------------------------------------------
(* What the operators of the accept queue write. *)

\* What close_flow writes.
Shut(d) == [d EXCEPT !.st = "CLOSED", !.pending = FALSE]
Dropped(e, d, f) ==
  [e EXCEPT !.pend = IF d.pending THEN leave_pending(e.pend, f) ELSE e.pend,
            !.table[d.key] = 0]

\* The flow is closed, leaves the list and the table.
LEMMA CloseFlowIs ==
  ASSUME NEW v, DOMAIN v = Fields, NEW f, NEW d, d = v.flows[f], d.st # "CLOSED",
         NEW u, u = close_flow(v, f)
  PROVE  /\ TcpOnly(v, u) /\ u.accs = v.accs
         /\ u.flows = Put(v.flows, f, Shut(d))
         /\ u.engs = Put(v.engs, d.gen, Dropped(v.engs[d.gen], d, f))
         /\ u.conns = IF d.st \in HalfOpen THEN v.conns ELSE v.conns - 1
<1> DEFINE e == v.engs[d.gen]
           x == Shut(d)
           y == Dropped(e, d, f)
           c == IF d.st \in HalfOpen THEN v.conns ELSE v.conns - 1
<1>1. u = [v EXCEPT !.flows = Put(v.flows, f, x), !.engs = Put(v.engs, d.gen, y), !.conns = c]
  BY DEF close_flow, Shut, Dropped, Put
<1> HIDE DEF x, y, c
<1>2. /\ TcpOnly(v, u) /\ u.accs = v.accs
      /\ u.flows = Put(v.flows, f, x) /\ u.engs = Put(v.engs, d.gen, y) /\ u.conns = c
  BY <1>1 DEF Fields, TcpOnly, SameDevice, SameLife
<1> QED BY <1>2 DEF x, y, c

\* What a completion is.
Told(a, st, f) == [a EXCEPT !.st = st, !.fid = f, !.times = a.times + 1]

\* An accept is completed.
LEMMA PostIs ==
  ASSUME NEW v, DOMAIN v = Fields, NEW i, NEW st, NEW f, NEW u, u = post_accept(v, i, st, f)
  PROVE  /\ TcpOnly(v, u) /\ u.flows = v.flows /\ u.engs = v.engs /\ u.conns = v.conns
         /\ u.accs = Put(v.accs, i, Told(v.accs[i], st, f))
<1> DEFINE x == Told(v.accs[i], st, f)
<1>1. u = [v EXCEPT !.accs = Put(v.accs, i, x)]
  BY DEF post_accept, Told, Put
<1> HIDE DEF x
<1>2. /\ TcpOnly(v, u) /\ u.flows = v.flows /\ u.engs = v.engs /\ u.conns = v.conns
      /\ u.accs = Put(v.accs, i, x)
  BY <1>1 DEF Fields, TcpOnly, SameDevice, SameLife
<1> QED BY <1>2 DEF x

\* The accept that waits longest gets the flow, or the flow waits.
Served(e) == [e EXCEPT !.waiters = Tail(e.waiters)]
Announced(e, f) == [e EXCEPT !.pend = Add(e.pend, f)]
Taken(d) == [d EXCEPT !.pending = FALSE, !.accepted = TRUE]
Accepted(d) == [d EXCEPT !.accepted = TRUE]
Pending(d) == [d EXCEPT !.pending = TRUE]

\* notify_accept serves who waits longest, or the flow waits.
LEMMA NotifyIs ==
  ASSUME NEW v, DOMAIN v = Fields, NEW f, NEW d, d = v.flows[f], NEW e, e = v.engs[d.gen],
         NEW u, u = notify_accept(v, f)
  PROVE  /\ TcpOnly(v, u) /\ u.conns = v.conns
         /\ e.waiters # <<>> =>
              /\ u.flows = Put(v.flows, f, Accepted(d))
              /\ u.engs = Put(v.engs, d.gen, Served(e))
              /\ u.accs = Put(v.accs, Head(e.waiters), Told(v.accs[Head(e.waiters)], "ok", f))
         /\ e.waiters = <<>> =>
              /\ u.flows = Put(v.flows, f, Pending(d))
              /\ u.engs = Put(v.engs, d.gen, Announced(e, f))
              /\ u.accs = v.accs
<1>1. CASE e.waiters # <<>>
  <2> DEFINE x == Put(v.flows, f, Accepted(d))
             y == Put(v.engs, d.gen, Served(e))
             c == [v EXCEPT !.engs = y, !.flows = x]
             i == Head(e.waiters)
  <2>1. u = post_accept(c, i, "ok", f)
    BY <1>1 DEF notify_accept, Accepted, Served, Put
  <2> HIDE DEF x, y
  <2>2. TcpOnly(v, c) /\ c.flows = x /\ c.engs = y /\ c.accs = v.accs /\ c.conns = v.conns
    BY DEF Fields, TcpOnly, SameDevice, SameLife
  <2> HIDE DEF c, i
  <2>3. DOMAIN c = Fields
    BY <2>2 DEF TcpOnly
  <2>4. /\ TcpOnly(c, u) /\ u.flows = c.flows /\ u.engs = c.engs /\ u.conns = c.conns
        /\ u.accs = Put(c.accs, i, Told(c.accs[i], "ok", f))
    BY <2>1, <2>3, PostIs
  <2>5. TcpOnly(v, u)
    BY <2>2, <2>4, TcpTrans
  <2> QED BY <1>1, <2>2, <2>4, <2>5 DEF x, y, i
<1>2. CASE e.waiters = <<>>
  <2> DEFINE x == Put(v.flows, f, Pending(d))
             y == Put(v.engs, d.gen, Announced(e, f))
  <2>1. u = [v EXCEPT !.flows = x, !.engs = y]
    BY <1>2 DEF notify_accept, Pending, Announced, Put, Add
  <2> HIDE DEF x, y
  <2>2. TcpOnly(v, u) /\ u.flows = x /\ u.engs = y /\ u.accs = v.accs /\ u.conns = v.conns
    BY <2>1 DEF Fields, TcpOnly, SameDevice, SameLife
  <2> QED BY <1>2, <2>2 DEF x, y
<1> QED BY <1>1, <1>2

\* An accept gets the first flow that lives, or waits.
Waiting(e, i) == [e EXCEPT !.pend = <<>>, !.waiters = Add(e.waiters, i)]
Shorter(e, j) == [e EXCEPT !.pend = From(e.pend, j)]

AcceptDone(v, u, g, i, e, j, f) ==
  /\ TcpOnly(v, u) /\ u.conns = v.conns
  /\ Alive(v, e.pend) = {} =>
       u.flows = v.flows /\ u.engs = Put(v.engs, g, Waiting(e, i)) /\ u.accs = v.accs
  /\ Alive(v, e.pend) # {} =>
       /\ u.flows = Put(v.flows, f, Taken(v.flows[f]))
       /\ u.engs = Put(v.engs, g, Shorter(e, j))
       /\ u.accs = Put(v.accs, i, Told(v.accs[i], "ok", f))

\* async_accept looks for the first flow of the list that lives.
LEMMA AsyncAcceptIs ==
  ASSUME NEW v, DOMAIN v = Fields, NEW g, NEW e, e = v.engs[g], NEW i,
         NEW j, j = Min(Alive(v, e.pend)), NEW f, f = e.pend[j],
         NEW u, u = async_accept(v, g, i)
  PROVE  AcceptDone(v, u, g, i, e, j, f)
<1>1. CASE Alive(v, e.pend) = {}
  <2> DEFINE y == Put(v.engs, g, Waiting(e, i))
  <2>1. u = [v EXCEPT !.engs = y]
    BY <1>1 DEF async_accept, Waiting, Put, Add
  <2> HIDE DEF y
  <2>2. TcpOnly(v, u) /\ u.flows = v.flows /\ u.engs = y /\ u.accs = v.accs /\ u.conns = v.conns
    BY <2>1 DEF Fields, TcpOnly, SameDevice, SameLife
  <2> QED BY <1>1, <2>2 DEF y, AcceptDone
<1>2. CASE Alive(v, e.pend) # {}
  <2> DEFINE x == Put(v.flows, f, Taken(v.flows[f]))
             y == Put(v.engs, g, Shorter(e, j))
             c == [v EXCEPT !.engs = y, !.flows = x]
  <2>1. u = post_accept(c, i, "ok", f)
    BY <1>2 DEF async_accept, Taken, Shorter, From, Put
  <2> HIDE DEF x, y
  <2>2. TcpOnly(v, c) /\ c.flows = x /\ c.engs = y /\ c.accs = v.accs /\ c.conns = v.conns
    BY DEF Fields, TcpOnly, SameDevice, SameLife
  <2> HIDE DEF c
  <2>3. DOMAIN c = Fields
    BY <2>2 DEF TcpOnly
  <2>4. /\ TcpOnly(c, u) /\ u.flows = c.flows /\ u.engs = c.engs /\ u.conns = c.conns
        /\ u.accs = Put(c.accs, i, Told(c.accs[i], "ok", f))
    BY <2>1, <2>3, PostIs, SMTT(30)
  <2>5. TcpOnly(v, u)
    BY <2>2, <2>4, TcpTrans
  <2> QED BY <1>2, <2>2, <2>4, <2>5 DEF x, y, AcceptDone
<1> QED BY <1>1, <1>2

-----------------------------------------------------------------------------
(***************************************************************************)
(* Lists that rise.                                                        *)
(***************************************************************************)

\* They hold each value once.
LEMMA RisingDistinct ==
  ASSUME NEW q, IsSeq(q), Rising(q), ToSet(q) \subseteq Nat
  PROVE  Distinct(q)
<1>1. Len(q) \in Nat /\ DOMAIN q = 1 .. Len(q)
  BY SeqIs
<1>2. SUFFICES ASSUME NEW i \in DOMAIN q, NEW j \in DOMAIN q, q[i] = q[j] PROVE i = j
  BY DEF Distinct
<1>3. q[i] \in Nat /\ i \in Nat /\ j \in Nat
  BY <1>1 DEF ToSet
<1>4. ~(i < j) /\ ~(j < i)
  BY <1>2, <1>3 DEF Rising
<1> QED BY <1>3, <1>4

\* A value is taken out.
LEMMA RisingLeaves ==
  ASSUME NEW q, IsSeq(q), Rising(q), ToSet(q) \subseteq Nat, NEW f \in ToSet(q),
         NEW r, r = leave_pending(q, f)
  PROVE  IsSeq(r) /\ Rising(r) /\ ToSet(r) = ToSet(q) \ {f}
<1>1. Distinct(q)
  BY RisingDistinct
<1>2. r = Unlisted(q, f)
  BY DEF leave_pending, Unlisted
<1>3. IsSeq(r) /\ ToSet(r) = ToSet(q) \ {f}
  BY <1>1, <1>2, UnlistedIs
<1> DEFINE j == CHOOSE i \in DOMAIN q : q[i] = f
<1>4. Len(q) \in Nat /\ DOMAIN q = 1 .. Len(q)
  BY SeqIs
<1>5. j \in 1 .. Len(q) /\ r = RemoveAt(q, j)
  BY <1>4 DEF ToSet, leave_pending
<1> HIDE DEF j
<1>6. /\ Len(r) = Len(q) - 1 /\ \A i \in 1 .. Len(r) : r[i] = IF i < j THEN q[i] ELSE q[i + 1]
  BY <1>5, SeqRemove
<1>7. DOMAIN r = 1 .. Len(r) /\ Len(r) \in Nat
  BY <1>3, SeqIs
<1>8. ASSUME NEW i \in DOMAIN r, NEW k \in DOMAIN r, i < k PROVE r[i] < r[k]
  <2>1. /\ i \in 1 .. Len(q) /\ k \in 1 .. Len(q) /\ i + 1 \in 1 .. Len(q) /\ k + 1 \in 1 .. Len(q)
        /\ j \in Nat
    BY <1>4, <1>5, <1>6, <1>7
  <2>2. q[i] < q[k] /\ q[i] < q[k + 1] /\ q[i + 1] < q[k + 1] /\ (i + 1 < k => q[i + 1] < q[k])
    BY <1>4, <1>8, <2>1 DEF Rising
  <2>3. CASE i < j
    BY <1>6, <1>7, <2>2, <2>3
  <2>4. CASE ~(i < j)
    BY <1>6, <1>7, <1>8, <2>1, <2>2, <2>4
  <2> QED BY <2>3, <2>4
<1> QED BY <1>3, <1>8 DEF Rising

\* A value above all others is added.
LEMMA RisingAdd ==
  ASSUME NEW q, IsSeq(q), Rising(q), NEW f, \A x \in ToSet(q) : x < f, NEW r, r = Add(q, f)
  PROVE  IsSeq(r) /\ Rising(r) /\ ToSet(r) = ToSet(q) \cup {f}
<1>1. /\ IsSeq(r) /\ Len(r) = Len(q) + 1 /\ \A i \in 1 .. Len(q) : r[i] = q[i]
      /\ r[Len(q) + 1] = f /\ ToSet(r) = ToSet(q) \cup {f}
  BY SeqAppend
<1>2. Len(q) \in Nat /\ DOMAIN q = 1 .. Len(q) /\ DOMAIN r = 1 .. Len(q) + 1
  BY <1>1, SeqIs
<1>3. ASSUME NEW i \in DOMAIN r, NEW k \in DOMAIN r, i < k PROVE r[i] < r[k]
  <2>1. i \in 1 .. Len(q)
    BY <1>2, <1>3
  <2>2. CASE k = Len(q) + 1
    BY <1>1, <1>2, <2>1, <2>2 DEF ToSet
  <2>3. CASE k \in 1 .. Len(q)
    BY <1>1, <1>2, <1>3, <2>1, <2>3 DEF Rising
  <2> QED BY <1>2, <2>2, <2>3
<1> QED BY <1>1, <1>3 DEF Rising

\* The first value is taken.
LEMMA RisingFirst ==
  ASSUME NEW q, IsSeq(q), Rising(q), ToSet(q) \subseteq Nat, q # <<>>, NEW r, r = From(q, 1)
  PROVE  IsSeq(r) /\ Rising(r) /\ ToSet(r) = ToSet(q) \ {q[1]} /\ q[1] \in ToSet(q)
<1>1. Len(q) \in Nat /\ DOMAIN q = 1 .. Len(q) /\ 1 \in 1 .. Len(q)
  BY SeqIs, SeqMembers
<1>2. /\ IsSeq(r) /\ Len(r) = Len(q) - 1 /\ \A i \in 1 .. Len(r) : r[i] = q[i + 1]
  <2> DEFINE j == 1
  <2>1. j \in 1 .. Len(q) /\ r = From(q, j) /\ j = 1
    BY <1>1
  <2> HIDE DEF j
  <2>2. IsSeq(r) /\ Len(r) = Len(q) - j /\ \A i \in 1 .. Len(r) : r[i] = q[i + j]
    BY <2>1, SeqFrom
  <2> QED BY <2>1, <2>2
<1>3. DOMAIN r = 1 .. Len(r) /\ Len(r) \in Nat
  BY <1>2, SeqIs
<1>4. \A i \in 1 .. Len(r) : i + 1 \in 1 .. Len(q)
  BY <1>1, <1>2
<1>5. Rising(r)
  <2> SUFFICES ASSUME NEW i \in DOMAIN r, NEW k \in DOMAIN r, i < k PROVE r[i] < r[k]
    BY DEF Rising
  <2>1. i + 1 \in DOMAIN q /\ k + 1 \in DOMAIN q /\ i + 1 < k + 1
    BY <1>1, <1>3, <1>4
  <2> QED BY <1>2, <1>3, <2>1 DEF Rising
<1>6. Distinct(q)
  BY RisingDistinct
<1>7. ASSUME NEW x PROVE x \in ToSet(r) <=> x \in ToSet(q) /\ x # q[1]
  <2>1. ASSUME x \in ToSet(r) PROVE x \in ToSet(q) /\ x # q[1]
    <3>1. PICK i \in 1 .. Len(r) : x = r[i]
      BY <1>3, <2>1 DEF ToSet
    <3>2. x = q[i + 1] /\ i + 1 \in DOMAIN q /\ i + 1 # 1 /\ 1 \in DOMAIN q
      BY <1>1, <1>2, <1>4, <3>1
    <3> QED BY <1>6, <3>2 DEF Distinct, ToSet
  <2>2. ASSUME x \in ToSet(q), x # q[1] PROVE x \in ToSet(r)
    <3>1. PICK i \in 1 .. Len(q) : x = q[i]
      BY <1>1, <2>2 DEF ToSet
    <3>2. i # 1
      BY <2>2, <3>1
    <3>3. i - 1 \in 1 .. Len(r) /\ (i - 1) + 1 = i
      BY <1>1, <1>2, <3>1, <3>2
    <3>4. r[i - 1] = x
      BY <1>2, <3>1, <3>3
    <3> QED BY <1>3, <3>3, <3>4 DEF ToSet
  <2> QED BY <2>1, <2>2
<1> QED BY <1>1, <1>2, <1>5, <1>7 DEF ToSet

-----------------------------------------------------------------------------
(***************************************************************************)
(* Each operator keeps the table, the lists and the accepts.               *)
(***************************************************************************)

\* An operator of the accept queue makes no engine and no accept.
Keeps(v, u) ==
  /\ TcpOnly(v, u) /\ Len(u.engs) = Len(v.engs) /\ Len(u.accs) = Len(v.accs)
  /\ \A i \in Accs(v) : u.accs[i].epoch = v.accs[i].epoch /\ u.accs[i].gen = v.accs[i].gen
  /\ Len(u.flows) >= Len(v.flows)

SameSweeps(v, u) ==
  \A g \in Gens(v) : /\ u.engs[g].sweep = v.engs[g].sweep /\ u.engs[g].closed = v.engs[g].closed
                     /\ u.engs[g].late = v.engs[g].late

\* At any other time it has none.
LEMMA ButIs ==
  ASSUME NEW v, FlowsInv(v), NEW g
  PROVE  FlowsBut(v, g)
BY DEF FlowsInv, FlowsBut, Closings

\* The members that are sequences.
LEMMA ShapeIs ==
  ASSUME NEW v, Shape(v)
  PROVE  /\ Fids(v) = 1 .. Len(v.flows) /\ Len(v.flows) \in Nat
         /\ Gens(v) = 1 .. Len(v.engs) /\ Len(v.engs) \in Nat
         /\ Accs(v) = 1 .. Len(v.accs) /\ Len(v.accs) \in Nat
BY SeqIs DEF Shape, Fids, Gens, Accs

\* Two operators, one after the other.
LEMMA KeepsTrans ==
  ASSUME NEW v, Shape(v), NEW u, Shape(u), NEW x, Shape(x), Keeps(v, u), Keeps(u, x)
  PROVE  Keeps(v, x)
<1>1. Accs(v) = Accs(u)
  BY ShapeIs DEF Keeps
<1>2. Len(v.flows) \in Nat /\ Len(u.flows) \in Nat /\ Len(x.flows) \in Nat
  BY ShapeIs
<1>3. TcpOnly(v, x)
  BY TcpTrans DEF Keeps
<1> QED BY <1>1, <1>2, <1>3 DEF Keeps

\* Nothing is done.
LEMMA KeepsSelf ==
  ASSUME NEW v, Shape(v)
  PROVE  Keeps(v, v) /\ SameSweeps(v, v)
<1>1. Len(v.flows) \in Nat /\ DOMAIN v = Fields
  BY ShapeIs DEF Shape
<1>2. TcpOnly(v, v)
  BY <1>1 DEF TcpOnly, SameDevice, SameLife
<1> QED BY <1>1, <1>2 DEF Keeps, SameSweeps

\* The flows that live are those of the table, and finitely many.
LEMMA LiveIs ==
  ASSUME NEW v, Shape(v), Tables(v), NEW g \in Gens(v)
  PROVE  /\ InTable(v, g) = Live(v, g)
         /\ IsFiniteSet(Live(v, g)) /\ Cardinality(Live(v, g)) \in Nat
         /\ IsFiniteSet(Connected(v)) /\ Cardinality(Connected(v)) \in Nat
<1>1. Fids(v) = 1 .. Len(v.flows) /\ Len(v.flows) \in Nat
  BY ShapeIs
<1>2. IsFiniteSet(Fids(v))
  BY <1>1, FS_Interval
<1>3. Live(v, g) \subseteq Fids(v) /\ Connected(v) \subseteq Fids(v)
  BY DEF Live, Connected
<1>4. IsFiniteSet(Live(v, g)) /\ IsFiniteSet(Connected(v))
  BY <1>2, <1>3, FS_Subset
<1>5. ASSUME NEW f \in InTable(v, g) PROVE f \in Live(v, g)
  BY DEF InTable, Tables
<1>6. ASSUME NEW f \in Live(v, g) PROVE f \in InTable(v, g)
  <2>1. f \in Fids(v) /\ v.flows[f].gen = g /\ v.flows[f].st # "CLOSED" /\ f # 0
    BY <1>1 DEF Live
  <2>2. v.flows[f].key \in Keys /\ v.engs[g].table[v.flows[f].key] = f
    BY <2>1 DEF Tables, Shape, FlowOk
  <2> QED BY <2>1, <2>2 DEF InTable
<1> QED BY <1>4, <1>5, <1>6, FS_CardinalityType

\* The list of an engine rises and has flows only.
LEMMA PendIs ==
  ASSUME NEW v, Shape(v), Lists(v), NEW g \in Gens(v)
  PROVE  /\ IsSeq(v.engs[g].pend) /\ Rising(v.engs[g].pend)
         /\ ToSet(v.engs[g].pend) \subseteq Nat /\ ToSet(v.engs[g].pend) \subseteq Fids(v)
<1>1. Fids(v) \subseteq Nat
  BY ShapeIs
<1>2. IsSeq(v.engs[g].pend)
  BY DEF Shape, EngineOk
<1>3. Rising(v.engs[g].pend) /\ \A f \in ToSet(v.engs[g].pend) : f \in Live(v, g)
  BY DEF Lists
<1> QED BY <1>1, <1>2, <1>3 DEF Live

\* A flow is closed.  It leaves table and list.
Closed1(v, u, f) ==
  /\ FlowsInv(u) /\ Keeps(v, u) /\ SameSweeps(v, u) /\ u.accs = v.accs
  /\ Fids(u) = Fids(v) /\ \A g \in Gens(v) : u.engs[g].waiters = v.engs[g].waiters
  /\ \A h \in Fids(v) : h # f => u.flows[h] = v.flows[h]
  /\ u.flows[f].st = "CLOSED" /\ u.flows[f].gen = v.flows[f].gen

\* close_flow keeps what the flows, lists and accepts are to each other.
LEMMA CloseFlowKeeps ==
  ASSUME NEW v, FlowsInv(v), NEW f \in Fids(v), NEW u, u = close_flow(v, f)
  PROVE  Closed1(v, u, f)
<1>1. CASE v.flows[f].st = "CLOSED"
  <2>1. u = v
    BY <1>1 DEF close_flow
  <2> QED BY <1>1, <2>1, KeepsSelf DEF Closed1, FlowsInv
<1>2. CASE v.flows[f].st # "CLOSED"
  <2> DEFINE d == v.flows[f]
             g == d.gen
             k == d.key
             e == v.engs[g]
             x == u.flows[f]
             y == u.engs[g]
  <2>1. /\ Shape(v) /\ DOMAIN v = Fields /\ FlowOk(v, d) /\ g \in Gens(v) /\ k \in Keys
        /\ EngineOk(e) /\ IsSeq(v.flows) /\ IsSeq(v.engs) /\ IsSeq(v.accs)
    BY DEF FlowsInv, Shape, FlowOk
  <2>2. /\ TcpOnly(v, u) /\ u.accs = v.accs
        /\ u.flows = Put(v.flows, f, Shut(d)) /\ u.engs = Put(v.engs, g, Dropped(e, d, f))
        /\ u.conns = IF d.st \in HalfOpen THEN v.conns ELSE v.conns - 1
    BY <1>2, <2>1, CloseFlowIs
  <2>3. /\ IsSeq(u.flows) /\ Fids(u) = Fids(v) /\ x = Shut(d) /\ Len(u.flows) = Len(v.flows)
        /\ \A h \in Fids(v) : h # f => u.flows[h] = v.flows[h]
    BY <2>1, <2>2, SeqExcept DEF Fids
  <2>4. /\ IsSeq(u.engs) /\ Gens(u) = Gens(v) /\ y = Dropped(e, d, f) /\ Len(u.engs) = Len(v.engs)
        /\ \A h \in Gens(v) : h # g => u.engs[h] = v.engs[h]
    BY <2>1, <2>2, SeqExcept, SMTT(30) DEF Gens
  <2>5. /\ DOMAIN x = FlowFields /\ x.gen = g /\ x.key = k /\ x.st = "CLOSED"
        /\ x.accepted = d.accepted /\ x.pending = FALSE
    BY <2>1, <2>3 DEF FlowOk, Shut, FlowFields
  <2> DEFINE p == IF d.pending THEN leave_pending(e.pend, f) ELSE e.pend
  <2>6. /\ DOMAIN y = EngineFields /\ y.pend = p /\ y.waiters = e.waiters /\ y.sweep = e.sweep
        /\ y.closed = e.closed /\ y.late = e.late /\ DOMAIN y.table = Keys
        /\ y.table[k] = 0 /\ \A h \in Keys : h # k => y.table[h] = e.table[h]
    BY <2>1, <2>4, ZenonT(40) DEF EngineOk, Dropped, EngineFields
  <2> HIDE DEF x, y
  <2>7. d.pending <=> Unclaimed(v, f)
    BY DEF FlowsInv, Lists
  <2>8. d.pending <=> f \in ToSet(e.pend)
    BY <1>2, <2>1, <2>7 DEF FlowsInv, Lists, Live
  <2>9. IsSeq(p) /\ Rising(p) /\ ToSet(p) = ToSet(e.pend) \ {f} /\ (e.pend = <<>> => p = <<>>)
    <3>1. IsSeq(e.pend) /\ Rising(e.pend) /\ ToSet(e.pend) \subseteq Nat
      BY <2>1, PendIs DEF FlowsInv
    <3>2. CASE d.pending
      <4>1. e.pend # <<>>
        BY <2>8, <3>2, SeqEmpty
      <4> QED BY <2>8, <3>1, <3>2, <4>1, RisingLeaves
    <3>3. CASE ~d.pending
      BY <2>8, <3>1, <3>3
    <3> QED BY <3>2, <3>3
  <2> HIDE DEF p
  <2> HIDE DEF d, e
  <2>10. d = v.flows[f] /\ e = v.engs[g] /\ x = u.flows[f] /\ y = u.engs[g] /\ u.accs = v.accs
         /\ Accs(u) = Accs(v)
    BY <2>2 DEF d, e, x, y, Accs
  <2> HIDE DEF g, k
  <2>11. \A h \in Gens(v) : Live(u, h) = Live(v, h) \ {f}
    BY <2>3, <2>5, <2>10 DEF Live
  <2>12. \A h \in Fids(v) :
           h # f => u.flows[h] = v.flows[h] /\ (Unclaimed(u, h) <=> Unclaimed(v, h))
    BY <2>3 DEF Unclaimed
  <2>13. ~Unclaimed(u, f)
    BY <2>5, <2>10 DEF Unclaimed
  <2>14. Shape(u)
    <3>1. \A h \in Fids(u) : FlowOk(u, u.flows[h])
      <4>1. FlowOk(u, x)
        BY <2>1, <2>4, <2>5 DEF FlowOk, FlowStates
      <4>2. \A h \in Fids(v) : h # f => FlowOk(u, u.flows[h])
        BY <2>1, <2>3, <2>4 DEF FlowOk, Shape
      <4> QED BY <2>3, <2>10, <4>1, <4>2
    <3>2. \A h \in Gens(u) : EngineOk(u.engs[h])
      <4>1. EngineOk(y)
        BY <2>1, <2>6, <2>9 DEF EngineOk
      <4>2. \A h \in Gens(v) : h # g => EngineOk(u.engs[h])
        BY <2>1, <2>4 DEF Shape
      <4> QED BY <2>4, <2>10, <4>1, <4>2
    <3>3. DOMAIN u = Fields /\ IsSeq(u.accs) /\ \A i \in Accs(u) : DOMAIN u.accs[i] = AccFields
      BY <2>1, <2>2, <2>10 DEF TcpOnly, Shape
    <3> QED BY <2>3, <2>4, <3>1, <3>2, <3>3 DEF Shape
  <2>15. Tables(u)
    <3>1. ASSUME NEW h \in Gens(u), NEW j \in Keys, u.engs[h].table[j] # 0
          PROVE  u.engs[h].table[j] \in Live(u, h) /\ u.flows[u.engs[h].table[j]].key = j
      <4> DEFINE b == u.engs[h].table[j]
      <4>1. b = v.engs[h].table[j] /\ b # 0 /\ ~(h = g /\ j = k)
        BY <2>4, <2>6, <2>10, <3>1
      <4>2. b \in Live(v, h) /\ v.flows[b].key = j
        BY <2>4, <3>1, <4>1, SMTT(30) DEF FlowsInv, Tables
      <4>3. b # f
        BY <4>1, <4>2, <2>10 DEF Live, g, k
      <4> QED BY <2>3, <2>4, <2>11, <4>2, <4>3 DEF Live
    <3>2. ASSUME NEW h \in Fids(u), u.flows[h].st # "CLOSED"
          PROVE  u.engs[u.flows[h].gen].table[u.flows[h].key] = h
      <4>1. h # f /\ u.flows[h] = v.flows[h] /\ h \in Fids(v)
        BY <2>3, <2>5, <2>10, <3>2
      <4>2. /\ v.engs[v.flows[h].gen].table[v.flows[h].key] = h
            /\ v.flows[h].gen \in Gens(v) /\ v.flows[h].key \in Keys
        BY <3>2, <4>1 DEF FlowsInv, Tables, Shape, FlowOk
      <4>3. v.engs[g].table[k] = f
        BY <1>2 DEF FlowsInv, Tables, g, k, d
      <4>4. ~(v.flows[h].gen = g /\ v.flows[h].key = k)
        BY <4>1, <4>2, <4>3
      <4> QED BY <2>4, <2>6, <2>10, <4>1, <4>2, <4>4, SMTT(30)
    <3> QED BY <3>1, <3>2 DEF Tables
  <2>16. Lists(u)
    <3>1. ASSUME NEW h \in Gens(u)
          PROVE  /\ Rising(u.engs[h].pend)
                 /\ \A b : b \in ToSet(u.engs[h].pend) <=> b \in Live(u, h) /\ Unclaimed(u, b)
                 /\ u.engs[h].waiters # <<>> => u.engs[h].pend = <<>>
      <4>1. /\ Rising(v.engs[h].pend)
            /\ \A b : b \in ToSet(v.engs[h].pend) <=> b \in Live(v, h) /\ Unclaimed(v, b)
            /\ v.engs[h].waiters # <<>> => v.engs[h].pend = <<>>
            /\ h \in Gens(v)
        BY <2>4, <3>1 DEF FlowsInv, Lists
      <4>2. /\ Rising(u.engs[h].pend) /\ ToSet(u.engs[h].pend) = ToSet(v.engs[h].pend) \ {f}
            /\ u.engs[h].waiters = v.engs[h].waiters
            /\ v.engs[h].pend = <<>> => u.engs[h].pend = <<>>
        <5>1. CASE h = g
          BY <2>6, <2>9, <2>10, <5>1
        <5>2. CASE h # g
          <6>1. u.engs[h] = v.engs[h] /\ f \notin Live(v, h)
            BY <2>4, <2>10, <4>1, <5>2 DEF Live, g
          <6> QED BY <4>1, <6>1
        <5> QED BY <5>1, <5>2
      <4>3. \A b : b \in Live(u, h) /\ Unclaimed(u, b)
                     <=> b \in Live(v, h) /\ Unclaimed(v, b) /\ b # f
        BY <2>11, <2>12, <4>1 DEF Live
      <4> QED BY <4>1, <4>2, <4>3
    <3>2. ASSUME NEW h \in Fids(u)
          PROVE  /\ u.flows[h].pending <=> Unclaimed(u, h)
                 /\ Unclaimed(u, h) => u.flows[h].st = "SYN_RCVD"
      BY <2>3, <2>5, <2>10, <2>12, <2>13 DEF FlowsInv, Lists
    <3> QED BY <3>1, <3>2 DEF Lists
  <2>17. \A h \in Gens(v) : u.engs[h].waiters = v.engs[h].waiters
    BY <2>4, <2>6, <2>10
  <2>18. Waiters(u)
    BY <2>4, <2>10, <2>17 DEF FlowsInv, Waiters
  <2>19. Accepts(u)
    <3>1. \A i \in Accs(u) : Has1(u, i) <=> Has1(v, i)
      BY <2>10 DEF Has1
    <3>2. \A h \in Fids(v) : u.flows[h].accepted = v.flows[h].accepted
                             /\ u.flows[h].gen = v.flows[h].gen
      BY <2>3, <2>5, <2>10 DEF g
    <3> QED BY <2>3, <2>10, <3>1, <3>2 DEF FlowsInv, Accepts
  <2>20. Counts(u)
    <3>1. Connected(u) = IF d.st \in HalfOpen THEN Connected(v) ELSE Connected(v) \ {f}
      BY <1>2, <2>3, <2>5, <2>10 DEF Connected
    <3>2. IsFiniteSet(Connected(v)) /\ (d.st \notin HalfOpen => f \in Connected(v))
          /\ v.conns = Cardinality(Connected(v))
      BY <1>2, <2>1, <2>10, LiveIs DEF Connected, FlowsInv, Counts
    <3>3. u.conns = Cardinality(Connected(u))
      BY <2>2, <3>1, <3>2, FS_RemoveElement
    <3>4. ASSUME NEW h \in Gens(u) PROVE Cardinality(Live(u, h)) <= MaxTcpFlows
      <4>1. h \in Gens(v) /\ IsFiniteSet(Live(v, h)) /\ Live(u, h) \subseteq Live(v, h)
            /\ Cardinality(Live(v, h)) <= MaxTcpFlows /\ Cardinality(Live(v, h)) \in Nat
        BY <2>4, <2>11, <3>4, LiveIs DEF FlowsInv, Counts
      <4>2. Cardinality(Live(u, h)) <= Cardinality(Live(v, h)) /\ Cardinality(Live(u, h)) \in Nat
        BY <4>1, FS_Subset, FS_CardinalityType
      <4> QED BY <4>1, <4>2, AcceptAssumption
    <3> QED BY <3>3, <3>4 DEF Counts
  <2>21. SameSweeps(v, u)
    BY <2>4, <2>6, <2>10 DEF SameSweeps
  <2>22. Closings(u)
    BY <2>4, <2>11, <2>17, <2>21 DEF FlowsInv, Closings, SameSweeps
  <2>23. Keeps(v, u)
    BY <2>1, <2>2, <2>3, <2>4, ShapeIs DEF Keeps
  <2> QED BY <2>3, <2>5, <2>10, <2>14, <2>15, <2>16, <2>17, <2>18, <2>19, <2>20, <2>21, <2>22, <2>23
          DEF Closed1, FlowsInv, g
<1> QED BY <1>1, <1>2

\* A flow that somebody has takes another state.
Moved(d, s) == [d EXCEPT !.st = s]

\* So does any change of a state that keeps open what is open.
LEMMA MoveKeeps ==
  ASSUME NEW v, FlowsInv(v), NEW f \in Fids(v), NEW d, d = v.flows[f],
         d.st # "CLOSED", d.accepted, NEW s \in FlowStates \ {"CLOSED"},
         s \in HalfOpen => d.st \in HalfOpen,
         NEW u, TcpOnly(v, u), u.engs = v.engs, u.accs = v.accs,
         u.flows = Put(v.flows, f, Moved(d, s)),
         u.conns = IF d.st \in HalfOpen /\ s \notin HalfOpen THEN v.conns + 1 ELSE v.conns
  PROVE  FlowsInv(u) /\ Keeps(v, u) /\ SameSweeps(v, u)
<1> DEFINE x == u.flows[f]
<1>1. /\ Shape(v) /\ DOMAIN v = Fields /\ FlowOk(v, d) /\ IsSeq(v.flows) /\ DOMAIN u = Fields
  BY DEF FlowsInv, Shape, TcpOnly
<1>2. /\ IsSeq(u.flows) /\ Fids(u) = Fids(v) /\ x = Moved(d, s) /\ Len(u.flows) = Len(v.flows)
      /\ \A h \in Fids(v) : h # f => u.flows[h] = v.flows[h]
  BY <1>1, SeqExcept DEF Fids
<1>3. /\ DOMAIN x = FlowFields /\ x.gen = d.gen /\ x.key = d.key /\ x.st = s
      /\ x.accepted = d.accepted /\ x.pending = d.pending
  BY <1>1, <1>2 DEF FlowOk, Moved, FlowFields
<1> HIDE DEF x
<1>4. /\ x = u.flows[f] /\ Gens(u) = Gens(v) /\ Accs(u) = Accs(v)
      /\ \A h \in Gens(v) : u.engs[h] = v.engs[h]
  BY DEF x, Gens, Accs
<1>5. \A h \in Fids(v) : /\ u.flows[h].gen = v.flows[h].gen /\ u.flows[h].key = v.flows[h].key
                         /\ u.flows[h].accepted = v.flows[h].accepted
                         /\ u.flows[h].pending = v.flows[h].pending
                         /\ u.flows[h].st = "CLOSED" <=> v.flows[h].st = "CLOSED"
                         /\ h # f => u.flows[h].st = v.flows[h].st
  <2>1. x.st # "CLOSED" /\ d.st # "CLOSED" /\ d = v.flows[f] /\ x = u.flows[f]
    BY <1>3, <1>4
  <2>2. TAKE h \in Fids(v)
  <2>3. CASE h = f
    BY <1>3, <2>1, <2>3
  <2>4. CASE h # f
    <3>1. u.flows[h] = v.flows[h]
      BY <1>2, <2>2, <2>4
    <3> QED BY <2>4, <3>1
  <2> QED BY <2>3, <2>4
<1>6. \A h \in Gens(v) : Live(u, h) = Live(v, h)
  BY <1>2, <1>5 DEF Live
<1>7. \A h \in Fids(v) : Unclaimed(u, h) <=> Unclaimed(v, h)
  BY <1>5 DEF Unclaimed
<1>8. ~Unclaimed(u, f)
  BY <1>3, <1>4 DEF Unclaimed
<1>9. Shape(u)
  <2>1. FlowOk(u, x)
    BY <1>1, <1>3, <1>4 DEF FlowOk
  <2>2. \A h \in Fids(u) : FlowOk(u, u.flows[h])
    BY <1>1, <1>2, <1>4, <2>1 DEF FlowOk, Shape
  <2> QED BY <1>1, <1>2, <1>4, <2>2 DEF Shape
<1>10. Tables(u)
  <2>1. ASSUME NEW h \in Gens(u), NEW j \in Keys, u.engs[h].table[j] # 0
        PROVE  u.engs[h].table[j] \in Live(u, h) /\ u.flows[u.engs[h].table[j]].key = j
    <3> DEFINE b == v.engs[h].table[j]
    <3>1. b \in Live(v, h) /\ v.flows[b].key = j
      BY <1>4, <2>1 DEF FlowsInv, Tables
    <3>2. b \in Fids(v)
      BY <3>1 DEF Live
    <3> QED BY <1>4, <1>5, <1>6, <3>1, <3>2
  <2>2. ASSUME NEW h \in Fids(u), u.flows[h].st # "CLOSED"
        PROVE  u.engs[u.flows[h].gen].table[u.flows[h].key] = h
    <3>1. v.engs[v.flows[h].gen].table[v.flows[h].key] = h
      BY <1>2, <1>5, <2>2 DEF FlowsInv, Tables
    <3> QED BY <1>2, <1>5, <3>1
  <2> QED BY <2>1, <2>2 DEF Tables
<1>11. Lists(u)
  <2>1. ASSUME NEW h \in Gens(u)
        PROVE  /\ Rising(u.engs[h].pend)
               /\ \A b : b \in ToSet(u.engs[h].pend) <=> b \in Live(u, h) /\ Unclaimed(u, b)
               /\ u.engs[h].waiters # <<>> => u.engs[h].pend = <<>>
    <3>1. \A b : b \in Live(u, h) /\ Unclaimed(u, b) <=> b \in Live(v, h) /\ Unclaimed(v, b)
      BY <1>4, <1>6, <1>7 DEF Live
    <3> QED BY <1>4, <3>1 DEF FlowsInv, Lists
  <2>2. \A h \in Fids(u) : /\ u.flows[h].pending <=> Unclaimed(u, h)
                           /\ Unclaimed(u, h) => u.flows[h].st = "SYN_RCVD"
    BY <1>2, <1>5, <1>7, <1>8 DEF FlowsInv, Lists
  <2> QED BY <2>1, <2>2 DEF Lists
<1>12. Waiters(u)
  BY <1>4 DEF FlowsInv, Waiters
<1>13. Accepts(u)
  <2>1. \A i \in Accs(u) : Has1(u, i) <=> Has1(v, i)
    BY DEF Has1
  <2>2. \A h \in Fids(v) : u.flows[h].accepted = v.flows[h].accepted
                           /\ u.flows[h].gen = v.flows[h].gen
    BY <1>5
  <2>3. /\ \A i \in Accs(v) :
             /\ v.accs[i].times = IF v.accs[i].st = "wait" THEN 0 ELSE 1
             /\ Has1(v, i) => /\ v.accs[i].fid \in Fids(v) /\ v.flows[v.accs[i].fid].accepted
                              /\ v.flows[v.accs[i].fid].gen = v.accs[i].gen
        /\ \A i, j \in Accs(v) :
             Has1(v, i) /\ Has1(v, j) /\ v.accs[i].fid = v.accs[j].fid => i = j
    BY DEF FlowsInv, Accepts
  <2>4. \A i \in Accs(v) : Has1(v, i) =>
             /\ v.accs[i].fid \in Fids(v) /\ u.flows[v.accs[i].fid].accepted
             /\ u.flows[v.accs[i].fid].gen = v.accs[i].gen
    BY <2>2, <2>3
  <2>5. Fids(u) = Fids(v) /\ Accs(u) = Accs(v) /\ u.accs = v.accs
    BY <1>2, <1>4
  <2> QED BY ONLY <2>1, <2>3, <2>4, <2>5 DEF Accepts
<1>14. Counts(u)
  <2>1. Connected(u) = IF s \in HalfOpen THEN Connected(v) ELSE Connected(v) \cup {f}
    <3>1. \A h \in Fids(v) : h # f => (h \in Connected(u) <=> h \in Connected(v))
      BY <1>2, <1>5 DEF Connected
    <3>2. /\ f \in Connected(u) <=> s \notin HalfOpen
          /\ s \in HalfOpen => f \notin Connected(v)
      BY <1>2, <1>3, <1>4 DEF Connected
    <3>3. Connected(u) \subseteq Fids(v) /\ Connected(v) \subseteq Fids(v)
      BY <1>2 DEF Connected
    <3> QED BY <3>1, <3>2, <3>3
  <2>2. IsFiniteSet(Connected(v)) /\ (f \in Connected(v) <=> d.st \notin HalfOpen)
        /\ v.conns = Cardinality(Connected(v))
    BY <1>1, LiveIs DEF Connected, FlowsInv, Counts, FlowOk
  <2>3. u.conns = Cardinality(Connected(u))
    <3>1. CASE s \in HalfOpen
      BY <2>1, <2>2, <3>1
    <3>2. CASE s \notin HalfOpen
      <4>1. Cardinality(Connected(v) \cup {f})
              = IF f \in Connected(v) THEN Cardinality(Connected(v))
                ELSE Cardinality(Connected(v)) + 1
        BY <2>2, FS_AddElement
      <4> QED BY <2>1, <2>2, <3>2, <4>1
    <3> QED BY <3>1, <3>2
  <2> QED BY <1>4, <1>6, <2>3 DEF FlowsInv, Counts
<1>15. SameSweeps(v, u) /\ Closings(u)
  BY <1>4, <1>6 DEF SameSweeps, Closings, FlowsInv
<1>16. Keeps(v, u)
  BY <1>1, <1>2, ShapeIs DEF Keeps
<1> QED BY <1>9, <1>10, <1>11, <1>12, <1>13, <1>14, <1>15, <1>16 DEF FlowsInv

\* Who is on the way to the strand depends on the accepts and the waiters.
LEMMA FreeSame ==
  ASSUME NEW v, NEW u, u.accs = v.accs, Gens(u) = Gens(v),
         \A g \in Gens(v) : u.engs[g].waiters = v.engs[g].waiters
  PROVE  Free(u) = Free(v)
BY DEF Free, Accs

\* What a completion changes of the accept i.
LEMMA ToldIs ==
  ASSUME NEW q, IsSeq(q), \A j \in DOMAIN q : DOMAIN q[j] = AccFields,
         NEW i \in DOMAIN q, NEW st, NEW f, NEW r, r = Put(q, i, Told(q[i], st, f))
  PROVE  /\ IsSeq(r) /\ DOMAIN r = DOMAIN q /\ Len(r) = Len(q)
         /\ \A j \in DOMAIN q : j # i => r[j] = q[j]
         /\ \A j \in DOMAIN q : /\ r[j].epoch = q[j].epoch /\ r[j].gen = q[j].gen
                                /\ DOMAIN r[j] = AccFields
         /\ r[i].st = st /\ r[i].fid = f /\ r[i].times = q[i].times + 1
<1> DEFINE x == r[i]
           a == q[i]
<1>1. /\ IsSeq(r) /\ DOMAIN r = DOMAIN q /\ Len(r) = Len(q) /\ x = Told(a, st, f)
      /\ \A j \in DOMAIN q : j # i => r[j] = q[j]
  BY SeqExcept
<1>2. DOMAIN a = AccFields
  OBVIOUS
<1>3. /\ DOMAIN x = AccFields /\ x.epoch = a.epoch /\ x.gen = a.gen
      /\ x.st = st /\ x.fid = f /\ x.times = a.times + 1
  BY <1>1, <1>2 DEF Told, AccFields
<1> HIDE DEF x, a
<1>4. x = r[i] /\ a = q[i]
  BY DEF x, a
<1> QED BY <1>1, <1>3, <1>4

\* The flows and the engines are as they were.
LEMMA ViewSame ==
  ASSUME NEW v, NEW u, u.flows = v.flows, u.engs = v.engs
  PROVE  /\ Fids(u) = Fids(v) /\ Gens(u) = Gens(v) /\ Connected(u) = Connected(v)
         /\ \A g \in Gens(v) : Live(u, g) = Live(v, g)
         /\ \A f \in Fids(v) : Unclaimed(u, f) <=> Unclaimed(v, f)
         /\ Tables(v) => Tables(u)
         /\ Lists(v) => Lists(u)
         /\ Closings(v) => Closings(u)
         /\ SameSweeps(v, u)
<1>1. Fids(u) = Fids(v) /\ Gens(u) = Gens(v)
  BY DEF Fids, Gens
<1>2. \A g : Live(u, g) = Live(v, g)
  BY <1>1 DEF Live
<1>3. Connected(u) = Connected(v)
  BY <1>1 DEF Connected
<1>4. \A f : Unclaimed(u, f) <=> Unclaimed(v, f)
  BY DEF Unclaimed
<1>5. Tables(v) => Tables(u)
  BY <1>1, <1>2, SMTT(30) DEF Tables
<1>6. Lists(v) => Lists(u)
  BY <1>1, <1>2, <1>4 DEF Lists
<1>7. (Closings(v) => Closings(u)) /\ SameSweeps(v, u)
  BY <1>1, <1>2 DEF Closings, SameSweeps
<1> QED BY <1>1, <1>2, <1>3, <1>4, <1>5, <1>6, <1>7

\* An accept on its way is refused, or one that waited is told that it ended.
LEMMA PostKeeps ==
  ASSUME NEW v, FlowsInv(v), NEW i \in Free(v), NEW st, st \notin {"wait", "ok"},
         NEW u, u = post_accept(v, i, st, 0)
  PROVE  /\ FlowsInv(u) /\ Keeps(v, u) /\ SameSweeps(v, u) /\ Free(u) = Free(v) \ {i}
         /\ u.engs = v.engs /\ u.flows = v.flows
<1>1. Shape(v) /\ DOMAIN v = Fields /\ i \in Accs(v) /\ v.accs[i].st = "wait"
      /\ \A g \in Gens(v) : i \notin ToSet(v.engs[g].waiters)
  BY DEF FlowsInv, Shape, Free
<1>2. /\ TcpOnly(v, u) /\ u.flows = v.flows /\ u.engs = v.engs /\ u.conns = v.conns
      /\ u.accs = Put(v.accs, i, Told(v.accs[i], st, 0))
  BY <1>1, PostIs
<1>3. /\ IsSeq(u.accs) /\ Accs(u) = Accs(v) /\ Len(u.accs) = Len(v.accs)
      /\ \A j \in Accs(v) : j # i => u.accs[j] = v.accs[j]
      /\ \A j \in Accs(v) : /\ u.accs[j].epoch = v.accs[j].epoch /\ u.accs[j].gen = v.accs[j].gen
                            /\ DOMAIN u.accs[j] = AccFields
      /\ u.accs[i].st = st /\ u.accs[i].times = v.accs[i].times + 1
  <2> DEFINE q == v.accs
             r == u.accs
             f == 0
  <2>1. /\ IsSeq(q) /\ (\A j \in DOMAIN q : DOMAIN q[j] = AccFields) /\ i \in DOMAIN q
        /\ r = Put(q, i, Told(q[i], st, f))
    BY <1>1, <1>2 DEF Shape, Accs
  <2> HIDE DEF q, r, f
  <2>2. /\ IsSeq(r) /\ DOMAIN r = DOMAIN q /\ Len(r) = Len(q)
        /\ \A j \in DOMAIN q : j # i => r[j] = q[j]
        /\ \A j \in DOMAIN q : /\ r[j].epoch = q[j].epoch /\ r[j].gen = q[j].gen
                               /\ DOMAIN r[j] = AccFields
        /\ r[i].st = st /\ r[i].times = q[i].times + 1
    BY <2>1, ToldIs
  <2> QED BY <2>2 DEF q, r, Accs
<1>4. Fids(u) = Fids(v) /\ Gens(u) = Gens(v) /\ DOMAIN u = Fields
  BY <1>2 DEF Fids, Gens, TcpOnly
<1>5. Shape(u)
  BY <1>1, <1>2, <1>3, <1>4 DEF Shape, FlowOk
<1>6. Tables(u)
  BY <1>2, ViewSame DEF FlowsInv
<1>7. Lists(u)
  BY <1>2, ViewSame DEF FlowsInv
<1>8. Waiters(u)
  <2>1. \A g \in Gens(v) : i \notin ToSet(v.engs[g].waiters)
    BY <1>1
  <2> QED BY <1>2, <1>3, <1>4, <2>1 DEF FlowsInv, Waiters
<1>9. Accepts(u)
  <2>1. \A j \in Accs(v) : Has1(u, j) => j # i /\ Has1(v, j) /\ u.accs[j] = v.accs[j]
    BY <1>3 DEF Has1
  <2>2. u.accs[i].times = 1 /\ u.accs[i].st # "wait"
    BY <1>1, <1>3 DEF FlowsInv, Accepts
  <2> QED BY <1>2, <1>3, <1>4, <2>1, <2>2, SMTT(30) DEF FlowsInv, Accepts
<1>10. Counts(u) /\ Closings(u) /\ SameSweeps(v, u)
  BY <1>2, ViewSame DEF FlowsInv, Counts
<1>11. Keeps(v, u)
  BY <1>1, <1>2, <1>3, ShapeIs DEF Keeps
<1>12. Free(u) = Free(v) \ {i}
  BY <1>2, <1>3, <1>4 DEF Free
<1> QED BY <1>2, <1>5, <1>6, <1>7, <1>8, <1>9, <1>10, <1>11, <1>12 DEF FlowsInv

\* Nothing but one engine is written, and of it not the table.
LEMMA EngineOnly ==
  ASSUME NEW v, NEW b, FlowsBut(v, b), NEW g \in Gens(v), NEW e, e = v.engs[g], NEW y,
         DOMAIN y = EngineFields, y.table = e.table, IsSeq(y.pend), IsSeq(y.waiters),
         NEW u, TcpOnly(v, u), u.flows = v.flows, u.accs = v.accs, u.conns = v.conns,
         u.engs = Put(v.engs, g, y)
  PROVE  /\ Shape(u) /\ Tables(u) /\ Counts(u) /\ Accepts(u) /\ Keeps(v, u)
         /\ Fids(u) = Fids(v) /\ Gens(u) = Gens(v) /\ Accs(u) = Accs(v) /\ u.engs[g] = y
         /\ \A h \in Gens(v) : h # g => u.engs[h] = v.engs[h]
         /\ \A h \in Gens(v) : Live(u, h) = Live(v, h)
         /\ \A f \in Fids(v) : Unclaimed(u, f) <=> Unclaimed(v, f)
<1>1. /\ Shape(v) /\ IsSeq(v.engs) /\ DOMAIN u = Fields /\ Fids(u) = Fids(v) /\ Accs(u) = Accs(v)
  BY DEF FlowsBut, Shape, TcpOnly, Fids, Accs
<1>2. /\ IsSeq(u.engs) /\ Gens(u) = Gens(v) /\ u.engs[g] = y /\ Len(u.engs) = Len(v.engs)
      /\ \A h \in Gens(v) : h # g => u.engs[h] = v.engs[h]
  BY <1>1, SeqExcept DEF Gens
<1>3. \A h : Live(u, h) = Live(v, h)
  BY <1>1 DEF Live
<1>4. \A f : Unclaimed(u, f) <=> Unclaimed(v, f)
  BY DEF Unclaimed
<1>5. \A h \in Gens(v) : u.engs[h].table = v.engs[h].table
  BY <1>2
<1>6. Shape(u)
  <2>1. \A h \in Gens(v) : EngineOk(v.engs[h])
    BY <1>1 DEF Shape
  <2>2. \A h \in Gens(v) : EngineOk(u.engs[h])
    BY <1>2, <2>1 DEF EngineOk
  <2>3. \A f \in Fids(v) : FlowOk(u, u.flows[f])
    BY <1>1, <1>2 DEF Shape, FlowOk
  <2> QED BY <1>1, <1>2, <2>2, <2>3 DEF Shape
<1>7. Tables(u)
  <2>1. \A f \in Fids(v) : v.flows[f].gen \in Gens(v)
    BY <1>1 DEF Shape, FlowOk
  <2>2. /\ \A h \in Gens(v), k \in Keys : v.engs[h].table[k] # 0 =>
             v.engs[h].table[k] \in Live(v, h) /\ v.flows[v.engs[h].table[k]].key = k
        /\ \A f \in Fids(v) : v.flows[f].st # "CLOSED" =>
             v.engs[v.flows[f].gen].table[v.flows[f].key] = f
    BY DEF FlowsBut, Tables
  <2>3. u.flows = v.flows
    OBVIOUS
  <2> QED BY ONLY <1>1, <1>2, <1>3, <1>5, <2>1, <2>2, <2>3, SMTT(30) DEF Tables
<1>8. Counts(u)
  <2>1. Connected(u) = Connected(v)
    BY <1>1 DEF Connected
  <2> QED BY <1>2, <1>3, <2>1 DEF FlowsBut, Counts
<1>9. Accepts(u)
  <2>1. \A i : Has1(u, i) <=> Has1(v, i)
    BY DEF Has1
  <2> QED BY <1>1, <2>1 DEF FlowsBut, Accepts
<1>10. Keeps(v, u)
  BY <1>1, <1>2, ShapeIs DEF Keeps
<1> QED BY <1>1, <1>2, <1>3, <1>4, <1>6, <1>7, <1>8, <1>9, <1>10

\* The least of the first numbers.
LEMMA MinOne ==
  ASSUME NEW n \in Nat, n # 0
  PROVE  Min(1 .. n) = 1
<1> DEFINE m == Min(1 .. n)
<1>1. \E x \in 1 .. n : \A y \in 1 .. n : x <= y
  <2>1. 1 \in 1 .. n /\ \A y \in 1 .. n : 1 <= y
    OBVIOUS
  <2> QED BY <2>1
<1>2. m \in 1 .. n /\ \A y \in 1 .. n : m <= y
  BY <1>1 DEF Min
<1> HIDE DEF m
<1>3. m <= 1
  BY <1>2
<1>4. m = 1
  BY <1>2, <1>3
<1> QED BY <1>4 DEF m

\* An accept waits.
LEMMA WaitKeeps ==
  ASSUME NEW v, FlowsInv(v), NEW g \in Gens(v), ~v.engs[g].closed, v.engs[g].pend = <<>>,
         NEW i \in Free(v), v.accs[i].gen = g,
         NEW u, TcpOnly(v, u), u.flows = v.flows, u.accs = v.accs, u.conns = v.conns,
         u.engs = Put(v.engs, g, Waiting(v.engs[g], i))
  PROVE  FlowsInv(u) /\ Keeps(v, u) /\ SameSweeps(v, u) /\ Free(u) = Free(v) \ {i}
<1> DEFINE e == v.engs[g]
           y == Waiting(e, i)
<1>1. Shape(v) /\ DOMAIN e = EngineFields /\ IsSeq(e.waiters) /\ Distinct(e.waiters)
      /\ i \in Accs(v) /\ v.accs[i].st = "wait" /\ i \notin ToSet(e.waiters)
  BY DEF FlowsInv, Shape, EngineOk, Waiters, Free
<1>2. /\ DOMAIN y = EngineFields /\ y.table = e.table /\ y.pend = <<>>
      /\ y.waiters = Add(e.waiters, i) /\ y.sweep = e.sweep /\ y.closed = e.closed
      /\ y.late = e.late
  BY <1>1 DEF Waiting, EngineFields
<1> HIDE DEF y
<1>3. IsSeq(y.waiters) /\ Distinct(y.waiters) /\ ToSet(y.waiters) = ToSet(e.waiters) \cup {i}
  BY <1>1, <1>2, SeqAppend, DistinctAdd
<1>4. u.engs = Put(v.engs, g, y) /\ e = v.engs[g] /\ IsSeq(y.pend)
  BY <1>2, SeqEmpty DEF y
<1> HIDE DEF e
<1>5. /\ Shape(u) /\ Tables(u) /\ Counts(u) /\ Accepts(u) /\ Keeps(v, u)
      /\ Fids(u) = Fids(v) /\ Gens(u) = Gens(v) /\ Accs(u) = Accs(v) /\ u.engs[g] = y
      /\ \A h \in Gens(v) : h # g => u.engs[h] = v.engs[h]
      /\ \A h \in Gens(v) : Live(u, h) = Live(v, h)
      /\ \A f \in Fids(v) : Unclaimed(u, f) <=> Unclaimed(v, f)
  BY <1>2, <1>3, <1>4, ButIs, EngineOnly
<1>6. \A h \in Gens(v) : u.engs[h].pend = v.engs[h].pend
  BY <1>2, <1>4, <1>5
<1>7. Lists(u)
  <2>1. ASSUME NEW h \in Gens(v)
        PROVE  /\ Rising(u.engs[h].pend)
               /\ \A f : f \in ToSet(u.engs[h].pend) <=> f \in Live(u, h) /\ Unclaimed(u, f)
               /\ u.engs[h].waiters # <<>> => u.engs[h].pend = <<>>
    <3>1. \A f : f \in Live(u, h) /\ Unclaimed(u, f) <=> f \in Live(v, h) /\ Unclaimed(v, f)
      BY <1>5 DEF Live
    <3>2. /\ Rising(v.engs[h].pend)
          /\ \A f : f \in ToSet(v.engs[h].pend) <=> f \in Live(v, h) /\ Unclaimed(v, f)
          /\ v.engs[h].waiters # <<>> => v.engs[h].pend = <<>>
      BY DEF FlowsInv, Lists
    <3>3. h # g => u.engs[h].waiters = v.engs[h].waiters
      BY <1>5
    <3> QED BY <1>6, <3>1, <3>2, <3>3
  <2>2. \A f \in Fids(v) : /\ u.flows[f].pending <=> Unclaimed(u, f)
                           /\ Unclaimed(u, f) => u.flows[f].st = "SYN_RCVD"
    BY <1>5 DEF FlowsInv, Lists
  <2> QED BY <1>5, <2>1, <2>2 DEF Lists
<1>8. \A h \in Gens(v) : ToSet(u.engs[h].waiters)
                           = IF h = g THEN ToSet(v.engs[h].waiters) \cup {i}
                             ELSE ToSet(v.engs[h].waiters)
  BY <1>3, <1>4, <1>5
<1>9. Waiters(u)
  <2>1. \A h \in Gens(v) : Distinct(u.engs[h].waiters)
    BY <1>3, <1>5 DEF FlowsInv, Waiters
  <2>2. \A h \in Gens(v) : \A j \in ToSet(v.engs[h].waiters) :
          j \in Accs(v) /\ v.accs[j].st = "wait" /\ v.accs[j].gen = h
    BY DEF FlowsInv, Waiters
  <2>3. ASSUME NEW h \in Gens(v), NEW j \in ToSet(u.engs[h].waiters)
        PROVE  j \in Accs(v) /\ v.accs[j].st = "wait" /\ v.accs[j].gen = h
    <3>1. j \in ToSet(v.engs[h].waiters) \/ (h = g /\ j = i)
      BY <1>8
    <3> QED BY <1>1, <2>2, <3>1
  <2>4. Gens(u) = Gens(v) /\ Accs(u) = Accs(v) /\ u.accs = v.accs
    BY <1>5
  <2> QED BY ONLY <2>1, <2>3, <2>4 DEF Waiters
<1>10. SameSweeps(v, u)
  BY <1>2, <1>4, <1>5 DEF SameSweeps
<1>11. Closings(u)
  <2>1. \A h \in Gens(v) : u.engs[h].closed => h # g /\ v.engs[h].closed
    BY <1>10 DEF SameSweeps
  <2> QED BY <1>5, <2>1 DEF FlowsInv, Closings
<1>12. Free(u) = Free(v) \ {i}
  BY <1>1, <1>5, <1>8 DEF Free
<1> QED BY <1>5, <1>7, <1>9, <1>10, <1>11, <1>12 DEF FlowsInv

\* An accept on its way gets the first flow of the list.
LEMMA TakeKeeps ==
  ASSUME NEW v, FlowsInv(v), NEW g \in Gens(v), NEW e, e = v.engs[g], e.pend # <<>>,
         NEW i \in Free(v), v.accs[i].gen = g, NEW f, f = e.pend[1],
         NEW u, TcpOnly(v, u), u.conns = v.conns, u.flows = Put(v.flows, f, Taken(v.flows[f])),
         u.engs = Put(v.engs, g, Shorter(e, 1)),
         u.accs = Put(v.accs, i, Told(v.accs[i], "ok", f))
  PROVE  FlowsInv(u) /\ Keeps(v, u) /\ SameSweeps(v, u) /\ Free(u) = Free(v) \ {i}
<1> DEFINE p == From(e.pend, 1)
           d == v.flows[f]
           x == u.flows[f]
           y == u.engs[g]
<1>1. /\ Shape(v) /\ DOMAIN v = Fields /\ EngineOk(e) /\ IsSeq(v.flows) /\ IsSeq(v.engs)
      /\ IsSeq(v.accs) /\ DOMAIN u = Fields
  BY DEF FlowsInv, Shape, TcpOnly
<1>2. i \in Accs(v) /\ v.accs[i].st = "wait" /\ \A h \in Gens(v) : i \notin ToSet(v.engs[h].waiters)
  BY DEF Free
<1>3. /\ IsSeq(e.pend) /\ Rising(e.pend)
      /\ ToSet(e.pend) \subseteq Nat /\ ToSet(e.pend) \subseteq Fids(v)
  BY <1>1, PendIs DEF FlowsInv
<1>4. IsSeq(p) /\ Rising(p) /\ ToSet(p) = ToSet(e.pend) \ {f} /\ f \in ToSet(e.pend)
  BY <1>3, RisingFirst
<1>5. f \in Live(v, g) /\ Unclaimed(v, f) /\ e.waiters = <<>> /\ f \in Fids(v)
  BY <1>3, <1>4 DEF FlowsInv, Lists
<1>6. d.gen = g /\ d.st = "SYN_RCVD" /\ ~d.accepted /\ FlowOk(v, d)
  BY <1>1, <1>5 DEF Live, Unclaimed, FlowsInv, Lists, Shape
<1>7. /\ IsSeq(u.flows) /\ Fids(u) = Fids(v) /\ x = Taken(d) /\ Len(u.flows) = Len(v.flows)
      /\ \A h \in Fids(v) : h # f => u.flows[h] = v.flows[h]
  <2> HIDE DEF d
  <2>1. IsSeq(v.flows) /\ f \in DOMAIN v.flows /\ u.flows = Put(v.flows, f, Taken(d))
    BY <1>1, <1>5 DEF Fids, d
  <2> QED BY ONLY <2>1, SeqExcept DEF Fids
<1>8. /\ IsSeq(u.engs) /\ Gens(u) = Gens(v) /\ y = Shorter(e, 1) /\ Len(u.engs) = Len(v.engs)
      /\ \A h \in Gens(v) : h # g => u.engs[h] = v.engs[h]
  BY <1>1, SeqExcept DEF Gens
<1>9. /\ DOMAIN x = FlowFields /\ x.gen = g /\ x.key = d.key /\ x.st = "SYN_RCVD"
      /\ x.accepted = TRUE /\ x.pending = FALSE
  BY <1>6, <1>7 DEF FlowOk, Taken, FlowFields
<1>10. /\ DOMAIN y = EngineFields /\ y.pend = p /\ y.waiters = <<>> /\ y.table = e.table
       /\ y.sweep = e.sweep /\ y.closed = e.closed /\ y.late = e.late
  BY <1>1, <1>5, <1>8 DEF EngineOk, Shorter, EngineFields
<1> HIDE DEF x, y, p, d
<1>11. x = u.flows[f] /\ y = u.engs[g] /\ d = v.flows[f] /\ e = v.engs[g]
  BY DEF x, y, d
<1>12. /\ IsSeq(u.accs) /\ Accs(u) = Accs(v) /\ Len(u.accs) = Len(v.accs)
       /\ \A j \in Accs(v) : j # i => u.accs[j] = v.accs[j]
       /\ \A j \in Accs(v) : /\ u.accs[j].epoch = v.accs[j].epoch /\ u.accs[j].gen = v.accs[j].gen
                             /\ DOMAIN u.accs[j] = AccFields
       /\ u.accs[i].st = "ok" /\ u.accs[i].fid = f /\ u.accs[i].times = v.accs[i].times + 1
  <2> DEFINE q == v.accs
             r == u.accs
             st == "ok"
  <2>1. /\ IsSeq(q) /\ (\A j \in DOMAIN q : DOMAIN q[j] = AccFields) /\ i \in DOMAIN q
        /\ r = Put(q, i, Told(q[i], st, f))
    BY <1>1, <1>2 DEF Shape, Accs
  <2> HIDE DEF q, r, st
  <2>2. /\ IsSeq(r) /\ DOMAIN r = DOMAIN q /\ Len(r) = Len(q)
        /\ \A j \in DOMAIN q : j # i => r[j] = q[j]
        /\ \A j \in DOMAIN q : /\ r[j].epoch = q[j].epoch /\ r[j].gen = q[j].gen
                               /\ DOMAIN r[j] = AccFields
        /\ r[i].st = st /\ r[i].fid = f /\ r[i].times = q[i].times + 1
    BY <2>1, ToldIs, SMTT(30)
  <2> QED BY <2>2 DEF q, r, st, Accs
<1>13. \A h \in Fids(v) : /\ u.flows[h].gen = v.flows[h].gen /\ u.flows[h].key = v.flows[h].key
                          /\ u.flows[h].st = v.flows[h].st
                          /\ h # f => /\ u.flows[h].accepted = v.flows[h].accepted
                                      /\ u.flows[h].pending = v.flows[h].pending
  BY <1>6, <1>7, <1>9, <1>11
<1>14. \A h : Live(u, h) = Live(v, h)
  BY <1>7, <1>13 DEF Live
<1>15. \A h \in Fids(v) : h # f => (Unclaimed(u, h) <=> Unclaimed(v, h))
  BY <1>13 DEF Unclaimed
<1>16. ~Unclaimed(u, f)
  BY <1>9, <1>11 DEF Unclaimed
<1>17. \A h \in Gens(v) : u.engs[h].table = v.engs[h].table
                          /\ u.engs[h].waiters = v.engs[h].waiters
  BY <1>5, <1>8, <1>10, <1>11
<1>18. Shape(u)
  <2>1. FlowOk(u, x)
    BY <1>5, <1>6, <1>8, <1>9 DEF FlowOk, FlowStates, HalfOpen
  <2>2. \A h \in Fids(v) : FlowOk(u, u.flows[h])
    BY <1>1, <1>7, <1>8, <1>11, <2>1 DEF FlowOk, Shape
  <2>3. EngineOk(y)
    BY <1>1, <1>4, <1>10, SeqEmpty DEF EngineOk
  <2>4. \A h \in Gens(v) : EngineOk(u.engs[h])
    BY <1>1, <1>8, <1>11, <2>3 DEF Shape
  <2> QED BY <1>1, <1>7, <1>8, <1>12, <2>2, <2>4 DEF Shape
<1>19. Tables(u)
  <2>1. ASSUME NEW h \in Gens(u), NEW j \in Keys, u.engs[h].table[j] # 0
        PROVE  u.engs[h].table[j] \in Live(u, h) /\ u.flows[u.engs[h].table[j]].key = j
    <3> DEFINE b == v.engs[h].table[j]
    <3>1. b \in Live(v, h) /\ v.flows[b].key = j /\ u.engs[h].table[j] = b
      BY <1>8, <1>17, <2>1 DEF FlowsInv, Tables
    <3>2. b \in Fids(v)
      BY <3>1 DEF Live
    <3> QED BY <1>13, <1>14, <3>1, <3>2
  <2>2. ASSUME NEW h \in Fids(u), u.flows[h].st # "CLOSED"
        PROVE  u.engs[u.flows[h].gen].table[u.flows[h].key] = h
    <3>1. v.engs[v.flows[h].gen].table[v.flows[h].key] = h /\ v.flows[h].gen \in Gens(v)
      BY <1>1, <1>7, <1>13, <2>2 DEF FlowsInv, Tables, Shape, FlowOk
    <3> QED BY <1>7, <1>13, <1>17, <2>2, <3>1
  <2> QED BY <2>1, <2>2 DEF Tables
<1>20. Lists(u)
  <2>1. ASSUME NEW h \in Gens(v)
        PROVE  /\ Rising(u.engs[h].pend)
               /\ \A b : b \in ToSet(u.engs[h].pend) <=> b \in Live(u, h) /\ Unclaimed(u, b)
               /\ u.engs[h].waiters # <<>> => u.engs[h].pend = <<>>
    <3>1. /\ Rising(v.engs[h].pend)
          /\ \A b : b \in ToSet(v.engs[h].pend) <=> b \in Live(v, h) /\ Unclaimed(v, b)
          /\ v.engs[h].waiters # <<>> => v.engs[h].pend = <<>>
      BY DEF FlowsInv, Lists
    <3>2. /\ Rising(u.engs[h].pend) /\ ToSet(u.engs[h].pend) = ToSet(v.engs[h].pend) \ {f}
          /\ u.engs[h].waiters # <<>> => u.engs[h].pend = <<>>
      <4>1. CASE h = g
        BY <1>4, <1>10, <1>11, <4>1
      <4>2. CASE h # g
        <5>1. u.engs[h] = v.engs[h] /\ f \notin Live(v, h)
          BY <1>6, <1>8, <1>11, <4>2 DEF Live
        <5> QED BY <3>1, <5>1
      <4> QED BY <4>1, <4>2
    <3>3. \A b : b \in Live(u, h) /\ Unclaimed(u, b)
                   <=> b \in Live(v, h) /\ Unclaimed(v, b) /\ b # f
      BY <1>14, <1>15, <1>16 DEF Live
    <3> QED BY <3>1, <3>2, <3>3
  <2>2. \A h \in Fids(v) : /\ u.flows[h].pending <=> Unclaimed(u, h)
                           /\ Unclaimed(u, h) => u.flows[h].st = "SYN_RCVD"
    <3>1. \A h \in Fids(v) : /\ v.flows[h].pending <=> Unclaimed(v, h)
                             /\ Unclaimed(v, h) => v.flows[h].st = "SYN_RCVD"
      BY DEF FlowsInv, Lists
    <3>2. ~u.flows[f].pending
      BY <1>9, <1>11
    <3> QED BY ONLY <1>13, <1>15, <1>16, <3>1, <3>2
  <2> QED BY <1>7, <1>8, <2>1, <2>2 DEF Lists
<1>21. Waiters(u)
  <2>1. \A h \in Gens(v) : Distinct(v.engs[h].waiters)
    BY DEF FlowsInv, Waiters
  <2>2. ASSUME NEW h \in Gens(v), NEW j \in ToSet(v.engs[h].waiters)
        PROVE  j \in Accs(v) /\ u.accs[j].st = "wait" /\ u.accs[j].gen = h
    <3>1. j \in Accs(v) /\ v.accs[j].st = "wait" /\ v.accs[j].gen = h /\ j # i
      BY <1>2 DEF FlowsInv, Waiters
    <3> QED BY <1>12, <3>1
  <2>3. Gens(u) = Gens(v) /\ Accs(u) = Accs(v)
    BY <1>8, <1>12
  <2> QED BY ONLY <1>17, <2>1, <2>2, <2>3 DEF Waiters
<1>22. Accepts(u)
  <2>1. \A j \in Accs(v) : j # i => (Has1(u, j) <=> Has1(v, j)) /\ u.accs[j] = v.accs[j]
    BY <1>12 DEF Has1
  <2>2. Has1(u, i) /\ u.accs[i].times = 1 /\ u.accs[i].st # "wait" /\ u.accs[i].fid = f
        /\ u.accs[i].gen = g
    <3>1. v.accs[i].times = 0
      BY <1>2 DEF FlowsInv, Accepts
    <3>2. v.accs[i].gen = g
      OBVIOUS
    <3> QED BY ONLY <1>2, <1>12, <3>1, <3>2 DEF Has1
  <2>3. /\ \A j \in Accs(v) :
             /\ v.accs[j].times = IF v.accs[j].st = "wait" THEN 0 ELSE 1
             /\ Has1(v, j) => /\ v.accs[j].fid \in Fids(v) /\ v.flows[v.accs[j].fid].accepted
                              /\ v.flows[v.accs[j].fid].gen = v.accs[j].gen
        /\ \A j, k \in Accs(v) :
             Has1(v, j) /\ Has1(v, k) /\ v.accs[j].fid = v.accs[k].fid => j = k
    BY DEF FlowsInv, Accepts
  <2>4. \A j \in Accs(v) : Has1(v, j) => v.accs[j].fid # f
    BY <1>6, <1>11, <2>3
  <2>5. ASSUME NEW j \in Accs(v)
        PROVE  /\ u.accs[j].times = IF u.accs[j].st = "wait" THEN 0 ELSE 1
               /\ Has1(u, j) => /\ u.accs[j].fid \in Fids(v) /\ u.flows[u.accs[j].fid].accepted
                                /\ u.flows[u.accs[j].fid].gen = u.accs[j].gen
    <3>1. CASE j = i
      BY <1>5, <1>9, <1>11, <2>2, <3>1
    <3>2. CASE j # i
      <4>1. /\ v.accs[j].times = IF v.accs[j].st = "wait" THEN 0 ELSE 1
            /\ Has1(u, j) => /\ v.accs[j].fid \in Fids(v) /\ v.flows[v.accs[j].fid].accepted
                             /\ v.flows[v.accs[j].fid].gen = v.accs[j].gen
                             /\ v.accs[j].fid # f
        BY <2>1, <2>3, <2>4, <3>2
      <4>2. Has1(u, j) => /\ u.flows[v.accs[j].fid].accepted
                          /\ u.flows[v.accs[j].fid].gen = v.accs[j].gen
        BY <1>13, <4>1
      <4>3. u.accs[j] = v.accs[j]
        BY <2>1, <3>2
      <4> QED BY <4>1, <4>2, <4>3
    <3> QED BY <3>1, <3>2
  <2>6. ASSUME NEW j \in Accs(v), NEW k \in Accs(v), Has1(u, j), Has1(u, k),
               u.accs[j].fid = u.accs[k].fid
        PROVE  j = k
    <3>1. CASE j = i \/ k = i
      BY <2>1, <2>2, <2>4, <2>6, <3>1
    <3>2. CASE j # i /\ k # i
      BY <2>1, <2>3, <2>6, <3>2
    <3> QED BY <3>1, <3>2
  <2>7. Accs(u) = Accs(v) /\ Fids(u) = Fids(v)
    BY <1>7, <1>12
  <2> QED BY ONLY <2>5, <2>6, <2>7 DEF Accepts
<1>23. Counts(u)
  <2>1. Connected(u) = Connected(v)
    BY <1>7, <1>13 DEF Connected
  <2> QED BY <1>8, <1>14, <2>1 DEF FlowsInv, Counts
<1>24. SameSweeps(v, u)
  BY <1>8, <1>10, <1>11 DEF SameSweeps
<1>25. Closings(u)
  BY <1>8, <1>14, <1>17, <1>24, SMTT(30) DEF FlowsInv, Closings, SameSweeps
<1>26. Keeps(v, u)
  <2>1. Len(v.flows) \in Nat
    BY <1>1, ShapeIs
  <2>2. TcpOnly(v, u)
    OBVIOUS
  <2> QED BY ONLY <1>7, <1>8, <1>12, <2>1, <2>2 DEF Keeps
<1>27. Free(u) = Free(v) \ {i}
  BY <1>2, <1>8, <1>12, <1>17, ZenonT(40) DEF Free
<1> QED BY <1>18, <1>19, <1>20, <1>21, <1>22, <1>23, <1>24, <1>25, <1>26, <1>27 DEF FlowsInv

\* async_accept: one or the other.
LEMMA AsyncAcceptKeeps ==
  ASSUME NEW v, FlowsInv(v), NEW g \in Gens(v), ~v.engs[g].closed,
         NEW i \in Free(v), v.accs[i].gen = g, NEW u, u = async_accept(v, g, i)
  PROVE  FlowsInv(u) /\ Keeps(v, u) /\ SameSweeps(v, u) /\ Free(u) = Free(v) \ {i}
<1> DEFINE e == v.engs[g]
           j == Min(Alive(v, e.pend))
           f == e.pend[j]
<1>1. DOMAIN v = Fields /\ Shape(v) /\ IsSeq(e.pend)
  BY DEF FlowsInv, Shape, EngineOk
<1>2. DOMAIN e.pend = 1 .. Len(e.pend) /\ Len(e.pend) \in Nat /\ (e.pend = <<>> <=> Len(e.pend) = 0)
  BY <1>1, SeqIs, SeqMembers
<1>3. \A b \in ToSet(e.pend) : v.flows[b].st # "CLOSED"
  BY DEF FlowsInv, Lists, Live
<1>4. Alive(v, e.pend) = 1 .. Len(e.pend)
  BY <1>2, <1>3 DEF Alive, ToSet
<1>5. ASSUME e.pend # <<>> PROVE j = 1 /\ Alive(v, e.pend) # {}
  <2> DEFINE n == Len(e.pend)
             A == Alive(v, e.pend)
  <2>1. n \in Nat /\ n # 0 /\ A = 1 .. n
    BY <1>2, <1>4, <1>5
  <2> HIDE DEF n, A
  <2>2. Min(1 .. n) = 1 /\ 1 \in 1 .. n
    BY <2>1, MinOne
  <2>3. Min(A) = 1 /\ A # {}
    BY <2>1, <2>2
  <2> QED BY <2>3 DEF A
<1>6. e.pend = <<>> => Alive(v, e.pend) = {}
  BY <1>2, <1>4
<1>7. DOMAIN v = Fields /\ e = v.engs[g] /\ j = Min(Alive(v, e.pend)) /\ f = e.pend[j]
      /\ u = async_accept(v, g, i)
  BY <1>1
<1> HIDE DEF j, f, e
<1>8. AcceptDone(v, u, g, i, e, j, f)
  BY ONLY <1>7, AsyncAcceptIs
<1>9. CASE e.pend = <<>>
  <2>1. v.engs[g].pend = <<>> /\ u.engs = Put(v.engs, g, Waiting(v.engs[g], i))
        /\ u.flows = v.flows /\ u.accs = v.accs
    BY <1>6, <1>7, <1>8, <1>9 DEF AcceptDone
  <2> QED BY <1>8, <2>1, WaitKeeps DEF AcceptDone
<1>10. CASE e.pend # <<>>
  <2>1. /\ u.flows = Put(v.flows, f, Taken(v.flows[f])) /\ u.engs = Put(v.engs, g, Shorter(e, 1))
        /\ u.accs = Put(v.accs, i, Told(v.accs[i], "ok", f)) /\ f = e.pend[1]
    BY <1>5, <1>7, <1>8, <1>10 DEF AcceptDone
  <2> QED BY <1>7, <1>8, <1>10, <2>1, TakeKeeps DEF AcceptDone
<1> QED BY <1>9, <1>10

\* What a new flow is, and where its key leads.
Entered(g, k) ==
  [gen |-> g, key |-> k, st |-> "SYN_RCVD", accepted |-> FALSE, pending |-> FALSE]
Keyed(e, k, f) == [e EXCEPT !.table[k] = f]

NewFlowDone(v, u, g, k, e, f) ==
  /\ TcpOnly(v, u) /\ u.conns = v.conns
  /\ IsSeq(u.flows) /\ Len(u.flows) = f /\ Fids(u) = Fids(v) \cup {f} /\ f \notin Fids(v)
  /\ \A h \in Fids(v) : u.flows[h] = v.flows[h]
  /\ IsSeq(u.engs) /\ Gens(u) = Gens(v) /\ Len(u.engs) = Len(v.engs)
  /\ \A h \in Gens(v) : h # g => u.engs[h] = v.engs[h]
  /\ e.waiters # <<>> =>
       /\ u.flows[f] = Accepted(Entered(g, k))
       /\ u.engs[g] = Served(Keyed(e, k, f))
       /\ u.accs = Put(v.accs, Head(e.waiters), Told(v.accs[Head(e.waiters)], "ok", f))
  /\ e.waiters = <<>> =>
       /\ u.flows[f] = Pending(Entered(g, k))
       /\ u.engs[g] = Announced(Keyed(e, k, f), f)
       /\ u.accs = v.accs

\* A new flow.
LEMMA NewFlowIs ==
  ASSUME NEW v, Shape(v), NEW g \in Gens(v), NEW k \in Keys, NEW e, e = v.engs[g],
         NEW f, f = Len(v.flows) + 1, NEW u, u = new_flow(v, g, k)
  PROVE  NewFlowDone(v, u, g, k, e, f)
<1> DEFINE d == Entered(g, k)
           y == Keyed(e, k, f)
           F == Add(v.flows, d)
           E == Put(v.engs, g, y)
           c == [v EXCEPT !.flows = F, !.engs = E]
<1>1. /\ DOMAIN v = Fields /\ IsSeq(v.flows) /\ IsSeq(v.engs) /\ DOMAIN e = EngineFields
      /\ DOMAIN e.table = Keys
  BY DEF Shape, EngineOk
<1>2. u = notify_accept(c, f)
  BY DEF new_flow, Entered, Keyed, Add, Put
<1>3. d.gen = g
  BY DEF Entered
<1>4. y.waiters = e.waiters
  BY <1>1 DEF Keyed, EngineFields
<1> HIDE DEF d, y
<1>5. /\ IsSeq(F) /\ Len(F) = f /\ \A h \in Fids(v) : F[h] = v.flows[h]
      /\ F[f] = d /\ f \in Nat /\ Fids(v) = 1 .. f - 1 /\ DOMAIN F = 1 .. f
  <2>1. Len(v.flows) \in Nat /\ DOMAIN v.flows = 1 .. Len(v.flows)
    BY <1>1, SeqIs
  <2>2. /\ IsSeq(F) /\ Len(F) = Len(v.flows) + 1 /\ \A h \in 1 .. Len(v.flows) : F[h] = v.flows[h]
        /\ F[Len(v.flows) + 1] = d
    BY <1>1, SeqAppend
  <2>3. DOMAIN F = 1 .. Len(F)
    BY <2>2, SeqIs
  <2> HIDE DEF F
  <2> QED BY <2>1, <2>2, <2>3 DEF Fids
<1>6. /\ IsSeq(E) /\ DOMAIN E = Gens(v) /\ Len(E) = Len(v.engs) /\ E[g] = y
      /\ \A h \in Gens(v) : h # g => E[h] = v.engs[h]
  BY <1>1, SeqExcept DEF Gens
<1> HIDE DEF F, E
<1>7. TcpOnly(v, c) /\ c.flows = F /\ c.engs = E /\ c.accs = v.accs /\ c.conns = v.conns
  BY <1>1 DEF Fields, TcpOnly, SameDevice, SameLife
<1> HIDE DEF c
<1>8. DOMAIN c = Fields /\ d = c.flows[f] /\ y = c.engs[d.gen] /\ u = notify_accept(c, f)
  BY <1>2, <1>3, <1>5, <1>6, <1>7 DEF TcpOnly
<1>9. /\ TcpOnly(c, u) /\ u.conns = c.conns
      /\ y.waiters # <<>> =>
           /\ u.flows = Put(c.flows, f, Accepted(d))
           /\ u.engs = Put(c.engs, d.gen, Served(y))
           /\ u.accs = Put(c.accs, Head(y.waiters), Told(c.accs[Head(y.waiters)], "ok", f))
      /\ y.waiters = <<>> =>
           /\ u.flows = Put(c.flows, f, Pending(d))
           /\ u.engs = Put(c.engs, d.gen, Announced(y, f))
           /\ u.accs = c.accs
  BY ONLY <1>8, NotifyIs, SMTT(30)
<1>10. TcpOnly(v, u)
  BY <1>7, <1>9, TcpTrans
<1> DEFINE x == IF e.waiters # <<>> THEN Accepted(d) ELSE Pending(d)
           z == IF e.waiters # <<>> THEN Served(y) ELSE Announced(y, f)
<1>11. u.flows = Put(F, f, x) /\ u.engs = Put(E, g, z)
  BY <1>3, <1>4, <1>7, <1>9
<1>12. e.waiters # <<>> => x = Accepted(d) /\ z = Served(y)
  OBVIOUS
<1>13. e.waiters = <<>> => x = Pending(d) /\ z = Announced(y, f)
  OBVIOUS
<1> HIDE DEF x, z
<1>14. /\ IsSeq(u.flows) /\ DOMAIN u.flows = 1 .. f /\ Len(u.flows) = f /\ u.flows[f] = x
       /\ \A h \in DOMAIN F : h # f => u.flows[h] = F[h]
  <2>1. f \in DOMAIN F
    BY <1>5
  <2> QED BY ONLY <1>5, <1>11, <2>1, SeqExcept
<1>15. /\ IsSeq(u.engs) /\ Gens(u) = Gens(v) /\ Len(u.engs) = Len(v.engs) /\ u.engs[g] = z
       /\ \A h \in Gens(v) : h # g => u.engs[h] = v.engs[h]
  <2>1. g \in DOMAIN E
    BY <1>6
  <2>2. /\ IsSeq(u.engs) /\ DOMAIN u.engs = DOMAIN E /\ Len(u.engs) = Len(E) /\ u.engs[g] = z
        /\ \A h \in DOMAIN E : h # g => u.engs[h] = E[h]
    BY ONLY <1>6, <1>11, <2>1, SeqExcept
  <2> QED BY <1>6, <2>2 DEF Gens
<1>16. Fids(u) = Fids(v) \cup {f} /\ f \notin Fids(v) /\ \A h \in Fids(v) : u.flows[h] = v.flows[h]
  <2>1. Fids(u) = 1 .. f /\ \A h \in Fids(v) : h \in 1 .. f /\ h # f
    BY <1>5, <1>14 DEF Fids
  <2> QED BY <1>5, <1>14, <2>1
<1> QED BY <1>4, <1>7, <1>9, <1>10, <1>12, <1>13, <1>14, <1>15, <1>16 DEF d, y, NewFlowDone

\* A new flow goes to the accept that waits longest, or waits itself.
LEMMA NewFlowKeeps ==
  ASSUME NEW v, FlowsInv(v), NEW g \in Gens(v), ~v.engs[g].closed, NEW k \in Keys,
         v.engs[g].table[k] = 0, Cardinality(Live(v, g)) < MaxTcpFlows,
         NEW u, u = new_flow(v, g, k)
  PROVE  FlowsInv(u) /\ Keeps(v, u) /\ SameSweeps(v, u) /\ Free(u) = Free(v)
<1> DEFINE e == v.engs[g]
           f == Len(v.flows) + 1
           x == u.flows[f]
           y == u.engs[g]
           B == e.waiters # <<>>
           i == Head(e.waiters)
<1>1. /\ Shape(v) /\ DOMAIN v = Fields /\ EngineOk(e) /\ IsSeq(v.flows) /\ IsSeq(v.engs)
      /\ IsSeq(v.accs) /\ e = v.engs[g] /\ f = Len(v.flows) + 1 /\ u = new_flow(v, g, k)
  BY DEF FlowsInv, Shape
<1>2. Fids(v) = 1 .. Len(v.flows) /\ Len(v.flows) \in Nat /\ f \in Nat /\ f # 0
      /\ \A b \in Fids(v) : b \in Nat /\ b < f
  BY <1>1, ShapeIs
<1> HIDE DEF e, f
<1>3. NewFlowDone(v, u, g, k, e, f)
  BY ONLY <1>1, g \in Gens(v), k \in Keys, NewFlowIs
<1>4. /\ TcpOnly(v, u) /\ u.conns = v.conns
      /\ IsSeq(u.flows) /\ Len(u.flows) = f /\ Fids(u) = Fids(v) \cup {f} /\ f \notin Fids(v)
      /\ \A h \in Fids(v) : u.flows[h] = v.flows[h]
      /\ IsSeq(u.engs) /\ Gens(u) = Gens(v) /\ Len(u.engs) = Len(v.engs)
      /\ \A h \in Gens(v) : h # g => u.engs[h] = v.engs[h]
  BY <1>3 DEF NewFlowDone
<1>5. B => /\ x = Accepted(Entered(g, k)) /\ y = Served(Keyed(e, k, f))
           /\ u.accs = Put(v.accs, i, Told(v.accs[i], "ok", f))
  BY <1>3 DEF NewFlowDone
<1>6. ~B => /\ x = Pending(Entered(g, k)) /\ y = Announced(Keyed(e, k, f), f) /\ u.accs = v.accs
  BY <1>3 DEF NewFlowDone
<1> HIDE DEF x, y
<1>7. /\ DOMAIN x = FlowFields /\ x.gen = g /\ x.key = k /\ x.st = "SYN_RCVD"
      /\ (B => x.accepted = TRUE /\ x.pending = FALSE)
      /\ (~B => x.accepted = FALSE /\ x.pending = TRUE)
  <2>1. CASE B
    BY <1>5, <2>1 DEF Accepted, Entered, FlowFields
  <2>2. CASE ~B
    BY <1>6, <2>2 DEF Pending, Entered, FlowFields
  <2> QED BY <2>1, <2>2
<1>8. /\ DOMAIN y = EngineFields /\ y.sweep = e.sweep /\ y.closed = e.closed /\ y.late = e.late
      /\ DOMAIN y.table = Keys /\ y.table[k] = f
      /\ \A h \in Keys : h # k => y.table[h] = e.table[h]
      /\ B => y.pend = e.pend /\ y.waiters = Tail(e.waiters)
      /\ ~B => y.pend = Add(e.pend, f) /\ y.waiters = e.waiters
  <2> DEFINE z == Keyed(e, k, f)
  <2>1. /\ DOMAIN z = EngineFields /\ z.sweep = e.sweep /\ z.closed = e.closed /\ z.late = e.late
        /\ DOMAIN z.table = Keys /\ z.table[k] = f /\ z.pend = e.pend /\ z.waiters = e.waiters
        /\ \A h \in Keys : h # k => z.table[h] = e.table[h]
    BY <1>1 DEF Keyed, EngineOk, EngineFields
  <2>2. B => y = Served(z)
    BY <1>5
  <2>3. ~B => y = Announced(z, f)
    BY <1>6
  <2> HIDE DEF z
  <2>4. CASE B
    BY <2>1, <2>2, <2>4 DEF Served, EngineFields
  <2>5. CASE ~B
    BY <2>1, <2>3, <2>5 DEF Announced, EngineFields
  <2> QED BY <2>4, <2>5
<1>9. /\ IsSeq(e.pend) /\ Rising(e.pend) /\ \A b \in ToSet(e.pend) : b < f
      /\ B => e.pend = <<>>
  <2>1. IsSeq(e.pend) /\ Rising(e.pend) /\ ToSet(e.pend) \subseteq Fids(v)
    BY <1>1, PendIs DEF FlowsInv
  <2>2. B => e.pend = <<>>
    BY <1>1 DEF FlowsInv, Lists
  <2> QED BY <1>2, <2>1, <2>2
<1>10. /\ IsSeq(y.pend) /\ Rising(y.pend) /\ (y.waiters # <<>> => y.pend = <<>>)
       /\ \A b : b \in ToSet(y.pend) <=> b \in ToSet(e.pend) \/ (~B /\ b = f)
  <2>1. CASE B
    BY <1>8, <1>9, <2>1
  <2>2. CASE ~B
    <3>1. y.waiters = <<>>
      BY <1>8, <2>2
    <3>2. IsSeq(y.pend) /\ Rising(y.pend) /\ ToSet(y.pend) = ToSet(e.pend) \cup {f}
      BY <1>8, <1>9, <2>2, RisingAdd
    <3> QED BY <2>2, <3>1, <3>2
  <2> QED BY <2>1, <2>2
<1>11. /\ IsSeq(y.waiters) /\ Distinct(y.waiters)
       /\ \A b : b \in ToSet(y.waiters) <=> b \in ToSet(e.waiters) /\ ~(B /\ b = i)
       /\ B => i \in ToSet(e.waiters)
  <2>1. IsSeq(e.waiters) /\ Distinct(e.waiters)
    BY <1>1 DEF EngineOk, FlowsInv, Waiters
  <2>2. CASE B
    <3>1. /\ IsSeq(y.waiters) /\ Distinct(y.waiters) /\ ToSet(y.waiters) = ToSet(e.waiters) \ {i}
          /\ i \in ToSet(e.waiters)
      BY <1>8, <2>1, <2>2, FirstLeaves
    <3> QED BY <2>2, <3>1
  <2>3. CASE ~B
    BY <1>8, <2>1, <2>3
  <2> QED BY <2>2, <2>3
<1>12. B => i \in Accs(v) /\ v.accs[i].st = "wait" /\ v.accs[i].gen = g /\ v.accs[i].times = 0
  BY <1>1, <1>11, SMTT(30) DEF FlowsInv, Waiters, Accepts
<1>13. /\ IsSeq(u.accs) /\ Accs(u) = Accs(v) /\ Len(u.accs) = Len(v.accs)
       /\ \A j \in Accs(v) : ~(B /\ j = i) => u.accs[j] = v.accs[j]
       /\ \A j \in Accs(v) : /\ u.accs[j].epoch = v.accs[j].epoch /\ u.accs[j].gen = v.accs[j].gen
                             /\ DOMAIN u.accs[j] = AccFields
       /\ B => u.accs[i].st = "ok" /\ u.accs[i].fid = f /\ u.accs[i].times = 1
  <2>1. CASE B
    <3> DEFINE q == v.accs
               r == u.accs
               st == "ok"
    <3>1. /\ IsSeq(q) /\ (\A j \in DOMAIN q : DOMAIN q[j] = AccFields) /\ i \in DOMAIN q
          /\ r = Put(q, i, Told(q[i], st, f))
      BY <1>1, <1>5, <1>12, <2>1 DEF Shape, Accs
    <3> HIDE DEF q, r, st, i
    <3>2. /\ IsSeq(r) /\ DOMAIN r = DOMAIN q /\ Len(r) = Len(q)
          /\ \A j \in DOMAIN q : j # i => r[j] = q[j]
          /\ \A j \in DOMAIN q : /\ r[j].epoch = q[j].epoch /\ r[j].gen = q[j].gen
                                 /\ DOMAIN r[j] = AccFields
          /\ r[i].st = st /\ r[i].fid = f /\ r[i].times = q[i].times + 1
      BY ONLY <3>1, ToldIs
    <3>3. r[i].times = 1
      BY <1>12, <2>1, <3>2 DEF q
    <3> QED BY <2>1, <3>2, <3>3 DEF q, r, st, Accs
  <2>2. CASE ~B
    BY <1>1, <1>6, <2>2 DEF Shape, Accs
  <2> QED BY <2>1, <2>2
<1> HIDE DEF i, B
<1>14. x = u.flows[f] /\ y = u.engs[g] /\ e = v.engs[g]
  BY <1>1 DEF x, y
<1>15. \A h : Live(u, h) = IF h = g THEN Live(v, h) \cup {f} ELSE Live(v, h)
  BY <1>4, <1>7, <1>14 DEF Live
<1>16. \A h \in Fids(v) : Unclaimed(u, h) <=> Unclaimed(v, h)
  BY <1>4 DEF Unclaimed
<1>17. Unclaimed(u, f) <=> ~B
  BY <1>7, <1>14 DEF Unclaimed
<1>18. Shape(u)
  <2>1. FlowOk(u, x)
    BY <1>4, <1>7 DEF FlowOk, FlowStates, HalfOpen
  <2>2. \A h \in Fids(u) : FlowOk(u, u.flows[h])
    BY <1>1, <1>4, <1>14, <2>1 DEF FlowOk, Shape
  <2>3. EngineOk(y)
    BY <1>8, <1>10, <1>11 DEF EngineOk
  <2>4. \A h \in Gens(v) : EngineOk(u.engs[h])
    BY <1>1, <1>4, <1>14, <2>3 DEF Shape
  <2>5. DOMAIN u = Fields
    BY <1>4 DEF TcpOnly
  <2> QED BY <1>4, <1>13, <2>2, <2>4, <2>5 DEF Shape
<1>19. Tables(u)
  <2>1. ASSUME NEW h \in Gens(u), NEW j \in Keys, u.engs[h].table[j] # 0
        PROVE  u.engs[h].table[j] \in Live(u, h) /\ u.flows[u.engs[h].table[j]].key = j
    <3>1. CASE h = g /\ j = k
      BY <1>4, <1>7, <1>8, <1>14, <1>15, <3>1
    <3>2. CASE ~(h = g /\ j = k)
      <4> DEFINE b == v.engs[h].table[j]
      <4>1. u.engs[h].table[j] = b /\ b # 0
        BY <1>4, <1>8, <1>14, <2>1, <3>2
      <4>2. b \in Live(v, h) /\ v.flows[b].key = j
        BY <1>4, <2>1, <4>1, SMTT(30) DEF FlowsInv, Tables
      <4>3. b \in Fids(v)
        BY <4>2 DEF Live
      <4> QED BY <1>4, <1>15, <4>1, <4>2, <4>3
    <3> QED BY <3>1, <3>2
  <2>2. ASSUME NEW h \in Fids(u), u.flows[h].st # "CLOSED"
        PROVE  u.engs[u.flows[h].gen].table[u.flows[h].key] = h
    <3>1. CASE h = f
      BY <1>7, <1>8, <1>14, <3>1
    <3>2. CASE h # f
      <4>1. h \in Fids(v) /\ u.flows[h] = v.flows[h]
        BY <1>4, <3>2
      <4>2. /\ v.engs[v.flows[h].gen].table[v.flows[h].key] = h /\ v.flows[h].gen \in Gens(v)
            /\ v.flows[h].key \in Keys /\ h # 0
        BY <1>1, <1>2, <2>2, <4>1, SMTT(30) DEF FlowsInv, Tables, Shape, FlowOk
      <4>3. ~(v.flows[h].gen = g /\ v.flows[h].key = k)
        BY <4>2
      <4> QED BY <1>4, <1>8, <1>14, <4>1, <4>2, <4>3, SMTT(30)
    <3> QED BY <3>1, <3>2
  <2> QED BY <2>1, <2>2 DEF Tables
<1>20. Lists(u)
  <2>1. ASSUME NEW h \in Gens(v)
        PROVE  /\ Rising(u.engs[h].pend)
               /\ \A b : b \in ToSet(u.engs[h].pend) <=> b \in Live(u, h) /\ Unclaimed(u, b)
               /\ u.engs[h].waiters # <<>> => u.engs[h].pend = <<>>
    <3>1. /\ Rising(v.engs[h].pend)
          /\ \A b : b \in ToSet(v.engs[h].pend) <=> b \in Live(v, h) /\ Unclaimed(v, b)
          /\ v.engs[h].waiters # <<>> => v.engs[h].pend = <<>>
          /\ \A b : b \in Live(v, h) => b \in Fids(v) /\ b # f
      BY <1>4 DEF FlowsInv, Lists, Live
    <3>2. CASE h = g
      <4>1. \A b : b \in ToSet(y.pend) <=> (b \in Live(v, g) /\ Unclaimed(v, b)) \/ (~B /\ b = f)
        BY <1>10, <1>14, <3>1, <3>2
      <4>2. ASSUME NEW b PROVE b \in ToSet(y.pend) <=> b \in Live(u, g) /\ Unclaimed(u, b)
        <5>1. CASE b = f
          <6>1. b \notin Live(v, g) /\ b \in Live(u, g)
            BY <1>15, <3>1, <3>2, <5>1
          <6> QED BY ONLY <1>17, <4>1, <5>1, <6>1
        <5>2. CASE b # f
          <6>1. b \in Live(u, g) <=> b \in Live(v, g)
            BY <1>15, <5>2
          <6>2. b \in Live(v, g) => (Unclaimed(u, b) <=> Unclaimed(v, b))
            BY <1>16, <3>1, <3>2
          <6> QED BY ONLY <4>1, <5>2, <6>1, <6>2
        <5> QED BY <5>1, <5>2
      <4> QED BY <1>10, <1>14, <3>2, <4>2
    <3>3. CASE h # g
      <4>1. u.engs[h] = v.engs[h] /\ Live(u, h) = Live(v, h)
        BY <1>4, <1>15, <3>3
      <4>2. \A b : b \in Live(v, h) => (Unclaimed(u, b) <=> Unclaimed(v, b))
        BY <1>16, <3>1
      <4> QED BY <3>1, <4>1, <4>2
    <3> QED BY <3>2, <3>3
  <2>2. \A h \in Fids(u) : /\ u.flows[h].pending <=> Unclaimed(u, h)
                           /\ Unclaimed(u, h) => u.flows[h].st = "SYN_RCVD"
    <3>1. \A h \in Fids(v) : /\ v.flows[h].pending <=> Unclaimed(v, h)
                             /\ Unclaimed(v, h) => v.flows[h].st = "SYN_RCVD"
      BY DEF FlowsInv, Lists
    <3>2. (u.flows[f].pending <=> Unclaimed(u, f)) /\ u.flows[f].st = "SYN_RCVD"
      BY <1>7, <1>14, <1>17
    <3> QED BY ONLY <1>4, <1>16, <3>1, <3>2
  <2> QED BY <1>4, <2>1, <2>2 DEF Lists
<1>21. Waiters(u)
  <2>1. ASSUME NEW h \in Gens(v) PROVE Distinct(u.engs[h].waiters)
    BY <1>4, <1>11, <1>14 DEF FlowsInv, Waiters
  <2>2. ASSUME NEW h \in Gens(v), NEW j \in ToSet(u.engs[h].waiters)
        PROVE  j \in Accs(v) /\ u.accs[j].st = "wait" /\ u.accs[j].gen = h
    <3>1. j \in ToSet(v.engs[h].waiters) /\ ~(B /\ h = g /\ j = i)
      BY <1>4, <1>11, <1>14, <2>2
    <3>2. j \in Accs(v) /\ v.accs[j].st = "wait" /\ v.accs[j].gen = h
      BY <3>1 DEF FlowsInv, Waiters
    <3>3. ~(B /\ j = i)
      BY <1>12, <3>1, <3>2
    <3> QED BY <1>13, <3>2, <3>3
  <2> QED BY ONLY <1>4, <1>13, <2>1, <2>2 DEF Waiters
<1>22. Accepts(u)
  <2>1. /\ \A j \in Accs(v) :
             /\ v.accs[j].times = IF v.accs[j].st = "wait" THEN 0 ELSE 1
             /\ Has1(v, j) => /\ v.accs[j].fid \in Fids(v) /\ v.flows[v.accs[j].fid].accepted
                              /\ v.flows[v.accs[j].fid].gen = v.accs[j].gen
        /\ \A j, h \in Accs(v) :
             Has1(v, j) /\ Has1(v, h) /\ v.accs[j].fid = v.accs[h].fid => j = h
    BY DEF FlowsInv, Accepts
  <2>2. \A j \in Accs(v) : ~(B /\ j = i) => (Has1(u, j) <=> Has1(v, j)) /\ u.accs[j] = v.accs[j]
    BY <1>13 DEF Has1
  <2>3. \A j \in Accs(v) : Has1(v, j) => v.accs[j].fid # f
    BY <1>4, <2>1
  <2>4. ASSUME NEW j \in Accs(v)
        PROVE  /\ u.accs[j].times = IF u.accs[j].st = "wait" THEN 0 ELSE 1
               /\ Has1(u, j) => /\ u.accs[j].fid \in Fids(u) /\ u.flows[u.accs[j].fid].accepted
                                /\ u.flows[u.accs[j].fid].gen = u.accs[j].gen
    <3>1. CASE B /\ j = i
      BY <1>4, <1>7, <1>12, <1>13, <1>14, <3>1, SMTT(30)
    <3>2. CASE ~(B /\ j = i)
      BY <1>4, <2>1, <2>2, <3>2, SMTT(30)
    <3> QED BY <3>1, <3>2
  <2>5. ASSUME NEW j \in Accs(v), NEW h \in Accs(v), Has1(u, j), Has1(u, h),
               u.accs[j].fid = u.accs[h].fid
        PROVE  j = h
    <3>1. CASE B /\ (j = i \/ h = i)
      <4>1. u.accs[i].fid = f
        BY <1>13, <3>1
      <4> QED BY <2>2, <2>3, <2>5, <3>1, <4>1
    <3>2. CASE ~(B /\ (j = i \/ h = i))
      BY <2>1, <2>2, <2>5, <3>2
    <3> QED BY <3>1, <3>2
  <2> QED BY ONLY <1>13, <2>4, <2>5 DEF Accepts
<1>23. Counts(u)
  <2>1. Connected(u) = Connected(v)
    BY <1>4, <1>7, <1>14 DEF Connected, HalfOpen
  <2>2. ASSUME NEW h \in Gens(v) PROVE Cardinality(Live(u, h)) <= MaxTcpFlows
    <3>1. IsFiniteSet(Live(v, h)) /\ Cardinality(Live(v, h)) \in Nat
          /\ Cardinality(Live(v, h)) <= MaxTcpFlows
      BY <1>1, LiveIs DEF FlowsInv, Counts
    <3>2. CASE h = g
      <4>1. f \notin Live(v, g) /\ Live(u, g) = Live(v, g) \cup {f}
        BY <1>4, <1>15 DEF Live
      <4>2. Cardinality(Live(u, g)) = Cardinality(Live(v, g)) + 1
        BY <3>1, <3>2, <4>1, FS_AddElement, ZenonT(40)
      <4> QED BY <3>1, <3>2, <4>2, AcceptAssumption
    <3>3. CASE h # g
      BY <1>15, <3>1, <3>3
    <3> QED BY <3>2, <3>3
  <2> QED BY <1>4, <2>1, <2>2 DEF FlowsInv, Counts
<1>24. SameSweeps(v, u)
  BY <1>4, <1>8, <1>14 DEF SameSweeps
<1>25. Closings(u)
  <2>1. ~u.engs[g].closed
    BY <1>1, <1>8, <1>14
  <2>2. \A h \in Gens(v) : h # g => u.engs[h] = v.engs[h] /\ Live(u, h) = Live(v, h)
    BY <1>4, <1>15
  <2> QED BY <1>4, <2>1, <2>2 DEF FlowsInv, Closings
<1>26. Keeps(v, u)
  BY ONLY <1>1, <1>2, <1>4, <1>13 DEF Keeps
<1>27. Free(u) = Free(v)
  <2>1. ASSUME NEW j \in Accs(v) PROVE j \in Free(u) <=> j \in Free(v)
    <3>1. CASE B /\ j = i
      <4>1. j \notin Free(v)
        BY <1>11, <1>14, <3>1 DEF Free
      <4>2. j \notin Free(u)
        BY <1>13, <3>1 DEF Free
      <4> QED BY <4>1, <4>2
    <3>2. CASE ~(B /\ j = i)
      <4>1. u.accs[j] = v.accs[j]
        BY <1>13, <3>2
      <4>2. \A h \in Gens(v) : j \in ToSet(u.engs[h].waiters) <=> j \in ToSet(v.engs[h].waiters)
        BY <1>4, <1>11, <1>14, <3>2
      <4> QED BY <1>4, <1>13, <4>1, <4>2 DEF Free
    <3> QED BY <3>1, <3>2
  <2>2. Free(u) \subseteq Accs(v) /\ Free(v) \subseteq Accs(v)
    BY <1>13 DEF Free
  <2> QED BY <2>1, <2>2
<1> QED BY <1>18, <1>19, <1>20, <1>21, <1>22, <1>23, <1>24, <1>25, <1>26, <1>27 DEF FlowsInv

-----------------------------------------------------------------------------
(***************************************************************************)
(* The loops keep them too.                                                *)
(***************************************************************************)

\* The loop of cancel_accepts.
Unwaited(v, g) == [v EXCEPT !.engs[g].waiters = <<>>]

\* cancel_accepts as a run of steps, one for each accept that waited.
LEMMA CancelLoop ==
  ASSUME NEW v, NEW g, NEW q, q = v.engs[g].waiters, NEW L \in Nat, L = Len(q)
  PROVE  \E h : /\ h[0] = Unwaited(v, g) /\ h[L] = cancel_accepts(v, g)
                /\ \A n \in 1 .. L : h[n] = post_accept(h[n - 1], q[n], "aborted", 0)
<1> DEFINE b == Unwaited(v, g)
           Is(z) == z = [n \in 0 .. L |-> IF n = 0 THEN b
                                          ELSE post_accept(z[n - 1], q[n], "aborted", 0)]
           h == CHOOSE z : Is(z)
<1>1. PICK z : RunsOf("abort", b, q, z, L)
  BY LoopExists
<1>2. \A n \in 0 .. L : n = 0 \/ n \in 1 .. L
  OBVIOUS
<1>3. Is(z)
  <2>1. \A n \in 1 .. L : z[n] = post_accept(z[n - 1], q[n], "aborted", 0)
    BY <1>1 DEF RunsOf, Round
  <2> HIDE DEF b
  <2>2. \A n \in 0 .. L : z[n] = IF n = 0 THEN b ELSE post_accept(z[n - 1], q[n], "aborted", 0)
    BY <1>1, <1>2, <2>1 DEF RunsOf
  <2> QED BY <1>1, <2>2 DEF RunsOf
<1>4. Is(h)
  <2> HIDE DEF Is
  <2> QED BY <1>3
<1>5. cancel_accepts(v, g) = h[L]
  BY DEF cancel_accepts, Unwaited
<1> HIDE DEF h, b
<1>6. h[0] = b /\ \A n \in 1 .. L : h[n] = post_accept(h[n - 1], q[n], "aborted", 0)
  <2>1. 0 \in 0 .. L /\ \A n \in 1 .. L : n \in 0 .. L /\ n # 0
    OBVIOUS
  <2> QED BY <1>4, <2>1
<1> QED BY <1>5, <1>6 DEF b

\* The list is emptied before the first of them is told.
Emptied(e) == [e EXCEPT !.waiters = <<>>]

\* The accepts that waited are then on their way to be told.
LEMMA UnwaitedKeeps ==
  ASSUME NEW v, NEW g \in Gens(v), FlowsBut(v, g), NEW u, u = Unwaited(v, g)
  PROVE  /\ FlowsInv(u) /\ Keeps(v, u) /\ SameSweeps(v, u)
         /\ u.flows = v.flows /\ u.engs = Put(v.engs, g, Emptied(v.engs[g]))
         /\ Free(u) = Free(v) \cup ToSet(v.engs[g].waiters)
<1> DEFINE e == v.engs[g]
           y == Emptied(e)
<1>1. /\ DOMAIN v = Fields /\ EngineOk(e) /\ e = v.engs[g]
  BY DEF FlowsBut, Shape
<1>2. u = [v EXCEPT !.engs = Put(v.engs, g, y)]
  BY DEF Unwaited, Emptied, Put
<1> HIDE DEF y, e
<1>3. /\ TcpOnly(v, u) /\ u.flows = v.flows /\ u.accs = v.accs /\ u.conns = v.conns
      /\ u.engs = Put(v.engs, g, y)
  BY <1>1, <1>2 DEF Fields, TcpOnly, SameDevice, SameLife
<1>4. /\ DOMAIN y = EngineFields /\ y.table = e.table /\ y.pend = e.pend /\ y.waiters = <<>>
      /\ y.sweep = e.sweep /\ y.closed = e.closed /\ y.late = e.late
      /\ IsSeq(y.pend) /\ IsSeq(y.waiters)
  BY <1>1, SeqEmpty DEF Emptied, EngineOk, EngineFields, y
<1>5. /\ Shape(u) /\ Tables(u) /\ Counts(u) /\ Accepts(u) /\ Keeps(v, u)
      /\ Fids(u) = Fids(v) /\ Gens(u) = Gens(v) /\ Accs(u) = Accs(v) /\ u.engs[g] = y
      /\ \A h \in Gens(v) : h # g => u.engs[h] = v.engs[h]
      /\ \A h \in Gens(v) : Live(u, h) = Live(v, h)
      /\ \A f \in Fids(v) : Unclaimed(u, f) <=> Unclaimed(v, f)
  BY <1>1, <1>3, <1>4, EngineOnly
<1>6. ASSUME NEW h \in Gens(v)
      PROVE  /\ u.engs[h].pend = v.engs[h].pend
             /\ u.engs[h].waiters = IF h = g THEN <<>> ELSE v.engs[h].waiters
             /\ u.engs[h].sweep = v.engs[h].sweep /\ u.engs[h].closed = v.engs[h].closed
             /\ u.engs[h].late = v.engs[h].late
  BY <1>1, <1>4, <1>5
<1>7. Lists(u)
  <2>1. \A h \in Gens(v) : \A f : f \in Live(v, h) => (Unclaimed(u, f) <=> Unclaimed(v, f))
    BY <1>5 DEF Live
  <2>2. ASSUME NEW h \in Gens(v)
        PROVE  /\ Rising(u.engs[h].pend)
               /\ \A f : f \in ToSet(u.engs[h].pend) <=> f \in Live(u, h) /\ Unclaimed(u, f)
               /\ u.engs[h].waiters # <<>> => u.engs[h].pend = <<>>
    <3>1. /\ Rising(v.engs[h].pend)
          /\ \A f : f \in ToSet(v.engs[h].pend) <=> f \in Live(v, h) /\ Unclaimed(v, f)
          /\ v.engs[h].waiters # <<>> => v.engs[h].pend = <<>>
      BY DEF FlowsBut, Lists
    <3> QED BY <1>5, <1>6, <2>1, <3>1
  <2>3. \A f \in Fids(v) : /\ u.flows[f].pending <=> Unclaimed(u, f)
                           /\ Unclaimed(u, f) => u.flows[f].st = "SYN_RCVD"
    <3>1. \A f \in Fids(v) : /\ v.flows[f].pending <=> Unclaimed(v, f)
                             /\ Unclaimed(v, f) => v.flows[f].st = "SYN_RCVD"
      BY DEF FlowsBut, Lists
    <3> QED BY <1>3, <1>5, <3>1
  <2> QED BY <1>5, <2>2, <2>3 DEF Lists
<1>8. Waiters(u)
  <2>1. \A h \in Gens(v) : Distinct(u.engs[h].waiters)
                           /\ ToSet(u.engs[h].waiters) \subseteq ToSet(v.engs[h].waiters)
    <3>1. Distinct(<<>>) /\ ToSet(<<>>) = {}
      BY SeqEmpty, SeqIs DEF Distinct
    <3>2. \A h \in Gens(v) : Distinct(v.engs[h].waiters)
      BY DEF FlowsBut, Waiters
    <3> QED BY <1>6, <3>1, <3>2
  <2> QED BY <1>3, <1>5, <2>1 DEF FlowsBut, Waiters
<1>9. SameSweeps(v, u)
  BY <1>6 DEF SameSweeps
<1>10. Closings(u)
  BY <1>5, <1>6 DEF FlowsBut, Closings
<1>11. Free(u) = Free(v) \cup ToSet(e.waiters)
  <2>1. \A i \in ToSet(e.waiters) : i \in Accs(v) /\ v.accs[i].st = "wait" /\ v.accs[i].gen = g
    BY <1>1 DEF FlowsBut, Waiters
  <2>2. ASSUME NEW i PROVE i \in Free(u) <=> i \in Free(v) \/ i \in ToSet(e.waiters)
    <3>1. CASE i \in ToSet(e.waiters)
      <4>1. i \in Accs(v) /\ v.accs[i].st = "wait" /\ v.accs[i].gen = g
        BY <2>1, <3>1
      <4>2. ASSUME NEW h \in Gens(v) PROVE i \notin ToSet(u.engs[h].waiters)
        <5>1. CASE h = g
          BY <1>6, <5>1, SeqEmpty
        <5>2. CASE h # g
          <6>1. i \notin ToSet(v.engs[h].waiters)
            BY <4>1, <5>2 DEF FlowsBut, Waiters
          <6> QED BY <1>6, <5>2, <6>1
        <5> QED BY <5>1, <5>2
      <4> QED BY <1>3, <1>5, <3>1, <4>1, <4>2 DEF Free
    <3>2. CASE i \notin ToSet(e.waiters)
      <4>1. \A h \in Gens(v) : i \in ToSet(u.engs[h].waiters) <=> i \in ToSet(v.engs[h].waiters)
        BY <1>1, <1>6, <3>2, SeqEmpty
      <4> QED BY <1>3, <1>5, <3>2, <4>1 DEF Free
    <3> QED BY <3>1, <3>2
  <2> QED BY <2>2
<1> QED BY <1>1, <1>3, <1>5, <1>7, <1>8, <1>9, <1>10, <1>11 DEF FlowsInv, y

\* cancel_accepts: all of them are told.
Cancelled(v, u, g) ==
  /\ FlowsInv(u) /\ Keeps(v, u) /\ SameSweeps(v, u) /\ Free(u) = Free(v)
  /\ u.flows = v.flows /\ u.engs = Put(v.engs, g, Emptied(v.engs[g]))

\* cancel_accepts leaves nobody waiting, and keeps the rest.
LEMMA CancelKeeps ==
  ASSUME NEW v, NEW g \in Gens(v), FlowsBut(v, g), NEW u, u = cancel_accepts(v, g)
  PROVE  Cancelled(v, u, g)
<1> DEFINE q == v.engs[g].waiters
           L == Len(q)
           b == Unwaited(v, g)
<1>1. IsSeq(q) /\ Distinct(q) /\ ToSet(q) \subseteq Accs(v)
  BY DEF FlowsBut, Shape, EngineOk, Waiters
<1>2. L \in Nat /\ DOMAIN q = 1 .. L
  BY <1>1, SeqIs
<1>3. q = v.engs[g].waiters /\ L = Len(q)
  OBVIOUS
<1> HIDE DEF q, L
<1>4. PICK h : /\ h[0] = b /\ h[L] = cancel_accepts(v, g)
               /\ \A n \in 1 .. L : h[n] = post_accept(h[n - 1], q[n], "aborted", 0)
  BY ONLY <1>2, <1>3, CancelLoop
<1>5. /\ FlowsInv(b) /\ Keeps(v, b) /\ SameSweeps(v, b)
      /\ b.flows = v.flows /\ b.engs = Put(v.engs, g, Emptied(v.engs[g]))
      /\ Free(b) = Free(v) \cup ToSet(q)
  BY <1>3, UnwaitedKeeps
<1> HIDE DEF b
<1> DEFINE Left(n) == Free(b) \ {q[j] : j \in 1 .. n}
           Good(x, n) == /\ FlowsInv(x) /\ Keeps(b, x) /\ SameSweeps(b, x) /\ Free(x) = Left(n)
                         /\ x.flows = b.flows /\ x.engs = b.engs
           S == {n \in Nat : n <= L => Good(h[n], n)}
<1>6. 0 \in S
  <2>1. Left(0) = Free(b)
    OBVIOUS
  <2>2. Keeps(b, b) /\ SameSweeps(b, b)
    BY <1>5, KeepsSelf DEF FlowsInv
  <2> HIDE DEF Left
  <2> QED BY <1>4, <1>5, <2>1, <2>2
<1>7. ASSUME NEW n \in Nat, n \in S PROVE n + 1 \in S
  <2> SUFFICES ASSUME n + 1 <= L PROVE Good(h[n + 1], n + 1)
    OBVIOUS
  <2> DEFINE x == h[n]
             z == h[n + 1]
             i == q[n + 1]
             st == "aborted"
  <2>1. n <= L /\ n + 1 \in 1 .. L /\ (n + 1) - 1 = n
    BY <1>2
  <2>2. Good(x, n) /\ z = post_accept(x, i, st, 0)
    BY <1>4, <1>7, <2>1
  <2>3. i \in Left(n)
    <3>1. i \in ToSet(q)
      BY <1>2, <2>1 DEF ToSet
    <3>2. \A j \in 1 .. n : q[j] # i
      BY <1>1, <1>2, <2>1 DEF Distinct
    <3> QED BY <1>5, <3>1, <3>2
  <2>4. Left(n + 1) = Left(n) \ {i}
    <3>1. 1 .. n + 1 = (1 .. n) \cup {n + 1}
      OBVIOUS
    <3> QED BY <3>1
  <2>5. st \notin {"wait", "ok"}
    OBVIOUS
  <2> HIDE DEF Left, x, z, i, st
  <2>6. /\ FlowsInv(z) /\ Keeps(x, z) /\ SameSweeps(x, z) /\ Free(z) = Free(x) \ {i}
        /\ z.engs = x.engs /\ z.flows = x.flows
    BY <2>2, <2>3, <2>5, PostKeeps
  <2>7. Keeps(b, z)
    BY <1>5, <2>2, <2>6, KeepsTrans DEF FlowsInv
  <2>8. SameSweeps(b, z)
    BY <2>2, <2>6 DEF SameSweeps
  <2> QED BY <2>2, <2>4, <2>6, <2>7, <2>8 DEF z
<1>8. L \in S
  <2>1. Nat \subseteq S
    <3> HIDE DEF S
    <3> QED BY <1>6, <1>7, NatBySet
  <2> HIDE DEF S
  <2> QED BY <1>2, <2>1
<1>9. Good(u, L)
  <2> HIDE DEF Good
  <2> QED BY <1>2, <1>4, <1>8
<1>10. Left(L) = Free(v)
  <2>1. {q[j] : j \in 1 .. L} = ToSet(q)
    BY <1>2 DEF ToSet
  <2>2. Free(v) \cap ToSet(q) = {}
    BY <1>3 DEF Free
  <2> QED BY <1>5, <2>1, <2>2
<1> HIDE DEF Left
<1>11. Keeps(v, u)
  BY <1>5, <1>9, KeepsTrans DEF FlowsInv, FlowsBut
<1>12. SameSweeps(v, u)
  <2>1. u.engs = b.engs
    BY <1>9
  <2> QED BY <1>5, <2>1 DEF SameSweeps
<1> QED BY <1>5, <1>9, <1>10, <1>11, <1>12 DEF Cancelled

\* The loop of close_flows.
LEMMA CloseFlowsLoop ==
  ASSUME NEW v, NEW S, NEW L \in Nat, L = Len(v.flows)
  PROVE  \E h : /\ h[0] = v /\ h[L] = close_flows(v, S)
                /\ \A n \in 1 .. L : h[n] = IF n \in S THEN close_flow(h[n - 1], n) ELSE h[n - 1]
<1> DEFINE Is(z) == z = [n \in 0 .. L |-> IF n = 0 THEN v
                           ELSE IF n \in S THEN close_flow(z[n - 1], n) ELSE z[n - 1]]
           h == CHOOSE z : Is(z)
<1>1. PICK z : RunsOf("close", v, S, z, L)
  BY LoopExists
<1>2. \A n \in 0 .. L : n = 0 \/ n \in 1 .. L
  OBVIOUS
<1>3. Is(z)
  <2>1. \A n \in 1 .. L : z[n] = IF n \in S THEN close_flow(z[n - 1], n) ELSE z[n - 1]
    BY <1>1 DEF RunsOf, Round
  <2>2. \A n \in 0 .. L : z[n] = IF n = 0 THEN v
                           ELSE IF n \in S THEN close_flow(z[n - 1], n) ELSE z[n - 1]
    BY <1>1, <1>2, <2>1 DEF RunsOf
  <2> QED BY <1>1, <2>2 DEF RunsOf
<1>4. Is(h)
  <2> HIDE DEF Is
  <2> QED BY <1>3
<1>5. close_flows(v, S) = h[L]
  BY DEF close_flows
<1> HIDE DEF h
<1>6. h[0] = v /\ \A n \in 1 .. L : h[n] = IF n \in S THEN close_flow(h[n - 1], n) ELSE h[n - 1]
  <2>1. 0 \in 0 .. L /\ \A n \in 1 .. L : n \in 0 .. L /\ n # 0
    OBVIOUS
  <2> QED BY <1>4, <2>1
<1> QED BY <1>5, <1>6

\* close_flows: the flows of S are closed, the others are as they were.
Swept(v, u, S) ==
  /\ FlowsInv(u) /\ Keeps(v, u) /\ SameSweeps(v, u) /\ u.accs = v.accs
  /\ Fids(u) = Fids(v) /\ \A g \in Gens(v) : u.engs[g].waiters = v.engs[g].waiters
  /\ \A f \in Fids(v) : /\ f \notin S => u.flows[f] = v.flows[f]
                        /\ f \in S => u.flows[f].st = "CLOSED" /\ u.flows[f].gen = v.flows[f].gen

\* The loop over flows, by induction on its steps.
LEMMA CloseFlowsKeeps ==
  ASSUME NEW v, FlowsInv(v), NEW S, NEW u, u = close_flows(v, S)
  PROVE  Swept(v, u, S)
<1> DEFINE L == Len(v.flows)
<1>1. Shape(v) /\ L \in Nat /\ Fids(v) = 1 .. L
  BY ShapeIs DEF FlowsInv
<1> HIDE DEF L
<1>2. PICK h : /\ h[0] = v /\ h[L] = close_flows(v, S)
               /\ \A n \in 1 .. L : h[n] = IF n \in S THEN close_flow(h[n - 1], n) ELSE h[n - 1]
  BY <1>1, CloseFlowsLoop DEF L
<1> DEFINE To(n) == {f \in S : f \in 1 .. n}
           T == {n \in Nat : n <= L => Swept(v, h[n], To(n))}
<1>3. 0 \in T
  <2>1. To(0) = {}
    OBVIOUS
  <2>2. Swept(v, v, To(0))
    <3> HIDE DEF To
    <3> QED BY <1>1, <2>1, KeepsSelf DEF Swept
  <2> HIDE DEF To
  <2> QED BY <1>2, <2>2
<1>4. ASSUME NEW n \in Nat, n \in T PROVE n + 1 \in T
  <2> SUFFICES ASSUME n + 1 <= L PROVE Swept(v, h[n + 1], To(n + 1))
    OBVIOUS
  <2> DEFINE x == h[n]
             z == h[n + 1]
             m == n + 1
  <2>1. n <= L /\ m \in 1 .. L /\ m - 1 = n
    BY <1>1
  <2>2. Swept(v, x, To(n)) /\ z = IF m \in S THEN close_flow(x, m) ELSE x
    BY <1>2, <1>4, <2>1
  <2>3. \A f : f \in To(m) <=> f \in To(n) \/ (m \in S /\ f = m)
    OBVIOUS
  <2>4. m \notin To(n)
    OBVIOUS
  <2> HIDE DEF To, x, z, m
  <2>5. FlowsInv(x) /\ Fids(x) = Fids(v) /\ m \in Fids(v) /\ Gens(x) = Gens(v)
    <3>1. Gens(x) = Gens(v)
      BY <1>1, <2>2, ShapeIs DEF Swept, FlowsInv, Keeps
    <3> QED BY <1>1, <2>1, <2>2, <3>1 DEF Swept
  <2>6. CASE m \in S
    <3>1. Closed1(x, z, m)
      BY <2>2, <2>5, <2>6, CloseFlowKeeps
    <3>2. Keeps(v, z)
      BY <1>1, <2>2, <2>5, <3>1, KeepsTrans DEF Swept, Closed1, FlowsInv
    <3>3. SameSweeps(v, z)
      BY <2>2, <2>5, <3>1 DEF Swept, Closed1, SameSweeps
    <3>4. ASSUME NEW f \in Fids(v)
          PROVE  /\ f \notin To(m) => z.flows[f] = v.flows[f]
                 /\ f \in To(m) => z.flows[f].st = "CLOSED" /\ z.flows[f].gen = v.flows[f].gen
      <4>1. CASE f = m
        <5>1. z.flows[f].st = "CLOSED" /\ z.flows[f].gen = x.flows[f].gen
          BY <3>1, <4>1 DEF Closed1
        <5>2. x.flows[f].gen = v.flows[f].gen
          BY <2>2, <2>4, <4>1 DEF Swept
        <5> QED BY <2>3, <2>6, <4>1, <5>1, <5>2
      <4>2. CASE f # m
        <5>1. z.flows[f] = x.flows[f]
          BY <2>5, <3>1, <4>2 DEF Closed1
        <5> QED BY <2>2, <2>3, <4>2, <5>1 DEF Swept
      <4> QED BY <4>1, <4>2
    <3>5. z.accs = v.accs /\ Fids(z) = Fids(v) /\ FlowsInv(z)
          /\ \A g \in Gens(v) : z.engs[g].waiters = v.engs[g].waiters
      BY <2>2, <2>5, <3>1 DEF Swept, Closed1
    <3> QED BY <3>2, <3>3, <3>4, <3>5 DEF Swept, z, m
  <2>7. CASE m \notin S
    <3>1. \A f : f \in To(m) <=> f \in To(n)
      BY <2>3, <2>7
    <3> QED BY <2>2, <2>7, <3>1 DEF Swept, z, m
  <2> QED BY <2>6, <2>7
<1>5. L \in T
  <2>1. Nat \subseteq T
    <3> HIDE DEF T
    <3> QED BY <1>3, <1>4, NatBySet
  <2> HIDE DEF T
  <2> QED BY <1>1, <2>1
<1>6. \A f \in Fids(v) : f \in To(L) <=> f \in S
  BY <1>1
<1>7. Swept(v, u, To(L))
  <2> HIDE DEF To
  <2> QED BY <1>1, <1>2, <1>5
<1> HIDE DEF To
<1> QED BY <1>6, <1>7 DEF Swept

\* What close_all writes of its engine once its flows are closed.
Ended(e) ==
  [e EXCEPT !.pend = <<>>, !.closed = TRUE, !.late = e.late \/ e.sweep = "queued",
            !.sweep = IF e.sweep = "armed" THEN "none" ELSE e.sweep]

\* close_all: nothing of the engine is left; its sweep may be on its way.
AllClosed(v, u, g) ==
  /\ FlowsInv(u) /\ Keeps(v, u) /\ Free(u) = Free(v) /\ u.engs[g].closed /\ Live(u, g) = {}
  /\ u.engs[g].sweep = IF v.engs[g].sweep = "armed" THEN "none" ELSE v.engs[g].sweep
  /\ v.engs[g].sweep = "queued" => u.engs[g].late
  /\ v.engs[g].late => u.engs[g].late
  /\ \A h \in Gens(v) : h # g =>
       /\ u.engs[h].sweep = v.engs[h].sweep /\ u.engs[h].closed = v.engs[h].closed
       /\ u.engs[h].late = v.engs[h].late

\* close_all keeps the flows of other engines.
LEMMA CloseAllKeeps ==
  ASSUME NEW v, FlowsInv(v), NEW g \in Gens(v),
         v.engs[g].sweep \in {"none", "armed", "queued"},
         NEW u, u = close_all(v, g)
  PROVE  AllClosed(v, u, g)
<1> DEFINE I == InTable(v, g)
           c == close_flows(v, I)
           e == c.engs[g]
           y == Ended(e)
           b == [c EXCEPT !.engs = Put(c.engs, g, y)]
<1>1. Swept(v, c, I)
  BY CloseFlowsKeeps
<1>2. I = Live(v, g)
  BY LiveIs DEF FlowsInv
<1>3. u = cancel_accepts(b, g)
  BY DEF close_all, Ended, Put
<1> HIDE DEF I, c
<1>4. FlowsInv(c) /\ Keeps(v, c) /\ SameSweeps(v, c) /\ c.accs = v.accs /\ Gens(c) = Gens(v)
      /\ \A h \in Gens(v) : c.engs[h].waiters = v.engs[h].waiters
  <2>1. FlowsInv(c) /\ Keeps(v, c) /\ SameSweeps(v, c) /\ c.accs = v.accs
        /\ \A h \in Gens(v) : c.engs[h].waiters = v.engs[h].waiters
    BY <1>1 DEF Swept
  <2>2. Gens(c) = Gens(v)
    BY <2>1, ShapeIs DEF FlowsInv, Keeps
  <2> QED BY <2>1, <2>2
<1>5. Live(c, g) = {}
  <2>1. ASSUME NEW f \in Live(c, g) PROVE FALSE
    <3>1. f \in Fids(v) /\ c.flows[f].gen = g /\ c.flows[f].st # "CLOSED"
      BY <1>1 DEF Swept, Live
    <3>2. f \notin I /\ c.flows[f] = v.flows[f]
      BY <1>1, <3>1 DEF Swept
    <3> QED BY <1>2, <3>1, <3>2 DEF Live
  <2> QED BY <2>1
<1>6. DOMAIN c = Fields /\ EngineOk(e)
  BY <1>4 DEF FlowsInv, Shape
<1> HIDE DEF e, y
<1>7. /\ TcpOnly(c, b) /\ b.flows = c.flows /\ b.accs = c.accs /\ b.conns = c.conns
      /\ b.engs = Put(c.engs, g, y)
  BY <1>6 DEF Fields, TcpOnly, SameDevice, SameLife
<1> HIDE DEF b
<1>8. /\ DOMAIN y = EngineFields /\ y.table = e.table /\ y.pend = <<>> /\ y.waiters = e.waiters
      /\ y.closed = TRUE /\ IsSeq(y.pend) /\ IsSeq(y.waiters)
      /\ y.sweep = (IF e.sweep = "armed" THEN "none" ELSE e.sweep)
      /\ (e.sweep = "queued" => y.late) /\ (e.late => y.late)
  <2>1. y = Ended(e)
    BY DEF y
  <2> QED BY <1>6, <2>1, SeqEmpty DEF Ended, EngineOk, EngineFields
<1>9. e = c.engs[g] /\ g \in Gens(c)
  BY <1>4 DEF e
<1>10. /\ Shape(b) /\ Tables(b) /\ Counts(b) /\ Accepts(b) /\ Keeps(c, b)
       /\ Fids(b) = Fids(c) /\ Gens(b) = Gens(c) /\ Accs(b) = Accs(c) /\ b.engs[g] = y
       /\ \A h \in Gens(c) : h # g => b.engs[h] = c.engs[h]
       /\ \A h \in Gens(c) : Live(b, h) = Live(c, h)
       /\ \A f \in Fids(c) : Unclaimed(b, f) <=> Unclaimed(c, f)
  BY <1>4, <1>7, <1>8, <1>9, ButIs, EngineOnly
<1>11. Lists(b)
  <2>1. ASSUME NEW h \in Gens(c)
        PROVE  /\ Rising(b.engs[h].pend)
               /\ \A f : f \in ToSet(b.engs[h].pend) <=> f \in Live(b, h) /\ Unclaimed(b, f)
               /\ b.engs[h].waiters # <<>> => b.engs[h].pend = <<>>
    <3>1. CASE h = g
      <4>1. Rising(<<>>) /\ ToSet(<<>>) = {}
        BY SeqEmpty, SeqIs DEF Rising
      <4> QED BY <1>5, <1>8, <1>9, <1>10, <3>1, <4>1
    <3>2. CASE h # g
      <4>1. b.engs[h] = c.engs[h] /\ Live(b, h) = Live(c, h)
            /\ \A f \in Live(c, h) : Unclaimed(b, f) <=> Unclaimed(c, f)
        BY <1>10, <3>2 DEF Live
      <4>2. /\ Rising(c.engs[h].pend)
            /\ \A f : f \in ToSet(c.engs[h].pend) <=> f \in Live(c, h) /\ Unclaimed(c, f)
            /\ c.engs[h].waiters # <<>> => c.engs[h].pend = <<>>
        BY <1>4 DEF FlowsInv, Lists
      <4> QED BY <4>1, <4>2
    <3> QED BY <3>1, <3>2
  <2>2. \A f \in Fids(c) : /\ b.flows[f].pending <=> Unclaimed(b, f)
                           /\ Unclaimed(b, f) => b.flows[f].st = "SYN_RCVD"
    <3>1. \A f \in Fids(c) : /\ c.flows[f].pending <=> Unclaimed(c, f)
                             /\ Unclaimed(c, f) => c.flows[f].st = "SYN_RCVD"
      BY <1>4 DEF FlowsInv, Lists
    <3> QED BY <1>7, <1>10, <3>1
  <2> QED BY <1>10, <2>1, <2>2 DEF Lists
<1>12. \A h \in Gens(c) : b.engs[h].waiters = c.engs[h].waiters
  BY <1>8, <1>9, <1>10
<1>13. Waiters(b)
  BY <1>4, <1>7, <1>10, <1>12 DEF FlowsInv, Waiters
<1>14. /\ e.sweep = v.engs[g].sweep /\ e.closed = v.engs[g].closed /\ e.late = v.engs[g].late
       /\ e.sweep \in {"none", "armed", "queued"}
  BY <1>4, <1>9 DEF SameSweeps
<1>15. Free(b) = Free(v)
  <2>1. Free(c) = Free(v)
    BY <1>4, FreeSame
  <2>2. Free(b) = Free(c)
    BY <1>7, <1>10, <1>12, FreeSame
  <2> QED BY <2>1, <2>2
<1>16. FlowsBut(b, g)
  <2>1. ASSUME NEW h \in Gens(b), b.engs[h].closed
        PROVE  /\ h # g => b.engs[h].waiters = <<>>
               /\ Live(b, h) = {}
               /\ b.engs[h].sweep # "none" => b.engs[h].late
    <3>1. CASE h = g
      BY <1>5, <1>8, <1>9, <1>10, <1>14, <3>1
    <3>2. CASE h # g
      <4>1. b.engs[h] = c.engs[h] /\ Live(b, h) = Live(c, h) /\ h \in Gens(c)
        BY <1>10, <3>2
      <4>2. /\ c.engs[h].waiters = <<>> /\ Live(c, h) = {}
            /\ c.engs[h].sweep # "none" => c.engs[h].late
        BY <1>4, <2>1, <4>1 DEF FlowsInv, Closings
      <4> QED BY <4>1, <4>2
    <3> QED BY <3>1, <3>2
  <2> QED BY <1>10, <1>11, <1>13, <2>1 DEF FlowsBut
<1>17. g \in Gens(b)
  BY <1>9, <1>10
<1>18. Cancelled(b, u, g)
  BY ONLY <1>3, <1>16, <1>17, CancelKeeps
<1>19. FlowsInv(u) /\ Keeps(b, u) /\ SameSweeps(b, u) /\ Free(u) = Free(b) /\ u.flows = b.flows
  BY <1>18 DEF Cancelled
<1>20. Keeps(v, u)
  BY <1>4, <1>10, <1>19, KeepsTrans DEF FlowsInv
<1>21. /\ \A h \in Gens(v) : h # g =>
            /\ u.engs[h].sweep = v.engs[h].sweep /\ u.engs[h].closed = v.engs[h].closed
            /\ u.engs[h].late = v.engs[h].late
       /\ u.engs[g].sweep = y.sweep /\ u.engs[g].closed = y.closed /\ u.engs[g].late = y.late
  <2>1. \A h \in Gens(b) : /\ u.engs[h].sweep = b.engs[h].sweep
                           /\ u.engs[h].closed = b.engs[h].closed /\ u.engs[h].late = b.engs[h].late
    BY <1>19 DEF SameSweeps
  <2>2. \A h \in Gens(v) : h # g => b.engs[h] = c.engs[h]
    BY <1>4, <1>10
  <2>3. \A h \in Gens(v) : /\ c.engs[h].sweep = v.engs[h].sweep
                           /\ c.engs[h].closed = v.engs[h].closed /\ c.engs[h].late = v.engs[h].late
    BY <1>4 DEF SameSweeps
  <2> QED BY <1>4, <1>9, <1>10, <2>1, <2>2, <2>3
<1>22. Live(u, g) = {}
  <2>1. Live(u, g) = Live(b, g)
    BY <1>19 DEF Live, Fids
  <2> QED BY <1>5, <1>9, <1>10, <2>1
<1> QED BY <1>8, <1>14, <1>15, <1>19, <1>20, <1>21, <1>22 DEF AllClosed

\* on_sweep: some flows are closed, and the timer is set again.
SweepDone(v, u, g) ==
  /\ FlowsInv(u) /\ Keeps(v, u) /\ Free(u) = Free(v) /\ u.engs[g].sweep = "armed"
  /\ \A h \in Gens(v) : /\ h # g => u.engs[h].sweep = v.engs[h].sweep
                        /\ u.engs[h].closed = v.engs[h].closed /\ u.engs[h].late = v.engs[h].late

\* on_sweep keeps what belongs together, closed flows and all.
LEMMA SweepKeeps ==
  ASSUME NEW v, FlowsInv(v), NEW g \in Gens(v), v.engs[g].closed => v.engs[g].late,
         NEW old, NEW u, u = on_sweep(v, g, old)
  PROVE  SweepDone(v, u, g)
<1> DEFINE I == {f \in InTable(v, g) \intersect old :
                   \/ v.flows[f].st \in HalfOpen \union {"TIME_WAIT", "FIN_WAIT", "LAST_ACK"}
                   \/ v.flows[f].st = "ESTABLISHED" /\ ~v.flows[f].accepted}
           c == close_flows(v, I)
           e == c.engs[g]
           y == [e EXCEPT !.sweep = "armed"]
<1>1. Swept(v, c, I)
  BY CloseFlowsKeeps
<1>2. u = [c EXCEPT !.engs = Put(c.engs, g, y)]
  BY DEF on_sweep, Put
<1> HIDE DEF I, c
<1>3. FlowsInv(c) /\ Keeps(v, c) /\ SameSweeps(v, c) /\ c.accs = v.accs /\ Gens(c) = Gens(v)
      /\ \A h \in Gens(v) : c.engs[h].waiters = v.engs[h].waiters
  <2>1. FlowsInv(c) /\ Keeps(v, c) /\ SameSweeps(v, c) /\ c.accs = v.accs
        /\ \A h \in Gens(v) : c.engs[h].waiters = v.engs[h].waiters
    BY <1>1 DEF Swept
  <2>2. Gens(c) = Gens(v)
    BY <2>1, ShapeIs DEF FlowsInv, Keeps
  <2> QED BY <2>1, <2>2
<1>4. DOMAIN c = Fields /\ EngineOk(e) /\ e = c.engs[g] /\ g \in Gens(c)
  BY <1>3 DEF FlowsInv, Shape
<1> HIDE DEF e, y
<1>5. /\ TcpOnly(c, u) /\ u.flows = c.flows /\ u.accs = c.accs /\ u.conns = c.conns
      /\ u.engs = Put(c.engs, g, y)
  BY <1>2, <1>4 DEF Fields, TcpOnly, SameDevice, SameLife
<1>6. /\ DOMAIN y = EngineFields /\ y.table = e.table /\ y.pend = e.pend /\ y.waiters = e.waiters
      /\ y.closed = e.closed /\ y.late = e.late /\ y.sweep = "armed"
      /\ IsSeq(y.pend) /\ IsSeq(y.waiters)
  BY <1>4 DEF EngineOk, EngineFields, y
<1>7. /\ Shape(u) /\ Tables(u) /\ Counts(u) /\ Accepts(u) /\ Keeps(c, u)
      /\ Fids(u) = Fids(c) /\ Gens(u) = Gens(c) /\ Accs(u) = Accs(c) /\ u.engs[g] = y
      /\ \A h \in Gens(c) : h # g => u.engs[h] = c.engs[h]
      /\ \A h \in Gens(c) : Live(u, h) = Live(c, h)
      /\ \A f \in Fids(c) : Unclaimed(u, f) <=> Unclaimed(c, f)
  BY <1>3, <1>4, <1>5, <1>6, ButIs, EngineOnly
<1>8. \A h \in Gens(c) : u.engs[h].waiters = c.engs[h].waiters /\ u.engs[h].pend = c.engs[h].pend
                         /\ u.engs[h].closed = c.engs[h].closed /\ u.engs[h].late = c.engs[h].late
  BY <1>4, <1>6, <1>7
<1>9. Lists(u)
  <2>1. \A h \in Gens(c) : \A f : f \in Live(c, h) => (Unclaimed(u, f) <=> Unclaimed(c, f))
    BY <1>7 DEF Live
  <2>2. ASSUME NEW h \in Gens(c)
        PROVE  /\ Rising(u.engs[h].pend)
               /\ \A f : f \in ToSet(u.engs[h].pend) <=> f \in Live(u, h) /\ Unclaimed(u, f)
               /\ u.engs[h].waiters # <<>> => u.engs[h].pend = <<>>
    <3>1. /\ Rising(c.engs[h].pend)
          /\ \A f : f \in ToSet(c.engs[h].pend) <=> f \in Live(c, h) /\ Unclaimed(c, f)
          /\ c.engs[h].waiters # <<>> => c.engs[h].pend = <<>>
      BY <1>3 DEF FlowsInv, Lists
    <3> QED BY <1>7, <1>8, <2>1, <3>1
  <2>3. \A f \in Fids(c) : /\ u.flows[f].pending <=> Unclaimed(u, f)
                           /\ Unclaimed(u, f) => u.flows[f].st = "SYN_RCVD"
    <3>1. \A f \in Fids(c) : /\ c.flows[f].pending <=> Unclaimed(c, f)
                             /\ Unclaimed(c, f) => c.flows[f].st = "SYN_RCVD"
      BY <1>3 DEF FlowsInv, Lists
    <3> QED BY <1>5, <1>7, <3>1
  <2> QED BY <1>7, <2>2, <2>3 DEF Lists
<1>10. Waiters(u)
  BY <1>3, <1>5, <1>7, <1>8 DEF FlowsInv, Waiters
<1>11. Closings(u)
  <2>1. ASSUME NEW h \in Gens(c), u.engs[h].closed
        PROVE  /\ u.engs[h].waiters = <<>> /\ Live(u, h) = {}
               /\ u.engs[h].sweep # "none" => u.engs[h].late
    <3>1. /\ c.engs[h].closed /\ c.engs[h].waiters = <<>> /\ Live(c, h) = {}
          /\ c.engs[h].sweep # "none" => c.engs[h].late
      BY <1>3, <1>8, <2>1 DEF FlowsInv, Closings
    <3>2. CASE h = g
      BY <1>3, <1>7, <1>8, <3>1, <3>2 DEF SameSweeps
    <3>3. CASE h # g
      BY <1>7, <3>1, <3>3
    <3> QED BY <3>2, <3>3
  <2> QED BY <1>7, <2>1 DEF Closings
<1>12. Keeps(v, u)
  BY <1>3, <1>7, KeepsTrans DEF FlowsInv
<1>13. Free(u) = Free(v)
  <2>1. Free(c) = Free(v)
    BY <1>3, FreeSame
  <2>2. Free(u) = Free(c)
    BY <1>5, <1>7, <1>8, FreeSame
  <2> QED BY <2>1, <2>2
<1>14. FlowsInv(u)
  BY <1>7, <1>9, <1>10, <1>11 DEF FlowsInv
<1>15. u.engs[g].sweep = "armed"
  BY <1>6, <1>7
<1>16. \A h \in Gens(v) : /\ h # g => u.engs[h].sweep = v.engs[h].sweep
                          /\ u.engs[h].closed = v.engs[h].closed /\ u.engs[h].late = v.engs[h].late
  BY <1>3, <1>7, <1>8 DEF SameSweeps
<1> QED BY <1>12, <1>13, <1>14, <1>15, <1>16 DEF SweepDone

\* A handler that leaves the accepts on their way alone.
Handled(v, u) == FlowsInv(u) /\ Keeps(v, u) /\ SameSweeps(v, u) /\ Free(u) = Free(v)

\* One of them does nothing.
LEMMA HandledSelf ==
  ASSUME NEW v, FlowsInv(v)
  PROVE  Handled(v, v)
BY KeepsSelf DEF FlowsInv, Handled

\* One of them closes a flow.
LEMMA ClosedHandled ==
  ASSUME NEW v, FlowsInv(v), NEW f \in Fids(v), NEW u, u = close_flow(v, f)
  PROVE  Handled(v, u)
<1>1. Closed1(v, u, f)
  BY CloseFlowKeeps
<1>2. Gens(u) = Gens(v)
  BY <1>1, ShapeIs DEF Closed1, FlowsInv, Keeps
<1>3. Free(u) = Free(v)
  BY <1>1, <1>2, FreeSame DEF Closed1
<1> QED BY <1>1, <1>3 DEF Closed1, Handled

\* One of them takes a flow to another state.
LEMMA MovedHandled ==
  ASSUME NEW v, FlowsInv(v), NEW f \in Fids(v), v.flows[f].st # "CLOSED", v.flows[f].accepted,
         NEW s \in FlowStates \ {"CLOSED"}, s \in HalfOpen => v.flows[f].st \in HalfOpen,
         NEW u, u = [v EXCEPT !.flows = Put(v.flows, f, Moved(v.flows[f], s)),
                              !.conns = IF v.flows[f].st \in HalfOpen /\ s \notin HalfOpen
                                        THEN v.conns + 1 ELSE v.conns]
  PROVE  Handled(v, u)
<1> DEFINE d == v.flows[f]
           F == Put(v.flows, f, Moved(d, s))
           C == IF d.st \in HalfOpen /\ s \notin HalfOpen THEN v.conns + 1 ELSE v.conns
<1>1. DOMAIN v = Fields /\ u = [v EXCEPT !.flows = F, !.conns = C]
  BY DEF FlowsInv, Shape
<1> HIDE DEF F, C
<1>2. /\ TcpOnly(v, u) /\ u.engs = v.engs /\ u.accs = v.accs /\ u.flows = F /\ u.conns = C
  BY <1>1 DEF Fields, TcpOnly, SameDevice, SameLife
<1>3. FlowsInv(u) /\ Keeps(v, u) /\ SameSweeps(v, u)
  <2>1. d = v.flows[f] /\ d.st # "CLOSED" /\ d.accepted /\ (s \in HalfOpen => d.st \in HalfOpen)
        /\ u.flows = Put(v.flows, f, Moved(d, s))
        /\ u.conns = (IF d.st \in HalfOpen /\ s \notin HalfOpen THEN v.conns + 1 ELSE v.conns)
        /\ FlowsInv(v) /\ f \in Fids(v) /\ s \in FlowStates \ {"CLOSED"}
        /\ TcpOnly(v, u) /\ u.engs = v.engs /\ u.accs = v.accs
    BY <1>2 DEF F, C
  <2> HIDE DEF d
  <2> QED BY ONLY <2>1, MoveKeeps
<1>4. Free(u) = Free(v)
  BY <1>2, FreeSame DEF Gens
<1> QED BY <1>3, <1>4 DEF Handled

\* The same where the number of connections stays.
LEMMA MovedOnly ==
  ASSUME NEW v, FlowsInv(v), NEW f \in Fids(v), v.flows[f].st # "CLOSED", v.flows[f].accepted,
         NEW s \in FlowStates \ {"CLOSED"}, s \in HalfOpen <=> v.flows[f].st \in HalfOpen,
         NEW u, u = [v EXCEPT !.flows[f].st = s]
  PROVE  Handled(v, u)
<1> DEFINE F == Put(v.flows, f, Moved(v.flows[f], s))
           x == [v EXCEPT !.flows = F, !.conns = v.conns]
           C == IF v.flows[f].st \in HalfOpen /\ s \notin HalfOpen THEN v.conns + 1 ELSE v.conns
<1>1. u = [v EXCEPT !.flows = F] /\ DOMAIN v = Fields
  BY DEF Put, Moved, FlowsInv, Shape
<1> HIDE DEF F
<1>2. u = x
  <2>1. "conns" \in DOMAIN v
    BY <1>1 DEF Fields
  <2> QED BY <1>1, <2>1
<1>3. C = v.conns
  OBVIOUS
<1> HIDE DEF C
<1>4. u = [v EXCEPT !.flows = F, !.conns = C]
  BY <1>2, <1>3
<1> QED BY <1>4, MovedHandled DEF F, C

\* Nobody waits for a flow that is beyond SYN_RCVD.
LEMMA BeyondTaken ==
  ASSUME NEW v, FlowsInv(v), NEW f \in Fids(v), v.flows[f].st \notin {"CLOSED", "SYN_RCVD"}
  PROVE  v.flows[f].accepted
BY DEF FlowsInv, Lists, Unclaimed

\* handle_segment.
LEMMA SegmentKeeps ==
  ASSUME NEW v, FlowsInv(v), NEW f \in Fids(v), NEW seg, NEW u, u = handle_segment(v, f, seg)
  PROVE  Handled(v, u)
<1> DEFINE d == v.flows[f]
<1>1. CASE seg = "RST" \/ (seg = "ACK" /\ d.st = "LAST_ACK")
  <2>1. u = close_flow(v, f)
    BY <1>1 DEF handle_segment
  <2> QED BY <2>1, ClosedHandled
<1>2. CASE seg = "ACK" /\ d.st = "SYN_ACK_SENT"
  <2> DEFINE s == "ESTABLISHED"
             C == IF d.st \in HalfOpen /\ s \notin HalfOpen THEN v.conns + 1 ELSE v.conns
             F == Put(v.flows, f, Moved(d, s))
  <2>1. d.accepted /\ d.st # "CLOSED"
    BY <1>2, BeyondTaken
  <2>2. u = [v EXCEPT !.flows[f].st = s, !.conns = v.conns + 1]
    BY <1>2, <2>1 DEF handle_segment
  <2>3. C = v.conns + 1
    BY <1>2 DEF HalfOpen
  <2>4. s \in FlowStates \ {"CLOSED"} /\ (s \in HalfOpen => d.st \in HalfOpen)
    BY DEF FlowStates, HalfOpen
  <2>5. u = [v EXCEPT !.flows = F, !.conns = C]
    <3> HIDE DEF C
    <3> QED BY <2>2, <2>3 DEF Put, Moved
  <2> HIDE DEF s
  <2> QED BY <2>1, <2>4, <2>5, MovedHandled
<1>3. CASE seg = "FIN" /\ d.st = "ESTABLISHED"
  <2> DEFINE s == "CLOSE_WAIT"
  <2>1. d.accepted /\ d.st # "CLOSED"
    BY <1>3, BeyondTaken
  <2>2. u = [v EXCEPT !.flows[f].st = s]
    BY <1>3 DEF handle_segment
  <2>3. s \in FlowStates \ {"CLOSED"} /\ (s \in HalfOpen <=> d.st \in HalfOpen)
    BY <1>3 DEF FlowStates, HalfOpen
  <2> HIDE DEF s
  <2> QED BY <2>1, <2>2, <2>3, MovedOnly
<1>4. CASE seg = "FIN" /\ d.st = "FIN_WAIT"
  <2> DEFINE s == "TIME_WAIT"
  <2>1. d.accepted /\ d.st # "CLOSED"
    BY <1>4, BeyondTaken
  <2>2. u = [v EXCEPT !.flows[f].st = s]
    BY <1>4 DEF handle_segment
  <2>3. s \in FlowStates \ {"CLOSED"} /\ (s \in HalfOpen <=> d.st \in HalfOpen)
    BY <1>4 DEF FlowStates, HalfOpen
  <2> HIDE DEF s
  <2> QED BY <2>1, <2>2, <2>3, MovedOnly
<1>5. CASE /\ ~(seg = "RST" \/ (seg = "ACK" /\ d.st = "LAST_ACK"))
           /\ ~(seg = "ACK" /\ d.st = "SYN_ACK_SENT")
           /\ ~(seg = "FIN" /\ d.st = "ESTABLISHED") /\ ~(seg = "FIN" /\ d.st = "FIN_WAIT")
  <2>1. u = v
    BY <1>5 DEF handle_segment
  <2> QED BY <2>1, HandledSelf
<1> QED BY <1>1, <1>2, <1>3, <1>4, <1>5

\* Two handlers, one after the other.
LEMMA HandledTrans ==
  ASSUME NEW v, FlowsInv(v), NEW u, NEW x, Handled(v, u), Handled(u, x)
  PROVE  Handled(v, x)
<1>1. Keeps(v, x)
  BY KeepsTrans DEF FlowsInv, Handled
<1>2. Gens(u) = Gens(v)
  BY ShapeIs DEF FlowsInv, Handled, Keeps
<1> QED BY <1>1, <1>2 DEF Handled, SameSweeps

\* on_packet.
LEMMA PacketKeeps ==
  ASSUME NEW v, FlowsInv(v), NEW g \in Gens(v), ~v.engs[g].closed, NEW k \in Keys,
         NEW seg, NEW u, u = on_packet(v, g, k, seg)
  PROVE  Handled(v, u)
<1> DEFINE f == v.engs[g].table[k]
           reuse == f # 0 /\ seg = "SYN" /\ v.flows[f].st = "TIME_WAIT"
           c == IF reuse THEN close_flow(v, f) ELSE v
           full == Cardinality(InTable(c, g)) >= MaxTcpFlows
<1>1. u = CASE f # 0 /\ ~reuse -> handle_segment(v, f, seg)
            [] (f = 0 \/ reuse) /\ seg # "SYN" -> c
            [] OTHER -> IF full THEN c ELSE new_flow(c, g, k)
  BY DEF on_packet
<1>2. f # 0 => f \in Fids(v) /\ v.flows[f].gen = g
  BY DEF FlowsInv, Tables, Live
<1>3. Handled(v, c) /\ g \in Gens(c) /\ ~c.engs[g].closed
  <2>1. Handled(v, c)
    <3>1. CASE reuse
      BY <1>2, <3>1, ClosedHandled
    <3>2. CASE ~reuse
      BY <3>2, HandledSelf
    <3> QED BY <3>1, <3>2
  <2> HIDE DEF c
  <2>2. Gens(c) = Gens(v)
    BY <2>1, ShapeIs DEF FlowsInv, Handled, Keeps
  <2> QED BY <2>1, <2>2 DEF Handled, SameSweeps
<1>4. f = 0 \/ reuse => c.engs[g].table[k] = 0
  <2>1. CASE reuse
    <3>1. Closed1(v, c, f)
      BY <1>2, <2>1, CloseFlowKeeps
    <3> DEFINE b == c.engs[g].table[k]
    <3> HIDE DEF c
    <3>2. SUFFICES ASSUME b # 0 PROVE FALSE
      OBVIOUS
    <3>3. b \in Live(c, g) /\ c.flows[b].key = k
      BY <1>3, <3>2 DEF Handled, FlowsInv, Tables
    <3>4. b # f /\ b \in Fids(v) /\ c.flows[b].gen = g /\ c.flows[b].st # "CLOSED"
      BY <3>1, <3>3 DEF Closed1, Live
    <3>5. v.flows[b] = c.flows[b]
      BY <3>1, <3>4 DEF Closed1
    <3>6. v.engs[g].table[k] = b
      BY <3>3, <3>4, <3>5 DEF FlowsInv, Tables
    <3> QED BY <3>4, <3>6
  <2>2. CASE ~reuse
    BY <2>2
  <2> QED BY <2>1, <2>2
<1>5. InTable(c, g) = Live(c, g) /\ Cardinality(Live(c, g)) \in Nat
  BY <1>3, LiveIs DEF Handled, FlowsInv
<1>6. CASE f # 0 /\ ~reuse
  <2>1. u = handle_segment(v, f, seg)
    BY <1>1, <1>6
  <2> QED BY <1>2, <1>6, <2>1, SegmentKeeps
<1>7. CASE (f = 0 \/ reuse) /\ (seg # "SYN" \/ full)
  <2>1. u = c
    BY <1>1, <1>7
  <2> QED BY <1>3, <2>1
<1>8. CASE (f = 0 \/ reuse) /\ ~(seg # "SYN" \/ full)
  <2>1. u = new_flow(c, g, k)
    BY <1>1, <1>8
  <2> HIDE DEF c
  <2>2. Cardinality(Live(c, g)) < MaxTcpFlows
    BY <1>5, <1>8, AcceptAssumption
  <2>3. c.engs[g].table[k] = 0 /\ FlowsInv(c) /\ g \in Gens(c) /\ ~c.engs[g].closed /\ k \in Keys
    BY <1>3, <1>4, <1>8 DEF Handled
  <2>4. FlowsInv(u) /\ Keeps(c, u) /\ SameSweeps(c, u) /\ Free(u) = Free(c)
    BY ONLY <2>1, <2>2, <2>3, NewFlowKeeps
  <2>5. Handled(c, u)
    BY <2>4 DEF Handled
  <2> QED BY <1>3, <2>5, HandledTrans
<1> QED BY <1>6, <1>7, <1>8

\* flow_op, of a flow that was given to somebody.
LEMMA OpKeeps ==
  ASSUME NEW v, FlowsInv(v), NEW f \in Fids(v), v.flows[f].accepted, NEW op,
         NEW u, u = flow_op(v, f, op)
  PROVE  Handled(v, u)
<1> DEFINE s == v.flows[f].st
           To(x) == x \in FlowStates \ {"CLOSED"} /\ (x \in HalfOpen <=> s \in HalfOpen)
                    /\ s # "CLOSED" /\ u = [v EXCEPT !.flows[f].st = x]
<1>1. ASSUME NEW x, To(x) PROVE Handled(v, u)
  BY <1>1, MovedOnly
<1>2. CASE op = "accept" /\ s = "SYN_RCVD"
  <2>1. To("SYN_ACK_SENT")
    BY <1>2 DEF flow_op, FlowStates, HalfOpen
  <2> HIDE DEF To
  <2> QED BY <1>1, <2>1
<1>3. CASE op = "reject"
  <2>1. u = close_flow(v, f)
    BY <1>3 DEF flow_op, abort_flow
  <2> QED BY <2>1, ClosedHandled
<1>7. CASE op = "close" /\ s \in HalfOpen
  <2>1. s # "ESTABLISHED" /\ s # "CLOSE_WAIT" /\ op # "accept" /\ op # "reject"
    BY <1>7 DEF HalfOpen
  <2> HIDE DEF To
  <2>2. u = abort_flow(v, f)
    BY <1>7, <2>1 DEF flow_op
  <2>3. u = close_flow(v, f)
    BY <2>2 DEF abort_flow
  <2> QED BY <2>3, ClosedHandled
<1>4. CASE op = "close" /\ s = "ESTABLISHED"
  <2>1. To("FIN_WAIT")
    BY <1>4 DEF flow_op, FlowStates, HalfOpen
  <2> HIDE DEF To
  <2> QED BY <1>1, <2>1
<1>5. CASE op = "close" /\ s = "CLOSE_WAIT"
  <2>1. To("LAST_ACK")
    BY <1>5 DEF flow_op, FlowStates, HalfOpen
  <2> HIDE DEF To
  <2> QED BY <1>1, <2>1
<1>6. CASE /\ ~(op = "accept" /\ s = "SYN_RCVD") /\ op # "reject"
           /\ ~(op = "close" /\ (s \in HalfOpen \/ s \in {"ESTABLISHED", "CLOSE_WAIT"}))
  <2>1. u = v
    BY <1>6 DEF flow_op
  <2> QED BY <2>1, HandledSelf
<1> QED BY <1>2, <1>3, <1>4, <1>5, <1>6, <1>7

-----------------------------------------------------------------------------
(***************************************************************************)
(* The invariant of the system: the flows and lists are in order and so    *)
(* are the queue of the strand and the device (v); where the two threads   *)
(* are goes with what there is (us, st); what is not closed will be.       *)
(***************************************************************************)
TaskTypes == {"accept", "cancel", "close", "cleanup", "read", "sweep"}

ReadOk(v, r) == r.slot \in Nat \ {0} /\ r.epoch \in 0 .. v.epoch

TaskOk(v, t) ==
  /\ t.type \in TaskTypes
  /\ t.type = "accept" => t.i \in Free(v)
  /\ t.type = "close" => t.epoch \in 0 .. v.epoch /\ t.eng \in Gens(v)
  /\ t.type \in {"cancel", "sweep"} => t.eng \in Gens(v)
  /\ t.type = "read" => ReadOk(v, t) /\ t.res \in {"error", "aborted", "packet"}

Tasks(v) == DOMAIN v.queue

\* An accept that nobody was told of waits in an engine or has one task.
Queued(v) ==
  /\ IsSeq(v.queue)
  /\ \A n \in Tasks(v) : TaskOk(v, v.queue[n])
  /\ \A i \in Free(v) : \E n \in Tasks(v) : v.queue[n].type = "accept" /\ v.queue[n].i = i
  /\ \A n, m \in Tasks(v) : v.queue[n].type = "accept" /\ v.queue[m].type = "accept"
                              /\ v.queue[n].i = v.queue[m].i => n = m

\* Only the engine that lives is swept, and its sweep is queued once.
SweepOf(v, n) == v.queue[n].type = "sweep" /\ v.queue[n].eng = v.tcp
Sweeping(v) ==
  /\ \A g \in Gens(v) : /\ v.engs[g].sweep \in {"none", "armed", "queued"}
                        /\ v.engs[g].sweep # "none" => g = v.tcp
  /\ \A n \in Tasks(v) : SweepOf(v, n) => v.engs[v.tcp].sweep = "queued"
  /\ \A n, m \in Tasks(v) : SweepOf(v, n) /\ SweepOf(v, m) => n = m

Device1(v) ==
  /\ Handles(v) /\ v.slots \in Nat /\ v.per_queue \in Nat \ {0}
  /\ \A r \in v.reads \cup v.polls : ReadOk(v, r)

\* The tasks that close something.
Closer(v) == {n \in Tasks(v) : v.queue[n].type \in {"close", "cleanup"}}
Opening(us) == us.pc \in {"config", "epoch", "flag"}

Life(v, us, st) ==
  /\ v.tcp \in {0, Gen(v)} /\ v.open \in BOOLEAN /\ v.epoch \in 0 .. Gen(v)
  /\ us.pc \in {"idle", "wait", "config", "epoch", "flag", "slot", "store"}
  /\ st.pc \in {"idle", "clear", "handle", "set"}
  /\ v.open => v.tcp # 0 /\ us.pc \in {"idle", "slot", "store"} /\ Closer(v) = {}
  /\ us.pc \in {"epoch", "flag"} => v.tcp # 0
  /\ us.pc = "epoch" => v.epoch < Gen(v)
  /\ v.tcp = 0 \/ Opening(us) => st.pc = "idle" /\ Closer(v) = {}
  /\ \A n \in Tasks(v) : v.queue[n].type = "cleanup" =>
       us.pc = "wait" /\ \A m \in Closer(v) : m <= n
  /\ us.pc = "wait" => \E n \in Tasks(v) : v.queue[n].type = "cleanup"

\* The words that are loaded have bits of slots only.
Words(v, us, st) ==
  /\ DOMAIN us = {"pc", "slot", "snap"} /\ DOMAIN st = {"pc", "task", "snap"}
  /\ v.inflight \subseteq 1 .. v.slots
  /\ us.snap \subseteq 1 .. v.slots /\ st.snap \subseteq 1 .. v.slots
  /\ us.pc # "store" => us.snap = {}
  /\ st.pc \notin {"clear", "set"} => st.snap = {}
  /\ us.pc = "store" => us.slot \in 1 .. v.slots
  /\ us.pc = "slot" => us.slot \in Nat \ {0}
  /\ st.pc # "idle" => st.task.slot \in Nat \ {0}
                       /\ st.task.res \in {"error", "aborted", "packet"}
  /\ st.pc = "set" => st.task.slot <= v.slots

\* What is of an earlier generation has an earlier epoch.
Epochs(v, us, st) ==
  /\ \A i \in Accs(v) : v.accs[i].epoch \in 0 .. v.epoch
  /\ v.open \/ us.pc = "flag" =>
       \A i \in Accs(v) : v.accs[i].epoch = v.epoch => v.accs[i].gen = Gen(v)
  /\ us.pc = "flag" =>
       /\ \A r \in v.reads \cup v.polls : r.epoch < v.epoch
       /\ \A n \in Tasks(v) : v.queue[n].type = "read" => v.queue[n].epoch < v.epoch
       /\ \A i \in Accs(v) : v.accs[i].epoch < v.epoch
  /\ v.open => \A n \in Tasks(v) : /\ v.queue[n].type = "read" /\ v.queue[n].epoch = v.epoch
                                   /\ v.queue[n].res = "packet"
                                   => v.queue[n].from = v.tcp
  /\ st.pc # "idle" => v.tcp # 0 /\ (st.task.res = "packet" => st.task.from = v.tcp)
  /\ ~v.misrouted

\* Something that closes engine g, or the device, is on its way.
CloseOn(v, g) == \E n \in Closer(v) : v.queue[n].type = "close" => v.queue[n].eng = g
CloseDevice(v) == \E n \in Closer(v) : v.queue[n].type = "close" => v.queue[n].epoch = v.epoch

Ending(v, us, st) ==
  /\ \A g \in Gens(v) : ~v.engs[g].closed =>
       g = v.tcp /\ (v.open \/ us.pc \in {"epoch", "flag"} \/ CloseOn(v, g))
  /\ v.open \/ st.pc # "idle" \/ us.pc \in {"epoch", "flag"} => ~v.engs[v.tcp].closed
  /\ v.descs # {} => v.open \/ us.pc \in {"epoch", "flag"} \/ CloseDevice(v)

Rest(v, us, st) ==
  Device1(v) /\ Life(v, us, st) /\ Words(v, us, st) /\ Epochs(v, us, st) /\ Ending(v, us, st)

All(v, us, st) == FlowsInv(v) /\ Queued(v) /\ Sweeping(v) /\ Rest(v, us, st)

\* What the script still allows.
Counters == {"opens", "faults", "throws", "packets", "accepts", "cancels", "sweeps", "ops"}
Script(l) ==
  /\ DOMAIN l = Counters \cup {"pkts", "dev"} /\ \A k \in Counters : l[k] \in Nat
  /\ DevOk(l.dev) /\ \A p \in Packets[l.pkts] : p.proto = "tcp" => p.key \in Keys
  /\ l.throws = 0

\* start_read does not throw: then everything that undoes an open is done before
\* there are reads, and the members are only written on the strand.
NoReadThrows == \A s \in Scripts : s.throws = 0

Inv == All(w, user, strand) /\ Script(left)

-----------------------------------------------------------------------------
(***************************************************************************)
(* Steps that the parts of the invariant have in common.                   *)
(***************************************************************************)

\* The engines, flows and accepts are as they were.
LEMMA FlowsSame ==
  ASSUME NEW v, FlowsInv(v), NEW x, DOMAIN x = Fields, SameTcp(v, x)
  PROVE  /\ FlowsInv(x) /\ Free(x) = Free(v) /\ Fids(x) = Fids(v) /\ Gens(x) = Gens(v)
         /\ Accs(x) = Accs(v) /\ Gen(x) = Gen(v)
<1>1. x.engs = v.engs /\ x.flows = v.flows /\ x.accs = v.accs /\ x.conns = v.conns
  BY DEF SameTcp
<1>2. Fids(x) = Fids(v) /\ Gens(x) = Gens(v) /\ Accs(x) = Accs(v) /\ Gen(x) = Gen(v)
  BY <1>1 DEF Fids, Gens, Accs, Gen
<1>3. /\ Connected(x) = Connected(v) /\ \A g \in Gens(v) : Live(x, g) = Live(v, g)
      /\ Tables(x) /\ Lists(x) /\ Closings(x)
  BY <1>1, ViewSame DEF FlowsInv
<1>4. Shape(x)
  BY <1>1, <1>2 DEF FlowsInv, Shape, FlowOk
<1>5. Waiters(x)
  BY <1>1, <1>2 DEF FlowsInv, Waiters
<1>6. Accepts(x)
  <2>1. \A i : Has1(x, i) <=> Has1(v, i)
    BY <1>1 DEF Has1
  <2> QED BY <1>1, <1>2, <2>1 DEF FlowsInv, Accepts
<1>7. Counts(x)
  BY <1>1, <1>2, <1>3 DEF FlowsInv, Counts
<1>8. Free(x) = Free(v)
  BY <1>1, <1>2, FreeSame
<1> QED BY <1>2, <1>3, <1>4, <1>5, <1>6, <1>7, <1>8 DEF FlowsInv

\* A task of the queue is one still.
LEMMA TaskSame ==
  ASSUME NEW v, NEW x, NEW t, TaskOk(v, t), t.type = "accept" => t.i \in Free(x),
         Gens(v) \subseteq Gens(x), v.epoch \in Nat, x.epoch \in Nat, v.epoch <= x.epoch
  PROVE  TaskOk(x, t)
<1>1. \A e \in 0 .. v.epoch : e \in 0 .. x.epoch
  OBVIOUS
<1> QED BY <1>1 DEF TaskOk, ReadOk

\* What the indices of a longer queue are.
LEMMA LongerIs ==
  ASSUME NEW q, NEW p, NEW T, Longer(q, p, T)
  PROVE  /\ IsSeq(p) /\ DOMAIN q \subseteq DOMAIN p /\ DOMAIN p \subseteq Nat
         /\ \A n \in DOMAIN q : p[n] = q[n]
         /\ \A n \in DOMAIN p : n \notin DOMAIN q => p[n] \in T
<1>1. /\ IsSeq(q) /\ IsSeq(p) /\ Len(q) <= Len(p)
      /\ \A i \in 1 .. Len(q) : p[i] = q[i]
      /\ \A i \in 1 .. Len(p) : i > Len(q) => p[i] \in T
  BY DEF Longer
<1>2. /\ DOMAIN q = 1 .. Len(q) /\ DOMAIN p = 1 .. Len(p) /\ Len(q) \in Nat /\ Len(p) \in Nat
  BY <1>1, SeqIs
<1> QED BY <1>1, <1>2

\* Tasks are added, none of them an accept.
LEMMA QueuedGrows ==
  ASSUME NEW v, Queued(v), NEW x, Free(x) = Free(v), Gens(v) \subseteq Gens(x),
         v.epoch \in Nat, x.epoch \in Nat, v.epoch <= x.epoch,
         NEW T, Longer(v.queue, x.queue, T), \A t \in T : TaskOk(x, t) /\ t.type # "accept"
  PROVE  Queued(x)
<1>1. /\ IsSeq(x.queue) /\ Tasks(v) \subseteq Tasks(x)
      /\ \A n \in Tasks(v) : x.queue[n] = v.queue[n]
      /\ \A n \in Tasks(x) : n \notin Tasks(v) => x.queue[n] \in T
  BY LongerIs DEF Tasks
<1>2. ASSUME NEW n \in Tasks(x) PROVE TaskOk(x, x.queue[n])
  <2>1. CASE n \in Tasks(v)
    <3>1. TaskOk(v, v.queue[n]) /\ x.queue[n] = v.queue[n]
      BY <1>1, <2>1 DEF Queued
    <3>2. v.queue[n].type = "accept" => v.queue[n].i \in Free(x)
      BY <3>1 DEF TaskOk
    <3> QED BY <3>1, <3>2, TaskSame
  <2>2. CASE n \notin Tasks(v)
    BY <1>1, <2>2
  <2> QED BY <2>1, <2>2
<1>3. \A i \in Free(x) : \E n \in Tasks(x) : x.queue[n].type = "accept" /\ x.queue[n].i = i
  BY <1>1 DEF Queued
<1>4. \A n \in Tasks(x) : x.queue[n].type = "accept" => n \in Tasks(v)
  BY <1>1
<1>5. \A n, m \in Tasks(x) : x.queue[n].type = "accept" /\ x.queue[m].type = "accept"
                               /\ x.queue[n].i = x.queue[m].i => n = m
  BY <1>1, <1>4 DEF Queued
<1> QED BY <1>1, <1>2, <1>3, <1>5 DEF Queued

\* Tasks are added, none of them a sweep.
LEMMA SweepingGrows ==
  ASSUME NEW v, Sweeping(v), NEW x, Gens(x) = Gens(v), x.tcp = v.tcp,
         \A g \in Gens(v) : x.engs[g].sweep = v.engs[g].sweep, v.tcp \in Gens(v) \cup {0},
         NEW T, Longer(v.queue, x.queue, T), \A t \in T : t.type # "sweep",
         \A n \in Tasks(v) : v.queue[n].type = "sweep" => v.queue[n].eng \in Gens(v)
  PROVE  Sweeping(x)
<1>1. /\ Tasks(v) \subseteq Tasks(x)
      /\ \A n \in Tasks(v) : x.queue[n] = v.queue[n]
      /\ \A n \in Tasks(x) : n \notin Tasks(v) => x.queue[n] \in T
  BY LongerIs DEF Tasks
<1>2. \A n \in Tasks(x) : SweepOf(x, n) => n \in Tasks(v) /\ SweepOf(v, n)
  BY <1>1 DEF SweepOf
<1>3. \A n \in Tasks(v) : SweepOf(v, n) => v.tcp \in Gens(v)
  BY DEF SweepOf
<1> QED BY <1>2, <1>3 DEF Sweeping

\* Tasks are added that close nothing.
LEMMA CloserGrows ==
  ASSUME NEW v, NEW x, NEW T, Longer(v.queue, x.queue, T),
         \A t \in T : t.type \notin {"close", "cleanup"}
  PROVE  /\ Closer(x) = Closer(v) /\ \A n \in Tasks(v) : x.queue[n] = v.queue[n]
         /\ \A n \in Tasks(x) : x.queue[n].type \in {"close", "cleanup"} => n \in Tasks(v)
         /\ Tasks(v) \subseteq Tasks(x)
<1>1. /\ Tasks(v) \subseteq Tasks(x)
      /\ \A n \in Tasks(v) : x.queue[n] = v.queue[n]
      /\ \A n \in Tasks(x) : n \notin Tasks(v) => x.queue[n] \in T
  BY LongerIs DEF Tasks
<1> QED BY <1>1 DEF Closer

\* The first task is taken: the others move up.
Pop(v) == [v EXCEPT !.queue = Tail(v.queue)]

\* What is taken, and where the others are.
LEMMA PopIs ==
  ASSUME NEW v, DOMAIN v = Fields, IsSeq(v.queue), v.queue # <<>>, NEW p, p = Pop(v)
  PROVE  /\ DOMAIN p = Fields /\ SameTcp(v, p) /\ SameLife(v, p) /\ SameDevice(v, p)
         /\ IsSeq(p.queue) /\ 1 \in Tasks(v) /\ v.queue[1] = Head(v.queue)
         /\ Tasks(v) \subseteq Nat /\ Tasks(p) \subseteq Nat
         /\ \A n \in Tasks(p) : n + 1 \in Tasks(v) /\ p.queue[n] = v.queue[n + 1]
         /\ \A n \in Tasks(v) : n # 1 => n - 1 \in Tasks(p) /\ p.queue[n - 1] = v.queue[n]
<1>1. p.queue = Tail(v.queue) /\ DOMAIN p = Fields /\ SameTcp(v, p) /\ SameLife(v, p)
      /\ SameDevice(v, p)
  BY DEF Pop, Fields, SameTcp, SameLife, SameDevice
<1>2. /\ IsSeq(p.queue) /\ Len(p.queue) = Len(v.queue) - 1 /\ Len(v.queue) > 0
      /\ \A i \in 1 .. Len(p.queue) : p.queue[i] = v.queue[i + 1]
      /\ Head(v.queue) = v.queue[1]
  BY <1>1, SeqTail
<1>3. Tasks(v) = 1 .. Len(v.queue) /\ Tasks(p) = 1 .. Len(p.queue) /\ Len(v.queue) \in Nat
      /\ Len(p.queue) \in Nat
  BY <1>2, SeqIs DEF Tasks
<1>4. ASSUME NEW n \in Tasks(p) PROVE n + 1 \in Tasks(v) /\ p.queue[n] = v.queue[n + 1]
  BY <1>2, <1>3
<1>5. ASSUME NEW n \in Tasks(v), n # 1 PROVE n - 1 \in Tasks(p) /\ p.queue[n - 1] = v.queue[n]
  <2>1. n - 1 \in 1 .. Len(p.queue) /\ (n - 1) + 1 = n
    BY <1>2, <1>3, <1>5
  <2> QED BY <1>2, <1>3, <2>1
<1> QED BY <1>1, <1>2, <1>3, <1>4, <1>5

\* Where the tasks of a popped queue were.
LEMMA PopTasks ==
  ASSUME NEW v, DOMAIN v = Fields, IsSeq(v.queue), v.queue # <<>>, NEW p, p = Pop(v)
  PROVE  /\ \A n \in Tasks(p) : n + 1 \in Tasks(v) /\ n + 1 # 1 /\ p.queue[n] = v.queue[n + 1]
         /\ \A n, m \in Tasks(p) : n + 1 = m + 1 => n = m
         /\ \A n, m \in Tasks(p) : n + 1 <= m + 1 => n <= m
<1>1. /\ IsSeq(p.queue) /\ Tasks(p) \subseteq Nat
      /\ \A n \in Tasks(p) : n + 1 \in Tasks(v) /\ p.queue[n] = v.queue[n + 1]
  BY PopIs
<1>2. \A n \in Tasks(p) : n \in 1 .. Len(p.queue) /\ Len(p.queue) \in Nat
  BY <1>1, SeqIs DEF Tasks
<1> QED BY <1>1, <1>2

\* The queue without its first task; the accept it was for is told.
LEMMA PopQueued ==
  ASSUME NEW v, DOMAIN v = Fields, Queued(v), v.queue # <<>>, v.epoch \in Nat,
         NEW h, h = Head(v.queue), NEW p, p = Pop(v),
         NEW x, x.queue = p.queue, Gens(x) = Gens(v), x.epoch = v.epoch,
         Free(x) = {i \in Free(v) : ~(h.type = "accept" /\ h.i = i)}
  PROVE  Queued(x)
<1>1. /\ IsSeq(v.queue) /\ IsSeq(p.queue) /\ 1 \in Tasks(v) /\ v.queue[1] = h
      /\ \A n \in Tasks(v) : n # 1 => n - 1 \in Tasks(p) /\ p.queue[n - 1] = v.queue[n]
  BY PopIs DEF Queued
<1>2. /\ \A n \in Tasks(p) : n + 1 \in Tasks(v) /\ n + 1 # 1 /\ p.queue[n] = v.queue[n + 1]
      /\ \A n, m \in Tasks(p) : n + 1 = m + 1 => n = m
  BY <1>1, PopTasks
<1>3. Tasks(x) = Tasks(p)
  BY DEF Tasks
<1>4. ASSUME NEW n \in Tasks(x) PROVE TaskOk(x, x.queue[n])
  <2>1. n + 1 \in Tasks(v) /\ n + 1 # 1 /\ x.queue[n] = v.queue[n + 1]
    BY <1>2, <1>3
  <2> DEFINE t == v.queue[n + 1]
  <2>2. TaskOk(v, t)
    BY <2>1 DEF Queued
  <2>3. ASSUME t.type = "accept" PROVE t.i \in Free(x)
    <3>1. t.i \in Free(v)
      BY <2>2, <2>3 DEF TaskOk
    <3>2. ~(h.type = "accept" /\ h.i = t.i)
      BY <1>1, <2>1, <2>3 DEF Queued
    <3> QED BY <3>1, <3>2
  <2>4. Gens(v) \subseteq Gens(x) /\ x.epoch \in Nat /\ v.epoch <= x.epoch
    OBVIOUS
  <2>5. x.queue[n] = t
    BY <2>1
  <2> HIDE DEF t
  <2> QED BY <2>2, <2>3, <2>4, <2>5, TaskSame
<1>5. ASSUME NEW i \in Free(x)
      PROVE  \E n \in Tasks(x) : x.queue[n].type = "accept" /\ x.queue[n].i = i
  <2>1. i \in Free(v) /\ ~(h.type = "accept" /\ h.i = i)
    OBVIOUS
  <2>2. PICK n \in Tasks(v) : v.queue[n].type = "accept" /\ v.queue[n].i = i
    BY <2>1 DEF Queued
  <2>3. n # 1
    BY <1>1, <2>1, <2>2
  <2> QED BY <1>1, <1>3, <2>2, <2>3
<1>6. ASSUME NEW n \in Tasks(x), NEW m \in Tasks(x), x.queue[n].type = "accept",
             x.queue[m].type = "accept", x.queue[n].i = x.queue[m].i
      PROVE  n = m
  <2>1. /\ n + 1 \in Tasks(v) /\ x.queue[n] = v.queue[n + 1]
        /\ m + 1 \in Tasks(v) /\ x.queue[m] = v.queue[m + 1]
    BY <1>2, <1>3
  <2>2. n + 1 = m + 1
    BY <1>6, <2>1 DEF Queued
  <2> QED BY <1>2, <1>3, <2>2
<1> QED BY <1>1, <1>4, <1>5, <1>6 DEF Queued

\* The sweeps of the queue that are left.
LEMMA PopSweeping ==
  ASSUME NEW v, DOMAIN v = Fields, IsSeq(v.queue), Sweeping(v), v.queue # <<>>,
         NEW p, p = Pop(v)
  PROVE  Sweeping(p) /\ (SweepOf(v, 1) => \A n \in Tasks(p) : ~SweepOf(p, n))
<1>1. /\ SameTcp(v, p) /\ SameLife(v, p) /\ 1 \in Tasks(v)
  BY PopIs
<1>2. /\ \A n \in Tasks(p) : n + 1 \in Tasks(v) /\ n + 1 # 1 /\ p.queue[n] = v.queue[n + 1]
      /\ \A n, m \in Tasks(p) : n + 1 = m + 1 => n = m
  BY PopTasks
<1>3. p.engs = v.engs /\ p.tcp = v.tcp /\ Gens(p) = Gens(v)
  BY <1>1 DEF SameTcp, SameLife, Gens
<1>4. \A n \in Tasks(p) : SweepOf(p, n) <=> SweepOf(v, n + 1)
  BY <1>2, <1>3 DEF SweepOf
<1>5. /\ \A n \in Tasks(v) : SweepOf(v, n) => v.engs[v.tcp].sweep = "queued"
      /\ \A n, m \in Tasks(v) : SweepOf(v, n) /\ SweepOf(v, m) => n = m
      /\ \A g \in Gens(v) : /\ v.engs[g].sweep \in {"none", "armed", "queued"}
                            /\ v.engs[g].sweep # "none" => g = v.tcp
  BY DEF Sweeping
<1>6. \A n \in Tasks(p) : SweepOf(p, n) => p.engs[p.tcp].sweep = "queued"
  BY <1>2, <1>3, <1>4, <1>5
<1>7. \A n, m \in Tasks(p) : SweepOf(p, n) /\ SweepOf(p, m) => n = m
  BY <1>2, <1>4, <1>5
<1>8. ASSUME SweepOf(v, 1), NEW n \in Tasks(p) PROVE ~SweepOf(p, n)
  BY <1>1, <1>2, <1>4, <1>5, <1>8
<1> QED BY <1>3, <1>5, <1>6, <1>7, <1>8 DEF Sweeping

\* The tasks of the queue that close something, once its first is taken.
LEMMA PopClosers ==
  ASSUME NEW v, DOMAIN v = Fields, IsSeq(v.queue), v.queue # <<>>, NEW p, p = Pop(v)
  PROVE  /\ \A n \in Closer(p) : n + 1 \in Closer(v) /\ p.queue[n] = v.queue[n + 1]
         /\ \A n \in Closer(v) : n # 1 => n - 1 \in Closer(p) /\ p.queue[n - 1] = v.queue[n]
<1>1. /\ \A n \in Tasks(p) : n + 1 \in Tasks(v) /\ p.queue[n] = v.queue[n + 1]
      /\ \A n \in Tasks(v) : n # 1 => n - 1 \in Tasks(p) /\ p.queue[n - 1] = v.queue[n]
  BY PopIs
<1> QED BY <1>1 DEF Closer

\* The device and the words have nothing to do with the queue.
LEMMA RestParts ==
  ASSUME NEW v, NEW us, NEW st, Device1(v), Words(v, us, st), NEW x, SameDevice(v, x),
         SameLife(v, x)
  PROVE  Device1(x) /\ Words(x, us, st)
<1>1. /\ x.fds = v.fds /\ x.descs = v.descs /\ x.reads = v.reads /\ x.polls = v.polls
      /\ x.slots = v.slots /\ x.per_queue = v.per_queue /\ x.epoch = v.epoch
      /\ x.inflight = v.inflight
  BY DEF SameDevice, SameLife
<1>2. Device1(x)
  BY <1>1 DEF Device1, Handles, ReadOk
<1> QED BY <1>1, <1>2 DEF Words

\* A task that closes nothing is taken.
LEMMA PopRest ==
  ASSUME NEW v, DOMAIN v = Fields, IsSeq(v.queue), v.queue # <<>>, NEW us, NEW st,
         Rest(v, us, st), Head(v.queue).type \notin {"close", "cleanup"}, NEW p, p = Pop(v)
  PROVE  Rest(p, us, st)
<1>1. /\ SameTcp(v, p) /\ SameLife(v, p) /\ SameDevice(v, p) /\ 1 \in Tasks(v)
      /\ v.queue[1] = Head(v.queue)
      /\ \A n \in Tasks(v) : n # 1 => n - 1 \in Tasks(p) /\ p.queue[n - 1] = v.queue[n]
  BY PopIs
<1>2. /\ \A n \in Tasks(p) : n + 1 \in Tasks(v) /\ n + 1 # 1 /\ p.queue[n] = v.queue[n + 1]
      /\ \A n, m \in Tasks(p) : n + 1 <= m + 1 => n <= m
  BY PopTasks
<1>3. /\ \A n \in Closer(p) : n + 1 \in Closer(v) /\ p.queue[n] = v.queue[n + 1]
      /\ \A n \in Closer(v) : n # 1 => n - 1 \in Closer(p) /\ p.queue[n - 1] = v.queue[n]
  BY PopClosers
<1>4. 1 \notin Closer(v)
  BY <1>1 DEF Closer
<1>5. Device1(v) /\ Life(v, us, st) /\ Words(v, us, st) /\ Epochs(v, us, st) /\ Ending(v, us, st)
  BY DEF Rest
<1>6. Device1(p) /\ Words(p, us, st)
  BY <1>1, <1>5, RestParts
<1>7. /\ p.tcp = v.tcp /\ p.open = v.open /\ p.epoch = v.epoch /\ p.misrouted = v.misrouted
      /\ p.engs = v.engs /\ p.accs = v.accs /\ p.reads = v.reads /\ p.polls = v.polls
      /\ p.descs = v.descs /\ Gen(p) = Gen(v) /\ Gens(p) = Gens(v) /\ Accs(p) = Accs(v)
  BY <1>1 DEF SameTcp, SameLife, SameDevice, Gen, Gens, Accs
<1>8. Closer(v) = {} => Closer(p) = {}
  BY <1>3
<1>9. Life(p, us, st)
  <2>1. ASSUME NEW n \in Tasks(p), p.queue[n].type = "cleanup"
        PROVE  us.pc = "wait" /\ \A m \in Closer(p) : m <= n
    <3>1. n + 1 \in Tasks(v) /\ v.queue[n + 1].type = "cleanup"
      BY <1>2, <2>1
    <3>2. us.pc = "wait" /\ \A m \in Closer(v) : m <= n + 1
      BY <1>5, <3>1 DEF Life
    <3>3. ASSUME NEW m \in Closer(p) PROVE m <= n
      <4>1. m + 1 <= n + 1 /\ m \in Tasks(p)
        BY <1>3, <3>2 DEF Closer
      <4> QED BY <1>2, <4>1
    <3> QED BY <3>2, <3>3
  <2>2. ASSUME us.pc = "wait" PROVE \E n \in Tasks(p) : p.queue[n].type = "cleanup"
    <3>1. PICK n \in Tasks(v) : v.queue[n].type = "cleanup"
      BY <1>5, <2>2 DEF Life
    <3>2. n # 1
      BY <1>1, <3>1
    <3> QED BY <1>1, <3>1, <3>2
  <2>3. /\ p.tcp \in {0, Gen(p)} /\ p.open \in BOOLEAN /\ p.epoch \in 0 .. Gen(p)
        /\ us.pc \in {"idle", "wait", "config", "epoch", "flag", "slot", "store"}
        /\ st.pc \in {"idle", "clear", "handle", "set"}
        /\ p.open => p.tcp # 0 /\ us.pc \in {"idle", "slot", "store"} /\ Closer(p) = {}
        /\ us.pc \in {"epoch", "flag"} => p.tcp # 0
        /\ us.pc = "epoch" => p.epoch < Gen(p)
        /\ p.tcp = 0 \/ Opening(us) => st.pc = "idle" /\ Closer(p) = {}
    BY <1>5, <1>7, <1>8 DEF Life
  <2> QED BY <2>1, <2>2, <2>3 DEF Life
<1>10. Epochs(p, us, st)
  <2>1. us.pc = "flag" => \A n \in Tasks(p) : p.queue[n].type = "read" => p.queue[n].epoch < p.epoch
    BY <1>2, <1>5, <1>7 DEF Epochs
  <2>2. p.open => \A n \in Tasks(p) : /\ p.queue[n].type = "read" /\ p.queue[n].epoch = p.epoch
                                      /\ p.queue[n].res = "packet"
                                      => p.queue[n].from = p.tcp
    BY <1>2, <1>5, <1>7 DEF Epochs
  <2> QED BY <1>5, <1>7, <2>1, <2>2 DEF Epochs
<1>11. Ending(p, us, st)
  <2>1. \A g : CloseOn(v, g) => CloseOn(p, g)
    BY <1>3, <1>4 DEF CloseOn
  <2>2. CloseDevice(v) => CloseDevice(p)
    BY <1>3, <1>4, <1>7 DEF CloseDevice
  <2> QED BY <1>5, <1>7, <2>1, <2>2 DEF Ending
<1> QED BY <1>6, <1>9, <1>10, <1>11 DEF Rest

\* A task is taken that is no accept and closes nothing.
LEMMA PopAll ==
  ASSUME NEW v, NEW us, NEW st, All(v, us, st), v.queue # <<>>,
         Head(v.queue).type \notin {"accept", "close", "cleanup"}, NEW p, p = Pop(v)
  PROVE  All(p, us, st) /\ (SweepOf(v, 1) => \A n \in Tasks(p) : ~SweepOf(p, n))
<1>1. FlowsInv(v) /\ Queued(v) /\ Sweeping(v) /\ Rest(v, us, st) /\ DOMAIN v = Fields
  BY DEF All, FlowsInv, Shape
<1>2. IsSeq(v.queue) /\ v.epoch \in Nat
  <2>1. v.epoch \in 0 .. Gen(v)
    BY <1>1 DEF Rest, Life
  <2> QED BY <1>1, <2>1 DEF Queued
<1>3. DOMAIN p = Fields /\ SameTcp(v, p) /\ SameLife(v, p)
  BY <1>1, <1>2, PopIs
<1>4. FlowsInv(p) /\ Free(p) = Free(v) /\ Gens(p) = Gens(v) /\ p.epoch = v.epoch
  BY <1>1, <1>3, FlowsSame DEF SameLife
<1>5. Queued(p)
  <2>1. Free(p) = {i \in Free(v) : ~(Head(v.queue).type = "accept" /\ Head(v.queue).i = i)}
    BY <1>4
  <2> QED BY <1>1, <1>2, <1>4, <2>1, PopQueued
<1>6. Sweeping(p) /\ (SweepOf(v, 1) => \A n \in Tasks(p) : ~SweepOf(p, n))
  BY <1>1, <1>2, PopSweeping
<1>7. Rest(p, us, st)
  BY <1>1, <1>2, PopRest
<1> QED BY <1>4, <1>5, <1>6, <1>7 DEF All

\* A handler of the engines leaves the life of the engines alone.
LEMMA KeepsRest ==
  ASSUME NEW v, FlowsInv(v), NEW us, NEW st, Rest(v, us, st), NEW x, Shape(x), Keeps(v, x),
         \A g \in Gens(v) : x.engs[g].closed = v.engs[g].closed
  PROVE  Rest(x, us, st)
<1>1. Device1(v) /\ Life(v, us, st) /\ Words(v, us, st) /\ Epochs(v, us, st) /\ Ending(v, us, st)
  BY DEF Rest
<1>2. /\ SameDevice(v, x) /\ SameLife(v, x) /\ x.queue = v.queue /\ Len(x.engs) = Len(v.engs)
      /\ Len(x.accs) = Len(v.accs)
      /\ \A i \in Accs(v) : x.accs[i].epoch = v.accs[i].epoch /\ x.accs[i].gen = v.accs[i].gen
  BY DEF Keeps, TcpOnly
<1>3. Gen(x) = Gen(v) /\ Gens(x) = Gens(v) /\ Accs(x) = Accs(v) /\ Tasks(x) = Tasks(v)
      /\ Closer(x) = Closer(v)
  <2>1. Gens(x) = Gens(v) /\ Accs(x) = Accs(v)
    <3>1. Shape(v)
      BY DEF FlowsInv
    <3>2. Gens(v) = 1 .. Len(v.engs) /\ Gens(x) = 1 .. Len(x.engs)
          /\ Accs(v) = 1 .. Len(v.accs) /\ Accs(x) = 1 .. Len(x.accs)
      BY <3>1, ShapeIs
    <3> QED BY <1>2, <3>2
  <2> QED BY <1>2, <2>1 DEF Gen, Tasks, Closer
<1>4. Device1(x) /\ Words(x, us, st)
  BY <1>1, <1>2, RestParts
<1>5. /\ x.tcp = v.tcp /\ x.open = v.open /\ x.epoch = v.epoch /\ x.misrouted = v.misrouted
      /\ x.reads = v.reads /\ x.polls = v.polls /\ x.descs = v.descs
  BY <1>2 DEF SameLife, SameDevice
<1>6. Life(x, us, st)
  BY ONLY <1>1, <1>2, <1>3, <1>5 DEF Life
<1>7. Epochs(x, us, st)
  BY ONLY <1>1, <1>2, <1>3, <1>5 DEF Epochs
<1>8. Ending(x, us, st)
  <2>1. \A g : CloseOn(x, g) <=> CloseOn(v, g)
    BY <1>2, <1>3 DEF CloseOn
  <2>2. CloseDevice(x) <=> CloseDevice(v)
    BY <1>2, <1>3, <1>5 DEF CloseDevice
  <2>3. v.open \/ st.pc # "idle" \/ us.pc \in {"epoch", "flag"} => v.tcp \in Gens(v)
    <3>1. /\ v.tcp \in {0, Gen(v)}
          /\ (v.open \/ st.pc # "idle" \/ us.pc \in {"epoch", "flag"} => v.tcp # 0)
      BY <1>1 DEF Life
    <3>2. Gens(v) = 1 .. Gen(v) /\ Gen(v) \in Nat
      BY ShapeIs DEF FlowsInv, Gen
    <3> QED BY <3>1, <3>2
  <2> QED BY <1>1, <1>3, <1>5, <2>1, <2>2, <2>3 DEF Ending
<1> QED BY <1>4, <1>6, <1>7, <1>8 DEF Rest

\* The queue stays, the engines may become more and the epoch may grow.
LEMMA QueuedSame ==
  ASSUME NEW v, Queued(v), NEW x, Free(x) = Free(v), Gens(v) \subseteq Gens(x),
         v.epoch \in Nat, x.epoch \in Nat, v.epoch <= x.epoch, x.queue = v.queue
  PROVE  Queued(x)
<1>1. Longer(v.queue, x.queue, {})
  BY LongerSelf DEF Queued
<1>2. \A t \in {} : TaskOk(x, t) /\ t.type # "accept"
  OBVIOUS
<1> QED BY <1>1, <1>2, QueuedGrows

\* Neither the queue nor a sweep changes.
LEMMA SweepingSame ==
  ASSUME NEW v, Sweeping(v), IsSeq(v.queue), NEW x, Gens(x) = Gens(v), x.tcp = v.tcp,
         \A g \in Gens(v) : x.engs[g].sweep = v.engs[g].sweep, v.tcp \in Gens(v) \cup {0},
         x.queue = v.queue,
         \A n \in Tasks(v) : v.queue[n].type = "sweep" => v.queue[n].eng \in Gens(v)
  PROVE  Sweeping(x)
<1> DEFINE T == {}
<1>1. \A t \in T : t.type # "sweep"
  OBVIOUS
<1> HIDE DEF T
<1>2. Longer(v.queue, x.queue, T)
  BY LongerSelf
<1> QED BY <1>1, <1>2, SweepingGrows

\* The tasks of the queue name engines there are.
LEMMA SweepsNamed ==
  ASSUME NEW v, Queued(v), NEW us, NEW st, Life(v, us, st), Shape(v)
  PROVE  /\ \A n \in Tasks(v) : v.queue[n].type = "sweep" => v.queue[n].eng \in Gens(v)
         /\ v.tcp \in Gens(v) \cup {0} /\ v.epoch \in Nat /\ (v.tcp # 0 => v.tcp \in Gens(v))
         /\ 0 \notin Gens(v)
<1>1. Gens(v) = 1 .. Gen(v) /\ Gen(v) \in Nat
  BY ShapeIs DEF Gen
<1>2. v.tcp \in {0, Gen(v)} /\ v.epoch \in 0 .. Gen(v)
  BY DEF Life
<1>3. \A n \in Tasks(v) : v.queue[n].type = "sweep" => v.queue[n].eng \in Gens(v)
  BY DEF Queued, TaskOk
<1> QED BY <1>1, <1>2, <1>3

\* A handler of the engines keeps the invariant.
LEMMA AllHandled ==
  ASSUME NEW v, NEW us, NEW st, All(v, us, st), NEW x, Handled(v, x)
  PROVE  All(x, us, st)
<1>1. FlowsInv(v) /\ Queued(v) /\ Sweeping(v) /\ Rest(v, us, st) /\ Shape(v)
  BY DEF All, FlowsInv
<1>2. /\ FlowsInv(x) /\ Keeps(v, x) /\ SameSweeps(v, x) /\ Free(x) = Free(v) /\ Shape(x)
      /\ x.queue = v.queue /\ x.tcp = v.tcp /\ x.epoch = v.epoch /\ Len(x.engs) = Len(v.engs)
  BY DEF Handled, FlowsInv, Keeps, TcpOnly, SameLife
<1>3. Gens(x) = Gens(v)
  BY <1>1, <1>2, ShapeIs
<1>4. \A g \in Gens(v) : x.engs[g].sweep = v.engs[g].sweep /\ x.engs[g].closed = v.engs[g].closed
  BY <1>2 DEF SameSweeps
<1>5. /\ \A n \in Tasks(v) : v.queue[n].type = "sweep" => v.queue[n].eng \in Gens(v)
      /\ v.tcp \in Gens(v) \cup {0} /\ v.epoch \in Nat
  BY <1>1, SweepsNamed DEF Rest
<1>6. Queued(x)
  BY <1>1, <1>2, <1>3, <1>5, QueuedSame
<1>7. Sweeping(x)
  <2>1. IsSeq(v.queue)
    BY <1>1 DEF Queued
  <2> QED BY <1>1, <1>2, <1>3, <1>4, <1>5, <2>1, SweepingSame
<1>8. Rest(x, us, st)
  BY <1>1, <1>2, <1>4, KeepsRest
<1> QED BY <1>2, <1>6, <1>7, <1>8 DEF All

\* What a task of the strand is.
LEMMA TaskHead ==
  ASSUME NEW v, Queued(v), v.queue # <<>>, DOMAIN v = Fields
  PROVE  TaskOk(v, Head(v.queue)) /\ 1 \in Tasks(v) /\ v.queue[1] = Head(v.queue)
<1>1. 1 \in Tasks(v) /\ v.queue[1] = Head(v.queue)
  BY PopIs DEF Queued
<1> QED BY <1>1 DEF Queued

\* The first task is taken from w.
LEMMA PoppedIs ==
  ASSUME DOMAIN w = Fields
  PROVE  Popped = Pop(w)
BY DEF Popped, Pop, Fields

-----------------------------------------------------------------------------
(***************************************************************************)
(* Every action keeps the invariant.                                       *)
(***************************************************************************)
\* cancel_tcp_accepts on the strand.
LEMMA RunCancelKeeps ==
  ASSUME Inv, RunCancel
  PROVE  Inv'
<1>1. /\ All(w, user, strand) /\ Script(left) /\ FlowsInv(w) /\ Queued(w) /\ DOMAIN w = Fields
      /\ w.queue # <<>> /\ Head(w.queue).type = "cancel"
      /\ w' = cancel_accepts(Popped, Head(w.queue).eng)
      /\ user' = user /\ strand' = strand /\ left' = left
  BY DEF Inv, RunCancel, Task, All, FlowsInv, Shape
<1> DEFINE g == Head(w.queue).eng
           p == Pop(w)
<1>2. g \in Gens(w) /\ w' = cancel_accepts(p, g)
  BY <1>1, TaskHead, PoppedIs DEF TaskOk
<1>3. Head(w.queue).type \notin {"accept", "close", "cleanup"}
  BY <1>1
<1> HIDE DEF g, p
<1>4. p = Pop(w)
  BY DEF p
<1>5. All(p, user, strand)
  BY ONLY <1>1, <1>3, <1>4, PopAll
<1>6. FlowsInv(p) /\ SameTcp(w, p)
  BY <1>1, <1>4, <1>5, PopIs DEF All, Queued
<1>7. g \in Gens(p)
  BY <1>2, <1>6 DEF SameTcp, Gens
<1>8. FlowsBut(p, g)
  BY <1>6, ButIs
<1>9. Cancelled(p, w', g)
  BY ONLY <1>2, <1>7, <1>8, CancelKeeps
<1>10. Handled(p, w')
  BY <1>9 DEF Cancelled, Handled
<1>11. All(w', user, strand)
  BY ONLY <1>5, <1>10, AllHandled
<1>12. All(w', user', strand') /\ Script(left')
  BY <1>1, <1>11
<1> QED BY <1>12 DEF Inv

\* A call of the application on a flow it was given.
LEMMA FlowOpKeeps ==
  ASSUME Inv, NEW f \in Given, NEW op, FlowOp(f, op)
  PROVE  Inv'
<1>1. /\ All(w, user, strand) /\ Script(left) /\ FlowsInv(w)
      /\ w' = flow_op(w, f, op) /\ left.ops > 0
      /\ left' = [left EXCEPT !.ops = left.ops - 1] /\ user' = user /\ strand' = strand
  BY DEF Inv, FlowOp, All
<1>2. f \in Fids(w) /\ w.flows[f].accepted
  <2>1. PICK i \in Accs(w) : w.accs[i].st = "ok" /\ f = w.accs[i].fid
    BY DEF Given, Accs
  <2>2. Accepts(w)
    BY <1>1 DEF FlowsInv
  <2> QED BY <2>1, <2>2 DEF Accepts, Has1
<1>3. Handled(w, w')
  BY ONLY <1>1, <1>2, OpKeeps
<1>4. All(w', user, strand)
  BY ONLY <1>1, <1>3, AllHandled
<1>5. Script(left')
  BY <1>1 DEF Script, Counters
<1>6. All(w', user', strand')
  BY <1>1, <1>4
<1> QED BY <1>5, <1>6 DEF Inv

\* async_accept_tcp on the strand: the accept is told, or waits.
LEMMA RunAcceptKeeps ==
  ASSUME Inv, RunAccept
  PROVE  Inv'
<1> DEFINE h == Head(w.queue)
           i == h.i
           p == Pop(w)
<1>1. /\ All(w, user, strand) /\ Script(left) /\ FlowsInv(w) /\ Queued(w) /\ Sweeping(w)
      /\ Rest(w, user, strand) /\ DOMAIN w = Fields /\ Shape(w) /\ IsSeq(w.queue)
      /\ w.queue # <<>> /\ h.type = "accept"
      /\ user' = user /\ strand' = strand /\ left' = left
  BY DEF Inv, RunAccept, Task, All, FlowsInv, Shape, Queued
<1>2. w' = async_accept_tcp(p, i)
  BY <1>1, PoppedIs DEF RunAccept
<1>3. i \in Free(w)
  BY <1>1, TaskHead DEF TaskOk
<1>4. h.type \notin {"close", "cleanup"}
  BY <1>1
<1> HIDE DEF h, i, p
<1>5. p = Pop(w) /\ h = Head(w.queue) /\ h.i = i
  BY DEF p, h, i
<1>6. Rest(p, user, strand)
  BY ONLY <1>1, <1>4, <1>5, PopRest
<1>7. DOMAIN p = Fields /\ SameTcp(w, p) /\ SameLife(w, p)
  BY <1>1, <1>5, PopIs
<1>8. FlowsInv(p) /\ Free(p) = Free(w) /\ Gens(p) = Gens(w) /\ Shape(p)
  BY <1>1, <1>7, FlowsSame DEF FlowsInv
<1>9. Life(w, user, strand)
  BY <1>1 DEF Rest
<1>10. /\ w.tcp \in Gens(w) \cup {0} /\ w.epoch \in Nat
       /\ \A n \in Tasks(w) : w.queue[n].type = "sweep" => w.queue[n].eng \in Gens(w)
  BY <1>1, <1>9, SweepsNamed
<1>11. Sweeping(p) /\ p.tcp = w.tcp /\ p.epoch = w.epoch /\ IsSeq(p.queue)
  BY <1>1, <1>5, <1>7, PopSweeping, PopIs DEF SameLife
<1>12. \A n \in Tasks(p) : p.queue[n].type = "sweep" => p.queue[n].eng \in Gens(p)
  BY <1>1, <1>5, <1>8, <1>10, PopTasks
<1>13. /\ FlowsInv(w') /\ Keeps(p, w') /\ SameSweeps(p, w') /\ Free(w') = Free(p) \ {i}
  <2>1. CASE p.open /\ p.accs[i].epoch = p.epoch /\ p.tcp # 0
    <3> DEFINE g == p.tcp
    <3>1. g \in Gens(p) /\ w' = async_accept(p, g, i)
      BY <1>2, <1>8, <1>10, <1>11, <2>1 DEF async_accept_tcp
    <3>2. Life(p, user, strand) /\ Epochs(p, user, strand) /\ Ending(p, user, strand)
      BY <1>6 DEF Rest
    <3>3. i \in Accs(p) /\ i \in Free(p)
      BY <1>3, <1>8 DEF Free
    <3>4. p.accs[i].gen = g
      BY <2>1, <3>2, <3>3 DEF Life, Epochs
    <3>5. ~p.engs[g].closed
      BY <2>1, <3>2 DEF Ending
    <3> HIDE DEF g
    <3> QED BY ONLY <1>8, <3>1, <3>3, <3>4, <3>5, AsyncAcceptKeeps
  <2>2. CASE ~(p.open /\ p.accs[i].epoch = p.epoch /\ p.tcp # 0)
    <3> DEFINE st == "bad_descriptor"
    <3>1. st \notin {"wait", "ok"} /\ w' = post_accept(p, i, st, 0)
      BY <1>2, <2>2 DEF async_accept_tcp
    <3>2. i \in Free(p)
      BY <1>3, <1>8
    <3> HIDE DEF st
    <3> QED BY ONLY <1>8, <3>1, <3>2, PostKeeps
  <2> QED BY <2>1, <2>2
<1>14. /\ w'.queue = p.queue /\ w'.tcp = p.tcp /\ w'.epoch = p.epoch /\ Shape(w')
       /\ Len(w'.engs) = Len(p.engs)
  BY <1>13 DEF Keeps, TcpOnly, SameLife, FlowsInv
<1>15. Gens(w') = Gens(p)
  BY <1>8, <1>14, ShapeIs
<1>16. \A g \in Gens(p) : w'.engs[g].sweep = p.engs[g].sweep /\ w'.engs[g].closed = p.engs[g].closed
  BY <1>13 DEF SameSweeps
<1>17. Rest(w', user, strand)
  BY ONLY <1>6, <1>8, <1>13, <1>14, <1>16, KeepsRest
<1>18. p.tcp \in Gens(p) \cup {0}
  BY <1>8, <1>10, <1>11
<1>19. Sweeping(w')
  BY ONLY <1>11, <1>12, <1>14, <1>15, <1>16, <1>18, SweepingSame
<1>20. Queued(w')
  <2>1. Free(w') = {j \in Free(w) : ~(h.type = "accept" /\ h.i = j)}
    BY <1>1, <1>5, <1>8, <1>13
  <2>2. w'.epoch = w.epoch /\ Gens(w') = Gens(w)
    BY <1>8, <1>11, <1>14, <1>15
  <2> QED BY ONLY <1>1, <1>5, <1>10, <1>14, <2>1, <2>2, PopQueued
<1>21. All(w', user, strand)
  BY <1>13, <1>17, <1>19, <1>20 DEF All
<1>22. All(w', user', strand') /\ Script(left')
  BY <1>1, <1>21
<1> QED BY <1>22 DEF Inv

\* on_sweep: the engine that lives is swept, and its timer is set again.
LEMMA RunSweepKeeps ==
  ASSUME Inv, NEW old, RunSweep(old)
  PROVE  Inv'
<1> DEFINE h == Head(w.queue)
           p == Pop(w)
           g == w.tcp
<1>1. /\ All(w, user, strand) /\ Script(left) /\ FlowsInv(w) /\ Queued(w) /\ Sweeping(w)
      /\ Rest(w, user, strand) /\ DOMAIN w = Fields /\ Shape(w) /\ IsSeq(w.queue)
      /\ w.queue # <<>> /\ h.type = "sweep"
      /\ user' = user /\ strand' = strand /\ left' = left
  BY DEF Inv, RunSweep, Task, All, FlowsInv, Shape, Queued
<1>2. w' = IF h.eng = g THEN on_sweep(p, g, old) ELSE p
  BY <1>1, PoppedIs DEF RunSweep
<1>3. h.eng \in Gens(w) /\ w.queue[1] = h
  BY <1>1, TaskHead DEF TaskOk
<1>4. h.type \notin {"accept", "close", "cleanup"}
  BY <1>1
<1> HIDE DEF h, p, g
<1>5. p = Pop(w) /\ h = Head(w.queue) /\ g = w.tcp
  BY DEF p, h, g
<1>6. All(p, user, strand) /\ (SweepOf(w, 1) => \A n \in Tasks(p) : ~SweepOf(p, n))
  BY ONLY <1>1, <1>4, <1>5, PopAll
<1>7. CASE h.eng # g
  <2>1. All(w', user', strand') /\ Script(left')
    BY <1>1, <1>2, <1>6, <1>7
  <2> QED BY <2>1 DEF Inv
<1>8. CASE h.eng = g
  <2>1. /\ SameTcp(w, p) /\ SameLife(w, p) /\ FlowsInv(p) /\ Queued(p) /\ Sweeping(p)
        /\ Rest(p, user, strand) /\ Life(p, user, strand)
    BY <1>1, <1>5, <1>6, PopIs DEF All, Rest
  <2>2. p.tcp = g /\ p.engs = w.engs /\ Gens(p) = Gens(w) /\ g \in Gens(p)
    BY <1>3, <1>5, <1>8, <2>1 DEF SameTcp, SameLife, Gens
  <2>3. SweepOf(w, 1)
    BY <1>1, <1>3, <1>5, <1>8 DEF SweepOf
  <2>4. w.engs[g].sweep = "queued"
    <3>1. 1 \in Tasks(w)
      BY <1>1, TaskHead
    <3> QED BY <1>1, <1>5, <2>3, <3>1 DEF Sweeping
  <2>5. p.engs[g].closed => p.engs[g].late
    BY <2>1, <2>2, <2>4 DEF FlowsInv, Closings
  <2>6. w' = on_sweep(p, g, old)
    BY <1>2, <1>8
  <2>7. SweepDone(p, w', g)
    BY ONLY <2>1, <2>2, <2>5, <2>6, SweepKeeps
  <2>8. /\ FlowsInv(w') /\ Keeps(p, w') /\ Free(w') = Free(p) /\ w'.engs[g].sweep = "armed"
        /\ \A k \in Gens(p) : /\ k # g => w'.engs[k].sweep = p.engs[k].sweep
                              /\ w'.engs[k].closed = p.engs[k].closed
    BY <2>7 DEF SweepDone
  <2>9. /\ w'.queue = p.queue /\ w'.tcp = p.tcp /\ w'.epoch = p.epoch /\ Shape(w')
        /\ Len(w'.engs) = Len(p.engs) /\ Shape(p)
    BY <2>1, <2>8 DEF Keeps, TcpOnly, SameLife, FlowsInv
  <2>10. Gens(w') = Gens(p) /\ Tasks(w') = Tasks(p)
    BY <2>9, ShapeIs DEF Tasks
  <2>11. p.epoch \in Nat
    BY <2>1, <2>9, SweepsNamed
  <2>12. Queued(w')
    <3>1. Gens(p) \subseteq Gens(w') /\ w'.epoch \in Nat /\ p.epoch <= w'.epoch
      BY <2>9, <2>10, <2>11
    <3> QED BY ONLY <2>1, <2>8, <2>9, <2>11, <3>1, QueuedSame
  <2>13. Sweeping(w')
    <3>1. \A n \in Tasks(w') : ~SweepOf(w', n)
      BY <1>6, <2>3, <2>9, <2>10 DEF SweepOf
    <3>2. \A k \in Gens(p) : /\ p.engs[k].sweep \in {"none", "armed", "queued"}
                             /\ p.engs[k].sweep # "none" => k = g
      BY <2>1, <2>2 DEF Sweeping
    <3> QED BY <2>2, <2>8, <2>9, <2>10, <3>1, <3>2 DEF Sweeping
  <2>14. Rest(w', user, strand)
    BY ONLY <2>1, <2>8, <2>9, KeepsRest
  <2>15. All(w', user', strand') /\ Script(left')
    BY <1>1, <2>8, <2>12, <2>13, <2>14 DEF All
  <2> QED BY <2>15 DEF Inv
<1> QED BY <1>7, <1>8

-----------------------------------------------------------------------------
(* Steps of the device, of the threads and of what they share. *)
\* The user goes on in start_read or gives up open(), or the strand goes on in
\* on_read.
Calm(us) == us.pc \in {"idle", "slot", "store"}
Onward(us, st, uz, sz) ==
  /\ uz.pc = us.pc \/ ((Calm(us) \/ us.pc = "config") /\ Calm(uz))
  /\ sz.pc \in {"idle", "clear", "handle", "set"}
  /\ sz.pc # "idle" => st.pc # "idle" /\ sz.task = st.task

\* Where the threads are then goes with what there is.
LEMMA ThreadsMove ==
  ASSUME NEW v, NEW us, NEW st, Life(v, us, st), Epochs(v, us, st), Ending(v, us, st),
         NEW uz, NEW sz, Onward(us, st, uz, sz)
  PROVE  Life(v, uz, sz) /\ Epochs(v, uz, sz) /\ Ending(v, uz, sz)
<1>1. /\ uz.pc \in {"idle", "wait", "config", "epoch", "flag", "slot", "store"}
      /\ sz.pc \in {"idle", "clear", "handle", "set"}
      /\ uz.pc = "wait" <=> us.pc = "wait"
      /\ uz.pc = "epoch" <=> us.pc = "epoch"
      /\ uz.pc = "flag" <=> us.pc = "flag"
      /\ uz.pc = "config" => us.pc = "config"
      /\ Calm(us) => Calm(uz)
      /\ sz.pc # "idle" => st.pc # "idle" /\ sz.task = st.task
  BY DEF Onward, Calm, Life
<1>2. Life(v, uz, sz)
  BY <1>1 DEF Life, Opening, Calm
<1>3. Epochs(v, uz, sz)
  BY <1>1 DEF Epochs
<1>4. Ending(v, uz, sz)
  BY <1>1 DEF Ending
<1> QED BY <1>2, <1>3, <1>4

\* Nothing changes but words, addresses and replies, and the slots may go.
Aside(v, x) ==
  /\ DOMAIN x = Fields /\ SameTcp(v, x) /\ SameDevice(v, x) /\ x.queue = v.queue
  /\ x.open = v.open /\ x.epoch = v.epoch /\ x.slots \in {v.slots, 0} /\ x.per_queue = v.per_queue
  /\ x.tcp = v.tcp /\ (x.misrouted = v.misrouted \/ ~x.misrouted)

\* The words are right: so is all.
LEMMA AsideKeeps ==
  ASSUME NEW v, NEW us, NEW st, All(v, us, st), NEW x, Aside(v, x),
         NEW uz, NEW sz, Onward(us, st, uz, sz), Words(x, uz, sz)
  PROVE  All(x, uz, sz)
<1>1. /\ FlowsInv(v) /\ Queued(v) /\ Sweeping(v) /\ Device1(v) /\ Life(v, us, st)
      /\ Epochs(v, us, st) /\ Ending(v, us, st) /\ Shape(v) /\ IsSeq(v.queue)
  BY DEF All, Rest, FlowsInv, Queued
<1>2. Life(v, uz, sz) /\ Epochs(v, uz, sz) /\ Ending(v, uz, sz)
  BY ONLY <1>1, ThreadsMove, Onward(us, st, uz, sz)
<1>3. /\ x.engs = v.engs /\ x.flows = v.flows /\ x.accs = v.accs /\ x.queue = v.queue
      /\ x.open = v.open /\ x.epoch = v.epoch /\ x.slots \in {v.slots, 0} /\ x.tcp = v.tcp
      /\ x.per_queue = v.per_queue /\ (x.misrouted = v.misrouted \/ ~x.misrouted)
      /\ x.fds = v.fds /\ x.descs = v.descs /\ x.reads = v.reads /\ x.polls = v.polls
  BY DEF Aside, SameTcp, SameDevice
<1>4. /\ FlowsInv(x) /\ Free(x) = Free(v) /\ Gens(x) = Gens(v) /\ Accs(x) = Accs(v)
      /\ Gen(x) = Gen(v)
  BY <1>1, FlowsSame DEF Aside
<1>5. /\ \A n \in Tasks(v) : v.queue[n].type = "sweep" => v.queue[n].eng \in Gens(v)
      /\ v.tcp \in Gens(v) \cup {0} /\ v.epoch \in Nat
  BY <1>1, SweepsNamed
<1>6. Queued(x)
  BY <1>1, <1>3, <1>4, <1>5, QueuedSame
<1>7. Sweeping(x)
  BY <1>1, <1>3, <1>4, <1>5, SweepingSame
<1>8. Tasks(x) = Tasks(v) /\ Closer(x) = Closer(v)
  BY <1>3 DEF Tasks, Closer
<1>9. Device1(x)
  BY <1>1, <1>3 DEF Device1, Handles, ReadOk
<1>10. Life(x, uz, sz)
  BY <1>2, <1>3, <1>4, <1>8 DEF Life
<1>11. Epochs(x, uz, sz)
  BY <1>2, <1>3, <1>4, <1>8 DEF Epochs
<1>12. Ending(x, uz, sz)
  <2>1. /\ \A g : CloseOn(x, g) <=> CloseOn(v, g)
        /\ CloseDevice(x) <=> CloseDevice(v)
    BY <1>3, <1>8 DEF CloseOn, CloseDevice
  <2> QED BY <1>2, <1>3, <1>4, <2>1 DEF Ending
<1> QED BY <1>4, <1>6, <1>7, <1>9, <1>10, <1>11, <1>12 DEF All, Rest

\* What a read that ends tells the strand: a packet of the generation that is
\* current comes from its device.
Reading(v, us, t) ==
  /\ t.type = "read" /\ ReadOk(v, t) /\ t.res \in {"error", "aborted", "packet"}
  /\ us.pc = "flag" => t.epoch < v.epoch
  /\ v.open /\ t.epoch = v.epoch /\ t.res = "packet" => t.from = v.tcp

\* The device does something and some reads end.
LEMMA DeviceStep ==
  ASSUME NEW v, NEW us, NEW st, All(v, us, st), NEW x, DeviceOnly(v, x), Device1(x),
         NEW T, Longer(v.queue, x.queue, T), \A t \in T : Reading(v, us, t),
         us.pc = "flag" => \A r \in x.reads \cup x.polls : r.epoch < v.epoch,
         x.descs # {} => v.descs # {}
  PROVE  All(x, us, st)
<1>1. /\ FlowsInv(v) /\ Queued(v) /\ Sweeping(v) /\ Life(v, us, st) /\ Words(v, us, st)
      /\ Epochs(v, us, st) /\ Ending(v, us, st) /\ Shape(v)
  BY DEF All, Rest, FlowsInv
<1>2. /\ x.engs = v.engs /\ x.accs = v.accs /\ x.open = v.open /\ x.epoch = v.epoch
      /\ x.slots = v.slots /\ x.tcp = v.tcp /\ x.misrouted = v.misrouted
      /\ x.inflight = v.inflight
  BY DEF DeviceOnly, SameTcp, SameLife
<1>3. /\ FlowsInv(x) /\ Free(x) = Free(v) /\ Gens(x) = Gens(v) /\ Accs(x) = Accs(v)
      /\ Gen(x) = Gen(v)
  BY <1>1, FlowsSame DEF DeviceOnly
<1>4. /\ \A n \in Tasks(v) : v.queue[n].type = "sweep" => v.queue[n].eng \in Gens(v)
      /\ v.tcp \in Gens(v) \cup {0} /\ v.epoch \in Nat
  BY <1>1, SweepsNamed
<1>5. \A t \in T : TaskOk(x, t) /\ t.type \notin {"accept", "sweep", "close", "cleanup"}
  BY <1>2 DEF Reading, TaskOk, TaskTypes, ReadOk
<1>6. Queued(x)
  <2>1. Gens(v) \subseteq Gens(x) /\ x.epoch \in Nat /\ v.epoch <= x.epoch
    BY <1>2, <1>3, <1>4
  <2>2. \A t \in T : TaskOk(x, t) /\ t.type # "accept"
    BY <1>5
  <2> QED BY <1>1, <1>3, <1>4, <2>1, <2>2, QueuedGrows
<1>7. Sweeping(x)
  <2>1. \A t \in T : t.type # "sweep"
    BY <1>5
  <2>2. \A g \in Gens(v) : x.engs[g].sweep = v.engs[g].sweep
    BY <1>2
  <2> QED BY <1>1, <1>2, <1>3, <1>4, <2>1, <2>2, SweepingGrows
<1>8. /\ Closer(x) = Closer(v) /\ \A n \in Tasks(v) : x.queue[n] = v.queue[n]
      /\ \A n \in Tasks(x) : x.queue[n].type \in {"close", "cleanup"} => n \in Tasks(v)
      /\ Tasks(v) \subseteq Tasks(x)
  <2>1. \A t \in T : t.type \notin {"close", "cleanup"}
    BY <1>5
  <2> QED BY <2>1, CloserGrows
<1>9. \A n \in Tasks(x) : n \in Tasks(v) \/ Reading(v, us, x.queue[n])
  BY LongerIs DEF Tasks
<1>10. Life(x, us, st)
  <2>1. \A n \in Tasks(x) : x.queue[n].type = "cleanup" =>
          us.pc = "wait" /\ \A m \in Closer(x) : m <= n
    BY <1>1, <1>8 DEF Life
  <2>2. us.pc = "wait" => \E n \in Tasks(x) : x.queue[n].type = "cleanup"
    BY <1>1, <1>8 DEF Life
  <2> QED BY <1>1, <1>2, <1>3, <1>8, <2>1, <2>2 DEF Life
<1>11. Words(x, us, st)
  BY <1>1, <1>2 DEF Words
<1>12. Epochs(x, us, st)
  <2>1. us.pc = "flag" => \A n \in Tasks(x) : x.queue[n].type = "read" => x.queue[n].epoch < x.epoch
    BY <1>1, <1>2, <1>8, <1>9 DEF Epochs, Reading
  <2>2. x.open => \A n \in Tasks(x) : /\ x.queue[n].type = "read" /\ x.queue[n].epoch = x.epoch
                                      /\ x.queue[n].res = "packet"
                                      => x.queue[n].from = x.tcp
    BY <1>1, <1>2, <1>8, <1>9 DEF Epochs, Reading
  <2> QED BY <1>1, <1>2, <1>3, <2>1, <2>2 DEF Epochs
<1>13. Ending(x, us, st)
  <2>1. \A n \in Closer(v) : x.queue[n] = v.queue[n]
    BY <1>8 DEF Closer
  <2>2. /\ \A g : CloseOn(x, g) <=> CloseOn(v, g)
        /\ CloseDevice(x) <=> CloseDevice(v)
    BY <1>2, <1>8, <2>1 DEF CloseOn, CloseDevice
  <2> QED BY <1>1, <1>2, <1>3, <2>2 DEF Ending
<1> QED BY <1>3, <1>6, <1>7, <1>10, <1>11, <1>12, <1>13 DEF All, Rest

\* One task is put at the end of the queue.
LEMMA PostLonger ==
  ASSUME NEW v, DOMAIN v = Fields, IsSeq(v.queue), NEW t, NEW x, x = Post(v, t)
  PROVE  /\ DOMAIN x = Fields /\ SameTcp(v, x) /\ SameLife(v, x) /\ SameDevice(v, x)
         /\ Longer(v.queue, x.queue, {t})
<1>1. /\ x.queue = Add(v.queue, t) /\ DOMAIN x = Fields /\ SameTcp(v, x) /\ SameLife(v, x)
      /\ SameDevice(v, x)
  BY DEF Post, Add, Fields, SameTcp, SameLife, SameDevice
<1> DEFINE T == {t}
<1>2. t \in T
  OBVIOUS
<1> HIDE DEF T
<1>3. Longer(v.queue, v.queue, T)
  BY LongerSelf
<1>4. Longer(v.queue, x.queue, T)
  BY <1>1, <1>2, <1>3, LongerAdd
<1> QED BY <1>1, <1>4 DEF T

\* The parts of the invariant that the device needs.
LEMMA AllParts ==
  ASSUME NEW v, NEW us, NEW st, All(v, us, st)
  PROVE  /\ FlowsInv(v) /\ Queued(v) /\ Sweeping(v) /\ Device1(v) /\ Life(v, us, st)
         /\ Words(v, us, st) /\ Epochs(v, us, st) /\ Ending(v, us, st) /\ Shape(v)
         /\ DOMAIN v = Fields /\ IsSeq(v.queue) /\ v.epoch \in Nat /\ Handles(v)
         /\ v.slots \in Nat /\ v.per_queue \in Nat \ {0}
         /\ \A r \in v.reads \cup v.polls : ReadOk(v, r)
         /\ (v.tcp # 0 => v.tcp \in Gens(v) /\ v.tcp = Gen(v))
         /\ Gens(v) = 1 .. Gen(v) /\ Gen(v) \in Nat
<1>1. /\ FlowsInv(v) /\ Queued(v) /\ Sweeping(v) /\ Device1(v) /\ Life(v, us, st)
      /\ Words(v, us, st) /\ Epochs(v, us, st) /\ Ending(v, us, st) /\ Shape(v)
      /\ DOMAIN v = Fields /\ IsSeq(v.queue)
  BY DEF All, Rest, FlowsInv, Shape, Queued
<1>2. v.epoch \in Nat /\ (v.tcp # 0 => v.tcp \in Gens(v))
  BY <1>1, SweepsNamed
<1>3. Gens(v) = 1 .. Gen(v) /\ Gen(v) \in Nat
  BY <1>1, ShapeIs DEF Gen
<1>4. v.tcp # 0 => v.tcp = Gen(v)
  BY <1>1 DEF Life
<1> QED BY <1>1, <1>2, <1>3, <1>4 DEF Device1

\* async_read_packet: the device takes the read, or it fails at once.
LEMMA ReadKeeps ==
  ASSUME NEW v, NEW us, NEW st, All(v, us, st), us.pc # "flag", NEW slot \in Nat \ {0},
         NEW x, x = async_read_packet(v, slot)
  PROVE  All(x, us, st)
<1> DEFINE r == [slot |-> slot, epoch |-> v.epoch]
           q == 1 + (slot - 1) \div v.per_queue
           d == ReadDone(r, "error")
<1>1. /\ Queued(v) /\ Device1(v) /\ Epochs(v, us, st) /\ DOMAIN v = Fields /\ IsSeq(v.queue)
      /\ v.epoch \in Nat /\ v.per_queue \in Nat \ {0} /\ Handles(v)
      /\ \A o \in v.reads \cup v.polls : ReadOk(v, o)
  BY AllParts
<1>2. (slot - 1) \div v.per_queue \in Nat
  <2>1. ASSUME NEW a \in Nat, NEW b \in Nat \ {0} PROVE a \div b \in Nat
    BY <2>1
  <2>2. slot - 1 \in Nat
    OBVIOUS
  <2> QED BY <1>1, <2>1, <2>2
<1>3. q \in Nat /\ q > 0
  BY <1>2
<1>4. ReadOk(v, r) /\ r.epoch = v.epoch
  BY <1>1 DEF ReadOk
<1>5. x = async_read(v, r, q)
  BY DEF async_read_packet, QueueOf
<1> HIDE DEF r, q
<1>6. CASE v.wintun
  <2>1. x = [v EXCEPT !.polls = v.polls \cup {r}]
    BY <1>5, <1>6 DEF async_read, wintun_async_read
  <2>2. /\ DeviceOnly(v, x) /\ x.queue = v.queue /\ x.fds = v.fds /\ x.descs = v.descs
        /\ x.reads = v.reads /\ x.polls = v.polls \cup {r}
    BY <1>1, <2>1 DEF DeviceOnly, Fields, SameTcp, SameLife
  <2>3. Device1(x)
    BY <1>1, <1>4, <2>2 DEF Device1, Handles, DeviceOnly, SameLife, ReadOk
  <2> DEFINE T == {}
  <2>4. \A t \in T : Reading(v, us, t)
    OBVIOUS
  <2> HIDE DEF T
  <2>5. Longer(v.queue, x.queue, T)
    BY <1>1, <2>2, LongerSelf
  <2> QED BY ONLY All(v, us, st), us.pc # "flag", <2>2, <2>3, <2>4, <2>5, DeviceStep
<1>7. CASE ~v.wintun /\ q > Cardinality(v.descs)
  <2>1. x = Post(v, d)
    BY <1>5, <1>7 DEF async_read, posix_async_read
  <2>2. /\ d.type = "read" /\ d.res = "error" /\ ReadOk(v, d)
    BY <1>4 DEF ReadDone, ReadOk
  <2>3. Reading(v, us, d)
    BY <2>2, us.pc # "flag" DEF Reading
  <2> HIDE DEF d
  <2>4. /\ DOMAIN x = Fields /\ SameTcp(v, x) /\ SameLife(v, x) /\ SameDevice(v, x)
        /\ Longer(v.queue, x.queue, {d})
    BY <1>1, <2>1, PostLonger
  <2> DEFINE T == {d}
  <2>5. (\A t \in T : Reading(v, us, t)) /\ Longer(v.queue, x.queue, T)
    BY <2>3, <2>4
  <2> HIDE DEF T
  <2>6. DeviceOnly(v, x) /\ x.descs = v.descs
    BY <2>4 DEF DeviceOnly, SameDevice
  <2>7. Device1(x)
    BY <1>1, <2>4 DEF Device1, Handles, SameDevice, SameLife, ReadOk
  <2> QED BY ONLY All(v, us, st), us.pc # "flag", <2>5, <2>6, <2>7, DeviceStep
<1>8. CASE ~v.wintun /\ ~(q > Cardinality(v.descs))
  <2>1. x = [v EXCEPT !.reads = v.reads \cup {r}]
    BY <1>5, <1>8 DEF async_read, posix_async_read
  <2>2. /\ DeviceOnly(v, x) /\ x.queue = v.queue /\ x.fds = v.fds /\ x.descs = v.descs
        /\ x.reads = v.reads \cup {r} /\ x.polls = v.polls
    BY <1>1, <2>1 DEF DeviceOnly, Fields, SameTcp, SameLife
  <2>3. v.descs # {}
    BY <1>3, <1>8, FS_EmptySet
  <2>4. Device1(x)
    BY <1>1, <1>4, <2>2, <2>3 DEF Device1, Handles, DeviceOnly, SameLife, ReadOk
  <2> DEFINE T == {}
  <2>5. \A t \in T : Reading(v, us, t)
    OBVIOUS
  <2> HIDE DEF T
  <2>6. Longer(v.queue, x.queue, T)
    BY <1>1, <2>2, LongerSelf
  <2> QED BY ONLY All(v, us, st), us.pc # "flag", <2>2, <2>4, <2>5, <2>6, DeviceStep
<1> QED BY <1>6, <1>7, <1>8

\* What start_read goes on with.
LEMMA NextSlotIs ==
  ASSUME NEW u, DOMAIN u = {"pc", "slot", "snap"}, u.snap = {}, u.slot \in Nat \ {0},
         NEW n, n = NextSlot(u)
  PROVE  /\ DOMAIN n = {"pc", "slot", "snap"} /\ n.snap = {} /\ n.pc \in {"slot", "idle"}
         /\ n.pc = "slot" => n.slot \in Nat \ {0}
BY DEF NextSlot, Idle

\* start_read_slot loads the word.
LEMMA SlotLoadKeeps ==
  ASSUME Inv, SlotLoad
  PROVE  Inv'
<1>1. /\ All(w, user, strand) /\ Script(left) /\ user.pc = "slot"
      /\ user' = IF CanStart(user.slot) THEN [user EXCEPT !.pc = "store", !.snap = w.inflight]
                 ELSE NextSlot(user)
      /\ w' = w /\ strand' = strand /\ left' = left
  BY DEF Inv, SlotLoad
<1>2. /\ Words(w, user, strand) /\ Life(w, user, strand) /\ DOMAIN w = Fields /\ w.slots \in Nat
  BY <1>1, AllParts
<1>3. /\ DOMAIN user = {"pc", "slot", "snap"} /\ user.snap = {} /\ user.slot \in Nat \ {0}
      /\ w.inflight \subseteq 1 .. w.slots /\ strand.pc \in {"idle", "clear", "handle", "set"}
  BY <1>1, <1>2 DEF Words, Life
<1>4. /\ DOMAIN user' = {"pc", "slot", "snap"} /\ user'.pc \in {"slot", "idle", "store"}
      /\ user'.snap \subseteq 1 .. w.slots
      /\ user'.pc # "store" => user'.snap = {}
      /\ user'.pc = "store" => user'.slot \in 1 .. w.slots
      /\ user'.pc = "slot" => user'.slot \in Nat \ {0}
  <2>1. CASE CanStart(user.slot)
    BY <1>1, <1>2, <1>3, <2>1 DEF CanStart
  <2>2. CASE ~CanStart(user.slot)
    <3>1. user' = NextSlot(user)
      BY <1>1, <2>2
    <3> QED BY <1>3, <3>1, NextSlotIs
  <2> QED BY <2>1, <2>2
<1>5. Words(w, user', strand)
  BY <1>2, <1>4 DEF Words
<1>6. Onward(user, strand, user', strand)
  BY <1>1, <1>3, <1>4 DEF Onward, Calm
<1>7. Aside(w, w)
  BY <1>2 DEF Aside, SameTcp, SameDevice
<1> DEFINE uz == user'
<1>8. Words(w, uz, strand) /\ Onward(user, strand, uz, strand)
  BY <1>5, <1>6
<1> HIDE DEF uz
<1>9. All(w, uz, strand)
  BY ONLY <1>1, <1>7, <1>8, AsideKeeps
<1>10. All(w', user', strand') /\ Script(left')
  BY <1>1, <1>9 DEF uz
<1> QED BY <1>10 DEF Inv

\* start_read_slot stores the word, and the device reads.
LEMMA SlotStoreKeeps ==
  ASSUME Inv, SlotStore
  PROVE  Inv'
<1> DEFINE v == [w EXCEPT !.inflight = user.snap \cup {user.slot}]
           uz == NextSlot([user EXCEPT !.snap = {}])
           slot == user.slot
<1>1. /\ All(w, user, strand) /\ Script(left) /\ user.pc = "store"
      /\ w' = async_read_packet(v, slot) /\ user' = uz
      /\ strand' = strand /\ left' = left
  BY DEF Inv, SlotStore
<1>2. /\ Words(w, user, strand) /\ Life(w, user, strand) /\ DOMAIN w = Fields /\ w.slots \in Nat
  BY <1>1, AllParts
<1>3. /\ DOMAIN user = {"pc", "slot", "snap"} /\ user.snap \subseteq 1 .. w.slots
      /\ user.slot \in 1 .. w.slots /\ strand.pc \in {"idle", "clear", "handle", "set"}
  BY <1>1, <1>2 DEF Words, Life
<1>4. slot \in Nat \ {0}
  BY <1>2, <1>3
<1>5. /\ DOMAIN uz = {"pc", "slot", "snap"} /\ uz.snap = {} /\ uz.pc \in {"slot", "idle"}
      /\ uz.pc = "slot" => uz.slot \in Nat \ {0}
  <2> DEFINE u == [user EXCEPT !.snap = {}]
  <2>1. DOMAIN u = {"pc", "slot", "snap"} /\ u.snap = {} /\ u.slot \in Nat \ {0} /\ uz = NextSlot(u)
    BY <1>3, <1>4
  <2> HIDE DEF u, uz
  <2> QED BY <2>1, NextSlotIs
<1>6. Aside(w, v) /\ v.inflight \subseteq 1 .. v.slots /\ v.slots = w.slots
  BY <1>2, <1>3 DEF Aside, SameTcp, SameDevice, Fields
<1> HIDE DEF v, uz, slot
<1>7. Words(v, uz, strand)
  BY <1>2, <1>5, <1>6 DEF Words
<1>8. Onward(user, strand, uz, strand) /\ uz.pc # "flag"
  BY <1>1, <1>3, <1>5 DEF Onward, Calm
<1>9. All(v, uz, strand)
  BY ONLY <1>1, <1>6, <1>7, <1>8, AsideKeeps
<1>10. All(w', uz, strand)
  BY ONLY <1>1, <1>4, <1>8, <1>9, ReadKeeps
<1>11. All(w', user', strand') /\ Script(left')
  BY <1>1, <1>10
<1> QED BY <1>11 DEF Inv

\* A word of the slots there are is stored as it is.
LEMMA StoreIs ==
  ASSUME NEW v, NEW word, word \subseteq 1 .. v.slots
  PROVE  store(v, word) = [v EXCEPT !.inflight = word]
<1>1. word \intersect 1 .. v.slots = word
  OBVIOUS
<1> QED BY <1>1 DEF store

\* on_read stores the word it set the slot's bit in, and the device reads.
LEMMA ReadAgainKeeps ==
  ASSUME Inv, ReadAgain
  PROVE  Inv'
<1> DEFINE v == [w EXCEPT !.inflight = strand.snap \cup {strand.task.slot}]
           slot == strand.task.slot
           sz == Resting
<1>0. /\ All(w, user, strand) /\ Script(left) /\ strand.pc = "set"
      /\ w' = async_read_packet(store(w, strand.snap \cup {slot}), slot) /\ strand' = sz
      /\ user' = user /\ left' = left
  BY DEF Inv, ReadAgain
<1>2. /\ Words(w, user, strand) /\ Life(w, user, strand) /\ DOMAIN w = Fields /\ w.slots \in Nat
  BY <1>0, AllParts
<1>3. /\ strand.snap \subseteq 1 .. w.slots /\ strand.task.slot \in Nat \ {0}
      /\ strand.task.slot <= w.slots
  BY <1>0, <1>2 DEF Words
<1>4. slot \in Nat \ {0} /\ slot \in 1 .. w.slots
  BY <1>2, <1>3
<1>1. /\ All(w, user, strand) /\ Script(left) /\ strand.pc = "set"
      /\ w' = async_read_packet(v, slot) /\ strand' = sz
      /\ user' = user /\ left' = left
  <2>1. strand.snap \cup {slot} \subseteq 1 .. w.slots
    BY <1>3, <1>4
  <2>2. store(w, strand.snap \cup {slot}) = v
    BY <2>1, StoreIs
  <2> QED BY <1>0, <2>2
<1>5. user.pc # "flag"
  BY <1>1, <1>2 DEF Life, Opening
<1>6. Aside(w, v) /\ v.inflight \subseteq 1 .. v.slots /\ v.slots = w.slots
  BY <1>2, <1>3, <1>4 DEF Aside, SameTcp, SameDevice, Fields
<1>7. DOMAIN sz = {"pc", "task", "snap"} /\ sz.pc = "idle" /\ sz.snap = {}
  BY DEF Resting
<1> HIDE DEF v, sz, slot
<1>8. Words(v, user, sz)
  BY <1>2, <1>6, <1>7 DEF Words
<1>9. Onward(user, strand, user, sz)
  BY <1>7 DEF Onward
<1>10. All(v, user, sz)
  BY ONLY <1>1, <1>6, <1>8, <1>9, AsideKeeps
<1>11. All(w', user, sz)
  BY ONLY <1>1, <1>4, <1>5, <1>10, ReadKeeps
<1>12. All(w', user', strand') /\ Script(left')
  BY <1>1, <1>11
<1> QED BY <1>12 DEF Inv

\* on_read clears the slot's bit in the word it loaded.
LEMMA ReadClearKeeps ==
  ASSUME Inv, ReadClear
  PROVE  Inv'
<1> DEFINE v == [w EXCEPT !.inflight = strand.snap \ {strand.task.slot}]
           sz == [strand EXCEPT !.pc = "handle", !.snap = {}]
<1>0. /\ All(w, user, strand) /\ Script(left) /\ strand.pc = "clear"
      /\ w' = store(w, strand.snap \ {strand.task.slot}) /\ strand' = sz /\ user' = user
      /\ left' = left
  BY DEF Inv, ReadClear
<1>2. /\ Words(w, user, strand) /\ DOMAIN w = Fields
  BY <1>0, AllParts
<1>1. /\ All(w, user, strand) /\ Script(left) /\ strand.pc = "clear"
      /\ w' = v /\ strand' = sz /\ user' = user /\ left' = left
  <2>1. strand.snap \ {strand.task.slot} \subseteq 1 .. w.slots
    BY <1>2 DEF Words
  <2> QED BY <1>0, <2>1, StoreIs
<1>3. /\ Aside(w, v) /\ v.inflight \subseteq 1 .. v.slots /\ v.slots = w.slots
  BY <1>1, <1>2 DEF Aside, SameTcp, SameDevice, Fields, Words
<1>4. /\ DOMAIN sz = {"pc", "task", "snap"} /\ sz.pc = "handle" /\ sz.snap = {}
      /\ sz.task = strand.task
  BY <1>2 DEF Words
<1> HIDE DEF v, sz
<1>5. Words(v, user, sz)
  BY <1>1, <1>2, <1>3, <1>4 DEF Words
<1>6. Onward(user, strand, user, sz)
  BY <1>1, <1>4 DEF Onward
<1>7. All(v, user, sz)
  BY ONLY <1>1, <1>3, <1>5, <1>6, AsideKeeps
<1>8. All(w', user', strand') /\ Script(left')
  BY <1>1, <1>7
<1> QED BY <1>8 DEF Inv

\* on_read begins: a callback of the generation that is current is handled.
LEMMA ReadBeginKeeps ==
  ASSUME Inv, ReadBegin
  PROVE  Inv'
<1> DEFINE p == Pop(w)
           h == Head(w.queue)
           sz == IF w.open /\ h.epoch = w.epoch
                 THEN [pc |-> "clear", task |-> h, snap |-> w.inflight] ELSE strand
<1>1. /\ All(w, user, strand) /\ Script(left) /\ strand.pc = "idle" /\ w.queue # <<>>
      /\ h.type = "read" /\ strand' = sz /\ user' = user /\ left' = left
  BY DEF Inv, ReadBegin, Task
<1>2. /\ DOMAIN w = Fields /\ Queued(w) /\ IsSeq(w.queue)
  BY <1>1, AllParts
<1>3. w' = p
  BY <1>2, PoppedIs DEF ReadBegin
<1>4. /\ TaskOk(w, h) /\ 1 \in Tasks(w) /\ w.queue[1] = h
  BY <1>1, <1>2, TaskHead
<1>5. h.type \notin {"accept", "close", "cleanup"}
  BY <1>1
<1> HIDE DEF p, h, sz
<1>6. p = Pop(w) /\ h = Head(w.queue)
  BY DEF p, h
<1>7. All(p, user, strand)
  BY ONLY <1>1, <1>5, <1>6, PopAll
<1>8. SameTcp(w, p) /\ SameLife(w, p)
  BY <1>1, <1>2, <1>6, PopIs
<1>9. CASE ~(w.open /\ h.epoch = w.epoch)
  <2>1. sz = strand
    BY <1>9 DEF sz
  <2>2. All(w', user', strand') /\ Script(left')
    BY <1>1, <1>3, <1>7, <2>1
  <2> QED BY <2>2 DEF Inv
<1>10. CASE w.open /\ h.epoch = w.epoch
  <2>1. /\ DOMAIN sz = {"pc", "task", "snap"} /\ sz.pc = "clear" /\ sz.task = h
        /\ sz.snap = w.inflight
    BY <1>10 DEF sz
  <2>2. /\ FlowsInv(p) /\ Queued(p) /\ Sweeping(p) /\ Device1(p) /\ Life(p, user, strand)
        /\ Words(p, user, strand) /\ Epochs(p, user, strand) /\ Ending(p, user, strand)
    BY <1>7, AllParts
  <2>3. p.open /\ p.epoch = w.epoch /\ p.tcp = w.tcp /\ p.inflight = w.inflight
        /\ p.slots = w.slots
    BY <1>8, <1>10 DEF SameLife
  <2>4. p.tcp # 0 /\ user.pc \in {"idle", "slot", "store"}
    BY <2>2, <2>3 DEF Life
  <2>5. Life(p, user, sz)
    BY <2>1, <2>2, <2>4 DEF Life, Opening
  <2>6. h.slot \in Nat \ {0} /\ h.res \in {"error", "aborted", "packet"}
    BY <1>1, <1>4 DEF TaskOk, ReadOk
  <2>7. Words(p, user, sz)
    BY <2>1, <2>2, <2>3, <2>6 DEF Words
  <2>8. h.res = "packet" => h.from = p.tcp
    <3>1. Epochs(w, user, strand)
      BY <1>1, AllParts
    <3> QED BY <1>1, <1>4, <1>10, <2>3, <3>1 DEF Epochs
  <2>9. Epochs(p, user, sz)
    BY <2>1, <2>2, <2>4, <2>8 DEF Epochs
  <2>10. Ending(p, user, sz)
    BY <2>1, <2>2, <2>3 DEF Ending
  <2>11. All(w', user', strand') /\ Script(left')
    BY <1>1, <1>3, <2>2, <2>5, <2>7, <2>9, <2>10 DEF All, Rest
  <2> QED BY <2>11 DEF Inv
<1> QED BY <1>9, <1>10

\* What the device may still do is counted.
LEMMA DeviceScript ==
  ASSUME Script(left), NEW res, Device(res)
  PROVE  Script(left') /\ left' # left /\ res \in {"packet", "error"}
<1>1. /\ DOMAIN left = Counters \cup {"pkts", "dev"} /\ left.packets \in Nat /\ left.faults \in Nat
  BY DEF Script, Counters
<1>2. CASE res = "packet" /\ left.packets > 0 /\ left' = [left EXCEPT !.packets = left.packets - 1]
  <2>1. left'.packets = left.packets - 1 /\ left'.packets \in Nat
    BY <1>1, <1>2 DEF Counters
  <2>2. left' # left
    BY <1>1, <2>1
  <2> QED BY <1>2, <2>1, <2>2 DEF Script, Counters
<1>3. CASE res = "error" /\ left.faults > 0 /\ left' = [left EXCEPT !.faults = left.faults - 1]
  <2>1. left'.faults = left.faults - 1 /\ left'.faults \in Nat
    BY <1>1, <1>3 DEF Counters
  <2>2. left' # left
    BY <1>1, <2>1
  <2> QED BY <1>3, <2>1, <2>2 DEF Script, Counters
<1> QED BY <1>2, <1>3 DEF Device

\* A read that ends is of the generation whose device had it.
LEMMA EndReading ==
  ASSUME NEW v, NEW us, NEW st, All(v, us, st), NEW r \in v.reads \cup v.polls,
         NEW res \in {"error", "aborted", "packet"}, NEW t,
         \/ t = ReadDone(r, res) /\ res # "packet"
         \/ t = [ReadDone(r, res) EXCEPT !.from = Gen(v)]
  PROVE  Reading(v, us, t)
<1>1. ReadOk(v, r) /\ Epochs(v, us, st) /\ Life(v, us, st) /\ (v.tcp # 0 => v.tcp = Gen(v))
  BY AllParts
<1>2. /\ t.type = "read" /\ t.res = res /\ ReadOk(v, t) /\ t.epoch = r.epoch
      /\ res = "packet" => t.from = Gen(v)
  <2>1. CASE t = ReadDone(r, res) /\ res # "packet"
    BY <1>1, <2>1 DEF ReadDone, ReadOk
  <2>2. CASE t = [ReadDone(r, res) EXCEPT !.from = Gen(v)]
    BY <1>1, <2>2 DEF ReadDone, ReadOk
  <2> QED BY <2>1, <2>2
<1>3. us.pc = "flag" => r.epoch < v.epoch
  BY <1>1 DEF Epochs
<1>4. v.open => v.tcp # 0
  BY <1>1 DEF Life
<1> QED BY <1>1, <1>2, <1>3, <1>4 DEF Reading

\* The device finishes a read.
LEMMA DeviceReadKeeps ==
  ASSUME Inv, NEW r, NEW res, DeviceRead(r, res)
  PROVE  Inv'
<1> DEFINE t == [ReadDone(r, res) EXCEPT !.from = Gen(w)]
           v == [w EXCEPT !.reads = w.reads \ {r}]
           T == {t}
<1>1. /\ All(w, user, strand) /\ Script(left) /\ r \in w.reads /\ Device(res)
      /\ w' = Post(v, t) /\ user' = user /\ strand' = strand
  BY DEF Inv, DeviceRead
<1>2. res \in {"error", "aborted", "packet"} /\ Script(left')
  BY <1>1, DeviceScript
<1>3. /\ DOMAIN w = Fields /\ IsSeq(w.queue) /\ Device1(w) /\ Epochs(w, user, strand)
  BY <1>1, AllParts
<1>4. Reading(w, user, t)
  <2> HIDE DEF v, T
  <2> QED BY <1>1, <1>2, EndReading
<1>5. /\ DOMAIN v = Fields /\ SameTcp(w, v) /\ SameLife(w, v) /\ v.queue = w.queue
      /\ v.fds = w.fds /\ v.descs = w.descs /\ v.reads = w.reads \ {r} /\ v.polls = w.polls
  BY <1>3 DEF SameTcp, SameLife, Fields
<1> HIDE DEF t, v
<1> DEFINE x == w'
<1>6. x = Post(v, t) /\ IsSeq(v.queue)
  BY <1>1, <1>3, <1>5
<1> HIDE DEF x
<1>7. /\ DOMAIN x = Fields /\ SameTcp(v, x) /\ SameLife(v, x) /\ SameDevice(v, x)
      /\ Longer(v.queue, x.queue, {t})
  BY ONLY <1>5, <1>6, PostLonger
<1>8. DeviceOnly(w, x)
  BY <1>5, <1>7 DEF DeviceOnly, SameTcp, SameLife
<1>9. /\ x.fds = w.fds /\ x.descs = w.descs /\ x.reads = w.reads \ {r} /\ x.polls = w.polls
      /\ x.epoch = w.epoch
  BY <1>5, <1>7 DEF SameDevice, SameLife
<1>10. Device1(x)
  BY <1>3, <1>8, <1>9 DEF Device1, Handles, DeviceOnly, SameLife, ReadOk
<1>11. (\A y \in T : Reading(w, user, y)) /\ Longer(w.queue, x.queue, T)
  BY <1>4, <1>5, <1>7
<1> HIDE DEF T
<1>12. /\ user.pc = "flag" => \A o \in x.reads \cup x.polls : o.epoch < w.epoch
       /\ x.descs # {} => w.descs # {}
  BY <1>3, <1>9 DEF Epochs
<1>13. All(x, user, strand)
  BY ONLY <1>1, <1>8, <1>10, <1>11, <1>12, DeviceStep
<1>14. All(w', user', strand')
  BY <1>1, <1>13 DEF x
<1> QED BY <1>2, <1>14 DEF Inv

\* A read of Wintun polls again.
LEMMA WintunTimerKeeps ==
  ASSUME Inv, WintunTimer
  PROVE  Inv'
<1> DEFINE x == [w EXCEPT !.polls = w.polls \cup w.reads, !.reads = {}]
           T == {}
<1>1. /\ All(w, user, strand) /\ Script(left) /\ w' = x
      /\ user' = user /\ strand' = strand /\ left' = left
  BY DEF Inv, WintunTimer, recv_timer
<1>2. /\ DOMAIN w = Fields /\ IsSeq(w.queue) /\ Device1(w) /\ Epochs(w, user, strand)
  BY <1>1, AllParts
<1>3. /\ DeviceOnly(w, x) /\ x.queue = w.queue /\ x.epoch = w.epoch
      /\ x.fds = w.fds /\ x.descs = w.descs /\ x.reads = {} /\ x.polls = w.polls \cup w.reads
  BY <1>2 DEF DeviceOnly, SameTcp, SameLife, Fields
<1>4. \A t \in T : Reading(w, user, t)
  OBVIOUS
<1> HIDE DEF x, T
<1>5. Device1(x)
  BY <1>2, <1>3 DEF Device1, Handles, DeviceOnly, SameLife, ReadOk
<1>6. Longer(w.queue, x.queue, T)
  BY <1>2, <1>3, LongerSelf
<1>7. /\ user.pc = "flag" => \A o \in x.reads \cup x.polls : o.epoch < w.epoch
      /\ x.descs # {} => w.descs # {}
  BY <1>2, <1>3 DEF Epochs
<1>8. All(x, user, strand)
  BY ONLY <1>1, <1>3, <1>4, <1>5, <1>6, <1>7, DeviceStep
<1>9. All(w', user', strand') /\ Script(left')
  BY <1>1, <1>8
<1> QED BY <1>9 DEF Inv

\* One poll: where the queue and the reads are afterwards.
Polled(v, r, x, T) ==
  /\ DeviceOnly(v, x) /\ Longer(v.queue, x.queue, T) /\ x.fds = v.fds /\ x.descs = v.descs
  /\ x.polls = v.polls \ {r} /\ x.reads \subseteq v.reads \cup {r}
  /\ v.descs = {} => x.reads = v.reads

\* A poll keeps the invariant, whatever it told the strand.
LEMMA PolledKeeps ==
  ASSUME NEW v, NEW us, NEW st, All(v, us, st), NEW r \in v.polls, NEW x, NEW T,
         Polled(v, r, x, T), \A t \in T : Reading(v, us, t)
  PROVE  All(x, us, st)
<1>1. Device1(v) /\ Epochs(v, us, st)
  BY AllParts
<1>2. /\ DeviceOnly(v, x) /\ Longer(v.queue, x.queue, T) /\ x.fds = v.fds /\ x.descs = v.descs
      /\ x.polls = v.polls \ {r} /\ x.reads \subseteq v.reads \cup {r}
      /\ v.descs = {} => x.reads = v.reads
  BY DEF Polled
<1>3. Device1(x)
  BY <1>1, <1>2 DEF Device1, Handles, DeviceOnly, SameLife, ReadOk
<1>4. /\ us.pc = "flag" => \A o \in x.reads \cup x.polls : o.epoch < v.epoch
      /\ x.descs # {} => v.descs # {}
  BY <1>1, <1>2 DEF Epochs
<1>5. All(v, us, st) /\ \A t \in T : Reading(v, us, t)
  OBVIOUS
<1> QED BY ONLY <1>2, <1>3, <1>4, <1>5, DeviceStep

\* recv_poll_loop.
LEMMA WintunPollKeeps ==
  ASSUME Inv, NEW r \in w.polls, NEW res, WintunPoll(r, res)
  PROVE  Inv'
<1> DEFINE p == [w EXCEPT !.polls = w.polls \ {r}]
           v == recv_poll_loop(w, r, res)
           x == w'
<1>1. /\ All(w, user, strand) /\ Script(left) /\ user' = user /\ strand' = strand
      /\ DOMAIN w = Fields /\ IsSeq(w.queue)
  BY AllParts DEF Inv, WintunPoll
<1>2. IF is_open(w) /\ res # "empty" THEN Device(res) ELSE res = "empty" /\ left' = left
  BY DEF WintunPoll
<1>3. x = IF left' = left THEN v ELSE [v EXCEPT !.queue[Len(v.queue)].from = Gen(w)]
  BY DEF WintunPoll
<1>4. /\ DOMAIN p = Fields /\ SameTcp(w, p) /\ SameLife(w, p) /\ p.queue = w.queue
      /\ p.fds = w.fds /\ p.descs = w.descs /\ p.reads = w.reads /\ p.polls = w.polls \ {r}
  BY <1>1 DEF SameTcp, SameLife, Fields
<1>5. ASSUME NEW y, DOMAIN y = Fields, SameTcp(p, y), SameLife(p, y), SameDevice(p, y)
      PROVE  /\ DeviceOnly(w, y) /\ y.fds = w.fds /\ y.descs = w.descs /\ y.reads = w.reads
             /\ y.polls = w.polls \ {r}
  <2> HIDE DEF p
  <2> QED BY <1>4, <1>5 DEF DeviceOnly, SameTcp, SameLife, SameDevice
<1>6. r \in w.reads \cup w.polls
  OBVIOUS
<1>7. Script(left') /\ \E T : Polled(w, r, x, T) /\ \A t \in T : Reading(w, user, t)
  <2>1. CASE w.descs = {}
    <3> DEFINE t == ReadDone(r, "aborted")
               T == {t}
    <3>1. left' = left /\ x = Post(p, t)
      BY <1>2, <1>3, <2>1 DEF is_open, recv_poll_loop
    <3>2. Reading(w, user, t)
      <4> DEFINE a == "aborted"
      <4>1. a \in {"error", "aborted", "packet"} /\ a # "packet" /\ t = ReadDone(r, a)
        OBVIOUS
      <4> HIDE DEF a, t, p, v, x
      <4> QED BY ONLY <1>1, <1>6, <4>1, EndReading
    <3> HIDE DEF t, p, v, x
    <3>3. /\ DOMAIN x = Fields /\ SameTcp(p, x) /\ SameLife(p, x) /\ SameDevice(p, x)
          /\ Longer(p.queue, x.queue, {t})
      BY <1>1, <1>4, <3>1, PostLonger
    <3>4. Polled(w, r, x, T)
      BY <1>4, <1>5, <3>3 DEF Polled
    <3> QED BY <1>1, <3>1, <3>2, <3>4
  <2>2. CASE w.descs # {} /\ res = "empty" /\ w.reads = {}
    <3> DEFINE T == {}
    <3>1. left' = left /\ x = [p EXCEPT !.reads = {r}]
      BY <1>2, <1>3, <2>2 DEF recv_poll_loop
    <3> HIDE DEF p, v, x
    <3>2. /\ DeviceOnly(w, x) /\ x.fds = w.fds /\ x.descs = w.descs /\ x.polls = w.polls \ {r}
          /\ x.reads = {r} /\ x.queue = w.queue
      BY <1>4, <3>1 DEF DeviceOnly, SameTcp, SameLife, Fields
    <3>3. \A t \in T : Reading(w, user, t)
      OBVIOUS
    <3> HIDE DEF T
    <3>4. Longer(w.queue, x.queue, T)
      BY <1>1, <3>2, LongerSelf
    <3>5. Polled(w, r, x, T)
      BY <2>2, <3>2, <3>4 DEF Polled
    <3> QED BY <1>1, <3>1, <3>3, <3>5
  <2>3. CASE w.descs # {} /\ res = "empty" /\ w.reads # {}
    <3> DEFINE o == CHOOSE o \in w.reads : TRUE
               t == ReadDone(o, "aborted")
               T == {t}
               y == Post(p, t)
    <3>1. left' = left /\ x = [y EXCEPT !.reads = {r}]
      BY <1>2, <1>3, <2>3 DEF recv_poll_loop
    <3>2. o \in w.reads \cup w.polls
      BY <2>3
    <3>3. Reading(w, user, t)
      <4> DEFINE a == "aborted"
      <4>1. a \in {"error", "aborted", "packet"} /\ a # "packet" /\ t = ReadDone(o, a)
        OBVIOUS
      <4> HIDE DEF a, t, p, v, x, o
      <4> QED BY ONLY <1>1, <3>2, <4>1, EndReading
    <3> HIDE DEF t, p, v, x, o
    <3>4. /\ DOMAIN y = Fields /\ SameTcp(p, y) /\ SameLife(p, y) /\ SameDevice(p, y)
          /\ Longer(p.queue, y.queue, {t})
      BY <1>1, <1>4, PostLonger
    <3> HIDE DEF y
    <3>5. /\ DeviceOnly(w, y) /\ y.fds = w.fds /\ y.descs = w.descs /\ y.polls = w.polls \ {r}
      BY <1>5, <3>4
    <3>6. /\ DeviceOnly(w, x) /\ x.fds = w.fds /\ x.descs = w.descs /\ x.polls = w.polls \ {r}
          /\ x.reads = {r} /\ x.queue = y.queue
      BY <3>1, <3>5 DEF DeviceOnly, SameTcp, SameLife, Fields
    <3>7. Polled(w, r, x, T)
      BY <1>4, <2>3, <3>4, <3>6 DEF Polled
    <3> QED BY <1>1, <3>1, <3>3, <3>7
  <2>4. CASE w.descs # {} /\ res # "empty"
    <3> DEFINE t == [ReadDone(r, res) EXCEPT !.from = Gen(w)]
               T == {t}
               d == ReadDone(r, res)
               y == Post(p, d)
    <3>1. Device(res)
      BY <1>2, <2>4 DEF is_open
    <3>2. Script(left') /\ left' # left /\ res \in {"error", "aborted", "packet"}
      BY <1>1, <3>1, DeviceScript
    <3>3. v = y
      BY <2>4 DEF recv_poll_loop
    <3>4. Reading(w, user, t)
      <4> HIDE DEF p, v, x
      <4> QED BY ONLY <1>1, <1>6, <3>2, EndReading
    <3> HIDE DEF p, v, x
    <3>5. x = [y EXCEPT !.queue[Len(y.queue)].from = Gen(w)]
      BY <1>3, <3>2, <3>3
    <3>6. y.queue = Add(p.queue, d) /\ DOMAIN y = Fields /\ SameTcp(p, y) /\ SameLife(p, y)
          /\ SameDevice(p, y)
      BY <1>4 DEF Post, Add, Fields, SameTcp, SameLife, SameDevice
    <3>7. /\ IsSeq(y.queue) /\ Len(y.queue) = Len(w.queue) + 1
          /\ \A i \in 1 .. Len(w.queue) : y.queue[i] = w.queue[i]
          /\ y.queue[Len(w.queue) + 1] = d
      <4> HIDE DEF d, y
      <4> QED BY <1>1, <1>4, <3>6, SeqAppend
    <3>8. t = [d EXCEPT !.from = Gen(w)]
      OBVIOUS
    <3> HIDE DEF d, y, t
    <3>9. Len(w.queue) \in Nat /\ DOMAIN y.queue = 1 .. Len(y.queue)
      BY <1>1, <3>7, SeqIs
    <3>10. x.queue = Put(y.queue, Len(y.queue), t)
      BY <3>5, <3>6, <3>7, <3>8, <3>9 DEF Put, Fields
    <3>11. /\ IsSeq(x.queue) /\ Len(x.queue) = Len(y.queue) /\ x.queue[Len(y.queue)] = t
           /\ \A i \in DOMAIN y.queue : i # Len(y.queue) => x.queue[i] = y.queue[i]
      <4>1. Len(y.queue) \in DOMAIN y.queue
        BY <3>7, <3>9
      <4> QED BY <3>7, <3>10, <4>1, SeqExcept
    <3>12. Longer(w.queue, x.queue, T)
      <4>1. /\ Len(w.queue) <= Len(x.queue) /\ Len(x.queue) = Len(w.queue) + 1
            /\ x.queue[Len(w.queue) + 1] = t
        BY <3>7, <3>9, <3>11
      <4>2. ASSUME NEW i \in 1 .. Len(w.queue) PROVE x.queue[i] = w.queue[i]
        <5>1. i \in DOMAIN y.queue /\ i # Len(y.queue)
          BY <3>7, <3>9
        <5> QED BY <3>7, <3>11, <5>1
      <4>3. ASSUME NEW i \in 1 .. Len(x.queue), i > Len(w.queue) PROVE x.queue[i] \in T
        <5>1. i = Len(w.queue) + 1
          BY <3>9, <4>1, <4>3
        <5> QED BY <4>1, <5>1
      <4> QED BY <1>1, <3>11, <4>1, <4>2, <4>3 DEF Longer
    <3>13. /\ DeviceOnly(w, y) /\ y.fds = w.fds /\ y.descs = w.descs /\ y.reads = w.reads
           /\ y.polls = w.polls \ {r}
      BY <1>5, <3>6
    <3>14. /\ DeviceOnly(w, x) /\ x.fds = w.fds /\ x.descs = w.descs /\ x.reads = w.reads
           /\ x.polls = w.polls \ {r}
      BY <3>5, <3>13 DEF DeviceOnly, SameTcp, SameLife, Fields
    <3>15. Polled(w, r, x, T)
      BY <3>12, <3>14 DEF Polled
    <3> QED BY <3>2, <3>4, <3>15
  <2> QED BY <2>1, <2>2, <2>3, <2>4
<1> HIDE DEF x, v, p
<1>8. PICK T : Polled(w, r, x, T) /\ \A t \in T : Reading(w, user, t)
  BY <1>7
<1>9. All(x, user, strand)
  BY ONLY <1>1, <1>8, r \in w.polls, PolledKeeps
<1>10. All(w', user', strand')
  BY <1>1, <1>9 DEF x
<1> QED BY <1>7, <1>10 DEF Inv

\* The sweep of an engine is marked.
Marks(v, u, g, s) ==
  /\ TcpOnly(v, u) /\ u.flows = v.flows /\ u.accs = v.accs /\ u.conns = v.conns
  /\ u.engs = Put(v.engs, g, [v.engs[g] EXCEPT !.sweep = s])
  /\ s # "none" /\ v.engs[g].closed => v.engs[g].late
Marked(v, u, g, s) ==
  /\ FlowsInv(u) /\ Keeps(v, u) /\ Free(u) = Free(v) /\ Gens(u) = Gens(v)
  /\ u.engs[g].sweep = s /\ u.engs[g].closed = v.engs[g].closed
  /\ \A h \in Gens(v) : h # g => u.engs[h] = v.engs[h]

\* Nothing else of it changes.
LEMMA EngineMarked ==
  ASSUME NEW v, FlowsInv(v), NEW g \in Gens(v), NEW s, NEW u, Marks(v, u, g, s)
  PROVE  Marked(v, u, g, s)
<1> DEFINE e == v.engs[g]
           y == [e EXCEPT !.sweep = s]
<1>1. EngineOk(e) /\ Shape(v)
  BY DEF FlowsInv, Shape
<1>2. /\ DOMAIN y = EngineFields /\ y.table = e.table /\ y.pend = e.pend
      /\ y.waiters = e.waiters /\ y.sweep = s /\ y.closed = e.closed /\ y.late = e.late
      /\ IsSeq(y.pend) /\ IsSeq(y.waiters)
  BY <1>1 DEF EngineOk, EngineFields
<1> DEFINE n == 0
<1>3. /\ FlowsBut(v, n) /\ g \in Gens(v) /\ e = v.engs[g]
      /\ TcpOnly(v, u) /\ u.flows = v.flows /\ u.accs = v.accs /\ u.conns = v.conns
      /\ u.engs = Put(v.engs, g, y) /\ (s # "none" /\ e.closed => e.late)
  BY ButIs DEF Marks
<1> HIDE DEF n, y, e
<1>4. /\ Shape(u) /\ Tables(u) /\ Counts(u) /\ Accepts(u) /\ Keeps(v, u)
      /\ Fids(u) = Fids(v) /\ Gens(u) = Gens(v) /\ Accs(u) = Accs(v) /\ u.engs[g] = y
      /\ \A h \in Gens(v) : h # g => u.engs[h] = v.engs[h]
      /\ \A h \in Gens(v) : Live(u, h) = Live(v, h)
      /\ \A f \in Fids(v) : Unclaimed(u, f) <=> Unclaimed(v, f)
  BY ONLY <1>2, <1>3, EngineOnly
<1>5. ASSUME NEW h \in Gens(v)
      PROVE  /\ u.engs[h].pend = v.engs[h].pend /\ u.engs[h].waiters = v.engs[h].waiters
             /\ u.engs[h].closed = v.engs[h].closed /\ u.engs[h].late = v.engs[h].late
  BY <1>2, <1>3, <1>4
<1>6. Lists(u)
  <2>1. \A h \in Gens(v) : \A f : f \in Live(v, h) => (Unclaimed(u, f) <=> Unclaimed(v, f))
    BY <1>4 DEF Live
  <2>2. ASSUME NEW h \in Gens(v)
        PROVE  /\ Rising(u.engs[h].pend)
               /\ \A f : f \in ToSet(u.engs[h].pend) <=> f \in Live(u, h) /\ Unclaimed(u, f)
               /\ u.engs[h].waiters # <<>> => u.engs[h].pend = <<>>
    <3>1. /\ Rising(v.engs[h].pend)
          /\ \A f : f \in ToSet(v.engs[h].pend) <=> f \in Live(v, h) /\ Unclaimed(v, f)
          /\ v.engs[h].waiters # <<>> => v.engs[h].pend = <<>>
      BY DEF FlowsInv, Lists
    <3> QED BY <1>4, <1>5, <2>1, <3>1
  <2>3. \A f \in Fids(v) : /\ u.flows[f].pending <=> Unclaimed(u, f)
                           /\ Unclaimed(u, f) => u.flows[f].st = "SYN_RCVD"
    <3>1. \A f \in Fids(v) : /\ v.flows[f].pending <=> Unclaimed(v, f)
                             /\ Unclaimed(v, f) => v.flows[f].st = "SYN_RCVD"
      BY DEF FlowsInv, Lists
    <3> QED BY <1>3, <1>4, <3>1
  <2> QED BY <1>4, <2>2, <2>3 DEF Lists
<1>7. Waiters(u)
  <2>1. Waiters(v)
    BY DEF FlowsInv
  <2> QED BY <1>3, <1>4, <1>5, <2>1 DEF Waiters
<1>8. Closings(u)
  <2>1. Closings(v)
    BY DEF FlowsInv
  <2>2. ASSUME NEW h \in Gens(u), u.engs[h].closed
        PROVE  /\ u.engs[h].waiters = <<>> /\ Live(u, h) = {}
               /\ u.engs[h].sweep # "none" => u.engs[h].late
    <3>1. h \in Gens(v) /\ v.engs[h].closed
      BY <1>4, <1>5, <2>2
    <3>2. /\ v.engs[h].waiters = <<>> /\ Live(v, h) = {}
          /\ (v.engs[h].sweep # "none" => v.engs[h].late)
      BY <2>1, <3>1 DEF Closings
    <3>3. u.engs[h].waiters = <<>> /\ Live(u, h) = {}
      BY <1>4, <1>5, <3>1, <3>2
    <3>4. u.engs[h].sweep # "none" => u.engs[h].late
      <4>1. CASE h = g
        BY <1>2, <1>3, <1>4, <2>2, <4>1
      <4>2. CASE h # g
        BY <1>4, <3>1, <3>2, <4>2
      <4> QED BY <4>1, <4>2
    <3> QED BY <3>3, <3>4
  <2> QED BY <2>2 DEF Closings
<1>9. Free(u) = Free(v)
  BY <1>3, <1>4, <1>5, FreeSame
<1>10. u.engs[g].sweep = s /\ u.engs[g].closed = v.engs[g].closed
  BY <1>2, <1>3, <1>4
<1> QED BY <1>4, <1>6, <1>7, <1>8, <1>9, <1>10 DEF FlowsInv, Marked

\* A task is added that closes nothing and tells nobody.
LEMMA PlainTask ==
  ASSUME NEW v, NEW us, NEW st, All(v, us, st), NEW t, t.type \in {"cancel", "sweep"},
         t.eng \in Gens(v),
         t.type = "sweep" /\ t.eng = v.tcp =>
           v.engs[v.tcp].sweep = "queued" /\ \A n \in Tasks(v) : ~SweepOf(v, n),
         NEW x, x = Post(v, t)
  PROVE  All(x, us, st)
<1>1. /\ FlowsInv(v) /\ Queued(v) /\ Sweeping(v) /\ Device1(v) /\ Life(v, us, st)
      /\ Words(v, us, st) /\ Epochs(v, us, st) /\ Ending(v, us, st)
      /\ DOMAIN v = Fields /\ IsSeq(v.queue) /\ v.epoch \in Nat
  BY AllParts
<1> DEFINE T == {t}
<1>2. /\ DOMAIN x = Fields /\ SameTcp(v, x) /\ SameLife(v, x) /\ SameDevice(v, x)
      /\ Longer(v.queue, x.queue, T)
  BY <1>1, PostLonger
<1>3. /\ FlowsInv(x) /\ Free(x) = Free(v) /\ Gens(x) = Gens(v) /\ Accs(x) = Accs(v)
      /\ Gen(x) = Gen(v)
  BY <1>1, <1>2, FlowsSame
<1>4. /\ x.engs = v.engs /\ x.accs = v.accs /\ x.open = v.open /\ x.epoch = v.epoch
      /\ x.tcp = v.tcp /\ x.misrouted = v.misrouted
      /\ x.descs = v.descs /\ x.reads = v.reads /\ x.polls = v.polls
  BY <1>2 DEF SameTcp, SameLife, SameDevice
<1>5. TaskOk(x, t)
  BY <1>3 DEF TaskOk, TaskTypes
<1>6. \A y \in T : /\ TaskOk(x, y) /\ y = t /\ y.type # "accept"
                   /\ y.type \notin {"close", "cleanup", "read"}
  BY <1>5
<1> HIDE DEF T
<1>7. Queued(x)
  <2>1. Gens(v) \subseteq Gens(x) /\ x.epoch \in Nat /\ v.epoch <= x.epoch
    BY <1>1, <1>3, <1>4
  <2> QED BY <1>1, <1>2, <1>3, <1>6, <2>1, QueuedGrows
<1>8. /\ Closer(x) = Closer(v) /\ \A n \in Tasks(v) : x.queue[n] = v.queue[n]
      /\ \A n \in Tasks(x) : x.queue[n].type \in {"close", "cleanup"} => n \in Tasks(v)
      /\ Tasks(v) \subseteq Tasks(x)
  <2>1. \A y \in T : y.type \notin {"close", "cleanup"}
    BY <1>6
  <2>2. Longer(v.queue, x.queue, T)
    BY <1>2
  <2> QED BY ONLY <2>1, <2>2, CloserGrows
<1>9. \A n \in Tasks(x) : n \in Tasks(v) \/ (x.queue[n] = t /\ n = Len(v.queue) + 1)
  <2>1. x.queue = Add(v.queue, t)
    BY <1>1 DEF Post, Add, Fields
  <2>2. Len(x.queue) = Len(v.queue) + 1 /\ x.queue[Len(v.queue) + 1] = t /\ IsSeq(x.queue)
    BY <1>1, <2>1, SeqAppend
  <2>3. Tasks(x) = 1 .. Len(x.queue) /\ Tasks(v) = 1 .. Len(v.queue) /\ Len(v.queue) \in Nat
    BY <1>1, <2>2, SeqIs DEF Tasks
  <2> QED BY <2>2, <2>3
<1>10. Sweeping(x)
  <2>1. \A n \in Tasks(x) : SweepOf(x, n) =>
          (n \in Tasks(v) /\ SweepOf(v, n))
          \/ (t.type = "sweep" /\ t.eng = v.tcp /\ n = Len(v.queue) + 1)
    BY <1>4, <1>8, <1>9 DEF SweepOf
  <2>2. \A n \in Tasks(x) : SweepOf(x, n) => x.engs[x.tcp].sweep = "queued"
    BY <1>1, <1>4, <2>1 DEF Sweeping
  <2>3. \A n, m \in Tasks(x) : SweepOf(x, n) /\ SweepOf(x, m) => n = m
    BY <1>1, <2>1 DEF Sweeping
  <2> QED BY <1>1, <1>3, <1>4, <2>2, <2>3 DEF Sweeping
<1>11. Life(x, us, st)
  BY <1>1, <1>3, <1>4, <1>8 DEF Life
<1>12. Device1(x) /\ Words(x, us, st)
  BY <1>1, <1>2, RestParts
<1>13. Epochs(x, us, st)
  <2>1. \A n \in Tasks(x) : x.queue[n].type = "read" => n \in Tasks(v) /\ x.queue[n] = v.queue[n]
    BY <1>8, <1>9
  <2> QED BY <1>1, <1>3, <1>4, <2>1 DEF Epochs
<1>14. Ending(x, us, st)
  <2>1. \A n \in Closer(v) : x.queue[n] = v.queue[n]
    BY <1>8 DEF Closer
  <2>2. /\ \A g : CloseOn(x, g) <=> CloseOn(v, g)
        /\ CloseDevice(x) <=> CloseDevice(v)
    BY <1>4, <1>8, <2>1 DEF CloseOn, CloseDevice
  <2> QED BY <1>1, <1>3, <1>4, <2>2 DEF Ending
<1> QED BY <1>3, <1>7, <1>10, <1>11, <1>12, <1>13, <1>14 DEF All, Rest

\* cancel_tcp_accepts on the user's thread.
LEMMA UserCancelKeeps ==
  ASSUME Inv, UserCancel
  PROVE  Inv'
<1> DEFINE t == [type |-> "cancel", eng |-> w.tcp]
<1>1. /\ All(w, user, strand) /\ Script(left) /\ left.cancels > 0 /\ w.tcp # 0
      /\ left' = [left EXCEPT !.cancels = left.cancels - 1]
      /\ w' = Post(w, t) /\ user' = user /\ strand' = strand
  BY DEF Inv, UserCancel
<1>2. t.type = "cancel" /\ t.type \in {"cancel", "sweep"} /\ t.type # "sweep" /\ t.eng \in Gens(w)
  BY <1>1, AllParts
<1> HIDE DEF t
<1>3. All(w', user, strand)
  BY ONLY <1>1, <1>2, PlainTask
<1>4. Script(left')
  BY <1>1 DEF Script, Counters
<1>5. All(w', user', strand')
  BY <1>1, <1>3
<1> QED BY <1>4, <1>5 DEF Inv

\* The timer of an engine expires.
LEMMA SweepFiresKeeps ==
  ASSUME Inv, NEW g \in Gens(w), SweepFires(g)
  PROVE  Inv'
<1> DEFINE t == [type |-> "sweep", eng |-> g]
           v == [w EXCEPT !.engs[g].sweep = "queued"]
           e == w.engs[g]
           s == "queued"
           y == [e EXCEPT !.sweep = s]
<1>1. /\ All(w, user, strand) /\ Script(left) /\ left.sweeps > 0 /\ w.engs[g].sweep = "armed"
      /\ left' = [left EXCEPT !.sweeps = left.sweeps - 1]
      /\ w' = Post(v, t) /\ user' = user /\ strand' = strand
  BY DEF Inv, SweepFires
<1>2. /\ FlowsInv(w) /\ Queued(w) /\ Sweeping(w) /\ Rest(w, user, strand) /\ DOMAIN w = Fields
      /\ IsSeq(w.queue) /\ w.epoch \in Nat /\ Shape(w)
  BY <1>1, AllParts DEF All
<1>3. v = [w EXCEPT !.engs = Put(w.engs, g, y)]
  BY DEF Put
<1>4. /\ TcpOnly(w, v) /\ v.flows = w.flows /\ v.accs = w.accs /\ v.conns = w.conns
      /\ v.engs = Put(w.engs, g, y)
  <2> HIDE DEF v, y
  <2> QED BY <1>2, <1>3 DEF TcpOnly, SameDevice, SameLife, Fields
<1>5. s # "none" /\ e.closed => e.late
  BY <1>1, <1>2 DEF FlowsInv, Closings
<1>6. Marks(w, v, g, s)
  <2> HIDE DEF v, s
  <2> QED BY <1>4, <1>5 DEF Marks
<1> HIDE DEF s, v, t, e, y
<1>7. /\ FlowsInv(v) /\ Keeps(w, v) /\ Free(v) = Free(w) /\ Gens(v) = Gens(w)
      /\ v.engs[g].sweep = s /\ v.engs[g].closed = w.engs[g].closed
      /\ \A h \in Gens(w) : h # g => v.engs[h] = w.engs[h]
  <2>1. Marked(w, v, g, s)
    BY ONLY <1>2, <1>6, g \in Gens(w), EngineMarked
  <2> QED BY <2>1 DEF Marked
<1>8. /\ v.queue = w.queue /\ v.tcp = w.tcp /\ v.epoch = w.epoch /\ Shape(v) /\ Tasks(v) = Tasks(w)
  BY <1>4, <1>7 DEF TcpOnly, SameLife, FlowsInv, Tasks
<1>9. Queued(v)
  <2>1. Gens(w) \subseteq Gens(v) /\ v.epoch \in Nat /\ w.epoch <= v.epoch
    BY <1>2, <1>7, <1>8
  <2> QED BY <1>2, <1>7, <1>8, <2>1, QueuedSame
<1>10. g = w.tcp
  BY <1>1, <1>2 DEF Sweeping
<1>11. \A n \in Tasks(w) : ~SweepOf(w, n)
  BY <1>1, <1>2, <1>10 DEF Sweeping
<1>12. \A n \in Tasks(v) : ~SweepOf(v, n)
  BY <1>8, <1>11 DEF SweepOf
<1>13. Sweeping(v)
  <2>1. \A h \in Gens(w) : /\ w.engs[h].sweep \in {"none", "armed", "queued"}
                           /\ w.engs[h].sweep # "none" => h = w.tcp
    BY <1>2 DEF Sweeping
  <2>2. v.engs[g].sweep = "queued"
    BY <1>7 DEF s
  <2> QED BY <1>7, <1>8, <1>10, <1>12, <2>1, <2>2 DEF Sweeping
<1>14. \A h \in Gens(w) : v.engs[h].closed = w.engs[h].closed
  BY <1>7
<1>15. Rest(v, user, strand)
  BY ONLY <1>2, <1>7, <1>8, <1>14, KeepsRest
<1>16. All(v, user, strand)
  BY <1>7, <1>9, <1>13, <1>15 DEF All
<1>17. t.type \in {"cancel", "sweep"} /\ t.eng \in Gens(v) /\ v.engs[v.tcp].sweep = "queued"
  BY <1>7, <1>8, <1>10 DEF t, s
<1>18. All(w', user, strand)
  BY ONLY <1>1, <1>12, <1>16, <1>17, PlainTask
<1>19. Script(left')
  BY <1>1 DEF Script, Counters
<1>20. All(w', user', strand')
  BY <1>1, <1>18
<1> QED BY <1>19, <1>20 DEF Inv

\* Neither the engines nor the queue change.
Shared(v, x) ==
  /\ FlowsInv(x) /\ Free(x) = Free(v) /\ Gens(x) = Gens(v) /\ Accs(x) = Accs(v)
  /\ Gen(x) = Gen(v) /\ Queued(x) /\ Sweeping(x) /\ x.engs = v.engs /\ x.accs = v.accs
  /\ x.queue = v.queue /\ Tasks(x) = Tasks(v) /\ Closer(x) = Closer(v)

\* What is right of them is right still when the epoch grows.
LEMMA SharedIs ==
  ASSUME NEW v, NEW us, NEW st, All(v, us, st), NEW x, DOMAIN x = Fields, SameTcp(v, x),
         x.tcp = v.tcp, x.queue = v.queue, x.epoch \in Nat, v.epoch <= x.epoch
  PROVE  Shared(v, x)
<1>1. /\ FlowsInv(v) /\ Queued(v) /\ Sweeping(v) /\ Life(v, us, st) /\ Shape(v)
      /\ IsSeq(v.queue) /\ v.epoch \in Nat
  BY AllParts
<1>2. x.engs = v.engs /\ x.accs = v.accs
  BY DEF SameTcp
<1>3. /\ FlowsInv(x) /\ Free(x) = Free(v) /\ Gens(x) = Gens(v) /\ Accs(x) = Accs(v)
      /\ Gen(x) = Gen(v)
  BY <1>1, FlowsSame
<1>4. /\ \A n \in Tasks(v) : v.queue[n].type = "sweep" => v.queue[n].eng \in Gens(v)
      /\ v.tcp \in Gens(v) \cup {0}
  BY <1>1, SweepsNamed
<1>5. Queued(x)
  <2>1. Gens(v) \subseteq Gens(x)
    BY <1>3
  <2> QED BY <1>1, <1>3, <2>1, QueuedSame
<1>6. Sweeping(x)
  BY <1>1, <1>2, <1>3, <1>4, SweepingSame
<1>7. Tasks(x) = Tasks(v) /\ Closer(x) = Closer(v)
  BY DEF Tasks, Closer
<1> QED BY <1>2, <1>3, <1>5, <1>6, <1>7 DEF Shared

\* A task is added that closes something.
Added(v, x, t, n) ==
  /\ FlowsInv(x) /\ Free(x) = Free(v) /\ Gens(x) = Gens(v) /\ Accs(x) = Accs(v)
  /\ Gen(x) = Gen(v) /\ Queued(x) /\ Sweeping(x) /\ x.engs = v.engs /\ x.accs = v.accs
  /\ n \in Closer(x) /\ x.queue[n] = t /\ Closer(x) = Closer(v) \cup {n}
  /\ Tasks(x) = Tasks(v) \cup {n} /\ (\A m \in Tasks(x) : m <= n)
  /\ \A m \in Tasks(v) : x.queue[m] = v.queue[m]

\* It is the last of the queue.
LEMMA CloserAdded ==
  ASSUME NEW v, NEW us, NEW st, All(v, us, st), NEW x, DOMAIN x = Fields, SameTcp(v, x),
         x.tcp = v.tcp, x.epoch = v.epoch, NEW t, x.queue = Add(v.queue, t), TaskOk(v, t),
         t.type \in {"close", "cleanup"}, NEW n, n = Len(v.queue) + 1
  PROVE  Added(v, x, t, n)
<1>1. /\ FlowsInv(v) /\ Queued(v) /\ Sweeping(v) /\ Life(v, us, st) /\ Shape(v)
      /\ IsSeq(v.queue) /\ v.epoch \in Nat
  BY AllParts
<1>2. x.engs = v.engs /\ x.accs = v.accs
  BY DEF SameTcp
<1>3. /\ FlowsInv(x) /\ Free(x) = Free(v) /\ Gens(x) = Gens(v) /\ Accs(x) = Accs(v)
      /\ Gen(x) = Gen(v)
  BY <1>1, FlowsSame
<1>4. /\ \A m \in Tasks(v) : v.queue[m].type = "sweep" => v.queue[m].eng \in Gens(v)
      /\ v.tcp \in Gens(v) \cup {0}
  BY <1>1, SweepsNamed
<1>5. t.type # "accept" /\ t.type # "sweep"
  OBVIOUS
<1>6. TaskOk(x, t)
  <2>1. t.type = "accept" => t.i \in Free(x)
    BY <1>5
  <2>2. Gens(v) \subseteq Gens(x) /\ x.epoch \in Nat /\ v.epoch <= x.epoch
    BY <1>1, <1>3
  <2> QED BY <1>1, <2>1, <2>2, TaskSame
<1> DEFINE T == {t}
<1>7. t \in T /\ (\A y \in T : TaskOk(x, y) /\ y.type # "accept") /\ \A y \in T : y.type # "sweep"
  BY <1>5, <1>6
<1> HIDE DEF T
<1>8. Longer(v.queue, x.queue, T)
  <2>1. Longer(v.queue, v.queue, T)
    BY <1>1, LongerSelf
  <2> QED BY <1>7, <2>1, LongerAdd
<1>9. Queued(x)
  <2>1. Gens(v) \subseteq Gens(x) /\ x.epoch \in Nat /\ v.epoch <= x.epoch
    BY <1>1, <1>3
  <2>2. \A y \in T : TaskOk(x, y) /\ y.type # "accept"
    BY <1>7
  <2> QED BY ONLY <1>1, <1>3, <1>8, <2>1, <2>2, QueuedGrows
<1>10. Sweeping(x)
  <2>1. \A y \in T : y.type # "sweep"
    BY <1>7
  <2>2. /\ x.tcp = v.tcp /\ \A g \in Gens(v) : x.engs[g].sweep = v.engs[g].sweep
    BY <1>2
  <2> QED BY ONLY <1>1, <1>3, <1>4, <1>8, <2>1, <2>2, SweepingGrows
<1>11. /\ Tasks(x) = Tasks(v) \cup {n} /\ x.queue[n] = t /\ (\A m \in Tasks(x) : m <= n)
       /\ \A m \in Tasks(v) : x.queue[m] = v.queue[m]
  <2>1. /\ Len(x.queue) = n /\ x.queue[n] = t /\ IsSeq(x.queue)
        /\ \A m \in 1 .. Len(v.queue) : x.queue[m] = v.queue[m]
    BY <1>1, SeqAppend
  <2>2. Tasks(x) = 1 .. n /\ Tasks(v) = 1 .. Len(v.queue) /\ Len(v.queue) \in Nat
    BY <1>1, <2>1, SeqIs DEF Tasks
  <2> QED BY <2>1, <2>2
<1>12. n \in Closer(x) /\ Closer(x) = Closer(v) \cup {n}
  BY <1>11 DEF Closer
<1> QED BY <1>2, <1>3, <1>9, <1>10, <1>11, <1>12 DEF Added

\* The epoch is counted.
LEMMA OpenEpochKeeps ==
  ASSUME Inv, OpenEpoch
  PROVE  Inv'
<1> DEFINE x == [w EXCEPT !.epoch = w.epoch + 1]
           uz == [user EXCEPT !.pc = "flag"]
<1>1. /\ All(w, user, strand) /\ Script(left) /\ user.pc = "epoch"
      /\ w' = x /\ user' = uz /\ strand' = strand /\ left' = left
  BY DEF Inv, OpenEpoch
<1>2. /\ Device1(w) /\ Life(w, user, strand) /\ Words(w, user, strand) /\ Queued(w)
      /\ Epochs(w, user, strand) /\ Ending(w, user, strand) /\ DOMAIN w = Fields
      /\ w.epoch \in Nat /\ Gen(w) \in Nat
  BY <1>1, AllParts
<1>3. /\ DOMAIN x = Fields /\ SameTcp(w, x) /\ x.tcp = w.tcp /\ x.queue = w.queue
      /\ x.epoch = w.epoch + 1 /\ x.epoch \in Nat /\ w.epoch <= x.epoch
      /\ x.open = w.open /\ x.slots = w.slots /\ x.inflight = w.inflight
      /\ x.per_queue = w.per_queue /\ x.fds = w.fds /\ x.descs = w.descs
      /\ x.reads = w.reads /\ x.polls = w.polls /\ x.misrouted = w.misrouted
  BY <1>2 DEF Fields, SameTcp
<1>4. /\ DOMAIN uz = {"pc", "slot", "snap"} /\ uz.pc = "flag" /\ uz.slot = user.slot
      /\ uz.snap = user.snap
  BY <1>2 DEF Words
<1> HIDE DEF x, uz
<1>5. Shared(w, x)
  BY ONLY <1>1, <1>3, SharedIs
<1>6. /\ FlowsInv(x) /\ Gens(x) = Gens(w) /\ Accs(x) = Accs(w) /\ Gen(x) = Gen(w)
      /\ Queued(x) /\ Sweeping(x) /\ x.engs = w.engs /\ x.accs = w.accs
      /\ Tasks(x) = Tasks(w) /\ Closer(x) = Closer(w)
  BY <1>5 DEF Shared
<1>7. ~w.open /\ w.tcp # 0 /\ w.epoch < Gen(w) /\ strand.pc = "idle" /\ Closer(w) = {}
  BY <1>1, <1>2 DEF Life, Opening
<1>8. Device1(x)
  BY <1>2, <1>3 DEF Device1, Handles, ReadOk
<1>9. Life(x, uz, strand)
  BY <1>1, <1>2, <1>3, <1>4, <1>6, <1>7 DEF Life, Opening
<1>10. Words(x, uz, strand)
  BY <1>1, <1>2, <1>3, <1>4 DEF Words
<1>11. Epochs(x, uz, strand)
  <2>1. \A e \in 0 .. w.epoch : e < x.epoch /\ e \in 0 .. x.epoch
    BY <1>2, <1>3
  <2>2. \A i \in Accs(x) : x.accs[i].epoch \in 0 .. x.epoch /\ x.accs[i].epoch < x.epoch
    BY <1>2, <1>6, <2>1 DEF Epochs
  <2>3. \A r \in x.reads \cup x.polls : r.epoch < x.epoch
    BY <1>2, <1>3, <2>1 DEF Device1, ReadOk
  <2>4. \A n \in Tasks(x) : x.queue[n].type = "read" => x.queue[n].epoch < x.epoch
    BY <1>2, <1>3, <1>6, <2>1 DEF Queued, TaskOk, ReadOk
  <2>5. \A i \in Accs(x) : x.accs[i].epoch = x.epoch => x.accs[i].gen = Gen(x)
    BY <1>3, <2>2
  <2> QED BY <1>2, <1>3, <1>7, <2>2, <2>3, <2>4, <2>5 DEF Epochs
<1>12. Ending(x, uz, strand)
  BY <1>1, <1>2, <1>3, <1>4, <1>6, <1>7 DEF Ending, CloseOn, CloseDevice
<1>13. All(w', user', strand') /\ Script(left')
  BY <1>1, <1>6, <1>8, <1>9, <1>10, <1>11, <1>12 DEF All, Rest
<1> QED BY <1>13 DEF Inv

\* The engine is open.
LEMMA OpenFlagKeeps ==
  ASSUME Inv, OpenFlag
  PROVE  Inv'
<1> DEFINE x == [w EXCEPT !.open = TRUE]
           uz == [user EXCEPT !.pc = "slot", !.slot = 1]
<1>1. /\ All(w, user, strand) /\ Script(left) /\ user.pc = "flag"
      /\ w' = x /\ user' = uz /\ strand' = strand /\ left' = left
  BY DEF Inv, OpenFlag
<1>2. /\ Device1(w) /\ Life(w, user, strand) /\ Words(w, user, strand) /\ Queued(w)
      /\ Epochs(w, user, strand) /\ Ending(w, user, strand) /\ DOMAIN w = Fields
      /\ w.epoch \in Nat
  BY <1>1, AllParts
<1>3. /\ DOMAIN x = Fields /\ SameTcp(w, x) /\ x.tcp = w.tcp /\ x.queue = w.queue
      /\ x.epoch = w.epoch /\ x.epoch \in Nat /\ w.epoch <= x.epoch
      /\ x.open = TRUE /\ x.slots = w.slots /\ x.inflight = w.inflight
      /\ x.per_queue = w.per_queue /\ x.fds = w.fds /\ x.descs = w.descs
      /\ x.reads = w.reads /\ x.polls = w.polls /\ x.misrouted = w.misrouted
  BY <1>2 DEF Fields, SameTcp
<1>4. /\ DOMAIN uz = {"pc", "slot", "snap"} /\ uz.pc = "slot" /\ uz.slot = 1
      /\ uz.snap = user.snap
  BY <1>2 DEF Words
<1> HIDE DEF x, uz
<1>5. Shared(w, x)
  BY ONLY <1>1, <1>3, SharedIs
<1>6. /\ FlowsInv(x) /\ Gens(x) = Gens(w) /\ Accs(x) = Accs(w) /\ Gen(x) = Gen(w)
      /\ Queued(x) /\ Sweeping(x) /\ x.engs = w.engs /\ x.accs = w.accs
      /\ Tasks(x) = Tasks(w) /\ Closer(x) = Closer(w)
  BY <1>5 DEF Shared
<1>7. w.tcp # 0 /\ strand.pc = "idle" /\ Closer(w) = {}
  BY <1>1, <1>2 DEF Life, Opening
<1>8. Device1(x)
  BY <1>2, <1>3 DEF Device1, Handles, ReadOk
<1>9. Life(x, uz, strand)
  <2>1. \A n \in Tasks(x) : x.queue[n].type # "cleanup"
    BY <1>6, <1>7 DEF Closer
  <2> QED BY <1>2, <1>3, <1>4, <1>6, <1>7, <2>1 DEF Life, Opening
<1>10. Words(x, uz, strand)
  BY <1>1, <1>2, <1>3, <1>4 DEF Words
<1>11. Epochs(x, uz, strand)
  <2>1. /\ \A i \in Accs(x) : x.accs[i].epoch \in 0 .. x.epoch /\ x.accs[i].epoch < x.epoch
        /\ \A n \in Tasks(x) : x.queue[n].type = "read" => x.queue[n].epoch < x.epoch
    BY <1>1, <1>2, <1>3, <1>6 DEF Epochs
  <2>2. \A i \in Accs(x) : x.accs[i].epoch # x.epoch
    <3>1. \A e \in 0 .. x.epoch : e < x.epoch => e # x.epoch
      BY <1>3
    <3> QED BY <2>1, <3>1
  <2>3. \A n \in Tasks(x) : x.queue[n].type = "read" => x.queue[n].epoch # x.epoch
    <3>1. \A n \in Tasks(x) : x.queue[n].type = "read" => x.queue[n].epoch \in 0 .. x.epoch
      BY <1>6 DEF Queued, TaskOk, ReadOk
    <3>2. \A e \in 0 .. x.epoch : e < x.epoch => e # x.epoch
      BY <1>3
    <3> QED BY <2>1, <3>1, <3>2
  <2> QED BY <1>2, <1>3, <1>4, <1>7, <2>1, <2>2, <2>3 DEF Epochs
<1>12. Ending(x, uz, strand)
  BY <1>1, <1>2, <1>3, <1>4, <1>6, <1>7 DEF Ending
<1>13. All(w', user', strand') /\ Script(left')
  BY <1>1, <1>6, <1>8, <1>9, <1>10, <1>11, <1>12 DEF All, Rest
<1> QED BY <1>13 DEF Inv

\* An address does not parse: the user gives up.
LEMMA OpenBadAddressKeeps ==
  ASSUME Inv, OpenBadAddress
  PROVE  Inv'
<1> DEFINE uz == Idle
<1>1. /\ All(w, user, strand) /\ Script(left) /\ user.pc = "config" /\ left.faults > 0
      /\ left' = [left EXCEPT !.faults = left.faults - 1]
      /\ user' = uz /\ strand' = strand
  BY DEF Inv, OpenBadAddress
<1>2. PICK taken : w' = [w EXCEPT !.local = taken]
  BY DEF OpenBadAddress
<1>3. /\ Words(w, user, strand) /\ Life(w, user, strand) /\ DOMAIN w = Fields
  BY <1>1, AllParts
<1> DEFINE x == w'
<1>4. Aside(w, x) /\ x.inflight = w.inflight /\ x.slots = w.slots
  BY <1>2, <1>3 DEF Aside, SameTcp, SameDevice, Fields
<1>5. DOMAIN uz = {"pc", "slot", "snap"} /\ uz.pc = "idle" /\ uz.snap = {}
  BY DEF Idle
<1> HIDE DEF uz, x
<1>6. Words(x, uz, strand)
  BY <1>3, <1>4, <1>5 DEF Words, Aside
<1>7. Onward(user, strand, uz, strand)
  BY <1>1, <1>3, <1>5 DEF Onward, Calm, Life
<1>8. All(x, uz, strand)
  BY ONLY <1>1, <1>4, <1>6, <1>7, AsideKeeps
<1>9. Script(left')
  BY <1>1 DEF Script, Counters
<1>10. All(w', user', strand')
  BY <1>1, <1>8 DEF x
<1> QED BY <1>9, <1>10 DEF Inv

\* close() on the user's thread.
LEMMA UserCloseKeeps ==
  ASSUME Inv, UserClose
  PROVE  Inv'
<1> DEFINE t == [type |-> "close", epoch |-> w.epoch, eng |-> w.tcp]
           x == w'
           n == Len(w.queue) + 1
<1>1. /\ All(w, user, strand) /\ Script(left) /\ user.pc = "idle" /\ w.open
      /\ x = Post([w EXCEPT !.open = FALSE], t)
      /\ user' = user /\ strand' = strand /\ left' = left
  BY DEF Inv, UserClose
<1>2. /\ Device1(w) /\ Life(w, user, strand) /\ Words(w, user, strand) /\ Queued(w)
      /\ Epochs(w, user, strand) /\ Ending(w, user, strand) /\ DOMAIN w = Fields
      /\ w.epoch \in Nat /\ (w.tcp # 0 => w.tcp \in Gens(w))
  BY <1>1, AllParts
<1>3. /\ DOMAIN x = Fields /\ SameTcp(w, x) /\ SameDevice(w, x) /\ x.tcp = w.tcp
      /\ x.queue = Add(w.queue, t)
      /\ x.epoch = w.epoch /\ x.open = FALSE /\ x.slots = w.slots /\ x.inflight = w.inflight
      /\ x.per_queue = w.per_queue /\ x.misrouted = w.misrouted
  <2> HIDE DEF t
  <2> QED BY <1>1, <1>2 DEF Fields, SameTcp, SameDevice, Post, Add
<1>4. w.tcp # 0 /\ Closer(w) = {}
  BY <1>1, <1>2 DEF Life
<1>5. /\ t.type = "close" /\ t.type \in {"close", "cleanup"} /\ t.epoch = w.epoch /\ t.eng = w.tcp
      /\ TaskOk(w, t)
  BY <1>2, <1>4 DEF TaskOk, TaskTypes
<1> HIDE DEF t, x
<1>6. n = Len(w.queue) + 1
  OBVIOUS
<1> HIDE DEF n
<1>7. Added(w, x, t, n)
  BY ONLY <1>1, <1>3, <1>5, <1>6, CloserAdded
<1>8. /\ FlowsInv(x) /\ Gens(x) = Gens(w) /\ Accs(x) = Accs(w) /\ Gen(x) = Gen(w)
      /\ Queued(x) /\ Sweeping(x) /\ x.engs = w.engs /\ x.accs = w.accs
      /\ x.queue[n] = t /\ Closer(x) = {n}
      /\ Tasks(x) = Tasks(w) \cup {n}
      /\ \A m \in Tasks(w) : x.queue[m] = w.queue[m]
  BY <1>4, <1>7 DEF Added
<1>9. x.fds = w.fds /\ x.descs = w.descs /\ x.reads = w.reads /\ x.polls = w.polls
  BY <1>3 DEF SameDevice
<1>10. Device1(x)
  BY <1>2, <1>3, <1>9 DEF Device1, Handles, ReadOk
<1>11. \A m \in Tasks(x) : x.queue[m].type # "cleanup"
  <2>1. \A m \in Tasks(w) : w.queue[m].type # "cleanup"
    BY <1>4 DEF Closer
  <2> QED BY <1>5, <1>8, <2>1
<1>12. Life(x, user, strand)
  BY <1>1, <1>2, <1>3, <1>4, <1>8, <1>11 DEF Life, Opening
<1>13. Words(x, user, strand)
  BY <1>2, <1>3 DEF Words
<1>14. Epochs(x, user, strand)
  BY <1>1, <1>2, <1>3, <1>8, <1>9 DEF Epochs
<1>15. Ending(x, user, strand)
  <2>1. CloseOn(x, w.tcp) /\ CloseDevice(x)
    BY <1>3, <1>5, <1>8 DEF CloseOn, CloseDevice
  <2> QED BY <1>1, <1>2, <1>3, <1>8, <2>1 DEF Ending
<1>16. All(w', user', strand') /\ Script(left')
  BY <1>1, <1>8, <1>10, <1>12, <1>13, <1>14, <1>15 DEF All, Rest, x
<1> QED BY <1>16 DEF Inv

\* open() begins: what is left of an earlier generation is closed first.
LEMMA OpenBeginKeeps ==
  ASSUME Inv, OpenBegin
  PROVE  Inv'
<1> DEFINE had == w.open \/ w.tcp # 0 \/ is_open(w)
           t == [type |-> "cleanup"]
           v == [w EXCEPT !.open = FALSE]
           x == w'
           uz == user'
           n == Len(w.queue) + 1
<1>1. /\ All(w, user, strand) /\ Script(left) /\ user.pc = "idle" /\ left.opens > 0
      /\ x = IF had THEN Post(v, t) ELSE v
      /\ uz = [user EXCEPT !.pc = IF had THEN "wait" ELSE "config"]
      /\ left' = [left EXCEPT !.opens = left.opens - 1] /\ strand' = strand
  BY DEF Inv, OpenBegin
<1>2. /\ Device1(w) /\ Life(w, user, strand) /\ Words(w, user, strand) /\ Queued(w)
      /\ Epochs(w, user, strand) /\ Ending(w, user, strand) /\ DOMAIN w = Fields
      /\ w.epoch \in Nat /\ Gens(w) = 1 .. Gen(w) /\ Gen(w) \in Nat
  BY <1>1, AllParts
<1>3. Script(left')
  BY <1>1 DEF Script, Counters
<1>4. /\ DOMAIN uz = {"pc", "slot", "snap"} /\ uz.pc = (IF had THEN "wait" ELSE "config")
      /\ uz.slot = user.slot /\ uz.snap = user.snap
  BY <1>1, <1>2 DEF Words
<1>5. /\ DOMAIN v = Fields /\ SameTcp(w, v) /\ SameDevice(w, v) /\ v.tcp = w.tcp
      /\ v.queue = w.queue /\ v.epoch = w.epoch /\ v.open = FALSE /\ v.slots = w.slots
      /\ v.inflight = w.inflight /\ v.per_queue = w.per_queue /\ v.misrouted = w.misrouted
  BY <1>2 DEF Fields, SameTcp, SameDevice
<1>6. \A m \in Tasks(w) : w.queue[m].type # "cleanup"
  BY <1>1, <1>2 DEF Life
<1>7. had => w.tcp # 0
  BY <1>1, <1>2 DEF Life, Ending, CloseDevice, is_open
<1> HIDE DEF v, x, uz
<1>8. /\ DOMAIN x = Fields /\ SameTcp(w, x) /\ SameDevice(w, x) /\ x.tcp = w.tcp
      /\ x.epoch = w.epoch /\ x.open = FALSE /\ x.slots = w.slots
      /\ x.inflight = w.inflight /\ x.per_queue = w.per_queue /\ x.misrouted = w.misrouted
      /\ x.queue = IF had THEN Add(w.queue, t) ELSE w.queue
  <2>1. CASE had
    <3>1. x = Post(v, t)
      BY <1>1, <2>1
    <3> HIDE DEF t
    <3> QED BY <1>5, <2>1, <3>1 DEF Fields, SameTcp, SameDevice, Post, Add
  <2>2. CASE ~had
    BY <1>1, <1>5, <2>2
  <2> QED BY <2>1, <2>2
<1>9. x.fds = w.fds /\ x.descs = w.descs /\ x.reads = w.reads /\ x.polls = w.polls
      /\ x.engs = w.engs /\ x.accs = w.accs
  BY <1>8 DEF SameDevice, SameTcp
<1>10. Device1(x)
  BY <1>2, <1>8, <1>9 DEF Device1, Handles, ReadOk
<1>11. Words(x, uz, strand)
  BY <1>1, <1>2, <1>4, <1>8 DEF Words
<1>12. FlowsInv(x) /\ Queued(x) /\ Sweeping(x) /\ Life(x, uz, strand) /\ Epochs(x, uz, strand)
       /\ Ending(x, uz, strand)
  <2>1. CASE had
    <3>1. x.queue = Add(w.queue, t)
      BY <1>8, <2>1
    <3>2. t.type = "cleanup" /\ t.type \in {"close", "cleanup"} /\ TaskOk(w, t)
      BY DEF TaskOk, TaskTypes
    <3>3. n = Len(w.queue) + 1
      OBVIOUS
    <3> HIDE DEF t, n, had
    <3>4. Added(w, x, t, n)
      BY ONLY <1>1, <1>8, <3>1, <3>2, <3>3, CloserAdded
    <3>5. /\ FlowsInv(x) /\ Gens(x) = Gens(w) /\ Accs(x) = Accs(w) /\ Gen(x) = Gen(w)
          /\ Queued(x) /\ Sweeping(x) /\ x.queue[n] = t /\ Closer(x) = Closer(w) \cup {n}
          /\ Tasks(x) = Tasks(w) \cup {n} /\ n \in Closer(x) /\ (\A m \in Tasks(x) : m <= n)
          /\ \A m \in Tasks(w) : x.queue[m] = w.queue[m]
      BY <3>4 DEF Added
    <3>6. uz.pc = "wait"
      BY <1>4, <2>1
    <3>7. Life(x, uz, strand)
      <4>1. \A k \in Tasks(x) : x.queue[k].type = "cleanup" =>
              uz.pc = "wait" /\ \A m \in Closer(x) : m <= k
        <5>1. \A k \in Tasks(x) : x.queue[k].type = "cleanup" => k = n
          BY <1>6, <3>5
        <5>2. \A m \in Closer(x) : m <= n
          BY <3>5 DEF Closer
        <5> QED BY <3>6, <5>1, <5>2
      <4>2. \E k \in Tasks(x) : x.queue[k].type = "cleanup"
        BY <3>2, <3>5
      <4> QED BY <1>1, <1>2, <1>7, <1>8, <2>1, <3>5, <3>6, <4>1, <4>2 DEF Life, Opening
    <3>8. Epochs(x, uz, strand)
      <4>1. \A m \in Tasks(x) : x.queue[m].type = "read" =>
              m \in Tasks(w) /\ x.queue[m] = w.queue[m]
        BY <3>2, <3>5
      <4> QED BY <1>1, <1>2, <1>8, <1>9, <3>5, <3>6, <4>1 DEF Epochs
    <3>9. Ending(x, uz, strand)
      <4>1. (\A g : CloseOn(x, g)) /\ CloseDevice(x)
        BY <3>2, <3>5 DEF CloseOn, CloseDevice
      <4> QED BY <1>1, <1>2, <1>8, <1>9, <3>5, <3>6, <4>1 DEF Ending
    <3> QED BY <3>5, <3>7, <3>8, <3>9
  <2>2. CASE ~had
    <3>1. x.queue = w.queue /\ uz.pc = "config" /\ x.epoch \in Nat /\ w.epoch <= x.epoch
      BY <1>2, <1>4, <1>8, <2>2
    <3>2. w.tcp = 0 /\ ~w.open /\ w.descs = {}
      BY <2>2 DEF is_open
    <3> HIDE DEF had
    <3>3. Shared(w, x)
      BY ONLY <1>1, <1>8, <3>1, SharedIs
    <3>4. /\ FlowsInv(x) /\ Gens(x) = Gens(w) /\ Accs(x) = Accs(w) /\ Gen(x) = Gen(w)
          /\ Queued(x) /\ Sweeping(x) /\ Tasks(x) = Tasks(w) /\ Closer(x) = Closer(w)
      BY <3>3 DEF Shared
    <3>5. strand.pc = "idle" /\ Closer(w) = {}
      BY <1>2, <3>2 DEF Life
    <3>6. Life(x, uz, strand)
      BY <1>2, <1>6, <1>8, <3>1, <3>4, <3>5 DEF Life, Opening
    <3>7. Epochs(x, uz, strand)
      BY <1>2, <1>8, <1>9, <3>1, <3>2, <3>4 DEF Epochs
    <3>8. Ending(x, uz, strand)
      <4>1. \A g \in Gens(w) : g # 0
        BY <1>2
      <4> QED BY <1>2, <1>8, <1>9, <3>1, <3>2, <3>4, <3>5, <4>1 DEF Ending
    <3> QED BY <3>4, <3>6, <3>7, <3>8
  <2> QED BY <2>1, <2>2
<1>13. All(w', user', strand')
  BY <1>1, <1>10, <1>11, <1>12 DEF All, Rest, x, uz
<1> QED BY <1>3, <1>13 DEF Inv

\* An accept is asked for: nobody waits for it yet.
Asked(v, x, i) ==
  /\ FlowsInv(x) /\ Free(x) = Free(v) \cup {i} /\ Gens(x) = Gens(v) /\ Gen(x) = Gen(v)
  /\ Accs(x) = Accs(v) \cup {i} /\ i \notin Accs(v)
  /\ \A j \in Accs(v) : x.accs[j] = v.accs[j]

\* The others are as they were.
LEMMA AcceptAsked ==
  ASSUME NEW v, FlowsInv(v), NEW x, DOMAIN x = Fields, x.engs = v.engs, x.flows = v.flows,
         x.conns = v.conns, NEW a, x.accs = Add(v.accs, a), DOMAIN a = AccFields,
         a.st = "wait", a.times = 0, NEW i, i = Len(v.accs) + 1
  PROVE  Asked(v, x, i) /\ x.accs[i] = a
<1>1. Shape(v) /\ IsSeq(v.accs)
  BY DEF FlowsInv, Shape
<1>2. /\ IsSeq(x.accs) /\ Len(x.accs) = i /\ x.accs[i] = a
      /\ \A j \in 1 .. Len(v.accs) : x.accs[j] = v.accs[j]
  BY <1>1, SeqAppend
<1>3. Accs(x) = 1 .. i /\ Accs(v) = 1 .. Len(v.accs) /\ Len(v.accs) \in Nat
  BY <1>1, <1>2, SeqIs DEF Accs
<1>4. /\ Accs(x) = Accs(v) \cup {i} /\ i \notin Accs(v)
      /\ \A j \in Accs(v) : x.accs[j] = v.accs[j]
  BY <1>2, <1>3
<1>5. Fids(x) = Fids(v) /\ Gens(x) = Gens(v) /\ Gen(x) = Gen(v)
  BY DEF Fids, Gens, Gen
<1>6. /\ Connected(x) = Connected(v) /\ \A g \in Gens(v) : Live(x, g) = Live(v, g)
      /\ Tables(x) /\ Lists(x) /\ Closings(x)
  BY ViewSame DEF FlowsInv
<1>7. Shape(x)
  <2>1. \A j \in Accs(x) : DOMAIN x.accs[j] = AccFields
    BY <1>1, <1>2, <1>4 DEF Shape
  <2> QED BY <1>1, <1>2, <1>5, <2>1 DEF Shape, FlowOk
<1>8. Waiters(x)
  <2>1. Waiters(v)
    BY DEF FlowsInv
  <2> QED BY <1>4, <1>5, <2>1 DEF Waiters
<1>9. Accepts(x)
  <2>1. Accepts(v)
    BY DEF FlowsInv
  <2>2. (\A j \in Accs(v) : Has1(x, j) <=> Has1(v, j)) /\ ~Has1(x, i)
    BY <1>2, <1>4 DEF Has1
  <2>3. ASSUME NEW j \in Accs(x)
        PROVE  /\ x.accs[j].times = IF x.accs[j].st = "wait" THEN 0 ELSE 1
               /\ Has1(x, j) => LET f == x.accs[j].fid IN
                    f \in Fids(x) /\ x.flows[f].accepted /\ x.flows[f].gen = x.accs[j].gen
    <3>1. CASE j = i
      BY <1>2, <2>2, <3>1
    <3>2. CASE j \in Accs(v)
      BY <1>4, <1>5, <2>1, <2>2, <3>2 DEF Accepts
    <3> QED BY <1>4, <3>1, <3>2
  <2>4. \A j, k \in Accs(x) : Has1(x, j) /\ Has1(x, k) /\ x.accs[j].fid = x.accs[k].fid => j = k
    BY <1>4, <2>1, <2>2 DEF Accepts
  <2> QED BY <2>3, <2>4 DEF Accepts
<1>10. Counts(x)
  BY <1>5, <1>6 DEF FlowsInv, Counts
<1>11. Free(x) = Free(v) \cup {i}
  <2>1. \A g \in Gens(v) : i \notin ToSet(v.engs[g].waiters)
    BY <1>4 DEF FlowsInv, Waiters
  <2> QED BY <1>2, <1>4, <1>5, <2>1 DEF Free
<1> QED BY <1>2, <1>4, <1>5, <1>6, <1>7, <1>8, <1>9, <1>10, <1>11 DEF FlowsInv, Asked

\* async_accept_tcp on the user's thread.
LEMMA UserAcceptKeeps ==
  ASSUME Inv, UserAccept
  PROVE  Inv'
<1> DEFINE i == Len(w.accs) + 1
           a == [epoch |-> w.epoch, gen |-> Gen(w), st |-> "wait", fid |-> 0, times |-> 0]
           t == [type |-> "accept", i |-> i]
           x == w'
           n == Len(w.queue) + 1
<1>1. /\ All(w, user, strand) /\ Script(left) /\ user.pc = "idle" /\ left.accepts > 0
      /\ x = Post([w EXCEPT !.accs = Append(w.accs, a)], t)
      /\ left' = [left EXCEPT !.accepts = left.accepts - 1]
      /\ user' = user /\ strand' = strand
  BY DEF Inv, UserAccept
<1>2. /\ FlowsInv(w) /\ Queued(w) /\ Sweeping(w) /\ Device1(w) /\ Life(w, user, strand)
      /\ Words(w, user, strand) /\ Epochs(w, user, strand) /\ Ending(w, user, strand)
      /\ DOMAIN w = Fields /\ IsSeq(w.queue) /\ w.epoch \in Nat
  BY <1>1, AllParts
<1>3. Script(left')
  BY <1>1 DEF Script, Counters
<1>4. /\ DOMAIN a = AccFields /\ a.st = "wait" /\ a.times = 0 /\ a.epoch = w.epoch
      /\ a.gen = Gen(w)
  BY DEF AccFields
<1>5. t.type = "accept" /\ t.i = i
  OBVIOUS
<1> HIDE DEF a, t, x
<1>6. /\ DOMAIN x = Fields /\ SameLife(w, x) /\ SameDevice(w, x) /\ x.engs = w.engs
      /\ x.flows = w.flows /\ x.conns = w.conns /\ x.accs = Add(w.accs, a)
      /\ x.queue = Add(w.queue, t)
  BY <1>1, <1>2 DEF Fields, SameLife, SameDevice, Post, Add
<1>7. i = Len(w.accs) + 1 /\ n = Len(w.queue) + 1
  OBVIOUS
<1> HIDE DEF i, n
<1>8. Asked(w, x, i) /\ x.accs[i] = a
  BY ONLY <1>2, <1>4, <1>6, <1>7, AcceptAsked
<1>9. /\ FlowsInv(x) /\ Free(x) = Free(w) \cup {i} /\ Gens(x) = Gens(w) /\ Gen(x) = Gen(w)
      /\ Accs(x) = Accs(w) \cup {i} /\ i \notin Accs(w)
      /\ \A j \in Accs(w) : x.accs[j] = w.accs[j]
  BY <1>8 DEF Asked
<1>10. /\ Tasks(x) = Tasks(w) \cup {n} /\ n \notin Tasks(w) /\ x.queue[n] = t /\ IsSeq(x.queue)
       /\ \A m \in Tasks(w) : x.queue[m] = w.queue[m]
  <2>1. /\ Len(x.queue) = n /\ x.queue[n] = t /\ IsSeq(x.queue)
        /\ \A m \in 1 .. Len(w.queue) : x.queue[m] = w.queue[m]
    BY <1>2, <1>6, <1>7, SeqAppend
  <2>2. Tasks(x) = 1 .. n /\ Tasks(w) = 1 .. Len(w.queue) /\ Len(w.queue) \in Nat
    BY <1>2, <2>1, SeqIs DEF Tasks
  <2> QED BY <1>7, <2>1, <2>2
<1>11. /\ x.open = w.open /\ x.epoch = w.epoch /\ x.tcp = w.tcp /\ x.slots = w.slots
       /\ x.misrouted = w.misrouted /\ x.inflight = w.inflight
       /\ x.descs = w.descs /\ x.reads = w.reads /\ x.polls = w.polls
  BY <1>6 DEF SameLife, SameDevice
<1>12. Queued(x)
  <2>1. ASSUME NEW m \in Tasks(x) PROVE TaskOk(x, x.queue[m])
    <3>1. CASE m = n
      BY <1>5, <1>9, <1>10, <3>1 DEF TaskOk, TaskTypes
    <3>2. CASE m \in Tasks(w)
      <4> DEFINE y == w.queue[m]
      <4>1. TaskOk(w, y) /\ x.queue[m] = y
        BY <1>2, <1>10, <3>2 DEF Queued
      <4> HIDE DEF y
      <4>2. y.type = "accept" => y.i \in Free(x)
        BY <1>9, <4>1 DEF TaskOk
      <4>3. Gens(w) \subseteq Gens(x) /\ w.epoch \in Nat /\ x.epoch \in Nat /\ w.epoch <= x.epoch
        BY <1>2, <1>9, <1>11
      <4> QED BY <4>1, <4>2, <4>3, TaskSame
    <3> QED BY <1>10, <3>1, <3>2
  <2>2. ASSUME NEW j \in Free(x)
        PROVE  \E m \in Tasks(x) : x.queue[m].type = "accept" /\ x.queue[m].i = j
    <3>1. CASE j = i
      BY <1>5, <1>10, <3>1
    <3>2. CASE j \in Free(w)
      BY <1>2, <1>10, <3>2 DEF Queued
    <3> QED BY <1>9, <3>1, <3>2
  <2>3. \A m \in Tasks(w) : w.queue[m].type = "accept" => w.queue[m].i # i
    <3>1. i \notin Free(w)
      BY <1>9 DEF Free
    <3> QED BY <1>2, <3>1 DEF Queued, TaskOk
  <2>4. \A m, k \in Tasks(w) : w.queue[m].type = "accept" /\ w.queue[k].type = "accept"
                                 /\ w.queue[m].i = w.queue[k].i => m = k
    BY <1>2 DEF Queued
  <2>5. \A m, k \in Tasks(x) : x.queue[m].type = "accept" /\ x.queue[k].type = "accept"
                                 /\ x.queue[m].i = x.queue[k].i => m = k
    BY ONLY <1>5, <1>10, <2>3, <2>4
  <2> QED BY <1>10, <2>1, <2>2, <2>5 DEF Queued
<1>13. Sweeping(x)
  <2>1. \A m \in Tasks(x) : SweepOf(x, m) => m \in Tasks(w) /\ SweepOf(w, m)
    BY <1>5, <1>10, <1>11 DEF SweepOf
  <2> QED BY <1>2, <1>6, <1>9, <1>11, <2>1 DEF Sweeping
<1>14. Closer(x) = Closer(w) /\ \A m \in Closer(w) : x.queue[m] = w.queue[m]
  BY <1>5, <1>10 DEF Closer
<1>15. Device1(x) /\ Words(x, user, strand)
  BY <1>2, <1>6, RestParts
<1>16. Life(x, user, strand)
  <2>1. \A m \in Tasks(x) : x.queue[m].type # "cleanup"
    <3>1. \A m \in Tasks(w) : w.queue[m].type # "cleanup"
      BY <1>1, <1>2 DEF Life
    <3> QED BY <1>5, <1>10, <3>1
  <2> QED BY <1>1, <1>2, <1>9, <1>11, <1>14, <2>1 DEF Life
<1>17. Epochs(x, user, strand)
  <2>1. \A j \in Accs(x) : x.accs[j].epoch \in 0 .. x.epoch
    <3>1. w.epoch \in 0 .. x.epoch
      BY <1>2, <1>11
    <3> QED BY <1>2, <1>4, <1>8, <1>9, <1>11, <3>1 DEF Epochs
  <2>2. x.open => \A j \in Accs(x) : x.accs[j].epoch = x.epoch => x.accs[j].gen = Gen(x)
    BY <1>2, <1>4, <1>8, <1>9, <1>11 DEF Epochs
  <2>3. \A m \in Tasks(x) : x.queue[m].type = "read" => m \in Tasks(w) /\ x.queue[m] = w.queue[m]
    BY <1>5, <1>10
  <2>4. user.pc # "flag"
    BY <1>1
  <2>5. x.open => \A m \in Tasks(x) : /\ x.queue[m].type = "read" /\ x.queue[m].epoch = x.epoch
                                      /\ x.queue[m].res = "packet"
                                      => x.queue[m].from = x.tcp
    BY ONLY <1>2, <1>11, <2>3 DEF Epochs
  <2>6. /\ strand.pc # "idle" =>
             x.tcp # 0 /\ (strand.task.res = "packet" => strand.task.from = x.tcp)
        /\ ~x.misrouted
    BY ONLY <1>2, <1>11 DEF Epochs
  <2> QED BY ONLY <2>1, <2>2, <2>4, <2>5, <2>6 DEF Epochs
<1>18. Ending(x, user, strand)
  <2>1. /\ \A g : CloseOn(x, g) <=> CloseOn(w, g)
        /\ CloseDevice(x) <=> CloseDevice(w)
    BY <1>11, <1>14 DEF CloseOn, CloseDevice
  <2> QED BY <1>2, <1>6, <1>9, <1>11, <2>1 DEF Ending
<1>19. All(w', user', strand')
  BY <1>1, <1>9, <1>12, <1>13, <1>15, <1>16, <1>17, <1>18 DEF All, Rest, x
<1> QED BY <1>3, <1>19 DEF Inv

-----------------------------------------------------------------------------
(***************************************************************************)
(* What closes an engine and the device: the tasks of close() and of the   *)
(* cleanup, a device failure and what undoes a failed open().              *)
(***************************************************************************)
Ceasing(v, g, dev) ==
  IF dev THEN device_close(close_engine(v, g)) ELSE close_engine(v, g)

\* Nothing of engine g is left and, if dev, nothing of the device.
Ceased(v, x, g, dev) ==
  /\ FlowsInv(x) /\ Queued(x) /\ Sweeping(x) /\ Device1(x) /\ SameLife(v, x)
  /\ Free(x) = Free(v) /\ Gens(x) = Gens(v) /\ Accs(x) = Accs(v) /\ Gen(x) = Gen(v)
  /\ \A i \in Accs(v) : x.accs[i].epoch = v.accs[i].epoch /\ x.accs[i].gen = v.accs[i].gen
  /\ x.polls = v.polls /\ Closer(x) = Closer(v) /\ \A n \in Tasks(v) : x.queue[n] = v.queue[n]
  /\ Tasks(v) \subseteq Tasks(x)
  /\ \A n \in Tasks(x) : x.queue[n].type = "cleanup" => n \in Tasks(v)
  /\ \A h \in Gens(v) : /\ h = g => x.engs[h].closed
                        /\ h # g => x.engs[h].closed = v.engs[h].closed
  /\ IF dev THEN x.descs = {} /\ x.reads = {} ELSE x.descs = v.descs /\ x.reads = v.reads

\* close_engine, of an engine or of none.
Stopped(v, c, g) ==
  /\ FlowsInv(c) /\ Keeps(v, c) /\ Free(c) = Free(v)
  /\ \A h \in Gens(v) : /\ c.engs[h].sweep = IF h = g /\ v.engs[h].sweep = "armed"
                                             THEN "none" ELSE v.engs[h].sweep
                        /\ h = g => c.engs[h].closed
                        /\ h # g => c.engs[h].closed = v.engs[h].closed

\* Its timer is cancelled.
LEMMA StopIs ==
  ASSUME NEW v, FlowsInv(v), Sweeping(v), NEW g \in Gens(v) \cup {0}, 0 \notin Gens(v),
         NEW c, c = close_engine(v, g)
  PROVE  Stopped(v, c, g)
<1>1. CASE g = 0
  <2>1. c = v /\ \A h \in Gens(v) : h # g
    BY <1>1 DEF close_engine
  <2>2. Keeps(v, v)
    BY KeepsSelf DEF FlowsInv
  <2> QED BY <2>1, <2>2 DEF Stopped
<1>2. CASE g # 0
  <2>1. g \in Gens(v) /\ v.engs[g].sweep \in {"none", "armed", "queued"} /\ c = close_all(v, g)
    BY <1>2 DEF close_engine, Sweeping
  <2>2. AllClosed(v, c, g)
    BY <2>1, CloseAllKeeps
  <2> QED BY <2>2 DEF AllClosed, Stopped
<1> QED BY <1>1, <1>2

\* The tasks of the reads that end tell of no accept, sweep or close.
LEMMA EndsIs ==
  ASSUME NEW v, \A r \in v.reads : ReadOk(v, r), NEW t \in Ends(v)
  PROVE  /\ TaskOk(v, t) /\ t.type = "read" /\ t.res = "aborted"
<1>1. PICK r \in v.reads : t = ReadDone(r, "aborted")
  BY DEF Ends
<1>2. t.type = "read" /\ t.res = "aborted" /\ t.slot = r.slot /\ t.epoch = r.epoch
  BY <1>1 DEF ReadDone
<1> QED BY <1>2 DEF TaskOk, TaskTypes, ReadOk

\* The reads of the device end; nothing else comes of it.
LEMMA CeaseIs ==
  ASSUME NEW v, FlowsInv(v), Queued(v), Sweeping(v), Device1(v), v.epoch \in Nat,
         v.tcp \in Gens(v) \cup {0}, 0 \notin Gens(v), NEW g \in Gens(v) \cup {0},
         NEW dev \in BOOLEAN, NEW x, x = Ceasing(v, g, dev)
  PROVE  Ceased(v, x, g, dev)
<1> DEFINE c == close_engine(v, g)
<1>1. /\ Stopped(v, c, g) /\ x = IF dev THEN device_close(c) ELSE c
  BY StopIs DEF Ceasing
<1> HIDE DEF c
<1>2. /\ FlowsInv(c) /\ Keeps(v, c) /\ Free(c) = Free(v) /\ Shape(v) /\ Shape(c)
      /\ SameDevice(v, c) /\ SameLife(v, c) /\ c.queue = v.queue /\ DOMAIN c = Fields
      /\ Len(c.engs) = Len(v.engs) /\ Len(c.accs) = Len(v.accs) /\ IsSeq(v.queue)
      /\ \A i \in Accs(v) : c.accs[i].epoch = v.accs[i].epoch /\ c.accs[i].gen = v.accs[i].gen
  BY <1>1 DEF Stopped, Keeps, TcpOnly, FlowsInv, Queued
<1>3. Gens(c) = Gens(v) /\ Accs(c) = Accs(v) /\ Gen(c) = Gen(v)
  BY <1>2, ShapeIs DEF Gen
<1>4. /\ c.fds = v.fds /\ c.descs = v.descs /\ c.reads = v.reads /\ c.polls = v.polls
      /\ c.slots = v.slots /\ c.per_queue = v.per_queue /\ c.epoch = v.epoch /\ c.tcp = v.tcp
  BY <1>2 DEF SameDevice, SameLife
<1>5. /\ Device1(c) /\ Handles(c) /\ c.slots \in Nat /\ \A r \in c.reads : ReadOk(c, r)
  BY <1>4 DEF Device1, Handles, ReadOk
<1>6. /\ DeviceOnly(c, x) /\ Device1(x) /\ Longer(c.queue, x.queue, Ends(c)) /\ x.polls = c.polls
      /\ IF dev THEN x.descs = {} /\ x.reads = {} ELSE x.descs = c.descs /\ x.reads = c.reads
  <2>1. CASE dev
    <3>1. x = device_close(c) /\ IsSeq(c.queue)
      BY <1>1, <1>2, <2>1
    <3>2. CloseDone(c, x) /\ Handles(x)
      BY ONLY <1>2, <1>5, <3>1, CloseIs
    <3>3. /\ DeviceOnly(c, x) /\ x.descs = {} /\ x.reads = {} /\ x.polls = c.polls
          /\ Longer(c.queue, x.queue, Ends(c))
      BY <3>2 DEF CloseDone
    <3>4. Device1(x)
      BY <1>5, <3>2, <3>3 DEF Device1, DeviceOnly, SameLife, ReadOk
    <3> QED BY <2>1, <3>3, <3>4
  <2>2. CASE ~dev
    <3>1. x = c
      BY <1>1, <2>2
    <3>2. Longer(c.queue, c.queue, Ends(c))
      BY <1>2, LongerSelf
    <3> QED BY <1>2, <1>5, <2>2, <3>1, <3>2 DEF DeviceOnly, SameTcp, SameLife
  <2> QED BY <2>1, <2>2
<1>7. /\ DOMAIN x = Fields /\ SameTcp(c, x) /\ SameLife(c, x) /\ x.engs = c.engs /\ x.accs = c.accs
      /\ x.tcp = v.tcp /\ x.epoch = v.epoch
  BY <1>4, <1>6 DEF DeviceOnly, SameTcp, SameLife
<1>8. /\ FlowsInv(x) /\ Free(x) = Free(v) /\ Gens(x) = Gens(v) /\ Accs(x) = Accs(v)
      /\ Gen(x) = Gen(v)
  BY <1>2, <1>3, <1>7, FlowsSame
<1>9. SameLife(v, x)
  BY <1>2, <1>7 DEF SameLife
<1> DEFINE T == Ends(c)
<1>10. \A t \in T : /\ TaskOk(c, t) /\ t.type \notin {"accept", "sweep", "close", "cleanup"}
  BY <1>5, EndsIs
<1> HIDE DEF T
<1>11. Longer(v.queue, x.queue, T)
  BY <1>2, <1>6 DEF T
<1>12. \A t \in T : TaskOk(x, t) /\ t.type # "accept"
  <2>1. ASSUME NEW t \in T PROVE TaskOk(x, t)
    <3>1. TaskOk(c, t) /\ t.type # "accept"
      BY <1>10
    <3>2. t.type = "accept" => t.i \in Free(x)
      BY <3>1
    <3>3. Gens(c) \subseteq Gens(x) /\ c.epoch \in Nat /\ x.epoch \in Nat /\ c.epoch <= x.epoch
      BY <1>3, <1>4, <1>7, <1>8
    <3> QED BY <3>1, <3>2, <3>3, TaskSame
  <2> QED BY <1>10, <2>1
<1>13. Queued(x)
  <2>1. Gens(v) \subseteq Gens(x) /\ x.epoch \in Nat /\ v.epoch <= x.epoch
    BY <1>7, <1>8
  <2> QED BY ONLY Queued(v), v.epoch \in Nat, <1>8, <1>11, <1>12, <2>1, QueuedGrows
<1>14. /\ Closer(x) = Closer(v) /\ \A n \in Tasks(v) : x.queue[n] = v.queue[n]
       /\ \A n \in Tasks(x) : x.queue[n].type \in {"close", "cleanup"} => n \in Tasks(v)
       /\ Tasks(v) \subseteq Tasks(x)
  <2>1. \A t \in T : t.type \notin {"close", "cleanup"}
    BY <1>10
  <2> QED BY ONLY <1>11, <2>1, CloserGrows
<1>15. Sweeping(x)
  <2>1. \A n \in Tasks(x) : x.queue[n].type = "sweep" => n \in Tasks(v)
    <3>1. \A n \in Tasks(x) : n \notin Tasks(v) => x.queue[n] \in T
      BY <1>11, LongerIs DEF Tasks
    <3> QED BY <1>10, <3>1
  <2>2. \A n \in Tasks(x) : SweepOf(x, n) => n \in Tasks(v) /\ SweepOf(v, n)
    BY <1>7, <1>14, <2>1 DEF SweepOf
  <2>3. \A h \in Gens(v) : c.engs[h].sweep = IF h = g /\ v.engs[h].sweep = "armed"
                                             THEN "none" ELSE v.engs[h].sweep
    BY <1>1 DEF Stopped
  <2>4. /\ \A h \in Gens(v) : /\ v.engs[h].sweep \in {"none", "armed", "queued"}
                              /\ v.engs[h].sweep # "none" => h = v.tcp
        /\ \A n \in Tasks(v) : SweepOf(v, n) => v.engs[v.tcp].sweep = "queued"
        /\ \A n, m \in Tasks(v) : SweepOf(v, n) /\ SweepOf(v, m) => n = m
    BY DEF Sweeping
  <2>5. \A n \in Tasks(v) : SweepOf(v, n) => v.tcp \in Gens(v)
    BY DEF SweepOf, Queued, TaskOk
  <2>6. \A h \in Gens(x) : /\ x.engs[h].sweep \in {"none", "armed", "queued"}
                           /\ x.engs[h].sweep # "none" => h = x.tcp
    BY <1>7, <1>8, <2>3, <2>4
  <2>7. \A n \in Tasks(x) : SweepOf(x, n) => x.engs[x.tcp].sweep = "queued"
    BY <1>7, <2>2, <2>3, <2>4, <2>5
  <2> QED BY <2>2, <2>4, <2>6, <2>7 DEF Sweeping
<1>16. \A h \in Gens(v) : /\ h = g => x.engs[h].closed
                          /\ h # g => x.engs[h].closed = v.engs[h].closed
  BY <1>1, <1>7 DEF Stopped
<1>17. /\ \A i \in Accs(v) : x.accs[i].epoch = v.accs[i].epoch /\ x.accs[i].gen = v.accs[i].gen
       /\ x.polls = v.polls
  BY <1>2, <1>4, <1>6, <1>7
<1>18. IF dev THEN x.descs = {} /\ x.reads = {} ELSE x.descs = v.descs /\ x.reads = v.reads
  BY <1>4, <1>6
<1> QED BY <1>6, <1>8, <1>9, <1>13, <1>14, <1>15, <1>16, <1>17, <1>18 DEF Ceased

\* A task that closes something is taken.
LEMMA PopCloser ==
  ASSUME NEW v, NEW us, NEW st, All(v, us, st), v.queue # <<>>, NEW h, h = Head(v.queue),
         h.type \in {"close", "cleanup"}, NEW p, p = Pop(v)
  PROVE  /\ FlowsInv(p) /\ Queued(p) /\ Sweeping(p) /\ Device1(p) /\ Words(p, us, st)
         /\ SameLife(v, p) /\ p.engs = v.engs /\ p.accs = v.accs /\ SameDevice(v, p)
         /\ Gens(p) = Gens(v) /\ Accs(p) = Accs(v) /\ Gen(p) = Gen(v) /\ DOMAIN p = Fields
         /\ p.tcp \in Gens(p) /\ 0 \notin Gens(p) /\ p.epoch \in Nat /\ ~v.open /\ ~Opening(us)
         /\ TaskOk(v, h) /\ 1 \in Closer(v) /\ v.queue[1] = h
<1>1. /\ FlowsInv(v) /\ Queued(v) /\ Sweeping(v) /\ Device1(v) /\ Life(v, us, st)
      /\ Words(v, us, st) /\ Shape(v) /\ DOMAIN v = Fields /\ IsSeq(v.queue) /\ v.epoch \in Nat
      /\ (v.tcp # 0 => v.tcp \in Gens(v))
  BY AllParts
<1>2. /\ DOMAIN p = Fields /\ SameTcp(v, p) /\ SameLife(v, p) /\ SameDevice(v, p)
  BY <1>1, PopIs
<1>3. TaskOk(v, h) /\ 1 \in Tasks(v) /\ v.queue[1] = h
  BY <1>1, TaskHead
<1>4. 1 \in Closer(v)
  BY <1>3 DEF Closer
<1>5. ~v.open /\ ~Opening(us) /\ v.tcp # 0
  BY <1>1, <1>4 DEF Life
<1>6. /\ FlowsInv(p) /\ Free(p) = Free(v) /\ Gens(p) = Gens(v) /\ Accs(p) = Accs(v)
      /\ Gen(p) = Gen(v)
  BY <1>1, <1>2, FlowsSame
<1>7. p.engs = v.engs /\ p.accs = v.accs /\ p.tcp = v.tcp /\ p.epoch = v.epoch
  BY <1>2 DEF SameTcp, SameLife
<1>8. Queued(p)
  <2>1. Free(p) = {i \in Free(v) : ~(h.type = "accept" /\ h.i = i)}
    BY <1>6
  <2> QED BY <1>1, <1>6, <1>7, <2>1, PopQueued
<1>9. Sweeping(p)
  BY <1>1, PopSweeping
<1>10. Device1(p) /\ Words(p, us, st)
  BY <1>1, <1>2, RestParts
<1>11. 0 \notin Gens(p)
  BY <1>1, <1>6, SweepsNamed
<1> QED BY <1>1, <1>2, <1>3, <1>4, <1>5, <1>6, <1>7, <1>8, <1>9, <1>10, <1>11

\* The cleanup of open(): nothing is left, and the user goes on.
LEMMA RunCleanupKeeps ==
  ASSUME Inv, RunCleanup
  PROVE  Inv'
<1> DEFINE h == Head(w.queue)
           p == Pop(w)
           x == w'
           uz == [user EXCEPT !.pc = "config"]
           g == p.tcp
<1>1. /\ All(w, user, strand) /\ Script(left) /\ w.queue # <<>> /\ h.type = "cleanup"
      /\ strand.pc = "idle" /\ user' = uz /\ strand' = strand /\ left' = left
      /\ w' = device_close(close_engine(Popped, w.tcp))
  BY DEF Inv, RunCleanup, Task
<1>2. /\ FlowsInv(w) /\ Queued(w) /\ Sweeping(w) /\ Device1(w) /\ Life(w, user, strand)
      /\ Words(w, user, strand) /\ Epochs(w, user, strand) /\ Ending(w, user, strand)
      /\ DOMAIN w = Fields /\ IsSeq(w.queue)
  BY <1>1, AllParts
<1>3. x = Ceasing(p, g, TRUE)
  BY <1>1, <1>2, PoppedIs DEF Ceasing, Pop, Fields
<1>4. h.type \in {"close", "cleanup"} /\ p = Pop(w) /\ h = Head(w.queue)
  BY <1>1
<1>5. user.pc = "wait" /\ DOMAIN uz = {"pc", "slot", "snap"} /\ uz.pc = "config" /\ uz.snap = {}
  <2>1. 1 \in Tasks(w) /\ w.queue[1] = h
    BY <1>1, <1>2, TaskHead
  <2>2. user.pc = "wait"
    BY <1>1, <1>2, <2>1 DEF Life
  <2> QED BY <1>2, <2>2 DEF Words
<1> DEFINE dev == TRUE
<1>6. x = Ceasing(p, g, dev) /\ dev \in BOOLEAN /\ g = p.tcp /\ dev
  BY <1>3
<1> HIDE DEF h, p, x, uz, g, dev
<1>7. /\ FlowsInv(p) /\ Queued(p) /\ Sweeping(p) /\ Device1(p) /\ Words(p, user, strand)
      /\ SameLife(w, p) /\ p.engs = w.engs /\ p.accs = w.accs
      /\ Gens(p) = Gens(w) /\ Accs(p) = Accs(w) /\ Gen(p) = Gen(w)
      /\ p.tcp \in Gens(p) /\ 0 \notin Gens(p) /\ p.epoch \in Nat /\ ~w.open
      /\ 1 \in Closer(w) /\ w.queue[1] = h
  BY ONLY <1>1, <1>4, PopCloser
<1>8. p.tcp \in Gens(p) \cup {0} /\ g \in Gens(p) \cup {0}
  BY <1>6, <1>7
<1>9. Ceased(p, x, g, dev)
  BY ONLY <1>6, <1>7, <1>8, CeaseIs
<1>10. /\ FlowsInv(x) /\ Queued(x) /\ Sweeping(x) /\ Device1(x) /\ SameLife(p, x)
       /\ Gens(x) = Gens(p) /\ Accs(x) = Accs(p) /\ Gen(x) = Gen(p)
       /\ \A i \in Accs(p) : x.accs[i].epoch = p.accs[i].epoch /\ x.accs[i].gen = p.accs[i].gen
       /\ Closer(x) = Closer(p) /\ x.descs = {} /\ x.reads = {}
       /\ \A k \in Gens(p) : /\ k = g => x.engs[k].closed
                             /\ k # g => x.engs[k].closed = p.engs[k].closed
  BY <1>6, <1>9 DEF Ceased
<1>11. /\ x.open = FALSE /\ x.tcp = w.tcp /\ x.epoch = w.epoch /\ x.slots = w.slots
       /\ x.inflight = w.inflight /\ x.misrouted = w.misrouted
  BY <1>2, <1>7, <1>10 DEF SameLife, Life
<1>12. Closer(x) = {}
  <2>1. \A m \in Closer(w) : m <= 1
    BY <1>1, <1>2, <1>7 DEF Life, Closer
  <2>2. /\ \A n \in Closer(p) : n + 1 \in Closer(w)
    BY <1>1, <1>2, <1>4, PopClosers
  <2>3. \A n \in Closer(p) : n \in Nat /\ n > 0
    <3>1. IsSeq(p.queue)
      BY <1>7 DEF Queued
    <3>2. Tasks(p) = 1 .. Len(p.queue) /\ Len(p.queue) \in Nat
      BY <3>1, SeqIs DEF Tasks
    <3> QED BY <3>2 DEF Closer
  <2>4. ASSUME NEW n \in Closer(p) PROVE FALSE
    <3>1. n + 1 <= 1
      BY <2>1, <2>2
    <3>2. n \in Nat /\ n > 0
      BY <2>3
    <3> QED BY ONLY <3>1, <3>2
  <2> QED BY <1>10, <2>4
<1>13. Life(x, uz, strand)
  <2>1. \A n \in Tasks(x) : x.queue[n].type # "cleanup"
    BY <1>12 DEF Closer
  <2> QED BY <1>1, <1>2, <1>5, <1>7, <1>10, <1>11, <1>12, <2>1 DEF Life
<1>14. Words(x, uz, strand)
  BY <1>1, <1>2, <1>5, <1>11 DEF Words
<1>15. Epochs(x, uz, strand)
  BY <1>1, <1>2, <1>5, <1>7, <1>10, <1>11 DEF Epochs
<1>16. Ending(x, uz, strand)
  <2>1. \A k \in Gens(x) : x.engs[k].closed
    <3>1. \A k \in Gens(w) : k # w.tcp => w.engs[k].closed
      BY <1>2 DEF Ending
    <3>2. p.tcp = w.tcp
      BY <1>7 DEF SameLife
    <3>3. /\ g = w.tcp /\ p.engs = w.engs /\ Gens(x) = Gens(p) /\ Gens(p) = Gens(w)
          /\ \A k \in Gens(p) : /\ k = g => x.engs[k].closed
                                /\ k # g => x.engs[k].closed = p.engs[k].closed
      BY ONLY <1>6, <1>7, <1>10, <3>2
    <3> QED BY ONLY <3>1, <3>3
  <2> QED BY <1>1, <1>5, <1>10, <1>11, <2>1 DEF Ending
<1>17. All(w', user', strand') /\ Script(left')
  BY <1>1, <1>10, <1>13, <1>14, <1>15, <1>16 DEF All, Rest, x
<1> QED BY <1>17 DEF Inv

\* The cleanup of close(): the engine it was called on and, of its generation,
\* the device.
LEMMA RunCloseKeeps ==
  ASSUME Inv, RunClose
  PROVE  Inv'
<1> DEFINE h == Head(w.queue)
           p == Pop(w)
           x == w'
           g == h.eng
           dev == h.epoch = p.epoch
<1>1. /\ All(w, user, strand) /\ Script(left) /\ w.queue # <<>> /\ h.type = "close"
      /\ strand.pc = "idle" /\ user' = user /\ strand' = strand /\ left' = left
      /\ w' = close_task(Popped, h.epoch, h.eng)
  BY DEF Inv, RunClose, Task
<1>2. /\ FlowsInv(w) /\ Queued(w) /\ Sweeping(w) /\ Device1(w) /\ Life(w, user, strand)
      /\ Words(w, user, strand) /\ Epochs(w, user, strand) /\ Ending(w, user, strand)
      /\ DOMAIN w = Fields /\ IsSeq(w.queue)
  BY <1>1, AllParts
<1>3. x = Ceasing(p, g, dev)
  BY <1>1, <1>2, PoppedIs DEF Ceasing, close_task
<1>4. h.type \in {"close", "cleanup"} /\ p = Pop(w) /\ h = Head(w.queue)
  BY <1>1
<1>5. dev \in BOOLEAN /\ g = h.eng /\ (dev <=> h.epoch = p.epoch)
  OBVIOUS
<1> HIDE DEF h, p, x, g, dev
<1>6. /\ FlowsInv(p) /\ Queued(p) /\ Sweeping(p) /\ Device1(p) /\ Words(p, user, strand)
      /\ SameLife(w, p) /\ SameDevice(w, p) /\ p.engs = w.engs /\ p.accs = w.accs
      /\ Gens(p) = Gens(w) /\ Accs(p) = Accs(w) /\ Gen(p) = Gen(w)
      /\ p.tcp \in Gens(p) /\ 0 \notin Gens(p) /\ p.epoch \in Nat /\ ~w.open /\ ~Opening(user)
      /\ TaskOk(w, h) /\ 1 \in Closer(w) /\ w.queue[1] = h
  BY ONLY <1>1, <1>4, PopCloser
<1>7. p.tcp \in Gens(p) \cup {0} /\ g \in Gens(p) \cup {0}
  BY <1>1, <1>5, <1>6 DEF TaskOk
<1>8. Ceased(p, x, g, dev)
  BY ONLY <1>3, <1>5, <1>6, <1>7, CeaseIs
<1>9. /\ FlowsInv(x) /\ Queued(x) /\ Sweeping(x) /\ Device1(x) /\ SameLife(p, x)
      /\ Gens(x) = Gens(p) /\ Accs(x) = Accs(p) /\ Gen(x) = Gen(p)
      /\ \A i \in Accs(p) : x.accs[i].epoch = p.accs[i].epoch /\ x.accs[i].gen = p.accs[i].gen
      /\ Closer(x) = Closer(p) /\ \A n \in Tasks(p) : x.queue[n] = p.queue[n]
      /\ Tasks(p) \subseteq Tasks(x)
      /\ \A n \in Tasks(x) : x.queue[n].type = "cleanup" => n \in Tasks(p)
      /\ \A k \in Gens(p) : /\ k = g => x.engs[k].closed
                            /\ k # g => x.engs[k].closed = p.engs[k].closed
      /\ x.descs # {} => ~dev /\ x.descs = p.descs
  BY <1>8 DEF Ceased
<1>10. /\ x.open = FALSE /\ x.tcp = w.tcp /\ x.epoch = w.epoch /\ x.slots = w.slots
       /\ x.inflight = w.inflight /\ x.misrouted = w.misrouted /\ p.epoch = w.epoch
       /\ p.descs = w.descs
  BY <1>2, <1>6, <1>9 DEF SameLife, Life, SameDevice
<1>11. /\ \A n \in Tasks(p) : n + 1 \in Tasks(w) /\ n + 1 # 1 /\ p.queue[n] = w.queue[n + 1]
       /\ \A n, m \in Tasks(p) : n + 1 <= m + 1 => n <= m
  BY <1>1, <1>2, <1>4, PopTasks
<1>12. /\ \A n \in Tasks(w) : n # 1 => n - 1 \in Tasks(p) /\ p.queue[n - 1] = w.queue[n]
  BY <1>1, <1>2, <1>4, PopIs
<1>13. /\ \A n \in Closer(p) : n + 1 \in Closer(w) /\ p.queue[n] = w.queue[n + 1]
       /\ \A n \in Closer(w) : n # 1 => n - 1 \in Closer(p) /\ p.queue[n - 1] = w.queue[n]
  BY <1>1, <1>2, <1>4, PopClosers
<1>14. Life(x, user, strand)
  <2>1. ASSUME NEW n \in Tasks(x), x.queue[n].type = "cleanup"
        PROVE  user.pc = "wait" /\ \A m \in Closer(x) : m <= n
    <3>1. n \in Tasks(p) /\ n + 1 \in Tasks(w) /\ w.queue[n + 1].type = "cleanup"
      BY <1>9, <1>11, <2>1
    <3>2. user.pc = "wait" /\ \A m \in Closer(w) : m <= n + 1
      BY <1>2, <3>1 DEF Life
    <3>3. ASSUME NEW m \in Closer(x) PROVE m <= n
      <4>1. m + 1 <= n + 1 /\ m \in Tasks(p)
        BY <1>9, <1>13, <3>2 DEF Closer
      <4> QED BY <1>11, <3>1, <4>1
    <3> QED BY <3>2, <3>3
  <2>2. ASSUME user.pc = "wait" PROVE \E n \in Tasks(x) : x.queue[n].type = "cleanup"
    <3>1. PICK n \in Tasks(w) : w.queue[n].type = "cleanup"
      BY <1>2, <2>2 DEF Life
    <3>2. n # 1
      BY <1>1, <1>6, <3>1
    <3>3. n - 1 \in Tasks(p) /\ p.queue[n - 1].type = "cleanup"
      BY <1>12, <3>1, <3>2
    <3> QED BY <1>9, <3>3
  <2> QED BY <1>1, <1>2, <1>6, <1>9, <1>10, <2>1, <2>2 DEF Life
<1>15. Words(x, user, strand)
  BY <1>2, <1>10 DEF Words
<1>16. Epochs(x, user, strand)
  <2>1. user.pc # "flag"
    BY <1>6 DEF Opening
  <2> QED BY <1>1, <1>2, <1>6, <1>9, <1>10, <2>1 DEF Epochs
<1>17. Ending(x, user, strand)
  <2>1. ASSUME NEW k \in Gens(x), ~x.engs[k].closed PROVE k = x.tcp /\ CloseOn(x, k)
    <3>1. k \in Gens(w) /\ k # g /\ ~w.engs[k].closed
      BY <1>6, <1>9, <2>1
    <3>2. k = w.tcp /\ CloseOn(w, k)
      BY <1>2, <1>6, <3>1 DEF Ending, Opening
    <3>3. PICK n \in Closer(w) : w.queue[n].type = "close" => w.queue[n].eng = k
      BY <3>2 DEF CloseOn
    <3>4. n # 1
      BY <1>1, <1>5, <1>6, <3>1, <3>3
    <3>5. n - 1 \in Closer(x) /\ x.queue[n - 1] = w.queue[n]
      <4>1. n - 1 \in Closer(p) /\ p.queue[n - 1] = w.queue[n]
        BY <1>13, <3>4
      <4> QED BY <1>9, <4>1 DEF Closer
    <3> QED BY <1>10, <3>2, <3>3, <3>5 DEF CloseOn
  <2>2. ASSUME x.descs # {} PROVE CloseDevice(x)
    <3>1. ~dev /\ w.descs # {}
      BY <1>9, <1>10, <2>2
    <3>2. CloseDevice(w)
      BY <1>2, <1>6, <3>1 DEF Ending, Opening
    <3>3. PICK n \in Closer(w) : w.queue[n].type = "close" => w.queue[n].epoch = w.epoch
      BY <3>2 DEF CloseDevice
    <3>4. n # 1
      BY <1>1, <1>5, <1>6, <1>10, <3>1, <3>3
    <3>5. n - 1 \in Closer(x) /\ x.queue[n - 1] = w.queue[n]
      <4>1. n - 1 \in Closer(p) /\ p.queue[n - 1] = w.queue[n]
        BY <1>13, <3>4
      <4> QED BY <1>9, <4>1 DEF Closer
    <3> QED BY <1>10, <3>3, <3>5 DEF CloseDevice
  <2> QED BY <1>1, <1>6, <1>10, <2>1, <2>2 DEF Ending, Opening
<1>18. All(w', user', strand') /\ Script(left')
  BY <1>1, <1>9, <1>14, <1>15, <1>16, <1>17 DEF All, Rest, x
<1> QED BY <1>18 DEF Inv

\* A device failure: the engine and the device are closed at once.
LEMMA CloseNowKeeps ==
  ASSUME NEW v, NEW us, NEW st, All(v, us, st), st.pc = "handle", v.open,
         NEW x, x = close_now(v), NEW sz, sz = Resting
  PROVE  All(x, us, sz) /\ ~x.open
<1> DEFINE o == [v EXCEPT !.open = FALSE]
           g == v.tcp
           dev == TRUE
<1>1. /\ FlowsInv(v) /\ Queued(v) /\ Sweeping(v) /\ Device1(v) /\ Life(v, us, st)
      /\ Words(v, us, st) /\ Epochs(v, us, st) /\ Ending(v, us, st) /\ Shape(v)
      /\ DOMAIN v = Fields /\ IsSeq(v.queue) /\ v.epoch \in Nat
      /\ (v.tcp # 0 => v.tcp \in Gens(v))
  BY AllParts
<1>2. x = close_task(o, v.epoch, g)
  BY DEF close_now
<1>3. /\ DOMAIN o = Fields /\ SameTcp(v, o) /\ SameDevice(v, o) /\ o.queue = v.queue
      /\ o.open = FALSE /\ o.epoch = v.epoch /\ o.slots = v.slots /\ o.tcp = v.tcp
      /\ o.per_queue = v.per_queue /\ o.misrouted = v.misrouted /\ o.inflight = v.inflight
  BY <1>1 DEF Fields, SameTcp, SameDevice
<1>4. x = Ceasing(o, g, dev)
  BY <1>2, <1>3 DEF close_task, Ceasing
<1>5. g = v.tcp /\ dev \in BOOLEAN /\ dev
  OBVIOUS
<1>6. DOMAIN sz = {"pc", "task", "snap"} /\ sz.pc = "idle" /\ sz.snap = {}
  BY DEF Resting
<1> HIDE DEF o, g, dev
<1>7. o.epoch \in Nat /\ v.epoch <= o.epoch
  BY <1>1, <1>3
<1>8. Shared(v, o)
  BY ONLY All(v, us, st), <1>3, <1>7, SharedIs
<1>9. /\ FlowsInv(o) /\ Gens(o) = Gens(v) /\ Accs(o) = Accs(v) /\ Gen(o) = Gen(v)
      /\ Queued(o) /\ Sweeping(o) /\ Tasks(o) = Tasks(v) /\ Closer(o) = Closer(v)
      /\ o.accs = v.accs /\ o.engs = v.engs
  BY <1>8 DEF Shared
<1>10. Device1(o)
  BY <1>1, <1>3 DEF Device1, Handles, ReadOk, SameDevice
<1>11. /\ v.tcp # 0 /\ us.pc \in {"idle", "slot", "store"} /\ Closer(v) = {}
  BY <1>1 DEF Life
<1>12. 0 \notin Gens(o)
  BY <1>1, <1>9, SweepsNamed
<1>13. o.tcp \in Gens(o) \cup {0} /\ g \in Gens(o) \cup {0}
  BY <1>1, <1>3, <1>5, <1>9, <1>11
<1>14. Ceased(o, x, g, dev)
  BY ONLY <1>4, <1>5, <1>7, <1>9, <1>10, <1>12, <1>13, CeaseIs
<1>15. /\ FlowsInv(x) /\ Queued(x) /\ Sweeping(x) /\ Device1(x) /\ SameLife(o, x)
       /\ Gens(x) = Gens(o) /\ Accs(x) = Accs(o) /\ Gen(x) = Gen(o)
       /\ \A i \in Accs(o) : x.accs[i].epoch = o.accs[i].epoch /\ x.accs[i].gen = o.accs[i].gen
       /\ Closer(x) = Closer(o) /\ x.descs = {} /\ x.reads = {}
       /\ \A n \in Tasks(x) : x.queue[n].type = "cleanup" => n \in Tasks(o)
       /\ \A n \in Tasks(o) : x.queue[n] = o.queue[n]
       /\ \A k \in Gens(o) : /\ k = g => x.engs[k].closed
                             /\ k # g => x.engs[k].closed = o.engs[k].closed
  BY <1>5, <1>14 DEF Ceased
<1>16. /\ x.open = FALSE /\ x.tcp = v.tcp /\ x.epoch = v.epoch /\ x.slots = v.slots
       /\ x.inflight = v.inflight /\ x.misrouted = v.misrouted
  BY <1>3, <1>15 DEF SameLife
<1>17. Life(x, us, sz)
  <2>1. \A n \in Tasks(x) : x.queue[n].type # "cleanup"
    BY <1>9, <1>11, <1>15 DEF Closer
  <2> QED BY <1>1, <1>6, <1>9, <1>11, <1>15, <1>16, <2>1 DEF Life, Opening
<1>18. Words(x, us, sz)
  BY <1>1, <1>6, <1>16 DEF Words
<1>19. Epochs(x, us, sz)
  BY <1>1, <1>6, <1>9, <1>11, <1>15, <1>16 DEF Epochs
<1>20. Ending(x, us, sz)
  <2>1. \A k \in Gens(x) : x.engs[k].closed
    BY <1>1, <1>5, <1>9, <1>15 DEF Ending
  <2> QED BY <1>6, <1>11, <1>15, <1>16, <2>1 DEF Ending
<1> QED BY <1>15, <1>16, <1>17, <1>18, <1>19, <1>20 DEF All, Rest

\* drop_engine, when all engines are closed and nothing else is to close.
LEMMA DropKeeps ==
  ASSUME NEW v, NEW us, NEW st, All(v, us, st), ~v.open, Closer(v) = {}, st.pc = "idle",
         us.pc \notin {"epoch", "flag"}, \A g \in Gens(v) : v.engs[g].closed,
         NEW x, x = drop_engine(v)
  PROVE  /\ All(x, us, st) /\ x.tcp = 0 /\ Gens(x) = Gens(v) /\ x.queue = v.queue
         /\ \A g \in Gens(x) : x.engs[g].closed /\ x.engs[g].sweep = "none"
         /\ SameDevice(v, x) /\ ~x.open
<1>1. /\ FlowsInv(v) /\ Queued(v) /\ Sweeping(v) /\ Device1(v) /\ Life(v, us, st)
      /\ Words(v, us, st) /\ Epochs(v, us, st) /\ Ending(v, us, st) /\ Shape(v)
      /\ DOMAIN v = Fields /\ IsSeq(v.queue) /\ v.epoch \in Nat /\ Gen(v) \in Nat
      /\ (v.tcp # 0 => v.tcp \in Gens(v))
  BY AllParts
<1>2. 0 \notin Gens(v)
  BY <1>1, SweepsNamed
<1>3. \A g \in Gens(v) : v.engs[g].sweep # "none" => g = v.tcp
  BY <1>1 DEF Sweeping
<1>4. CASE v.tcp = 0
  <2>1. x = v
    BY <1>4 DEF drop_engine
  <2>2. SameDevice(v, v)
    BY DEF SameDevice
  <2> QED BY <1>2, <1>3, <1>4, <2>1, <2>2
<1>5. CASE v.tcp # 0
  <2> DEFINE g == v.tcp
             e == v.engs[g]
             s == "none"
             y == [e EXCEPT !.sweep = s]
             m == [v EXCEPT !.engs = Put(v.engs, g, y)]
  <2>1. x = [m EXCEPT !.tcp = 0]
    BY <1>1, <1>5 DEF drop_engine, Put, Fields
  <2>2. /\ TcpOnly(v, m) /\ m.flows = v.flows /\ m.accs = v.accs /\ m.conns = v.conns
        /\ m.engs = Put(v.engs, g, y)
    <3> HIDE DEF y
    <3> QED BY <1>1 DEF TcpOnly, SameDevice, SameLife, Fields
  <2>3. Marks(v, m, g, s) /\ g \in Gens(v) /\ s = "none" /\ g = v.tcp
    <3> HIDE DEF m
    <3> QED BY <1>1, <1>5, <2>2 DEF Marks
  <2> HIDE DEF g, e, s, y, m
  <2>4. Marked(v, m, g, s)
    BY ONLY <1>1, <2>3, EngineMarked
  <2>5. /\ FlowsInv(m) /\ Keeps(v, m) /\ Free(m) = Free(v) /\ Gens(m) = Gens(v)
        /\ m.engs[g].sweep = s /\ m.engs[g].closed = v.engs[g].closed
        /\ \A h \in Gens(v) : h # g => m.engs[h] = v.engs[h]
    BY <2>4 DEF Marked
  <2>6. /\ DOMAIN m = Fields /\ SameDevice(v, m) /\ SameLife(v, m) /\ m.queue = v.queue
        /\ Len(m.engs) = Len(v.engs) /\ m.accs = v.accs
    BY <2>2, <2>5 DEF TcpOnly, Keeps
  <2>7. /\ DOMAIN x = Fields /\ SameTcp(m, x) /\ SameDevice(v, x) /\ x.queue = v.queue
        /\ x.open = v.open /\ x.epoch = v.epoch /\ x.slots = v.slots /\ x.tcp = 0
        /\ x.per_queue = v.per_queue /\ x.misrouted = v.misrouted /\ x.inflight = v.inflight
    BY <2>1, <2>6 DEF Fields, SameTcp, SameDevice, SameLife
  <2>8. /\ FlowsInv(x) /\ Free(x) = Free(v) /\ Gens(x) = Gens(v) /\ Gen(x) = Gen(v)
        /\ Accs(x) = Accs(v) /\ x.accs = v.accs /\ x.engs = m.engs
    <3>1. /\ FlowsInv(x) /\ Free(x) = Free(m) /\ Gens(x) = Gens(m) /\ Gen(x) = Gen(m)
          /\ Accs(x) = Accs(m)
      BY ONLY <2>5, <2>7, FlowsSame
    <3> QED BY <2>5, <2>6, <2>7, <3>1 DEF Gen, Accs, SameTcp
  <2>9. /\ \A h \in Gens(x) : x.engs[h].closed /\ x.engs[h].sweep = "none"
    BY <1>3, <2>3, <2>5, <2>8
  <2>10. Tasks(x) = Tasks(v) /\ Closer(x) = {}
    BY <2>7 DEF Tasks, Closer
  <2>11. Queued(x)
    <3>1. Gens(v) \subseteq Gens(x) /\ x.epoch \in Nat /\ v.epoch <= x.epoch
      BY <1>1, <2>7, <2>8
    <3> QED BY ONLY <1>1, <2>7, <2>8, <3>1, QueuedSame
  <2>12. Sweeping(x)
    <3>1. \A n \in Tasks(x) : ~SweepOf(x, n)
      BY <1>1, <1>2, <2>7, <2>10 DEF SweepOf, Queued, TaskOk
    <3> QED BY <2>9, <3>1 DEF Sweeping
  <2>13. Device1(x)
    BY <1>1, <2>7 DEF Device1, Handles, ReadOk, SameDevice
  <2>14. Life(x, us, st)
    BY <1>1, <2>7, <2>8, <2>10 DEF Life
  <2>15. Words(x, us, st)
    BY <1>1, <2>7 DEF Words
  <2>16. Epochs(x, us, st)
    BY <1>1, <2>7, <2>8, <2>10 DEF Epochs, SameDevice
  <2>17. Ending(x, us, st)
    <3>1. x.descs = v.descs /\ x.epoch = v.epoch
      BY <2>7 DEF SameDevice
    <3>2. CloseDevice(x) <=> CloseDevice(v)
      BY <2>7, <2>10 DEF CloseDevice
    <3> QED BY <1>1, <2>7, <2>9, <3>1, <3>2 DEF Ending
  <2> QED BY <2>7, <2>8, <2>9, <2>11, <2>12, <2>13, <2>14, <2>15, <2>16, <2>17 DEF All, Rest
<1> QED BY <1>4, <1>5

\* Inside open(), before the engine is open: what there is may be undone.
Undoable(v, us, st) ==
  /\ FlowsInv(v) /\ Queued(v) /\ Sweeping(v) /\ Device1(v) /\ v.tcp \in {0, Gen(v)}
  /\ v.epoch \in 0 .. Gen(v) /\ Closer(v) = {} /\ st.pc = "idle" /\ Words(v, us, st)
  /\ \A i \in Accs(v) : v.accs[i].epoch \in 0 .. v.epoch
  /\ ~v.misrouted /\ \A g \in Gens(v) : ~v.engs[g].closed => g = v.tcp

\* reset_open_state: the user is where he was before open().
LEMMA ResetKeeps ==
  ASSUME NEW v, NEW us, NEW st, Undoable(v, us, st), NEW x, x = reset_open_state(v),
         NEW uz, uz = Idle
  PROVE  All(x, uz, st)
<1> DEFINE o == [v EXCEPT !.open = FALSE]
           g == v.tcp
           dev == TRUE
           c == Ceasing(o, g, dev)
           d == drop_engine(c)
<1>1. /\ FlowsInv(v) /\ Queued(v) /\ Sweeping(v) /\ Device1(v) /\ v.tcp \in {0, Gen(v)}
      /\ v.epoch \in 0 .. Gen(v) /\ Closer(v) = {} /\ st.pc = "idle" /\ Words(v, us, st)
      /\ (\A i \in Accs(v) : v.accs[i].epoch \in 0 .. v.epoch)
      /\ ~v.misrouted /\ (\A h \in Gens(v) : ~v.engs[h].closed => h = v.tcp)
      /\ Shape(v) /\ DOMAIN v = Fields /\ IsSeq(v.queue)
  BY DEF Undoable, FlowsInv, Shape, Queued
<1>2. /\ Gens(v) = 1 .. Gen(v) /\ Gen(v) \in Nat /\ v.epoch \in Nat
  <2>1. Gens(v) = 1 .. Gen(v) /\ Gen(v) \in Nat
    BY <1>1, ShapeIs DEF Gen
  <2> QED BY <1>1, <2>1
<1>3. x = [d EXCEPT !.inflight = {}, !.slots = 0]
  BY DEF reset_open_state, Ceasing
<1>4. /\ DOMAIN o = Fields /\ SameTcp(v, o) /\ SameDevice(v, o) /\ o.queue = v.queue
      /\ o.open = FALSE /\ o.epoch = v.epoch /\ o.slots = v.slots /\ o.tcp = v.tcp
      /\ o.per_queue = v.per_queue /\ o.misrouted = v.misrouted /\ o.inflight = v.inflight
  BY <1>1 DEF Fields, SameTcp, SameDevice
<1>5. DOMAIN uz = {"pc", "slot", "snap"} /\ uz.pc = "idle" /\ uz.snap = {}
  BY DEF Idle
<1>6. g = v.tcp /\ dev \in BOOLEAN /\ dev /\ c = Ceasing(o, g, dev) /\ d = drop_engine(c)
  OBVIOUS
<1> HIDE DEF o, g, dev, c, d
<1>7. /\ FlowsInv(o) /\ Free(o) = Free(v) /\ Gens(o) = Gens(v) /\ Accs(o) = Accs(v)
      /\ Gen(o) = Gen(v)
  BY ONLY <1>1, <1>4, FlowsSame
<1>8. /\ \A n \in Tasks(v) : v.queue[n].type = "sweep" => v.queue[n].eng \in Gens(v)
      /\ v.tcp \in Gens(v) \cup {0} /\ 0 \notin Gens(v)
  BY <1>1, <1>2 DEF Queued, TaskOk
<1>9. Queued(o)
  <2>1. Gens(v) \subseteq Gens(o) /\ o.epoch \in Nat /\ v.epoch <= o.epoch
    BY <1>2, <1>4, <1>7
  <2> QED BY ONLY <1>1, <1>2, <1>4, <1>7, <2>1, QueuedSame
<1>10. o.engs = v.engs /\ o.accs = v.accs /\ Tasks(o) = Tasks(v) /\ Closer(o) = {}
  BY <1>1, <1>4 DEF SameTcp, Tasks, Closer
<1>11. Sweeping(o)
  BY <1>1, <1>4, <1>7, <1>8, <1>10, SweepingSame
<1>12. Device1(o)
  BY <1>1, <1>4 DEF Device1, Handles, ReadOk, SameDevice
<1>13. o.tcp \in Gens(o) \cup {0} /\ g \in Gens(o) \cup {0} /\ 0 \notin Gens(o) /\ o.epoch \in Nat
  BY <1>2, <1>4, <1>6, <1>7, <1>8
<1>14. Ceased(o, c, g, dev)
  BY ONLY <1>6, <1>7, <1>9, <1>11, <1>12, <1>13, CeaseIs
<1>15. /\ FlowsInv(c) /\ Queued(c) /\ Sweeping(c) /\ Device1(c) /\ SameLife(o, c)
       /\ Gens(c) = Gens(o) /\ Accs(c) = Accs(o) /\ Gen(c) = Gen(o)
       /\ \A i \in Accs(o) : c.accs[i].epoch = o.accs[i].epoch /\ c.accs[i].gen = o.accs[i].gen
       /\ Closer(c) = Closer(o) /\ c.descs = {} /\ c.reads = {}
       /\ \A k \in Gens(o) : /\ k = g => c.engs[k].closed
                             /\ k # g => c.engs[k].closed = o.engs[k].closed
  BY <1>6, <1>14 DEF Ceased
<1>16. /\ c.open = FALSE /\ c.tcp = v.tcp /\ c.epoch = v.epoch /\ c.slots = v.slots
       /\ c.inflight = v.inflight /\ c.misrouted = v.misrouted
  BY <1>4, <1>15 DEF SameLife
<1>17. \A k \in Gens(c) : c.engs[k].closed
  BY <1>1, <1>6, <1>7, <1>10, <1>15
<1>18. Life(c, uz, st)
  <2>1. \A n \in Tasks(c) : c.queue[n].type # "cleanup"
    BY <1>10, <1>15 DEF Closer
  <2> QED BY <1>1, <1>2, <1>5, <1>7, <1>10, <1>15, <1>16, <2>1 DEF Life, Opening
<1>19. Words(c, uz, st)
  BY <1>1, <1>5, <1>16 DEF Words
<1>20. Epochs(c, uz, st)
  BY <1>1, <1>5, <1>7, <1>10, <1>15, <1>16 DEF Epochs
<1>21. Ending(c, uz, st)
  BY <1>1, <1>5, <1>15, <1>16, <1>17 DEF Ending
<1>22. All(c, uz, st)
  BY <1>15, <1>18, <1>19, <1>20, <1>21 DEF All, Rest
<1>23. Closer(c) = {} /\ ~c.open /\ uz.pc \notin {"epoch", "flag"}
  BY <1>5, <1>10, <1>15, <1>16
<1>24. All(d, uz, st)
  BY ONLY <1>1, <1>6, <1>17, <1>22, <1>23, DropKeeps
<1>25. DOMAIN d = Fields /\ Words(d, uz, st)
  BY <1>24, AllParts
<1>26. Aside(d, x) /\ x.inflight = {} /\ x.slots = 0
  BY <1>3, <1>25 DEF Aside, Fields, SameTcp, SameDevice
<1>27. Words(x, uz, st)
  BY <1>1, <1>5, <1>25, <1>26 DEF Words
<1>28. Onward(uz, st, uz, st)
  BY <1>1, <1>5 DEF Onward
<1> QED BY ONLY <1>24, <1>26, <1>27, <1>28, AsideKeeps

\* The exception of a later step undoes an open().
LEMMA OpenThrowsKeeps ==
  ASSUME Inv, OpenThrows
  PROVE  Inv'
<1> DEFINE x == w'
           uz == Idle
<1>1. /\ All(w, user, strand) /\ Script(left) /\ user.pc = "epoch" /\ left.faults > 0
      /\ left' = [left EXCEPT !.faults = left.faults - 1]
      /\ user' = uz /\ strand' = strand /\ x = reset_open_state(w)
  BY DEF Inv, OpenThrows
<1>2. /\ FlowsInv(w) /\ Queued(w) /\ Sweeping(w) /\ Device1(w) /\ Life(w, user, strand)
      /\ Words(w, user, strand) /\ Epochs(w, user, strand) /\ Ending(w, user, strand)
  BY <1>1, AllParts
<1>3. w.tcp \in {0, Gen(w)} /\ w.epoch \in 0 .. Gen(w) /\ strand.pc = "idle" /\ Closer(w) = {}
  BY <1>1, <1>2 DEF Life, Opening
<1>4. /\ (\A i \in Accs(w) : w.accs[i].epoch \in 0 .. w.epoch) /\ ~w.misrouted
      /\ \A g \in Gens(w) : ~w.engs[g].closed => g = w.tcp
  BY <1>2 DEF Epochs, Ending
<1>5. Undoable(w, user, strand)
  BY <1>2, <1>3, <1>4 DEF Undoable
<1>6. uz = Idle
  OBVIOUS
<1> HIDE DEF x, uz
<1>7. All(x, uz, strand)
  BY ONLY <1>1, <1>5, <1>6, ResetKeeps
<1>8. Script(left')
  BY <1>1 DEF Script, Counters
<1>9. All(w', user', strand')
  BY <1>1, <1>7 DEF x
<1> QED BY <1>8, <1>9 DEF Inv

\* The device opens or does not: while the user opens it, nothing else changes.
OpenedAs(v, d) ==
  /\ Shared(v, d) /\ DeviceOnly(v, d) /\ Device1(d) /\ d.reads = {} /\ d.polls = v.polls

\* The device is closed when open() begins.
LEMMA DeviceOpens ==
  ASSUME NEW v, NEW us, NEW st, All(v, us, st), us.pc = "config", NEW dev, DevOk(dev),
         NEW fault \in Faults(dev) \cup {NoFault}, NEW d, d = device_open(v, dev, fault)
  PROVE  OpenedAs(v, d) /\ v.descs = {} /\ (fault = NoFault => d.descs # {})
<1>1. /\ FlowsInv(v) /\ Device1(v) /\ Life(v, us, st) /\ Ending(v, us, st) /\ Handles(v)
      /\ DOMAIN v = Fields /\ IsSeq(v.queue) /\ v.epoch \in Nat /\ v.slots \in Nat
  BY AllParts
<1>2. v.descs = {}
  BY <1>1 DEF Life, Ending, Opening, CloseDevice
<1>3. OpenDone(v, d) /\ Handles(d) /\ d.queue = v.queue
      /\ (fault = NoFault => d.descs # {} /\ d.reads = {})
  BY <1>1, <1>2, OpenIs
<1>4. d.reads = {} /\ d.polls = v.polls /\ DeviceOnly(v, d)
  BY <1>1, <1>2, <1>3 DEF OpenDone, Handles
<1>5. /\ DOMAIN d = Fields /\ SameTcp(v, d) /\ d.tcp = v.tcp /\ d.epoch \in Nat
      /\ v.epoch <= d.epoch
  BY <1>1, <1>4 DEF DeviceOnly, SameLife
<1>6. Shared(v, d)
  BY ONLY All(v, us, st), <1>3, <1>5, SharedIs
<1>7. Device1(d)
  BY <1>1, <1>3, <1>4 DEF Device1, DeviceOnly, SameLife, ReadOk
<1> QED BY <1>2, <1>3, <1>4, <1>6, <1>7 DEF OpenedAs

\* The device does not open.
LEMMA OpenFailsKeeps ==
  ASSUME Inv, OpenFails
  PROVE  Inv'
<1> DEFINE v == [w EXCEPT !.local = left.dev.ips]
           x == w'
           uz == Idle
<1>1. /\ All(w, user, strand) /\ Script(left) /\ user.pc = "config" /\ left.faults > 0
      /\ left' = [left EXCEPT !.faults = left.faults - 1]
      /\ user' = uz /\ strand' = strand
  BY DEF Inv, OpenFails
<1>2. PICK fault \in Faults(left.dev) : x = reset_open_state(device_open(v, left.dev, fault))
  BY DEF OpenFails
<1> DEFINE d == device_open(v, left.dev, fault)
<1>3. /\ Words(w, user, strand) /\ Life(w, user, strand) /\ DOMAIN w = Fields
  BY <1>1, AllParts
<1>4. Aside(w, v) /\ v.inflight = w.inflight /\ v.slots = w.slots
  BY <1>3 DEF Aside, SameTcp, SameDevice, Fields
<1>5. uz = Idle /\ d = device_open(v, left.dev, fault)
  OBVIOUS
<1> HIDE DEF v, x, uz, d
<1>6. Words(v, user, strand)
  BY <1>3, <1>4 DEF Words
<1>7. Onward(user, strand, user, strand)
  BY <1>3 DEF Onward, Life
<1>8. All(v, user, strand)
  BY ONLY <1>1, <1>4, <1>6, <1>7, AsideKeeps
<1>9. DevOk(left.dev) /\ fault \in Faults(left.dev) \cup {NoFault}
  BY <1>1, <1>2 DEF Script
<1>10. OpenedAs(v, d)
  BY ONLY <1>1, <1>5, <1>8, <1>9, DeviceOpens
<1>11. /\ FlowsInv(d) /\ Queued(d) /\ Sweeping(d) /\ Device1(d) /\ Gens(d) = Gens(v)
       /\ Accs(d) = Accs(v) /\ Gen(d) = Gen(v) /\ d.engs = v.engs /\ d.accs = v.accs
       /\ Closer(d) = Closer(v) /\ d.tcp = v.tcp /\ d.epoch = v.epoch /\ d.slots = v.slots
       /\ d.inflight = v.inflight /\ d.misrouted = v.misrouted
  BY <1>10 DEF OpenedAs, Shared, DeviceOnly, SameLife
<1>12. /\ Life(v, user, strand) /\ Epochs(v, user, strand) /\ Ending(v, user, strand)
  BY <1>8, AllParts
<1>13. v.tcp \in {0, Gen(v)} /\ v.epoch \in 0 .. Gen(v) /\ strand.pc = "idle" /\ Closer(v) = {}
  BY <1>1, <1>12 DEF Life, Opening
<1>14. /\ (\A i \in Accs(d) : d.accs[i].epoch \in 0 .. d.epoch) /\ ~d.misrouted
       /\ \A g \in Gens(d) : ~d.engs[g].closed => g = d.tcp
  BY <1>11, <1>12 DEF Epochs, Ending
<1>15. Words(d, user, strand)
  BY <1>6, <1>11 DEF Words
<1>16. Undoable(d, user, strand)
  BY <1>11, <1>13, <1>14, <1>15 DEF Undoable
<1>17. x = reset_open_state(d)
  BY <1>2, <1>5
<1>18. All(x, uz, strand)
  BY ONLY <1>5, <1>16, <1>17, ResetKeeps
<1>19. Script(left')
  BY <1>1 DEF Script, Counters
<1>20. All(w', user', strand')
  BY <1>1, <1>18 DEF x
<1> QED BY <1>19, <1>20 DEF Inv

\* open() adds an engine that is empty.
NewEngine(e) ==
  /\ EngineOk(e) /\ (\A k \in Keys : e.table[k] = 0) /\ e.pend = <<>> /\ e.waiters = <<>>
  /\ e.sweep = "armed" /\ ~e.closed
Built(v, x, n) ==
  /\ FlowsInv(x) /\ Free(x) = Free(v) /\ Accs(x) = Accs(v) /\ x.accs = v.accs
  /\ Gens(x) = Gens(v) \cup {n} /\ n \notin Gens(v) /\ Gen(x) = n /\ n = Gen(v) + 1
  /\ (\A g \in Gens(v) : x.engs[g] = v.engs[g]) /\ NewEngine(x.engs[n])

\* The engines there were keep their flows and their accepts.
LEMMA EngineAdded ==
  ASSUME NEW v, FlowsInv(v), NEW e, NewEngine(e), NEW x, DOMAIN x = Fields,
         x.engs = Add(v.engs, e), x.flows = v.flows, x.accs = v.accs, x.conns = v.conns,
         NEW n, n = Gen(v) + 1
  PROVE  Built(v, x, n)
<1>1. Shape(v) /\ IsSeq(v.engs) /\ Gens(v) = 1 .. Gen(v) /\ Gen(v) \in Nat
  <2>1. Shape(v)
    BY DEF FlowsInv
  <2> QED BY <2>1, ShapeIs DEF Shape, Gen
<1>2. /\ IsSeq(x.engs) /\ Len(x.engs) = n /\ x.engs[n] = e
      /\ \A g \in 1 .. Gen(v) : x.engs[g] = v.engs[g]
  BY <1>1, SeqAppend DEF Gen
<1>3. /\ Gens(x) = Gens(v) \cup {n} /\ n \notin Gens(v) /\ Gen(x) = n
      /\ \A g \in Gens(v) : x.engs[g] = v.engs[g]
  <2>1. Gens(x) = 1 .. n
    BY <1>2, SeqIs DEF Gens
  <2> QED BY <1>1, <1>2, <2>1 DEF Gen
<1>4. /\ EngineOk(e) /\ (\A k \in Keys : e.table[k] = 0) /\ e.pend = <<>> /\ e.waiters = <<>>
      /\ e.sweep = "armed" /\ ~e.closed
  BY DEF NewEngine
<1>5. Fids(x) = Fids(v) /\ Accs(x) = Accs(v) /\ Connected(x) = Connected(v)
  BY DEF Fids, Accs, Connected
<1>6. /\ \A g : Live(x, g) = Live(v, g)
      /\ \A f : Unclaimed(x, f) <=> Unclaimed(v, f)
  BY <1>5 DEF Live, Unclaimed
<1>7. /\ \A f \in Fids(v) : v.flows[f].gen \in Gens(v)
      /\ Live(v, n) = {}
  <2>1. \A f \in Fids(v) : v.flows[f].gen \in Gens(v)
    BY <1>1 DEF Shape, FlowOk
  <2> QED BY <1>3, <2>1 DEF Live
<1>8. Shape(x)
  <2>1. \A f \in Fids(x) : FlowOk(x, x.flows[f])
    BY <1>1, <1>3, <1>5 DEF Shape, FlowOk
  <2>2. \A g \in Gens(x) : EngineOk(x.engs[g])
    BY <1>1, <1>2, <1>3, <1>4 DEF Shape
  <2> QED BY <1>1, <1>2, <1>5, <2>1, <2>2 DEF Shape
<1>9. Tables(x)
  <2>1. Tables(v)
    BY DEF FlowsInv
  <2>2. ASSUME NEW g \in Gens(x), NEW k \in Keys, x.engs[g].table[k] # 0
        PROVE  x.engs[g].table[k] \in Live(x, g) /\ x.flows[x.engs[g].table[k]].key = k
    <3>1. g \in Gens(v) /\ x.engs[g] = v.engs[g]
      BY <1>2, <1>3, <1>4, <2>2
    <3> QED BY <1>6, <2>1, <2>2, <3>1 DEF Tables
  <2>3. \A f \in Fids(x) : x.flows[f].st # "CLOSED" =>
          x.engs[x.flows[f].gen].table[x.flows[f].key] = f
    BY <1>3, <1>5, <1>7, <2>1 DEF Tables
  <2> QED BY <2>2, <2>3 DEF Tables
<1>10. ToSet(<<>>) = {} /\ Distinct(<<>>) /\ Rising(<<>>)
  <2>1. DOMAIN <<>> = {}
    BY SeqEmpty, SeqIs
  <2> QED BY <2>1, SeqEmpty DEF Distinct, Rising
<1>11. Lists(x)
  <2>1. Lists(v)
    BY DEF FlowsInv
  <2>2. ASSUME NEW g \in Gens(x)
        PROVE  /\ Rising(x.engs[g].pend)
               /\ \A f : f \in ToSet(x.engs[g].pend) <=> f \in Live(x, g) /\ Unclaimed(x, f)
               /\ x.engs[g].waiters # <<>> => x.engs[g].pend = <<>>
    <3>1. CASE g = n
      BY <1>2, <1>4, <1>6, <1>7, <1>10, <3>1
    <3>2. CASE g # n
      <4>1. g \in Gens(v) /\ x.engs[g] = v.engs[g]
        BY <1>3, <3>2
      <4> QED BY <1>6, <2>1, <4>1 DEF Lists
    <3> QED BY <3>1, <3>2
  <2>3. \A f \in Fids(x) : /\ x.flows[f].pending <=> Unclaimed(x, f)
                           /\ Unclaimed(x, f) => x.flows[f].st = "SYN_RCVD"
    BY <1>5, <1>6, <2>1 DEF Lists
  <2> QED BY <2>2, <2>3 DEF Lists
<1>12. Waiters(x)
  <2>1. Waiters(v)
    BY DEF FlowsInv
  <2>2. ASSUME NEW g \in Gens(x)
        PROVE  /\ Distinct(x.engs[g].waiters)
               /\ \A i \in ToSet(x.engs[g].waiters) :
                    i \in Accs(x) /\ x.accs[i].st = "wait" /\ x.accs[i].gen = g
    <3>1. CASE g = n
      BY <1>2, <1>4, <1>10, <3>1
    <3>2. CASE g # n
      <4>1. g \in Gens(v) /\ x.engs[g] = v.engs[g]
        BY <1>3, <3>2
      <4> QED BY <1>5, <2>1, <4>1 DEF Waiters
    <3> QED BY <3>1, <3>2
  <2> QED BY <2>2 DEF Waiters
<1>13. Accepts(x)
  <2>1. \A i : Has1(x, i) <=> Has1(v, i)
    BY DEF Has1
  <2> QED BY <1>5, <2>1 DEF FlowsInv, Accepts
<1>14. Counts(x)
  <2>1. Counts(v)
    BY DEF FlowsInv
  <2>2. Cardinality({}) = 0
    BY FS_EmptySet
  <2> QED BY <1>3, <1>5, <1>6, <1>7, <2>1, <2>2, AcceptAssumption DEF Counts
<1>15. Closings(x)
  <2>1. Closings(v)
    BY DEF FlowsInv
  <2>2. ASSUME NEW g \in Gens(x), x.engs[g].closed
        PROVE  /\ x.engs[g].waiters = <<>> /\ Live(x, g) = {}
               /\ x.engs[g].sweep # "none" => x.engs[g].late
    <3>1. g \in Gens(v) /\ x.engs[g] = v.engs[g]
      BY <1>2, <1>3, <1>4, <2>2
    <3> QED BY <1>6, <2>1, <2>2, <3>1 DEF Closings
  <2> QED BY <2>2 DEF Closings
<1>16. Free(x) = Free(v)
  <2>1. \A i : i \notin ToSet(x.engs[n].waiters)
    BY <1>2, <1>4, <1>10
  <2> QED BY <1>3, <1>5, <2>1 DEF Free
<1> QED BY <1>2, <1>3, <1>5, <1>8, <1>9, <1>11, <1>12, <1>13, <1>14, <1>15, <1>16
     DEF FlowsInv, Built

\* The slots are shared out to the queues, one at least to each.
LEMMA SlotsAre ==
  ASSUME NEW q \in Nat \ {0}, NEW k, k = IF Slots < q THEN 1 ELSE Slots \div q
  PROVE  k \in Nat \ {0} /\ q * k \in Nat
<1>1. ASSUME NEW a \in Nat \ {0}, NEW b \in Nat \ {0}, b <= a PROVE a \div b \in Nat \ {0}
  BY <1>1
<1>2. k \in Nat \ {0}
  BY <1>1, TunioAssumption
<1>3. ASSUME NEW a \in Nat, NEW b \in Nat PROVE a * b \in Nat
  BY <1>3
<1> QED BY <1>2, <1>3

\* The device opens and everything is made anew.
LEMMA OpenBuildKeeps ==
  ASSUME Inv, OpenBuild
  PROVE  Inv'
<1> DEFINE d == drop_engine(w)
           o == [d EXCEPT !.local = left.dev.ips]
           fault == NoFault
           v == device_open(o, left.dev, fault)
           q == queue_count(v)
           k == IF Slots < q THEN 1 ELSE Slots \div q
           e == new_engine
           n == Gen(w) + 1
           x == w'
           uz == [user EXCEPT !.pc = "epoch"]
<1>1. /\ All(w, user, strand) /\ Script(left) /\ user.pc = "config"
      /\ x = [v EXCEPT !.per_queue = k, !.slots = q * k, !.inflight = {},
                       !.engs = Append(v.engs, e), !.tcp = n]
      /\ user' = uz /\ strand' = strand /\ left' = left
  BY DEF Inv, OpenBuild
<1>2. /\ d = drop_engine(w) /\ v = device_open(o, left.dev, fault) /\ fault = NoFault
      /\ fault \in Faults(left.dev) \cup {NoFault} /\ n = Gen(w) + 1
      /\ k = IF Slots < q THEN 1 ELSE Slots \div q
  OBVIOUS
<1>3. NewEngine(e)
  BY SeqEmpty DEF new_engine, NewEngine, EngineOk, EngineFields
<1>4. q = IF v.wintun THEN 1 ELSE Cardinality(v.descs)
  BY DEF queue_count
<1> HIDE DEF d, fault, v, q, k, e, n, x
<1>5. /\ Life(w, user, strand) /\ Words(w, user, strand) /\ Ending(w, user, strand)
      /\ (w.tcp # 0 => w.tcp \in Gens(w))
  BY <1>1, AllParts
<1>6. /\ ~w.open /\ Closer(w) = {} /\ strand.pc = "idle" /\ user.pc \notin {"epoch", "flag"}
      /\ \A g \in Gens(w) : w.engs[g].closed
  BY <1>1, <1>5 DEF Life, Ending, Opening, CloseOn
<1>7. /\ All(d, user, strand) /\ d.tcp = 0 /\ Gens(d) = Gens(w) /\ d.queue = w.queue
      /\ (\A g \in Gens(d) : d.engs[g].closed /\ d.engs[g].sweep = "none") /\ ~d.open
  BY ONLY <1>1, <1>2, <1>6, DropKeeps
<1>8. DOMAIN d = Fields /\ Words(d, user, strand)
  BY <1>7, AllParts
<1>9. Aside(d, o) /\ o.inflight = d.inflight /\ o.slots = d.slots
  BY <1>8 DEF Aside, SameTcp, SameDevice, Fields
<1> HIDE DEF o
<1>10. Words(o, user, strand)
  BY <1>8, <1>9 DEF Words
<1>11. Onward(user, strand, user, strand)
  BY <1>6 DEF Onward
<1>12. All(o, user, strand)
  BY ONLY <1>7, <1>9, <1>10, <1>11, AsideKeeps
<1>13. DevOk(left.dev)
  BY <1>1 DEF Script
<1>14. OpenedAs(o, v) /\ v.descs # {}
  BY ONLY <1>1, <1>2, <1>12, <1>13, DeviceOpens
<1>15. /\ FlowsInv(v) /\ Free(v) = Free(o) /\ Gens(v) = Gens(o) /\ Accs(v) = Accs(o)
       /\ Gen(v) = Gen(o) /\ Queued(v) /\ Sweeping(v) /\ v.engs = o.engs /\ v.accs = o.accs
       /\ v.queue = o.queue /\ Tasks(v) = Tasks(o) /\ Closer(v) = Closer(o)
       /\ DOMAIN v = Fields /\ SameLife(o, v) /\ Device1(v) /\ v.reads = {} /\ v.polls = o.polls
  BY <1>14 DEF OpenedAs, Shared, DeviceOnly
<1>16. /\ Life(o, user, strand) /\ Epochs(o, user, strand) /\ Words(o, user, strand)
       /\ o.epoch \in Nat /\ Gen(o) \in Nat /\ Gens(o) = 1 .. Gen(o) /\ IsSeq(o.queue)
  BY <1>12, AllParts
<1>17. /\ v.tcp = 0 /\ ~v.open /\ v.open \in BOOLEAN /\ v.epoch = o.epoch /\ ~v.misrouted
  <2>1. v.tcp = o.tcp /\ v.open = o.open /\ v.epoch = o.epoch /\ v.misrouted = o.misrouted
    BY <1>15 DEF SameLife
  <2>2. o.tcp = d.tcp /\ o.open = d.open
    BY <1>9 DEF Aside
  <2>3. ~o.misrouted /\ o.open \in BOOLEAN
    BY <1>16 DEF Epochs, Life
  <2> QED BY <1>7, <2>1, <2>2, <2>3
<1>18. Gen(v) = Gen(w) /\ Gen(w) \in Nat /\ n = Gen(v) + 1 /\ v.queue = o.queue /\ o.engs = d.engs
       /\ Gens(o) = Gens(d)
  <2>1. o.engs = d.engs /\ Gens(o) = Gens(d)
    BY <1>9 DEF Aside, SameTcp, Gens
  <2>2. 1 .. Gen(o) = 1 .. Gen(w) /\ Gen(o) \in Nat /\ Gen(w) \in Nat
    BY <1>1, <1>7, <1>16, <2>1, AllParts
  <2>3. ASSUME NEW a \in Nat, NEW b \in Nat, 1 .. a = 1 .. b PROVE a = b
    <3>1. (b > 0 => b \in 1 .. a) /\ (a > 0 => a \in 1 .. b)
      BY <2>3
    <3> QED BY <3>1
  <2>4. Gen(o) = Gen(w)
    BY ONLY <2>2, <2>3
  <2> QED BY <1>2, <1>15, <2>1, <2>2, <2>4
<1>19. q \in Nat \ {0} /\ k \in Nat \ {0} /\ q * k \in Nat
  <2>1. Cardinality(v.descs) \in Nat \ {0}
    BY <1>14, <1>15, HandlesFinite DEF Device1
  <2>2. q \in Nat \ {0}
    BY <1>4, <2>1
  <2> QED BY ONLY <1>2, <2>2, SlotsAre
<1> DEFINE S == q * k
<1> HIDE DEF S
<1>20. /\ DOMAIN x = Fields /\ x.engs = Add(v.engs, e) /\ x.flows = v.flows /\ x.accs = v.accs
       /\ x.conns = v.conns /\ x.queue = v.queue /\ SameDevice(v, x) /\ x.open = v.open
       /\ x.epoch = v.epoch /\ x.misrouted = v.misrouted /\ x.per_queue = k /\ x.slots = S
       /\ x.inflight = {} /\ x.tcp = n
  <2>1. x = [v EXCEPT !.per_queue = k, !.slots = S, !.inflight = {},
                      !.engs = Append(v.engs, e), !.tcp = n]
    BY <1>1 DEF S
  <2> QED BY <1>15, <2>1 DEF Fields, Add, SameDevice
<1>21. S \in Nat
  BY <1>19 DEF S
<1>22. Built(v, x, n)
  BY ONLY <1>3, <1>15, <1>18, <1>20, EngineAdded
<1>23. /\ FlowsInv(x) /\ Free(x) = Free(v) /\ Accs(x) = Accs(v) /\ x.accs = v.accs
       /\ Gens(x) = Gens(v) \cup {n} /\ n \notin Gens(v) /\ Gen(x) = n /\ n = Gen(v) + 1
       /\ (\A g \in Gens(v) : x.engs[g] = v.engs[g]) /\ x.engs[n].sweep = "armed"
       /\ ~x.engs[n].closed
  BY <1>22 DEF Built, NewEngine
<1>24. /\ \A g \in Gens(v) : v.engs[g].closed /\ v.engs[g].sweep = "none"
       /\ v.epoch \in 0 .. Gen(v) /\ v.epoch \in Nat /\ v.epoch < n /\ v.epoch \in 0 .. n
       /\ Closer(v) = {} /\ x.epoch = v.epoch
  <2>1. v.epoch \in 0 .. Gen(v)
    BY <1>15, <1>16, <1>17 DEF Life
  <2>2. Closer(v) = {}
    BY <1>1, <1>15, <1>16 DEF Life, Opening
  <2>3. \A g \in Gens(v) : v.engs[g].closed /\ v.engs[g].sweep = "none"
    BY <1>7, <1>15, <1>18
  <2> QED BY <1>18, <1>20, <2>1, <2>2, <2>3
<1>25. Tasks(x) = Tasks(v) /\ Closer(x) = {}
  BY <1>20, <1>24 DEF Tasks, Closer
<1>26. Queued(x)
  <2>1. Gens(v) \subseteq Gens(x) /\ x.epoch \in Nat /\ v.epoch <= x.epoch
    BY <1>23, <1>24
  <2> QED BY ONLY <1>15, <1>20, <1>23, <1>24, <2>1, QueuedSame
<1>27. Sweeping(x)
  <2>1. \A m \in Tasks(x) : ~SweepOf(x, m)
    BY <1>15, <1>20, <1>23, <1>25 DEF SweepOf, Queued, TaskOk
  <2>2. \A g \in Gens(x) : /\ x.engs[g].sweep \in {"none", "armed", "queued"}
                           /\ x.engs[g].sweep # "none" => g = x.tcp
    BY <1>20, <1>23, <1>24
  <2> QED BY <2>1, <2>2 DEF Sweeping
<1>28. Device1(x)
  <2>1. /\ x.fds = v.fds /\ x.descs = v.descs /\ x.reads = v.reads /\ x.polls = v.polls
    BY <1>20 DEF SameDevice
  <2> QED BY <1>15, <1>19, <1>20, <1>21, <2>1 DEF Device1, Handles, ReadOk
<1>29. user.snap = {} /\ DOMAIN uz = {"pc", "slot", "snap"} /\ uz.pc = "epoch" /\ uz.snap = {}
  BY <1>1, <1>5 DEF Words
<1> HIDE DEF uz
<1>30. Life(x, uz, strand)
  <2>1. \A m \in Tasks(x) : x.queue[m].type # "cleanup"
    BY <1>25 DEF Closer
  <2>2. n # 0 /\ x.tcp = Gen(x)
    BY <1>18, <1>20, <1>23
  <2> QED BY <1>6, <1>17, <1>20, <1>23, <1>24, <1>25, <1>29, <2>1, <2>2 DEF Life, Opening
<1>31. Words(x, uz, strand)
  BY <1>5, <1>6, <1>20, <1>29 DEF Words
<1>32. Epochs(x, uz, strand)
  BY <1>6, <1>15, <1>16, <1>17, <1>20, <1>23, <1>29 DEF Epochs
<1>33. Ending(x, uz, strand)
  BY <1>20, <1>23, <1>24, <1>29 DEF Ending
<1>34. All(w', user', strand') /\ Script(left')
  BY <1>1, <1>23, <1>26, <1>27, <1>28, <1>30, <1>31, <1>32, <1>33 DEF All, Rest, x
<1> QED BY <1>34 DEF Inv

\* handle_packet: an echo reply is written, or the segment handled.
LEMMA HandleKeeps ==
  ASSUME NEW v, NEW us, NEW st, All(v, us, st), st.pc = "handle",
         NEW p, p.proto = "tcp" => p.key \in Keys, NEW x, x = handle_packet(v, p)
  PROVE  All(x, us, st)
<1>1. /\ FlowsInv(v) /\ Life(v, us, st) /\ Words(v, us, st) /\ Epochs(v, us, st)
      /\ Ending(v, us, st) /\ DOMAIN v = Fields /\ (v.tcp # 0 => v.tcp \in Gens(v))
  BY AllParts
<1>2. v.tcp \in Gens(v) /\ ~v.engs[v.tcp].closed
  BY <1>1 DEF Epochs, Ending
<1>3. CASE x = v
  BY <1>3
<1>4. CASE \E r : x = Answer(v, r)
  <2>1. PICK r : x = Answer(v, r)
    BY <1>4
  <2>5. Aside(v, x) /\ x.inflight = v.inflight /\ x.slots = v.slots
    BY <1>1, <2>1 DEF Aside, SameTcp, SameDevice, Answer, Fields
  <2>2. Words(x, us, st)
    BY <1>1, <2>5 DEF Words
  <2>3. Onward(us, st, us, st)
    BY <1>1 DEF Onward, Life
  <2> QED BY ONLY All(v, us, st), <2>2, <2>3, <2>5, AsideKeeps
<1>5. CASE p.proto = "tcp" /\ x = on_packet(v, v.tcp, p.key, p.seg)
  <2> DEFINE g == v.tcp
             k == p.key
             seg == p.seg
  <2>1. g \in Gens(v) /\ ~v.engs[g].closed /\ k \in Keys /\ x = on_packet(v, g, k, seg)
    BY <1>2, <1>5
  <2> HIDE DEF g, k, seg
  <2>2. Handled(v, x)
    BY ONLY <1>1, <2>1, PacketKeeps
  <2> QED BY ONLY All(v, us, st), <2>2, AllHandled
<1>6. x = v \/ (\E r : x = Answer(v, r))
      \/ (p.proto = "tcp" /\ x = on_packet(v, v.tcp, p.key, p.seg))
  <2>1. CASE ~Dispatched(v, p)
    BY <2>1 DEF handle_packet
  <2>5. CASE Dispatched(v, p) /\ p.proto \notin {"icmp", "icmpv6", "tcp"}
    BY <2>5 DEF handle_packet
  <2>2. CASE Dispatched(v, p) /\ p.proto = "icmp"
    <3>1. x = handle_icmp(v, p)
      BY <2>2 DEF handle_packet
    <3> DEFINE r == Reply(4, "self", FirstFour(p, p.src), "icmp", 0, p.plen)
    <3>2. handle_icmp(v, p) \in {v, Answer(v, r)}
      BY DEF handle_icmp
    <3> QED BY <3>1, <3>2
  <2>3. CASE Dispatched(v, p) /\ p.proto = "icmpv6"
    <3>1. x = handle_icmpv6(v, p)
      BY <2>3 DEF handle_packet
    <3> DEFINE r == Reply(6, "self", Sixteen(p, p.src), "icmpv6", 129, p.plen)
    <3>2. handle_icmpv6(v, p) \in {v, Answer(v, r)}
      BY DEF handle_icmpv6
    <3> QED BY <3>1, <3>2
  <2>4. CASE Dispatched(v, p) /\ p.proto = "tcp"
    BY <2>4 DEF handle_packet
  <2> QED BY <2>1, <2>2, <2>3, <2>4, <2>5
<1> QED BY <1>3, <1>4, <1>5, <1>6

\* on_read, once the slot's bit is cleared.
LEMMA OnReadKeeps ==
  ASSUME NEW v, NEW us, NEW st, All(v, us, st), st.pc = "handle",
         NEW p, st.task.res = "packet" => (p.proto = "tcp" => p.key \in Keys),
         NEW x, x = on_read(v, st.task, p)
  PROVE  All(x, us, st) \/ (All(x, us, Resting) /\ ~x.open)
<1>1. /\ Words(v, us, st) /\ Epochs(v, us, st) /\ Life(v, us, st) /\ DOMAIN v = Fields
  BY AllParts
<1>2. st.task.res \in {"error", "aborted", "packet"}
  BY <1>1 DEF Words
<1>3. CASE st.task.res = "aborted" \/ (st.task.res = "error" /\ ~v.open)
  <2>1. x = v
    BY <1>3 DEF on_read, close_now
  <2> QED BY <2>1
<1>4. CASE st.task.res = "error" /\ v.open
  <2>1. x = close_now(v)
    BY <1>4 DEF on_read
  <2> DEFINE sz == Resting
  <2>2. sz = Resting
    OBVIOUS
  <2> HIDE DEF sz
  <2>3. All(x, us, sz) /\ ~x.open
    BY ONLY All(v, us, st), st.pc = "handle", <1>4, <2>1, <2>2, CloseNowKeeps
  <2> QED BY <2>2, <2>3
<1>5. CASE st.task.res = "packet"
  <2> DEFINE h == handle_packet(v, p)
  <2>1. /\ x = [h EXCEPT !.misrouted = h.misrouted \/ st.task.from # v.tcp]
        /\ st.task.from = v.tcp
    <3>1. v.tcp # 0 /\ st.task.from = v.tcp
      BY <1>1, <1>5 DEF Epochs
    <3> QED BY <1>5, <3>1 DEF on_read
  <2>2. h = handle_packet(v, p) /\ (p.proto = "tcp" => p.key \in Keys)
    BY <1>5
  <2> HIDE DEF h
  <2>3. All(h, us, st)
    BY ONLY All(v, us, st), st.pc = "handle", <2>2, HandleKeeps
  <2>4. /\ Words(h, us, st) /\ Epochs(h, us, st) /\ Life(h, us, st) /\ DOMAIN h = Fields
    BY <2>3, AllParts
  <2>5. ~h.misrouted
    BY <2>4 DEF Epochs
  <2>6. x = [h EXCEPT !.misrouted = FALSE]
    BY <2>1, <2>5
  <2>7. Aside(h, x) /\ x.inflight = h.inflight /\ x.slots = h.slots
    BY <2>4, <2>6 DEF Aside, SameTcp, SameDevice, Fields
  <2>8. Words(x, us, st)
    BY <2>4, <2>7 DEF Words
  <2>9. Onward(us, st, us, st)
    BY <1>1 DEF Onward, Life
  <2> QED BY ONLY <2>3, <2>7, <2>8, <2>9, AsideKeeps
<1> QED BY <1>2, <1>3, <1>4, <1>5

\* on_read ends: the slot is read again, or the strand is done with it.
LEMMA ReadHandleKeeps ==
  ASSUME Inv, NEW p, ReadHandle(p), strand.task.res = "packet" => p \in Packets[left.pkts]
  PROVE  Inv'
<1> DEFINE x == w'
           slot == strand.task.slot
           again == x.open /\ slot <= x.slots /\ slot \notin x.inflight
           sz == IF again THEN [strand EXCEPT !.pc = "set", !.snap = x.inflight] ELSE Resting
<1>1. /\ All(w, user, strand) /\ Script(left) /\ strand.pc = "handle"
      /\ x = on_read(w, strand.task, p) /\ strand' = sz /\ user' = user /\ left' = left
  BY DEF Inv, ReadHandle
<1>2. strand.task.res = "packet" => (p.proto = "tcp" => p.key \in Keys)
  BY <1>1 DEF Script
<1>3. DOMAIN strand = {"pc", "task", "snap"}
  <2>1. Words(w, user, strand)
    BY <1>1, AllParts
  <2> QED BY <2>1 DEF Words
<1> HIDE DEF x
<1>4. All(x, user, strand) \/ (All(x, user, Resting) /\ ~x.open)
  BY ONLY <1>1, <1>2, OnReadKeeps
<1>5. again => DOMAIN sz = {"pc", "task", "snap"} /\ sz.pc = "set" /\ sz.task = strand.task
               /\ sz.snap = x.inflight
  BY <1>3
<1>6. ~again => sz = Resting
  OBVIOUS
<1>7. ~x.open => ~again
  OBVIOUS
<1>8. again => slot <= x.slots
  OBVIOUS
<1> HIDE DEF again, sz
<1>9. All(x, user, sz)
  <2>1. CASE All(x, user, Resting) /\ ~x.open
    BY <1>6, <1>7, <2>1
  <2>2. CASE All(x, user, strand)
    <3>1. Words(x, user, strand) /\ DOMAIN x = Fields
      BY <2>2, AllParts
    <3>2. Aside(x, x)
      BY <3>1 DEF Aside, SameTcp, SameDevice
    <3>3. \/ sz.pc = "idle" /\ sz.snap = {}
          \/ sz.pc = "set" /\ sz.task = strand.task /\ sz.snap = x.inflight /\ slot <= x.slots
      BY <1>5, <1>6, <1>8 DEF Resting
    <3>4. DOMAIN sz = {"pc", "task", "snap"}
      BY <1>5, <1>6 DEF Resting
    <3>5. Words(x, user, sz)
      BY <1>1, <3>1, <3>3, <3>4 DEF Words
    <3>6. Onward(user, strand, user, sz)
      BY <1>1, <3>3 DEF Onward
    <3> QED BY ONLY <2>2, <3>2, <3>5, <3>6, AsideKeeps
  <2> QED BY <1>4, <2>1, <2>2
<1>10. All(w', user', strand') /\ Script(left')
  BY <1>1, <1>9 DEF x
<1> QED BY <1>10 DEF Inv

-----------------------------------------------------------------------------
(***************************************************************************)
(* The invariant, and the properties that follow from it.                  *)
(***************************************************************************)
\* A tunio that was constructed: nothing is there.
LEMMA InitInv ==
  ASSUME NoReadThrows, Init
  PROVE  Inv
<1>1. /\ left \in Scripts /\ DOMAIN w = Fields /\ w.open = FALSE /\ w.epoch = 0
      /\ w.inflight = {} /\ w.slots = 0 /\ w.per_queue = Slots /\ w.fds = <<>> /\ w.descs = {}
      /\ w.reads = {} /\ w.polls = {} /\ w.tcp = 0 /\ w.engs = <<>> /\ w.flows = <<>>
      /\ w.accs = <<>> /\ w.conns = 0 /\ w.queue = <<>> /\ w.misrouted = FALSE
  BY DEF Init, Fields
<1>2. /\ user.pc = "idle" /\ user.snap = {} /\ DOMAIN user = {"pc", "slot", "snap"}
      /\ strand.pc = "idle" /\ strand.snap = {} /\ DOMAIN strand = {"pc", "task", "snap"}
  BY DEF Init, Idle, Resting
<1>3. IsSeq(<<>>) /\ DOMAIN <<>> = {} /\ Len(<<>>) = 0
  BY SeqEmpty, EmptySeq
<1>4. /\ Fids(w) = {} /\ Gens(w) = {} /\ Accs(w) = {} /\ Tasks(w) = {} /\ Gen(w) = 0
      /\ DOMAIN w.fds = {}
  BY <1>1, <1>3 DEF Fids, Gens, Accs, Tasks, Gen
<1>5. FlowsInv(w)
  <2>1. Shape(w) /\ Tables(w) /\ Lists(w) /\ Waiters(w) /\ Accepts(w) /\ Closings(w)
    BY <1>1, <1>3, <1>4 DEF Shape, Tables, Lists, Waiters, Accepts, Closings
  <2>2. Connected(w) = {}
    BY <1>4 DEF Connected
  <2>3. Counts(w)
    BY <1>1, <1>4, <2>2, FS_EmptySet DEF Counts
  <2> QED BY <2>1, <2>3 DEF FlowsInv
<1>6. Queued(w) /\ Sweeping(w)
  <2>1. Free(w) = {}
    BY <1>4 DEF Free
  <2> QED BY <1>1, <1>3, <1>4, <2>1 DEF Queued, Sweeping
<1>7. Device1(w)
  BY <1>1, <1>3, <1>4, TunioAssumption DEF Device1, Handles
<1>8. Closer(w) = {}
  BY <1>4 DEF Closer
<1>9. Life(w, user, strand) /\ Words(w, user, strand)
  <2>1. 0 \in 0 .. Gen(w) /\ 0 \in {0, Gen(w)}
    BY <1>4
  <2>2. Life(w, user, strand)
    BY <1>1, <1>2, <1>4, <1>8, <2>1 DEF Life, Opening
  <2>3. Words(w, user, strand)
    BY <1>1, <1>2 DEF Words
  <2> QED BY <2>2, <2>3
<1>10. Epochs(w, user, strand) /\ Ending(w, user, strand)
  BY <1>1, <1>2, <1>4 DEF Epochs, Ending
<1>11. Script(left)
  <2>1. /\ DOMAIN left = {"opens", "faults", "throws", "packets", "accepts", "cancels", "sweeps",
                          "ops", "pkts", "dev"}
        /\ left.throws = 0
    BY <1>1, ScriptAssumption DEF NoReadThrows
  <2>2. \A k \in Counters : left[k] \in Nat
    BY <1>1, ScriptAssumption DEF Counters
  <2>3. \A p \in Packets[left.pkts] : p.proto = "tcp" => p.key \in Keys
    BY <1>1, ScriptAssumption
  <2>4. DevOk(left.dev)
    BY <1>1, ScriptAssumption DEF DevOk
  <2> QED BY <2>1, <2>2, <2>3, <2>4 DEF Script, Counters
<1> QED BY <1>5, <1>6, <1>7, <1>9, <1>10, <1>11 DEF Inv, All, Rest

\* Every step keeps the invariant.
LEMMA StepInv ==
  ASSUME Inv, [Next]_vars
  PROVE  Inv'
<1>1. CASE OpenBegin \/ OpenBadAddress \/ OpenFails \/ OpenThrows
  BY <1>1, OpenBeginKeeps, OpenBadAddressKeeps, OpenFailsKeeps, OpenThrowsKeeps
<1>2. CASE OpenSteps
  BY <1>2, OpenBuildKeeps, OpenEpochKeeps, OpenFlagKeeps, SlotLoadKeeps, SlotStoreKeeps
  DEF OpenSteps
<1>3. CASE UserClose \/ UserAccept \/ UserCancel
  BY <1>3, UserCloseKeeps, UserAcceptKeeps, UserCancelKeeps
<1>4. CASE StrandSteps
  <2>1. CASE RunCleanup \/ RunClose \/ RunAccept \/ RunCancel
    BY <2>1, RunCleanupKeeps, RunCloseKeeps, RunAcceptKeeps, RunCancelKeeps
  <2>2. CASE \E old \in SUBSET DOMAIN w.flows : RunSweep(old)
    BY <2>2, RunSweepKeeps
  <2>3. CASE ReadBegin \/ ReadClear \/ ReadAgain
    BY <2>3, ReadBeginKeeps, ReadClearKeeps, ReadAgainKeeps
  <2>4. CASE strand.pc = "handle" /\ strand.task.res = "packet"
             /\ \E p \in Packets[left.pkts] : ReadHandle(p)
    BY <2>4, ReadHandleKeeps
  <2>5. CASE ~(strand.pc = "handle" /\ strand.task.res = "packet")
             /\ \E p \in {CHOOSE q \in Packets[left.pkts] : TRUE} : ReadHandle(p)
    <3>1. PICK p : ReadHandle(p)
      BY <2>5
    <3>2. strand.pc = "handle"
      BY <3>1 DEF ReadHandle
    <3>3. strand.task.res = "packet" => p \in Packets[left.pkts]
      BY <2>5, <3>2
    <3> QED BY <3>1, <3>3, ReadHandleKeeps
  <2> QED BY <1>4, <2>1, <2>2, <2>3, <2>4, <2>5 DEF StrandSteps
<1>5. CASE \E g \in DOMAIN w.engs : SweepFires(g)
  BY <1>5, SweepFiresKeeps DEF Gens
<1>6. CASE \E f \in Given, op \in {"accept", "reject", "close"} : FlowOp(f, op)
  BY <1>6, FlowOpKeeps
<1>7. CASE \E r \in w.reads, res \in {"packet", "error"} : DeviceRead(r, res)
  BY <1>7, DeviceReadKeeps
<1>8. CASE \E r \in w.polls, res \in {"packet", "error", "empty"} : WintunPoll(r, res)
  BY <1>8, WintunPollKeeps
<1>9. CASE WintunTimer
  BY <1>9, WintunTimerKeeps
<1>10. CASE UNCHANGED vars
  <2>1. w' = w /\ user' = user /\ strand' = strand /\ left' = left
    BY <1>10 DEF vars
  <2> QED BY <2>1 DEF Inv
<1>11. ~OpenReadThrows
  BY DEF Inv, Script, OpenReadThrows
<1> QED BY <1>1, <1>2, <1>3, <1>4, <1>5, <1>6, <1>7, <1>8, <1>9, <1>10, <1>11 DEF Next

\* The invariant holds always: what is shared by the user's thread and the
\* strand, the tasks under way and the flows fit together in every state.
THEOREM InvAlways ==
  ASSUME NoReadThrows
  PROVE  Spec => []Inv
<1>1. Init => Inv
  BY InitInv
<1>2. Inv /\ [Next]_vars => Inv'
  BY StepInv
<1> QED BY <1>1, <1>2, PTL DEF Spec

\* Members and table have their types (TypeOK): the table of an engine and the
\* flows that are not CLOSED are the same set, which close_flow and new_flow
\* keep with one assignment each.
THEOREM TypesAlways ==
  ASSUME NoReadThrows
  PROVE  Spec => []TypeOK
<1>1. ASSUME Inv PROVE TypeOK
  <2>1. /\ FlowsInv(w) /\ Life(w, user, strand) /\ Words(w, user, strand) /\ Shape(w)
        /\ Tables(w) /\ Counts(w)
    BY <1>1, AllParts DEF Inv, FlowsInv
  <2>2. \A g \in Gens(w) : InTable(w, g) = Live(w, g)
    BY <2>1, LiveIs
  <2>3. OpenFlows = {f \in Fids(w) : w.flows[f].st # "CLOSED"}
    BY DEF OpenFlows, Fids
  <2>4. \A f \in Fids(w) : w.flows[f].gen \in Gens(w) /\ w.flows[f].st \in FlowStates
    BY <2>1 DEF Shape, FlowOk
  <2>5. OpenFlows = UNION {InTable(w, g) : g \in Gens(w)}
    <3>1. OpenFlows = UNION {Live(w, g) : g \in Gens(w)}
      BY <2>3, <2>4 DEF Live
    <3>2. {Live(w, g) : g \in Gens(w)} = {InTable(w, g) : g \in Gens(w)}
      BY <2>2
    <3> QED BY <3>1, <3>2
  <2>6. \A f \in OpenFlows : w.engs[w.flows[f].gen].table[w.flows[f].key] = f
    BY <2>1, <2>3 DEF Tables
  <2>7. \A g \in Gens(w) : Cardinality(InTable(w, g)) <= MaxTcpFlows
    BY <2>1, <2>2 DEF Counts
  <2>8. w.conns = Cardinality({f \in OpenFlows : w.flows[f].st \notin HalfOpen})
    <3>1. {f \in OpenFlows : w.flows[f].st \notin HalfOpen} = Connected(w)
      BY <2>3 DEF Connected
    <3> QED BY <2>1, <3>1 DEF Counts
  <2>9. w.open \in BOOLEAN /\ w.epoch \in 0 .. Gen(w) /\ w.inflight \subseteq 1 .. w.slots
    BY <2>1 DEF Life, Words
  <2> QED BY <2>4, <2>5, <2>6, <2>7, <2>8, <2>9 DEF TypeOK, Fids, Gens
<1>2. Spec => []Inv
  BY InvAlways
<1> QED BY <1>1, <1>2, PTL

\* on_read compares the epoch of a callback with the engine's before it gives
\* the packet away: no packet of one generation's device reaches the engine of
\* another (OwnGeneration), through any sequence of open(), close() and errors.
THEOREM PacketsOfOwnGeneration ==
  ASSUME NoReadThrows
  PROVE  Spec => []OwnGeneration
<1>1. ASSUME Inv PROVE OwnGeneration
  <2>1. Epochs(w, user, strand)
    BY <1>1, AllParts DEF Inv
  <2> QED BY <2>1 DEF Epochs, OwnGeneration
<1>2. Spec => []Inv
  BY InvAlways
<1> QED BY <1>1, <1>2, PTL

\* async_accept_tcp is completed once, with a flow of the generation it was
\* asked of that nobody else gets; the two queues of the engine, accepts that
\* wait and flows that wait, are never both in use (AcceptsOnce).
THEOREM AcceptsCompletedOnce ==
  ASSUME NoReadThrows
  PROVE  Spec => []AcceptsOnce
<1>1. ASSUME Inv PROVE AcceptsOnce
  <2>1. FlowsInv(w) /\ Shape(w) /\ Tables(w) /\ Lists(w) /\ Accepts(w)
    BY <1>1, AllParts DEF Inv, FlowsInv
  <2>2. ASSUME NEW i \in DOMAIN w.accs
        PROVE  /\ w.accs[i].times = (IF w.accs[i].st = "wait" THEN 0 ELSE 1)
               /\ w.accs[i].st = "ok" => w.flows[w.accs[i].fid].gen = w.accs[i].gen
               /\ \A j \in DOMAIN w.accs : i # j /\ w.accs[i].st = "ok" /\ w.accs[j].st = "ok"
                                             => w.accs[i].fid # w.accs[j].fid
    BY <2>1 DEF Accepts, Accs, Has1
  <2>3. ASSUME NEW g \in DOMAIN w.engs
        PROVE  /\ ToSet(w.engs[g].pend) = {f \in InTable(w, g) : ~w.flows[f].accepted}
               /\ \A i \in 1..(Len(w.engs[g].pend) - 1) :
                    w.engs[g].pend[i] < w.engs[g].pend[i + 1]
               /\ w.engs[g].waiters # <<>> => w.engs[g].pend = <<>>
               /\ \A f \in ToSet(w.engs[g].pend) : w.flows[f].st = "SYN_RCVD"
    <3> DEFINE q == w.engs[g].pend
    <3>1. /\ Rising(q) /\ (\A f : f \in ToSet(q) <=> f \in Live(w, g) /\ Unclaimed(w, f))
          /\ (w.engs[g].waiters # <<>> => q = <<>>)
          /\ (\A f \in Fids(w) : Unclaimed(w, f) => w.flows[f].st = "SYN_RCVD")
      BY <2>1 DEF Lists, Gens
    <3>2. InTable(w, g) = Live(w, g)
      BY <2>1, LiveIs DEF Gens
    <3>3. IsSeq(q)
      BY <2>1, PendIs DEF Gens
    <3>4. ToSet(q) = {f \in InTable(w, g) : ~w.flows[f].accepted}
      BY <3>1, <3>2 DEF Live, Unclaimed
    <3>5. \A f \in ToSet(q) : w.flows[f].st = "SYN_RCVD"
      BY <3>1 DEF Live
    <3>6. \A i \in 1..(Len(q) - 1) : q[i] < q[i + 1]
      <4>1. DOMAIN q = 1 .. Len(q) /\ Len(q) \in Nat
        BY <3>3, SeqIs
      <4> HIDE DEF q
      <4> QED BY <3>1, <4>1 DEF Rising
    <3> QED BY <3>1, <3>4, <3>5, <3>6
  <2> QED BY <2>2, <2>3 DEF AcceptsOnce
<1>2. Spec => []Inv
  BY InvAlways
<1> QED BY <1>1, <1>2, PTL

\* The engine is closed and what was queued has run.
LEMMA AtRestIs ==
  ASSUME Inv, AtRest
  PROVE  /\ ~is_open(w) /\ w.reads = {} /\ OpenFlows = {}
         /\ \A i \in DOMAIN w.accs : w.accs[i].st # "wait"
         /\ \A g \in DOMAIN w.engs : w.engs[g].sweep # "none" => g = w.tcp /\ w.engs[g].late
<1>0. ~w.open /\ w.queue = <<>> /\ strand.pc = "idle" /\ user.pc = "idle"
  BY DEF AtRest
<1>1. /\ FlowsInv(w) /\ Queued(w) /\ Sweeping(w) /\ Ending(w, user, strand) /\ Shape(w)
      /\ Closings(w) /\ Handles(w)
  BY AllParts DEF Inv, FlowsInv
<1>2. Tasks(w) = {} /\ Closer(w) = {}
  BY <1>0, EmptySeq DEF Tasks, Closer
<1>3. \A g \in Gens(w) : w.engs[g].closed
  BY <1>0, <1>1, <1>2 DEF Ending, CloseOn
<1>4. w.descs = {} /\ w.reads = {}
  BY <1>0, <1>1, <1>2 DEF Ending, CloseDevice, Handles
<1>5. \A g \in Gens(w) : w.engs[g].waiters = <<>> /\ Live(w, g) = {}
                         /\ (w.engs[g].sweep # "none" => w.engs[g].late)
  BY <1>1, <1>3 DEF Closings
<1>6. OpenFlows = {}
  <2>1. \A f \in Fids(w) : w.flows[f].gen \in Gens(w)
    BY <1>1 DEF Shape, FlowOk
  <2> QED BY <1>5, <2>1 DEF OpenFlows, Fids, Live
<1>7. ASSUME NEW i \in Accs(w) PROVE w.accs[i].st # "wait"
  <2>1. i \notin Free(w)
    BY <1>1, <1>2 DEF Queued
  <2>2. \A g \in Gens(w) : ToSet(w.engs[g].waiters) = {}
    BY <1>5, SeqEmpty
  <2> QED BY <2>1, <2>2 DEF Free
<1>8. \A g \in Gens(w) : w.engs[g].sweep # "none" => g = w.tcp
  BY <1>1 DEF Sweeping
<1>9. ~is_open(w)
  BY <1>4 DEF is_open
<1> QED BY <1>4, <1>5, <1>6, <1>7, <1>8, <1>9 DEF Accs, Gens

\* After a close and what it queued nothing is left: no device, no read, no
\* flow, no accept that waits (CloseComplete), whichever of close(), a second
\* open() and a device failure began it.
THEOREM CloseLeavesNothing ==
  ASSUME NoReadThrows
  PROVE  Spec => []CloseComplete
<1>1. ASSUME Inv PROVE CloseComplete
  BY <1>1, AtRestIs DEF CloseComplete
<1>2. Spec => []Inv
  BY InvAlways
<1> QED BY <1>1, <1>2, PTL

\* close_all cancels the sweep's timer of every engine: the one timer left is
\* that of the last engine whose sweep was queued then (StoppedUnlessQueued);
\* no earlier engine keeps one, however often the device was opened.
THEOREM OnlyQueuedSweepLeft ==
  ASSUME NoReadThrows
  PROVE  Spec => []StoppedUnlessQueued
<1>1. ASSUME Inv PROVE StoppedUnlessQueued
  BY <1>1, AtRestIs DEF StoppedUnlessQueued
<1>2. Spec => []Inv
  BY InvAlways
<1> QED BY <1>1, <1>2, PTL

\* Every descriptor has one owner (FdsOwned): a failure of any step of
\* device_open closes what it opened, once, and never a handle of the
\* application that it did not take.
THEOREM DescriptorsOwned ==
  ASSUME NoReadThrows
  PROVE  Spec => []FdsOwned
<1>1. ASSUME Inv PROVE FdsOwned
  <2>1. Handles(w)
    BY <1>1, AllParts DEF Inv
  <2>2. ASSUME NEW i \in DOMAIN w.fds PROVE FdOk(w.fds[i], i \in w.descs)
    BY <2>1 DEF Handles
  <2> QED BY <2>2 DEF FdOk, FdsOwned
<1>2. Spec => []Inv
  BY InvAlways
<1> QED BY <1>1, <1>2, PTL
=============================================================================
