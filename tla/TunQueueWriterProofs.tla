------------------------ MODULE TunQueueWriterProofs ------------------------
(***************************************************************************)
(* Proofs about the device write queue, for any packets, flows, queues,    *)
(* hash and bounds.                                                        *)
(***************************************************************************)
EXTENDS TunQueueWriter, FiniteSetTheorems, SequenceTheorems, TLAPS

----------------------------------------------------------------------------
(* Sequences and their elements. *)

\* A sequence without repetitions.
Distinct(s) == \A i, j \in DOMAIN s : s[i] = s[j] => i = j

(* push_back adds one element. *)
LEMMA ElemsAppend ==
  ASSUME NEW S, NEW s \in Seq(S), NEW x \in S
  PROVE  /\ Append(s, x) \in Seq(S)
         /\ Append(s, x) # <<>>
         /\ Elems(Append(s, x)) = Elems(s) \cup {x}
         /\ Distinct(s) /\ x \notin Elems(s) => Distinct(Append(s, x))
<1> DEFINE t == Append(s, x)
<1>1. /\ t \in Seq(S)
      /\ DOMAIN s = 1..Len(s)
      /\ DOMAIN t = 1..(Len(s) + 1)
      /\ Len(s) \in Nat
      /\ \A i \in 1..Len(s) : t[i] = s[i]
      /\ t[Len(s) + 1] = x
  OBVIOUS
<1>2. t # <<>>
  <2>1. Len(t) = Len(s) + 1 /\ Len(<<>>) = 0
    OBVIOUS
  <2> QED BY <1>1, <2>1
<1>3. Elems(t) = Elems(s) \cup {x}
  <2>1. ASSUME NEW e \in Elems(t) PROVE e \in Elems(s) \cup {x}
    BY <1>1 DEF Elems
  <2>2. ASSUME NEW e \in Elems(s) PROVE e \in Elems(t)
    <3>1. PICK i \in 1..Len(s) : e = s[i]
      BY <1>1 DEF Elems
    <3>2. i \in DOMAIN t /\ t[i] = e
      BY <1>1, <3>1
    <3> QED BY <3>2 DEF Elems
  <2>3. x \in Elems(t)
    <3>1. Len(s) + 1 \in DOMAIN t
      BY <1>1
    <3> QED BY <1>1, <3>1 DEF Elems
  <2> QED BY <2>1, <2>2, <2>3
<1>4. ASSUME Distinct(s), x \notin Elems(s) PROVE Distinct(t)
  BY <1>1, <1>4 DEF Distinct, Elems
<1> QED BY <1>1, <1>2, <1>3, <1>4

(* pop_front takes the first element out. *)
LEMMA ElemsTail ==
  ASSUME NEW S, NEW s \in Seq(S), s # <<>>
  PROVE  /\ Head(s) \in S
         /\ Tail(s) \in Seq(S)
         /\ Elems(s) = Elems(Tail(s)) \cup {Head(s)}
         /\ Distinct(s) => Distinct(Tail(s)) /\ Head(s) \notin Elems(Tail(s))
<1> DEFINE t == Tail(s)
<1>1. /\ t \in Seq(S)
      /\ Len(s) \in Nat \ {0}
      /\ DOMAIN s = 1..Len(s)
      /\ DOMAIN t = 1..(Len(s) - 1)
      /\ \A i \in 1..(Len(s) - 1) : t[i] = s[i + 1]
      /\ Head(s) = s[1]
      /\ Head(s) \in S
  OBVIOUS
<1>2. Elems(s) = Elems(t) \cup {Head(s)}
  <2>1. ASSUME NEW e \in Elems(s) PROVE e \in Elems(t) \cup {Head(s)}
    <3>1. PICK i \in 1..Len(s) : e = s[i]
      BY <1>1 DEF Elems
    <3>2. CASE i = 1
      BY <1>1, <3>1, <3>2
    <3>3. CASE i # 1
      <4>1. i - 1 \in DOMAIN t /\ t[i - 1] = e
        BY <1>1, <3>1, <3>3
      <4> QED BY <4>1 DEF Elems
    <3> QED BY <3>2, <3>3
  <2>2. ASSUME NEW e \in Elems(t) PROVE e \in Elems(s)
    <3>1. PICK i \in 1..(Len(s) - 1) : e = s[i + 1]
      BY <1>1 DEF Elems
    <3>2. i + 1 \in DOMAIN s
      BY <1>1
    <3> QED BY <3>1, <3>2 DEF Elems
  <2>3. Head(s) \in Elems(s)
    <3>1. 1 \in DOMAIN s
      BY <1>1
    <3> QED BY <1>1, <3>1 DEF Elems
  <2> QED BY <2>1, <2>2, <2>3
<1>3. ASSUME Distinct(s) PROVE Distinct(t) /\ Head(s) \notin Elems(t)
  <2>1. ASSUME NEW i \in DOMAIN t, NEW j \in DOMAIN t, t[i] = t[j] PROVE i = j
    <3>1. i + 1 \in DOMAIN s /\ j + 1 \in DOMAIN s /\ s[i + 1] = s[j + 1]
      BY <1>1, <2>1
    <3>2. i + 1 = j + 1
      BY <1>3, <3>1 DEF Distinct
    <3> QED BY <1>1, <3>2
  <2>2. ASSUME NEW i \in DOMAIN t, t[i] = Head(s) PROVE FALSE
    <3>1. i + 1 \in DOMAIN s /\ 1 \in DOMAIN s /\ s[i + 1] = s[1]
      BY <1>1, <2>2
    <3>2. i + 1 = 1
      BY <1>3, <3>1 DEF Distinct
    <3> QED BY <1>1, <3>2
  <2> QED BY <2>1, <2>2 DEF Distinct, Elems
<1> QED BY <1>1, <1>2, <1>3

(* An empty sequence has no elements, and only an empty one has none. *)
LEMMA ElemsEmpty ==
  ASSUME NEW S, NEW s \in Seq(S)
  PROVE  /\ Elems(s) \subseteq S
         /\ s = <<>> <=> Elems(s) = {}
         /\ s = <<>> => Distinct(s)
<1>1. DOMAIN s = 1..Len(s) /\ Len(s) \in Nat /\ (\A i \in 1..Len(s) : s[i] \in S)
  OBVIOUS
<1>2. Elems(s) \subseteq S
  BY <1>1 DEF Elems
<1>3. ASSUME s # <<>> PROVE Elems(s) # {}
  <2>1. 1 \in DOMAIN s
    BY <1>1, <1>3
  <2> QED BY <2>1 DEF Elems
<1>4. ASSUME s = <<>> PROVE Elems(s) = {} /\ Distinct(s)
  <2>1. DOMAIN s = {}
    BY <1>4, <1>1
  <2> QED BY <2>1 DEF Elems, Distinct
<1> QED BY <1>2, <1>3, <1>4

(* The empty sequence. *)
LEMMA EmptySequence ==
  /\ \A S : <<>> \in Seq(S)
  /\ Len(<<>>) = 0
  /\ Elems(<<>>) = {}
  /\ Distinct(<<>>)
<1>1. (\A S : <<>> \in Seq(S)) /\ Len(<<>>) = 0
  OBVIOUS
<1>2. <<>> \in Seq({})
  BY <1>1
<1>3. Elems(<<>>) = {} /\ Distinct(<<>>)
  BY <1>2, ElemsEmpty
<1> QED BY <1>1, <1>3

----------------------------------------------------------------------------
(* The inductive invariant. *)

\* Types of what the chains are made of.
ChainTypes ==
  /\ queue \in [Queues -> Seq(Packets)]
  /\ current \in [Queues -> Packets \cup {NoPacket}]
  /\ retries_left \in [Queues -> 0..RetryLimit]
  /\ queued_total \in 0..QueueMax
  /\ cancelled \in BOOLEAN
  /\ submitted \in Seq(Packets)

\* A packet is in one place at most, in the chain of its own queue, and was
\* submitted.
OnePlace ==
  \A q \in Queues :
    /\ Distinct(queue[q])
    /\ current[q] \notin Elems(queue[q])
    /\ \A p \in Elems(queue[q]) : pick_tx_queue(p) = q /\ p \in Elems(submitted)
    /\ current[q] # NoPacket =>
         pick_tx_queue(current[q]) = q /\ current[q] \in Elems(submitted)

\* queued_total_ counts the packets that wait.
Counted == queued_total = Cardinality(Queued)

ChainInv == ChainTypes /\ OnePlace /\ ChainsBusy /\ Counted

(* Membership in the packets that wait and in those being written. *)
LEMMA Membership ==
  ASSUME NEW e
  PROVE  /\ e \in Queued <=> \E q \in Queues : e \in Elems(queue[q])
         /\ e \in InFlight <=> e # NoPacket /\ \E q \in Queues : e = current[q]
         /\ e \in Queued' <=> \E q \in Queues : e \in Elems(queue'[q])
         /\ e \in InFlight' <=> e # NoPacket /\ \E q \in Queues : e = current'[q]
BY DEF Queued, InFlight, Elems

(* Both are finite sets of packets. *)
LEMMA FiniteHeld ==
  ASSUME ChainTypes
  PROVE  /\ Queued \subseteq Packets /\ IsFiniteSet(Queued)
         /\ InFlight \subseteq Packets /\ IsFiniteSet(InFlight)
         /\ Cardinality(Queued) \in Nat /\ Cardinality(InFlight) \in Nat
<1>1. Queued \subseteq Packets
  <2>1. ASSUME NEW q \in Queues PROVE Elems(queue[q]) \subseteq Packets
    BY ElemsEmpty DEF ChainTypes
  <2> QED BY <2>1, Membership
<1>2. InFlight \subseteq Packets
  BY Membership DEF ChainTypes
<1>3. IsFiniteSet(Queued) /\ IsFiniteSet(InFlight)
  BY <1>1, <1>2, FS_Subset, PacketsAssumption
<1> QED BY <1>1, <1>2, <1>3, FS_CardinalityType

(* The queue of a packet is a queue of the device. *)
LEMMA QueueOfPacket ==
  ASSUME NEW p \in Packets
  PROVE  pick_tx_queue(p) \in Queues
BY PacketsAssumption, QueuesAssumption DEF pick_tx_queue

----------------------------------------------------------------------------
(* What the steps do to the chains. *)

(* A packet that is taken in ends up in its chain, at the device if the chain *)
(* was idle and in the queue otherwise.                                       *)
LEMMA EnqueueStep ==
  ASSUME ChainInv, NEW p \in Packets, p \notin Elems(submitted),
         submitted' = Append(submitted, p), cancelled' = cancelled,
         ~Refusing, Enqueue(p)
  PROVE  /\ ChainInv'
         /\ queued_total' + Cardinality(InFlight') = queued_total + Cardinality(InFlight) + 1
         /\ Queued' \cup InFlight' = Queued \cup InFlight \cup {p}
<1> DEFINE q == pick_tx_queue(p)
           qs == Append(queue[q], p)
<1> USE DEF ChainInv
<1>0. q \in Queues /\ p # NoPacket
  BY QueueOfPacket, PacketsAssumption
<1>1. /\ submitted' \in Seq(Packets)
      /\ Elems(submitted') = Elems(submitted) \cup {p}
  BY ElemsAppend DEF ChainTypes
<1>2. /\ qs \in Seq(Packets) /\ qs # <<>>
      /\ Elems(qs) = Elems(queue[q]) \cup {p}
      /\ Distinct(queue[q]) /\ p \notin Elems(queue[q]) => Distinct(qs)
  BY <1>0, ElemsAppend DEF ChainTypes
<1>3. p \notin Queued /\ p \notin InFlight /\ (\A r \in Queues : p \notin Elems(queue[r]))
  BY <1>0, Membership DEF OnePlace
<1>4. /\ ~cancelled
      /\ queued_total \in Nat /\ QueueMax \in Nat
      /\ queued_total + 1 \in 0..QueueMax
  BY BoundsAssumption DEF Refusing, ChainTypes
<1>5. pump(q, qs, current[q], queued_total + 1)
  BY DEF Enqueue
<1>6. CASE current[q] = NoPacket
  <2>1. queue[q] = <<>>
    BY <1>0, <1>6 DEF ChainsBusy
  <2>2. Head(qs) = p /\ Tail(qs) = <<>>
    BY <2>1, <1>2
  <2>3. /\ queue' = [queue EXCEPT ![q] = Tail(qs)]
        /\ current' = [current EXCEPT ![q] = Head(qs)]
        /\ queued_total' = queued_total + 1 - 1
        /\ retries_left' = [retries_left EXCEPT ![q] = RetryLimit]
    BY <1>2, <1>4, <1>5, <1>6 DEF pump, Pumpable
  <2>4. queue' = queue /\ current' = [current EXCEPT ![q] = p] /\ queued_total' = queued_total
    BY <1>0, <1>4, <2>1, <2>2, <2>3 DEF ChainTypes
  <2>5. ChainTypes'
    <3>1. RetryLimit \in 0..RetryLimit
      BY BoundsAssumption
    <3>2. retries_left' \in [Queues -> 0..RetryLimit]
      BY <1>0, <2>3, <3>1 DEF ChainTypes
    <3>3. current' \in [Queues -> Packets \cup {NoPacket}]
      BY <1>0, <2>4 DEF ChainTypes
    <3> QED BY <1>1, <2>4, <3>2, <3>3 DEF ChainTypes
  <2>6. OnePlace'
    <3> SUFFICES ASSUME NEW r \in Queues
                 PROVE  /\ Distinct(queue'[r])
                        /\ current'[r] \notin Elems(queue'[r])
                        /\ \A x \in Elems(queue'[r]) :
                             pick_tx_queue(x) = r /\ x \in Elems(submitted')
                        /\ current'[r] # NoPacket =>
                             pick_tx_queue(current'[r]) = r /\ current'[r] \in Elems(submitted')
      BY DEF OnePlace, pick_tx_queue, Distinct, Elems
    <3>1. CASE r = q
      <4>1. current'[r] = p
        BY <1>0, <2>4, <3>1 DEF ChainTypes
      <4> QED BY <1>1, <1>3, <2>4, <3>1, <4>1 DEF OnePlace
    <3>2. CASE r # q
      <4>1. current'[r] = current[r]
        BY <1>0, <2>4, <3>2 DEF ChainTypes
      <4> QED BY <1>1, <2>4, <4>1 DEF OnePlace
    <3> QED BY <3>1, <3>2
  <2>7. ChainsBusy'
    BY <1>0, <2>1, <2>4 DEF ChainsBusy, ChainTypes
  <2>8. Queued' = Queued
    BY <2>4 DEF Queued, Elems
  <2>9. InFlight' = InFlight \cup {p}
    <3>1. ASSUME NEW e PROVE e \in InFlight' <=> e \in InFlight \/ e = p
      <4>1. current'[q] = p /\ (\A r \in Queues \ {q} : current'[r] = current[r])
        BY <1>0, <2>4 DEF ChainTypes
      <4> QED BY <1>0, <1>6, <4>1, Membership
    <3> QED BY <3>1
  <2>10. Cardinality(InFlight') = Cardinality(InFlight) + 1
    BY <1>3, <2>9, FiniteHeld, FS_AddElement
  <2> QED BY <1>4, <2>4, <2>5, <2>6, <2>7, <2>8, <2>9, <2>10, FiniteHeld DEF Counted
<1>7. CASE current[q] # NoPacket
  <2>1. /\ queue' = [queue EXCEPT ![q] = qs]
        /\ current' = [current EXCEPT ![q] = current[q]]
        /\ queued_total' = queued_total + 1
        /\ retries_left' = retries_left
    BY <1>5, <1>7 DEF pump, Pumpable
  <2>2. current' = current
    BY <1>0, <2>1 DEF ChainTypes
  <2>3. /\ queue'[q] = qs
        /\ \A r \in Queues \ {q} : queue'[r] = queue[r]
    BY <1>0, <2>1 DEF ChainTypes
  <2>4. ChainTypes'
    BY <1>0, <1>1, <1>2, <1>4, <2>1, <2>2 DEF ChainTypes
  <2>5. OnePlace'
    <3> SUFFICES ASSUME NEW r \in Queues
                 PROVE  /\ Distinct(queue'[r])
                        /\ current'[r] \notin Elems(queue'[r])
                        /\ \A x \in Elems(queue'[r]) :
                             pick_tx_queue(x) = r /\ x \in Elems(submitted')
                        /\ current'[r] # NoPacket =>
                             pick_tx_queue(current'[r]) = r /\ current'[r] \in Elems(submitted')
      BY DEF OnePlace, pick_tx_queue, Distinct, Elems
    <3>0. current[r] # p
      BY <1>0, <1>3, Membership
    <3>1. CASE r = q
      BY <1>1, <1>2, <1>3, <2>2, <2>3, <3>0, <3>1 DEF OnePlace
    <3>2. CASE r # q
      BY <1>1, <2>2, <2>3, <3>2 DEF OnePlace
    <3> QED BY <3>1, <3>2
  <2>6. ChainsBusy'
    BY <1>0, <1>4, <1>7, <2>2, <2>3 DEF ChainsBusy
  <2>7. InFlight' = InFlight
    BY <2>2 DEF InFlight
  <2>8. Queued' = Queued \cup {p}
    <3>1. ASSUME NEW e \in Queued' PROVE e \in Queued \cup {p}
      <4>1. PICK r \in Queues : e \in Elems(queue'[r])
        BY Membership
      <4>2. CASE r = q
        <5>1. e \in Elems(queue[q]) \cup {p}
          BY <1>2, <2>3, <4>1, <4>2
        <5> QED BY <1>0, <5>1, Membership
      <4>3. CASE r # q
        BY <2>3, <4>1, <4>3, Membership
      <4> QED BY <4>2, <4>3
    <3>2. ASSUME NEW e \in Queued PROVE e \in Queued'
      <4>1. PICK r \in Queues : e \in Elems(queue[r])
        BY Membership
      <4>2. e \in Elems(queue'[r])
        BY <1>2, <2>3, <4>1
      <4> QED BY <4>2, Membership
    <3>3. p \in Queued'
      BY <1>0, <1>2, <2>3, Membership
    <3> QED BY <3>1, <3>2, <3>3
  <2>9. Cardinality(Queued') = Cardinality(Queued) + 1
    BY <1>3, <2>8, FiniteHeld, FS_AddElement
  <2> QED BY <1>4, <2>1, <2>4, <2>5, <2>6, <2>7, <2>8, <2>9, FiniteHeld DEF Counted
<1> QED BY <1>6, <1>7

(* When the device is done with a packet, the next one of its chain follows. *)
LEMMA FinishStep ==
  ASSUME ChainInv, NEW q \in Queues, current[q] # NoPacket,
         submitted' = submitted, cancelled' = cancelled,
         pump(q, queue[q], NoPacket, queued_total)
  PROVE  /\ ChainInv'
         /\ queued_total' + Cardinality(InFlight') + 1 = queued_total + Cardinality(InFlight)
         /\ Queued' \cup InFlight' = (Queued \cup InFlight) \ {current[q]}
<1> DEFINE c == current[q]
<1> USE DEF ChainInv
<1>1. /\ c \in Packets /\ c \in InFlight /\ c \notin Queued
      /\ \A r \in Queues \ {q} : current[r] # c
      /\ \A r \in Queues : c \notin Elems(queue[r])
  BY Membership DEF OnePlace, ChainTypes
<1>2. queue[q] \in Seq(Packets) /\ queued_total \in Nat /\ QueueMax \in Nat
  BY BoundsAssumption DEF ChainTypes
<1>3. CASE Pumpable(NoPacket, queue[q])
  <2> DEFINE h == Head(queue[q])
  <2>1. /\ queue' = [queue EXCEPT ![q] = Tail(queue[q])]
        /\ current' = [current EXCEPT ![q] = h]
        /\ queued_total' = queued_total - 1
        /\ retries_left' = [retries_left EXCEPT ![q] = RetryLimit]
    BY <1>3 DEF pump
  <2>2. ~cancelled /\ queue[q] # <<>>
    BY <1>3 DEF Pumpable
  <2>3. /\ h \in Packets /\ h # NoPacket
        /\ Tail(queue[q]) \in Seq(Packets)
        /\ Elems(queue[q]) = Elems(Tail(queue[q])) \cup {h}
        /\ Distinct(Tail(queue[q])) /\ h \notin Elems(Tail(queue[q]))
    BY <1>2, <2>2, ElemsTail, PacketsAssumption DEF OnePlace
  <2>4. /\ queue'[q] = Tail(queue[q])
        /\ current'[q] = h
        /\ \A r \in Queues \ {q} : queue'[r] = queue[r] /\ current'[r] = current[r]
    BY <2>1 DEF ChainTypes
  <2>5. /\ h \in Queued /\ h # c /\ h \notin InFlight
        /\ pick_tx_queue(h) = q /\ h \in Elems(submitted)
        /\ \A r \in Queues \ {q} : h \notin Elems(queue[r])
    <3>1. h \in Elems(queue[q])
      BY <2>3
    <3>2. h \in Queued /\ pick_tx_queue(h) = q /\ h \in Elems(submitted) /\ h # c
      BY <1>1, <3>1, Membership DEF OnePlace
    <3>3. h \notin InFlight
      BY <2>3, <3>2, Membership DEF OnePlace
    <3>4. \A r \in Queues \ {q} : h \notin Elems(queue[r])
      BY <3>2 DEF OnePlace
    <3> QED BY <3>2, <3>3, <3>4
  <2>6. Queued' = Queued \ {h}
    <3>1. ASSUME NEW e \in Queued' PROVE e \in Queued \ {h}
      <4>1. PICK r \in Queues : e \in Elems(queue'[r])
        BY Membership
      <4>2. CASE r = q
        <5>1. e \in Elems(queue[q]) /\ e # h
          BY <2>3, <2>4, <4>1, <4>2
        <5> QED BY <5>1, Membership
      <4>3. CASE r # q
        <5>1. e \in Elems(queue[r]) /\ e # h
          BY <2>4, <2>5, <4>1, <4>3
        <5> QED BY <5>1, Membership
      <4> QED BY <4>2, <4>3
    <3>2. ASSUME NEW e \in Queued, e # h PROVE e \in Queued'
      <4>1. PICK r \in Queues : e \in Elems(queue[r])
        BY Membership
      <4>2. e \in Elems(queue'[r])
        BY <2>3, <2>4, <3>2, <4>1
      <4> QED BY <4>2, Membership
    <3> QED BY <3>1, <3>2
  <2>7. InFlight' = (InFlight \ {c}) \cup {h}
    <3>1. ASSUME NEW e PROVE e \in InFlight' <=> (e \in InFlight /\ e # c) \/ e = h
      BY <1>1, <2>3, <2>4, Membership
    <3> QED BY <3>1
  <2>8. /\ Cardinality(Queued') = Cardinality(Queued) - 1
        /\ Cardinality(InFlight') = Cardinality(InFlight)
        /\ Cardinality(Queued) \in Nat \ {0} /\ Cardinality(InFlight) \in Nat
    <3>1. Cardinality(Queued') = Cardinality(Queued) - 1
      BY <2>5, <2>6, FiniteHeld, FS_RemoveElement
    <3>2. /\ IsFiniteSet(InFlight \ {c})
          /\ Cardinality(InFlight \ {c}) = Cardinality(InFlight) - 1
      BY <1>1, FiniteHeld, FS_RemoveElement
    <3>3. Cardinality(InFlight') = Cardinality(InFlight \ {c}) + 1
      BY <2>5, <2>7, <3>2, FS_AddElement
    <3>4. Cardinality(Queued) # 0
      BY <2>5, FiniteHeld, FS_EmptySet
    <3> QED BY <3>1, <3>2, <3>3, <3>4, FiniteHeld
  <2>9. ChainTypes'
    <3>1. RetryLimit \in 0..RetryLimit
      BY BoundsAssumption
    <3>2. retries_left' \in [Queues -> 0..RetryLimit]
      BY <2>1, <3>1 DEF ChainTypes
    <3>3. queued_total' \in 0..QueueMax
      BY <1>2, <2>1, <2>8 DEF ChainTypes, Counted
    <3> QED BY <2>1, <2>3, <3>2, <3>3 DEF ChainTypes
  <2>10. OnePlace'
    <3> SUFFICES ASSUME NEW r \in Queues
                 PROVE  /\ Distinct(queue'[r])
                        /\ current'[r] \notin Elems(queue'[r])
                        /\ \A x \in Elems(queue'[r]) :
                             pick_tx_queue(x) = r /\ x \in Elems(submitted')
                        /\ current'[r] # NoPacket =>
                             pick_tx_queue(current'[r]) = r /\ current'[r] \in Elems(submitted')
      BY DEF OnePlace, pick_tx_queue, Distinct, Elems
    <3>1. CASE r = q
      BY <2>3, <2>4, <2>5, <3>1 DEF OnePlace
    <3>2. CASE r # q
      BY <2>4, <3>2 DEF OnePlace
    <3> QED BY <3>1, <3>2
  <2>11. ChainsBusy'
    BY <2>2, <2>3, <2>4 DEF ChainsBusy
  <2>12. Queued' \cup InFlight' = (Queued \cup InFlight) \ {c}
    BY <1>1, <2>5, <2>6, <2>7
  <2>13. Counted'
    BY <2>1, <2>8 DEF Counted
  <2>14. queued_total' + Cardinality(InFlight') + 1 = queued_total + Cardinality(InFlight)
    BY <1>2, <2>1, <2>8
  <2> QED BY <2>9, <2>10, <2>11, <2>12, <2>13, <2>14
<1>4. CASE ~Pumpable(NoPacket, queue[q])
  <2>1. /\ queue' = [queue EXCEPT ![q] = queue[q]]
        /\ current' = [current EXCEPT ![q] = NoPacket]
        /\ queued_total' = queued_total
        /\ retries_left' = retries_left
    BY <1>4 DEF pump
  <2>2. queue[q] = <<>>
    BY <1>4 DEF Pumpable, ChainsBusy
  <2>3. queue' = queue
    BY <2>1 DEF ChainTypes
  <2>4. /\ current'[q] = NoPacket
        /\ \A r \in Queues \ {q} : current'[r] = current[r]
    BY <2>1 DEF ChainTypes
  <2>5. ChainTypes'
    BY <2>1, <2>3 DEF ChainTypes
  <2>6. OnePlace'
    <3> SUFFICES ASSUME NEW r \in Queues
                 PROVE  /\ Distinct(queue'[r])
                        /\ current'[r] \notin Elems(queue'[r])
                        /\ \A x \in Elems(queue'[r]) :
                             pick_tx_queue(x) = r /\ x \in Elems(submitted')
                        /\ current'[r] # NoPacket =>
                             pick_tx_queue(current'[r]) = r /\ current'[r] \in Elems(submitted')
      BY DEF OnePlace, pick_tx_queue, Distinct, Elems
    <3>1. CASE r = q
      <4>1. Elems(queue[q]) = {}
        BY <1>2, <2>2, ElemsEmpty
      <4> QED BY <2>3, <2>4, <3>1, <4>1 DEF OnePlace
    <3>2. CASE r # q
      BY <2>3, <2>4, <3>2 DEF OnePlace
    <3> QED BY <3>1, <3>2
  <2>7. ChainsBusy'
    BY <2>2, <2>3, <2>4 DEF ChainsBusy
  <2>8. Queued' = Queued
    BY <2>3 DEF Queued, Elems
  <2>9. InFlight' = InFlight \ {c}
    <3>1. ASSUME NEW e PROVE e \in InFlight' <=> e \in InFlight /\ e # c
      BY <1>1, <2>4, Membership
    <3> QED BY <3>1
  <2>10. Cardinality(InFlight') = Cardinality(InFlight) - 1
    BY <1>1, <2>9, FiniteHeld, FS_RemoveElement
  <2>11. queued_total' + Cardinality(InFlight') + 1 = queued_total + Cardinality(InFlight)
    BY <1>2, <2>1, <2>10, FiniteHeld
  <2> QED BY <1>1, <2>1, <2>5, <2>6, <2>7, <2>8, <2>9, <2>11 DEF Counted
<1> QED BY <1>3, <1>4

(* A step that leaves the chains alone: a refused packet or a retry. *)
LEMMA IdleStep ==
  ASSUME ChainInv, queue' = queue, current' = current, queued_total' = queued_total,
         cancelled' = cancelled, retries_left' \in [Queues -> 0..RetryLimit],
         submitted' \in Seq(Packets), Elems(submitted) \subseteq Elems(submitted')
  PROVE  ChainInv' /\ Queued' = Queued /\ InFlight' = InFlight
<1> USE DEF ChainInv
<1>1. Queued' = Queued /\ InFlight' = InFlight
  BY DEF Queued, InFlight, Elems
<1>2. ChainTypes' /\ ChainsBusy' /\ Counted'
  BY <1>1 DEF ChainTypes, ChainsBusy, Counted
<1>3. OnePlace'
  <2> SUFFICES ASSUME NEW r \in Queues
               PROVE  /\ Distinct(queue[r])
                      /\ current[r] \notin Elems(queue[r])
                      /\ \A x \in Elems(queue[r]) :
                           pick_tx_queue(x) = r /\ x \in Elems(submitted')
                      /\ current[r] # NoPacket =>
                           pick_tx_queue(current[r]) = r /\ current[r] \in Elems(submitted')
    BY DEF OnePlace, pick_tx_queue, Distinct, Elems
  <2> QED BY DEF OnePlace
<1> QED BY <1>1, <1>2, <1>3

(* cancel_all empties the queues and leaves the device its packets. *)
LEMMA CancelStep ==
  ASSUME ChainInv, cancel_all
  PROVE  /\ ChainInv'
         /\ Queued' = {} /\ InFlight' = InFlight
         /\ queued_total' = 0
         /\ tx_dropped' = tx_dropped + queued_total
<1> USE DEF ChainInv
<1>1. /\ queue' = [q \in Queues |-> <<>>] /\ current' = current
      /\ retries_left' = retries_left /\ submitted' = submitted /\ cancelled' = TRUE
      /\ queued_total' = queued_total - Cardinality(Queued)
      /\ tx_dropped' = tx_dropped + Cardinality(Queued)
  BY DEF cancel_all
<1>2. <<>> \in Seq(Packets) /\ Elems(<<>>) = {} /\ Distinct(<<>>)
  BY EmptySequence
<1>3. \A q \in Queues : queue'[q] = <<>>
  BY <1>1
<1>4. Queued' = {}
  BY <1>2, <1>3, Membership
<1>5. InFlight' = InFlight
  BY <1>1 DEF InFlight
<1>6. queued_total' = 0
  BY <1>1, FiniteHeld DEF Counted
<1>7. ChainTypes'
  BY <1>1, <1>2, <1>6, BoundsAssumption DEF ChainTypes
<1>8. OnePlace'
  <2> SUFFICES ASSUME NEW r \in Queues
               PROVE  /\ Distinct(queue'[r])
                      /\ current'[r] \notin Elems(queue'[r])
                      /\ \A x \in Elems(queue'[r]) :
                           pick_tx_queue(x) = r /\ x \in Elems(submitted')
                      /\ current'[r] # NoPacket =>
                           pick_tx_queue(current'[r]) = r /\ current'[r] \in Elems(submitted')
    BY DEF OnePlace, pick_tx_queue, Distinct, Elems
  <2> QED BY <1>1, <1>2, <1>3 DEF OnePlace
<1>9. ChainsBusy'
  BY <1>3 DEF ChainsBusy
<1>10. Counted'
  BY <1>4, <1>6, FS_EmptySet DEF Counted
<1> QED BY <1>1, <1>4, <1>5, <1>6, <1>7, <1>8, <1>9, <1>10 DEF Counted

----------------------------------------------------------------------------
(* The books: TypeOK, Accounting and ChainsBusy hold for ever. *)

\* Types of the counters and histories.
BookTypes ==
  /\ tx_packets \in Nat
  /\ tx_dropped \in Nat
  /\ awaited \subseteq Packets
  /\ wire \in Seq(Packets)
  /\ completions \in [Packets -> Seq(Codes)]

\* What was handed over is written, dropped, waiting or being written.
Balanced == Len(submitted) = tx_packets + tx_dropped + queued_total + Cardinality(InFlight)

BooksInv == ChainInv /\ BookTypes /\ Balanced

(* The invariant holds of a writer that was just built. *)
LEMMA BooksInit ==
  ASSUME Init
  PROVE  BooksInv
<1> USE DEF Init
<1>1. /\ <<>> \in Seq(Packets) /\ <<>> \in Seq(Codes)
      /\ Elems(<<>>) = {} /\ Distinct(<<>>) /\ Len(<<>>) = 0
  BY EmptySequence
<1>2. Queued = {} /\ InFlight = {}
  BY <1>1, Membership
<1>3. ChainTypes /\ BookTypes
  <2>1. 0 \in 0..QueueMax /\ 0 \in 0..RetryLimit /\ 0 \in Nat
    BY BoundsAssumption
  <2>2. ChainTypes
    BY <1>1, <2>1 DEF ChainTypes
  <2>3. completions \in [Packets -> Seq(Codes)]
    BY <1>1
  <2> QED BY <1>1, <2>1, <2>2, <2>3 DEF BookTypes
<1>4. OnePlace
  BY <1>1 DEF OnePlace
<1>5. ChainsBusy
  BY DEF ChainsBusy
<1>6. Counted /\ Balanced
  BY <1>1, <1>2, FS_EmptySet DEF Counted, Balanced
<1> QED BY <1>3, <1>4, <1>5, <1>6 DEF BooksInv, ChainInv

(* Posting a handler keeps the types. *)
LEMMA CompleteTypes ==
  ASSUME NEW p \in Packets, NEW code \in Codes, BookTypes, complete_write(p, code)
  PROVE  completions' \in [Packets -> Seq(Codes)]
<1>1. Append(completions[p], code) \in Seq(Codes)
  BY DEF BookTypes
<1> QED BY <1>1 DEF complete_write, BookTypes

(* Handing a packet over lengthens submitted by one. *)
LEMMA SubmitStep ==
  ASSUME ChainTypes, NEW p \in Packets, Submit(p)
  PROVE  /\ submitted' \in Seq(Packets)
         /\ Elems(submitted') = Elems(submitted) \cup {p}
         /\ Len(submitted') = Len(submitted) + 1
         /\ submitted' = Append(submitted, p) /\ p \notin Elems(submitted)
         /\ cancelled' = cancelled /\ tx_packets' = tx_packets /\ wire' = wire
BY ElemsAppend DEF Submit, ChainTypes

(* async_write_and_forget and async_write keep the books. *)
LEMMA BooksWrite ==
  ASSUME BooksInv, NEW p \in Packets, async_write_and_forget(p) \/ async_write(p)
  PROVE  BooksInv'
<1> USE DEF BooksInv
<1>1. Submit(p)
  BY DEF async_write_and_forget, async_write
<1>2. ChainTypes
  BY DEF ChainInv
<1>3. awaited' \subseteq Packets
  BY DEF async_write_and_forget, async_write, BookTypes
<1>4. completions' \in [Packets -> Seq(Codes)]
  <2>1. CASE completions' = completions
    BY <2>1 DEF BookTypes
  <2>2. CASE complete_write(p, IF cancelled THEN "operation_aborted" ELSE "no_buffer_space")
    <3>1. (IF cancelled THEN "operation_aborted" ELSE "no_buffer_space") \in Codes
      BY DEF Codes
    <3> QED BY <2>2, <3>1, CompleteTypes
  <2> QED BY <2>1, <2>2 DEF async_write_and_forget, async_write
<1>5. \/ /\ tx_dropped' = tx_dropped + 1
         /\ UNCHANGED <<queue, current, retries_left, queued_total>>
      \/ /\ ~Refusing /\ Enqueue(p)
         /\ tx_dropped' = tx_dropped
  BY DEF async_write_and_forget, async_write
<1>6. BookTypes'
  BY <1>1, <1>2, <1>3, <1>4, <1>5, SubmitStep DEF BookTypes
<1>7. CASE /\ tx_dropped' = tx_dropped + 1
           /\ UNCHANGED <<queue, current, retries_left, queued_total>>
  <2>1. ChainInv' /\ InFlight' = InFlight
    BY <1>1, <1>2, <1>7, SubmitStep, IdleStep DEF ChainTypes
  <2>2. Balanced'
    <3>1. /\ Len(submitted') = Len(submitted) + 1 /\ tx_packets' = tx_packets
          /\ queued_total \in Nat /\ Cardinality(InFlight) \in Nat
      BY <1>1, <1>2, SubmitStep, FiniteHeld DEF ChainTypes
    <3>2. Len(submitted) = tx_packets + tx_dropped + queued_total + Cardinality(InFlight)
      BY DEF Balanced
    <3>3. tx_packets \in Nat /\ tx_dropped \in Nat
      BY DEF BookTypes
    <3>4. Len(submitted') = tx_packets' + tx_dropped' + queued_total' + Cardinality(InFlight)
      BY <1>7, <3>1, <3>2, <3>3
    <3> QED BY <2>1, <3>4 DEF Balanced
  <2> QED BY <1>6, <2>1, <2>2
<1>8. CASE ~Refusing /\ Enqueue(p) /\ tx_dropped' = tx_dropped
  <2>1. /\ ChainInv'
        /\ queued_total' + Cardinality(InFlight') = queued_total + Cardinality(InFlight) + 1
    BY <1>1, <1>2, <1>8, SubmitStep, EnqueueStep
  <2>2. /\ queued_total' \in Nat /\ queued_total \in Nat
        /\ Cardinality(InFlight') \in Nat /\ Cardinality(InFlight) \in Nat
    <3>1. ChainTypes'
      BY <2>1 DEF ChainInv
    <3>2. IsFiniteSet(InFlight')
      <4>1. InFlight' \subseteq Packets
        BY <3>1, Membership DEF ChainTypes
      <4> QED BY <4>1, FS_Subset, PacketsAssumption
    <3> QED BY <1>2, <3>1, <3>2, FiniteHeld, FS_CardinalityType DEF ChainTypes
  <2>3. Balanced'
    <3>1. Len(submitted') = Len(submitted) + 1 /\ tx_packets' = tx_packets
      BY <1>1, <1>2, SubmitStep
    <3>2. Len(submitted) = tx_packets + tx_dropped + queued_total + Cardinality(InFlight)
      BY DEF Balanced
    <3>3. tx_packets \in Nat /\ tx_dropped \in Nat
      BY DEF BookTypes
    <3>4. tx_dropped' = tx_dropped /\ tx_packets + tx_dropped \in Nat /\ Len(submitted) \in Nat
      BY <1>2, <1>8, <3>3 DEF ChainTypes
    <3>5. PICK n \in Nat, m \in Nat : n = queued_total' /\ m = Cardinality(InFlight')
      BY <2>2
    <3>6. n + m = queued_total + Cardinality(InFlight) + 1
      BY <2>1, <3>5
    <3>7. Len(submitted) + 1 = tx_packets + tx_dropped + n + m
      BY <2>2, <3>2, <3>3, <3>6
    <3> QED BY <3>1, <3>4, <3>5, <3>7 DEF Balanced
  <2> QED BY <1>6, <2>1, <2>3
<1> QED BY <1>5, <1>7, <1>8

(* on_write_done keeps the books. *)
LEMMA BooksDone ==
  ASSUME BooksInv, NEW q \in Queues, NEW result \in WriteResults, on_write_done(q, result)
  PROVE  BooksInv'
<1> USE DEF BooksInv
<1>1. /\ ChainTypes
      /\ current[q] # NoPacket
      /\ current[q] \in Packets
      /\ UNCHANGED <<cancelled, submitted, awaited>>
  BY DEF on_write_done, ChainInv, ChainTypes
<1>2. CASE RetryWrite(q, result)
  <2>1. retries_left' \in [Queues -> 0..RetryLimit]
    <3>1. retries_left[q] - 1 \in 0..RetryLimit
      BY <1>1, <1>2, BoundsAssumption DEF RetryWrite, ChainTypes
    <3> QED BY <1>1, <1>2, <3>1 DEF RetryWrite, ChainTypes
  <2>2. ChainInv' /\ InFlight' = InFlight
    BY <1>1, <1>2, <2>1, IdleStep DEF RetryWrite, ChainTypes
  <2>3. BookTypes' /\ Balanced'
    BY <1>1, <1>2, <2>2 DEF RetryWrite, BookTypes, Balanced
  <2> QED BY <2>2, <2>3
<1>3. CASE FinishWrite(q, result)
  <2>1. /\ ChainInv'
        /\ queued_total' + Cardinality(InFlight') + 1 = queued_total + Cardinality(InFlight)
    BY <1>1, <1>3, FinishStep DEF FinishWrite
  <2>2. /\ queued_total' \in Nat /\ queued_total \in Nat
        /\ Cardinality(InFlight') \in Nat /\ Cardinality(InFlight) \in Nat
    <3>1. ChainTypes'
      BY <2>1 DEF ChainInv
    <3>2. IsFiniteSet(InFlight')
      <4>1. InFlight' \subseteq Packets
        BY <3>1, Membership DEF ChainTypes
      <4> QED BY <4>1, FS_Subset, PacketsAssumption
    <3> QED BY <1>1, <3>1, <3>2, FiniteHeld, FS_CardinalityType DEF ChainTypes
  <2>3. /\ tx_packets' \in Nat /\ tx_dropped' \in Nat
        /\ tx_packets' + tx_dropped' = tx_packets + tx_dropped + 1
    BY <1>3 DEF FinishWrite, BookTypes
  <2>4. wire' \in Seq(Packets)
    <3>1. Append(wire, current[q]) \in Seq(Packets) /\ wire \in Seq(Packets)
      BY <1>1, ElemsAppend DEF BookTypes
    <3> QED BY <1>3, <3>1 DEF FinishWrite
  <2>5. completions' \in [Packets -> Seq(Codes)]
    <3>1. CASE completions' = completions
      BY <3>1 DEF BookTypes
    <3>2. CASE complete_write(current[q], WriteCode(result))
      <4>1. WriteCode(result) \in Codes
        BY DEF WriteCode, Codes, WriteResults
      <4> QED BY <1>1, <3>2, <4>1, CompleteTypes
    <3> QED BY <1>3, <3>1, <3>2 DEF FinishWrite
  <2>6. BookTypes'
    BY <1>1, <2>3, <2>4, <2>5 DEF BookTypes
  <2>7. Balanced'
    <3>1. Len(submitted) = tx_packets + tx_dropped + queued_total + Cardinality(InFlight)
      BY DEF Balanced
    <3>2. tx_packets \in Nat /\ tx_dropped \in Nat
      BY DEF BookTypes
    <3>3. PICK n \in Nat, m \in Nat, x \in Nat, y \in Nat :
            /\ n = queued_total' /\ m = Cardinality(InFlight')
            /\ x = tx_packets' /\ y = tx_dropped'
      BY <2>2, <2>3
    <3>4. n + m + 1 = queued_total + Cardinality(InFlight) /\ x + y = tx_packets + tx_dropped + 1
      BY <2>1, <2>3, <3>3
    <3>5. Len(submitted) = x + y + n + m
      BY <2>2, <3>1, <3>2, <3>4
    <3> QED BY <1>1, <3>3, <3>5 DEF Balanced
  <2> QED BY <2>1, <2>6, <2>7
<1> QED BY <1>2, <1>3 DEF on_write_done

(* cancel_all keeps the books. *)
LEMMA BooksCancel ==
  ASSUME BooksInv, cancel_all
  PROVE  BooksInv'
<1> USE DEF BooksInv
<1>1. /\ ChainInv' /\ InFlight' = InFlight /\ queued_total' = 0
      /\ tx_dropped' = tx_dropped + queued_total
  BY CancelStep
<1>2. completions' \in [Packets -> Seq(Codes)]
  <2>1. \A p \in Packets : Append(completions[p], "operation_aborted") \in Seq(Codes)
    BY DEF BookTypes, Codes
  <2> QED BY <2>1 DEF cancel_all, BookTypes
<1>3. queued_total \in Nat
  BY BoundsAssumption DEF ChainInv, ChainTypes
<1>4. BookTypes'
  BY <1>1, <1>2, <1>3 DEF BookTypes, cancel_all
<1>5. Balanced'
  <2>1. Cardinality(InFlight) \in Nat
    BY FiniteHeld DEF ChainInv
  <2> QED BY <1>1, <1>3, <2>1 DEF Balanced, BookTypes, cancel_all
<1> QED BY <1>1, <1>4, <1>5

(* The invariant behind the theorems below holds in every reachable state. *)
LEMMA BooksInvariant == Spec => []BooksInv
<1>1. Init => BooksInv
  BY BooksInit
<1>2. BooksInv /\ [Next]_vars => BooksInv'
  <2> SUFFICES ASSUME BooksInv, [Next]_vars PROVE BooksInv'
    OBVIOUS
  <2>1. ASSUME NEW p \in Packets, async_write_and_forget(p) \/ async_write(p) PROVE BooksInv'
    BY <2>1, BooksWrite
  <2>2. ASSUME NEW q \in Queues, NEW result \in WriteResults, on_write_done(q, result)
        PROVE BooksInv'
    BY <2>2, BooksDone
  <2>3. CASE cancel_all
    BY <2>3, BooksCancel
  <2>4. CASE UNCHANGED vars
    <3>1. UNCHANGED <<queue, current, retries_left, queued_total, cancelled, tx_packets,
                      tx_dropped, submitted, awaited, wire, completions>>
      BY <2>4 DEF vars
    <3>2. ChainInv' /\ InFlight' = InFlight
      BY <3>1, IdleStep DEF BooksInv, ChainInv, ChainTypes
    <3> QED BY <3>1, <3>2 DEF BooksInv, BookTypes, Balanced
  <2> QED BY <2>1, <2>2, <2>3, <2>4 DEF Next
<1> QED BY <1>1, <1>2, PTL DEF Spec

(* Type correctness of the writer; in particular the safety valve keeps       *)
(* queued_total_ within k_queue_max_entries and retries_left never drops      *)
(* below zero.                                                                *)
THEOREM TypeCorrect == Spec => []TypeOK
<1>1. BooksInv => TypeOK
  BY DEF BooksInv, ChainInv, ChainTypes, BookTypes, TypeOK
<1> QED BY <1>1, BooksInvariant, PTL

(* The books balance whatever is refused, retried, failed or cancelled: the   *)
(* packets handed to the writer are those written, dropped, waiting or being  *)
(* written, and queued_total_ is the number that wait.                        *)
THEOREM BooksBalance == Spec => []Accounting
<1>1. BooksInv => Accounting
  BY DEF BooksInv, ChainInv, Counted, Balanced, Accounting
<1> QED BY <1>1, BooksInvariant, PTL

(* No chain stalls: a packet waits only behind a write of its own queue, and  *)
(* none is left in a cancelled writer.                                        *)
THEOREM NoStall == Spec => []ChainsBusy
<1>1. BooksInv => ChainsBusy
  BY DEF BooksInv, ChainInv
<1> QED BY <1>1, BooksInvariant, PTL

----------------------------------------------------------------------------
(* Completion handlers. *)

\* The packets inside the writer.
Held == Queued \cup InFlight

HandlersInv == BooksInv /\ awaited \subseteq Elems(submitted) /\ HandlersOnce

(* Posting a handler appends its code to what the handler has received. *)
LEMMA CompleteEffect ==
  ASSUME NEW p \in Packets, NEW code \in Codes, BookTypes, complete_write(p, code)
  PROVE  /\ Len(completions'[p]) = Len(completions[p]) + 1
         /\ Elems(completions'[p]) = Elems(completions[p]) \cup {code}
         /\ \A r \in Packets \ {p} : completions'[r] = completions[r]
<1>1. completions'[p] = Append(completions[p], code) /\ completions[p] \in Seq(Codes)
  BY DEF complete_write, BookTypes
<1>2. Len(completions'[p]) = Len(completions[p]) + 1
  BY <1>1
<1>3. Elems(completions'[p]) = Elems(completions[p]) \cup {code}
  BY <1>1, ElemsAppend
<1>4. \A r \in Packets \ {p} : completions'[r] = completions[r]
  BY DEF complete_write, BookTypes
<1> QED BY <1>2, <1>3, <1>4

(* What the writer holds was submitted, and nothing waits while being written. *)
LEMMA HeldSubmitted ==
  ASSUME ChainInv
  PROVE  Held \subseteq Elems(submitted) /\ Queued \cap InFlight = {}
<1>1. ASSUME NEW e \in Held PROVE e \in Elems(submitted)
  BY <1>1, Membership DEF Held, ChainInv, OnePlace
<1>2. ASSUME NEW e \in Queued, e \in InFlight PROVE FALSE
  <2>1. PICK q \in Queues : e \in Elems(queue[q])
    BY Membership
  <2>2. PICK r \in Queues : e = current[r] /\ e # NoPacket
    BY <1>2, Membership
  <2>3. q = r
    BY <2>1, <2>2 DEF ChainInv, OnePlace
  <2> QED BY <2>1, <2>2, <2>3 DEF ChainInv, OnePlace
<1> QED BY <1>1, <1>2

(* Writes keep the handlers in order. *)
LEMMA HandlersWrite ==
  ASSUME HandlersInv, NEW p \in Packets, async_write_and_forget(p) \/ async_write(p)
  PROVE  HandlersInv'
<1>1. BooksInv /\ ChainInv /\ ChainTypes /\ BookTypes /\ Submit(p)
  BY DEF HandlersInv, BooksInv, ChainInv, async_write_and_forget, async_write
<1>2. BooksInv'
  BY <1>1, BooksWrite
<1>3. /\ Elems(submitted') = Elems(submitted) \cup {p}
      /\ p \notin Elems(submitted) /\ submitted' = Append(submitted, p)
      /\ cancelled' = cancelled /\ wire' = wire
      /\ submitted' \in Seq(Packets)
  BY <1>1, SubmitStep
<1>4. p \notin awaited /\ p \notin Held
  BY <1>1, <1>3, HeldSubmitted DEF HandlersInv
<1>5. \A r \in Packets :
        /\ Len(completions[r]) = IF r \in awaited \ Held THEN 1 ELSE 0
        /\ "success" \in Elems(completions[r]) => r \in Elems(wire)
  BY DEF HandlersInv, HandlersOnce, Held
<1>6. \/ /\ awaited' = awaited /\ completions' = completions
         /\ Held' = Held \/ Held' = Held \cup {p}
      \/ /\ awaited' = awaited \cup {p} /\ Held' = Held
         /\ complete_write(p, IF cancelled THEN "operation_aborted" ELSE "no_buffer_space")
      \/ awaited' = awaited \cup {p} /\ Held' = Held \cup {p} /\ completions' = completions
  <2>1. ASSUME UNCHANGED <<queue, current, retries_left, queued_total>> PROVE Held' = Held
    BY <1>1, <1>3, <2>1, IdleStep DEF Held, ChainTypes
  <2>2. ASSUME ~Refusing, Enqueue(p) PROVE Held' = Held \cup {p}
    BY <1>1, <1>3, <2>2, EnqueueStep DEF Held
  <2> QED BY <2>1, <2>2 DEF async_write_and_forget, async_write
<1>7. awaited' \subseteq Elems(submitted')
  BY <1>3, <1>6 DEF HandlersInv
<1>8. ASSUME NEW r \in Packets
      PROVE  /\ Len(completions'[r]) = IF r \in awaited' \ Held' THEN 1 ELSE 0
             /\ "success" \in Elems(completions'[r]) => r \in Elems(wire')
  <2>1. CASE completions' = completions
    <3>1. r \in awaited' \ Held' <=> r \in awaited \ Held
      <4>1. CASE awaited' = awaited /\ (Held' = Held \/ Held' = Held \cup {p})
        BY <1>4, <4>1
      <4>2. CASE awaited' = awaited \cup {p} /\ Held' = Held \cup {p}
        BY <1>4, <4>2
      <4>3. CASE complete_write(p, IF cancelled THEN "operation_aborted" ELSE "no_buffer_space")
        <5>1. (IF cancelled THEN "operation_aborted" ELSE "no_buffer_space") \in Codes
          BY DEF Codes
        <5>2. Len(completions'[p]) = Len(completions[p]) + 1
          BY <1>1, <4>3, <5>1, CompleteEffect
        <5>3. Len(completions[p]) = 0
          BY <1>4, <1>5
        <5> QED BY <2>1, <5>2, <5>3
      <4> QED BY <1>6, <4>1, <4>2, <4>3
    <3> QED BY <1>3, <1>5, <2>1, <3>1
  <2>2. CASE /\ awaited' = awaited \cup {p} /\ Held' = Held
             /\ complete_write(p, IF cancelled THEN "operation_aborted" ELSE "no_buffer_space")
    <3> DEFINE code == IF cancelled THEN "operation_aborted" ELSE "no_buffer_space"
    <3>1. code \in Codes /\ code # "success"
      BY DEF Codes
    <3>2. /\ Len(completions'[p]) = Len(completions[p]) + 1
          /\ Elems(completions'[p]) = Elems(completions[p]) \cup {code}
          /\ \A x \in Packets \ {p} : completions'[x] = completions[x]
      BY <1>1, <2>2, <3>1, CompleteEffect
    <3>3. Len(completions[p]) = 0
      BY <1>4, <1>5
    <3>4. CASE r = p
      <4>1. Len(completions'[r]) = 1 /\ r \in awaited' \ Held'
        BY <1>4, <2>2, <3>2, <3>3, <3>4
      <4>2. "success" \in Elems(completions'[r]) => r \in Elems(wire')
        BY <1>3, <1>5, <3>1, <3>2, <3>4
      <4> QED BY <4>1, <4>2
    <3>5. CASE r # p
      <4>1. completions'[r] = completions[r]
        BY <3>2, <3>5
      <4>2. r \in awaited' \ Held' <=> r \in awaited \ Held
        BY <2>2, <3>5
      <4> QED BY <1>3, <1>5, <4>1, <4>2
    <3> QED BY <3>4, <3>5
  <2> QED BY <1>6, <2>1, <2>2
<1>9. HandlersOnce'
  BY <1>8 DEF HandlersOnce, Held, Elems
<1> QED BY <1>2, <1>7, <1>9 DEF HandlersInv

(* The end of a device write posts at most the handler of its own packet. *)
LEMMA HandlersDone ==
  ASSUME HandlersInv, NEW q \in Queues, NEW result \in WriteResults, on_write_done(q, result)
  PROVE  HandlersInv'
<1> DEFINE c == current[q]
<1>1. /\ BooksInv /\ ChainInv /\ ChainTypes /\ BookTypes
      /\ c # NoPacket /\ c \in Packets
      /\ cancelled' = cancelled /\ submitted' = submitted /\ awaited' = awaited
  BY DEF HandlersInv, BooksInv, ChainInv, ChainTypes, on_write_done
<1>2. BooksInv'
  BY <1>1, BooksDone
<1>3. awaited' \subseteq Elems(submitted')
  BY <1>1 DEF HandlersInv
<1>4. c \in Held
  BY <1>1, Membership DEF Held
<1>5. \A r \in Packets :
        /\ Len(completions[r]) = IF r \in awaited \ Held THEN 1 ELSE 0
        /\ "success" \in Elems(completions[r]) => r \in Elems(wire)
  BY DEF HandlersInv, HandlersOnce, Held
<1>6. CASE RetryWrite(q, result)
  <2>1. retries_left' \in [Queues -> 0..RetryLimit]
    BY <1>2 DEF BooksInv, ChainInv, ChainTypes
  <2>2. Held' = Held
    BY <1>1, <1>6, <2>1, IdleStep DEF RetryWrite, ChainTypes, Held
  <2>3. completions' = completions /\ wire' = wire
    BY <1>6 DEF RetryWrite
  <2>4. HandlersOnce'
    BY <1>1, <1>5, <2>2, <2>3 DEF HandlersOnce, Held, Elems
  <2> QED BY <1>2, <1>3, <2>4 DEF HandlersInv
<1>7. CASE FinishWrite(q, result)
  <2>1. Held' = Held \ {c}
    BY <1>1, <1>7, FinishStep DEF FinishWrite, Held
  <2>2. /\ Elems(wire) \subseteq Elems(wire')
        /\ result = "success" => c \in Elems(wire')
    <3>1. wire \in Seq(Packets)
      BY <1>1 DEF BookTypes
    <3>2. Elems(Append(wire, c)) = Elems(wire) \cup {c}
      BY <1>1, <3>1, ElemsAppend
    <3> QED BY <1>7, <3>2 DEF FinishWrite
  <2>3. WriteCode(result) \in Codes /\ (WriteCode(result) = "success" => result = "success")
    BY DEF WriteCode, Codes, WriteResults
  <2>4. Len(completions[c]) = 0
    BY <1>1, <1>4, <1>5
  <2>5. ASSUME NEW r \in Packets
        PROVE  /\ Len(completions'[r]) = IF r \in awaited' \ Held' THEN 1 ELSE 0
               /\ "success" \in Elems(completions'[r]) => r \in Elems(wire')
    <3>1. CASE c \in awaited
      <4>1. /\ Len(completions'[c]) = Len(completions[c]) + 1
            /\ Elems(completions'[c]) = Elems(completions[c]) \cup {WriteCode(result)}
            /\ \A x \in Packets \ {c} : completions'[x] = completions[x]
        <5>1. complete_write(c, WriteCode(result))
          BY <1>7, <3>1 DEF FinishWrite
        <5> QED BY <1>1, <2>3, <5>1, CompleteEffect
      <4>2. CASE r = c
        <5>1. Len(completions'[r]) = 1 /\ r \in awaited' \ Held'
          BY <1>1, <2>1, <2>4, <3>1, <4>1, <4>2
        <5>2. "success" \in Elems(completions'[r]) => r \in Elems(wire')
          BY <1>1, <1>5, <2>2, <2>3, <4>1, <4>2
        <5> QED BY <5>1, <5>2
      <4>3. CASE r # c
        <5>1. completions'[r] = completions[r]
          BY <4>1, <4>3
        <5>2. r \in awaited' \ Held' <=> r \in awaited \ Held
          BY <1>1, <2>1, <4>3
        <5> QED BY <1>5, <2>2, <5>1, <5>2
      <4> QED BY <4>2, <4>3
    <3>2. CASE c \notin awaited
      <4>1. completions' = completions
        BY <1>7, <3>2 DEF FinishWrite
      <4>2. r \in awaited' \ Held' <=> r \in awaited \ Held
        BY <1>1, <2>1, <3>2
      <4> QED BY <1>5, <2>2, <4>1, <4>2
    <3> QED BY <3>1, <3>2
  <2>6. HandlersOnce'
    BY <2>5 DEF HandlersOnce, Held, Elems
  <2> QED BY <1>2, <1>3, <2>6 DEF HandlersInv
<1> QED BY <1>6, <1>7 DEF on_write_done

(* cancel_all posts the handlers of the packets that wait, and no other. *)
LEMMA HandlersCancel ==
  ASSUME HandlersInv, cancel_all
  PROVE  HandlersInv'
<1>1. BooksInv /\ ChainInv /\ BookTypes
  BY DEF HandlersInv, BooksInv
<1>2. BooksInv'
  BY <1>1, BooksCancel
<1>3. awaited' = awaited /\ submitted' = submitted /\ wire' = wire
  BY DEF cancel_all
<1>4. Held' = InFlight
  BY <1>1, CancelStep DEF Held
<1>5. \A r \in Packets :
        /\ Len(completions[r]) = IF r \in awaited \ Held THEN 1 ELSE 0
        /\ "success" \in Elems(completions[r]) => r \in Elems(wire)
  BY DEF HandlersInv, HandlersOnce, Held
<1>6. ASSUME NEW r \in Packets
      PROVE  /\ Len(completions'[r]) = IF r \in awaited' \ Held' THEN 1 ELSE 0
             /\ "success" \in Elems(completions'[r]) => r \in Elems(wire')
  <2>1. completions[r] \in Seq(Codes) /\ "operation_aborted" \in Codes
    BY <1>1 DEF BookTypes, Codes
  <2>2. completions'[r] = IF r \in Queued \cap awaited
                          THEN Append(completions[r], "operation_aborted")
                          ELSE completions[r]
    BY DEF cancel_all, Aborted
  <2>3. CASE r \in Queued \cap awaited
    <3>1. /\ Len(completions'[r]) = Len(completions[r]) + 1
          /\ Elems(completions'[r]) = Elems(completions[r]) \cup {"operation_aborted"}
      BY <2>1, <2>2, <2>3, ElemsAppend
    <3>2. Len(completions[r]) = 0
      BY <1>5, <2>3 DEF Held
    <3>3. r \in awaited' \ Held'
      BY <1>1, <1>3, <1>4, <2>3, HeldSubmitted
    <3> QED BY <1>3, <1>5, <3>1, <3>2, <3>3
  <2>4. CASE r \notin Queued \cap awaited
    <3>1. completions'[r] = completions[r]
      BY <2>2, <2>4
    <3>2. r \in awaited' \ Held' <=> r \in awaited \ Held
      BY <1>3, <1>4, <2>4 DEF Held
    <3> QED BY <1>3, <1>5, <3>1, <3>2
  <2> QED BY <2>3, <2>4
<1>7. HandlersOnce'
  BY <1>6 DEF HandlersOnce, Held, Elems
<1> QED BY <1>2, <1>3, <1>7 DEF HandlersInv

(* Every completion handler is posted exactly once, when its packet has left  *)
(* the writer, and reports success only for a packet that was written: the    *)
(* completions of the device, refusals, exhausted retries and cancel_all      *)
(* never post one twice or forget one.                                        *)
THEOREM HandlersPostedOnce == Spec => []HandlersOnce
<1>1. Init => HandlersInv
  <2> SUFFICES ASSUME Init PROVE HandlersInv
    OBVIOUS
  <2>1. BooksInv
    BY BooksInit
  <2>2. awaited = {} /\ (\A p \in Packets : completions[p] = <<>>)
    BY DEF Init
  <2>3. HandlersOnce
    BY <2>2, EmptySequence DEF HandlersOnce
  <2> QED BY <2>1, <2>2, <2>3 DEF HandlersInv
<1>2. HandlersInv /\ [Next]_vars => HandlersInv'
  <2> SUFFICES ASSUME HandlersInv, [Next]_vars PROVE HandlersInv'
    OBVIOUS
  <2>1. ASSUME NEW p \in Packets, async_write_and_forget(p) \/ async_write(p)
        PROVE HandlersInv'
    BY <2>1, HandlersWrite
  <2>2. ASSUME NEW q \in Queues, NEW result \in WriteResults, on_write_done(q, result)
        PROVE HandlersInv'
    BY <2>2, HandlersDone
  <2>3. CASE cancel_all
    BY <2>3, HandlersCancel
  <2>4. CASE UNCHANGED vars
    <3>1. UNCHANGED <<queue, current, retries_left, queued_total, cancelled, tx_packets,
                      tx_dropped, submitted, awaited, wire, completions>>
      BY <2>4 DEF vars
    <3>2. ChainInv' /\ InFlight' = InFlight /\ Queued' = Queued
      BY <3>1, IdleStep DEF HandlersInv, BooksInv, ChainInv, ChainTypes
    <3>3. BooksInv'
      BY <3>1, <3>2 DEF HandlersInv, BooksInv, BookTypes, Balanced
    <3> QED BY <3>1, <3>2, <3>3 DEF HandlersInv, HandlersOnce, Elems
  <2> QED BY <2>1, <2>2, <2>3, <2>4 DEF Next
<1>3. HandlersInv => HandlersOnce
  BY DEF HandlersInv
<1> QED BY <1>1, <1>2, <1>3, PTL DEF Spec

-----------------------------------------------------------------------------
(***************************************************************************)
(* The device write queue implements LossyFifo for any packets, flows,     *)
(* queues, hash and limits: the chain of a queue, the packet at the device *)
(* and then the packets that wait, is a lane that may lose packets but     *)
(* never reorders or repeats them.                                         *)
(*                                                                         *)
(* Starting a write moves a packet from the queue to the device inside its *)
(* lane, so pump stutters; taking a packet in appends to the lane, the end *)
(* of a write takes its head, and cancel_all cuts off all that waits.      *)
(***************************************************************************)
\* The lane of a chain, and all lanes: what the mapping puts in pending.
Lane(cur, qs) == IF cur = NoPacket THEN qs ELSE <<cur>> \o qs

Lanes == [q \in Queues |-> Lane(current[q], queue[q])]

----------------------------------------------------------------------------
(* Prepending to a sequence. *)

(* Head and tail undo prepending, and prepending undoes them. *)
LEMMA PrependHeadTail ==
  ASSUME NEW S, NEW e \in S, NEW s \in Seq(S)
  PROVE  /\ <<e>> \o s \in Seq(S)
         /\ <<e>> \o s # <<>>
         /\ Head(<<e>> \o s) = e
         /\ Tail(<<e>> \o s) = s
         /\ s # <<>> => <<Head(s)>> \o Tail(s) = s
<1> DEFINE t == <<e>> \o s
<1>1. <<e>> \in Seq(S) /\ Len(<<e>>) = 1 /\ <<e>>[1] = e
  OBVIOUS
<1>2. /\ t \in Seq(S)
      /\ Len(t) = 1 + Len(s)
      /\ \A i \in 1..(1 + Len(s)) : t[i] = IF i <= 1 THEN <<e>>[i] ELSE s[i - 1]
  BY <1>1, ConcatProperties
<1>3. Len(s) \in Nat
  BY LenProperties
<1>4. t # <<>>
  BY <1>2, <1>3, EmptySeq
<1> HIDE DEF t
<1>5. t[1] = e /\ \A i \in 1..Len(s) : t[i + 1] = s[i]
  BY <1>1, <1>2, <1>3
<1>6. Head(t) = e
  BY <1>2, <1>4, <1>5
<1>7. Tail(t) = s
  <2>1. Tail(t) \in Seq(S) /\ Len(Tail(t)) = Len(s)
        /\ \A i \in 1..Len(Tail(t)) : Tail(t)[i] = t[i + 1]
    BY <1>2, <1>3, <1>4, HeadTailProperties
  <2> QED BY <2>1, <1>5, SeqEqual
<1>8. ASSUME s # <<>> PROVE <<Head(s)>> \o Tail(s) = s
  <2> DEFINE h == Head(s)
             u == Tail(s)
             w == <<h>> \o u
  <2>1. h \in S /\ u \in Seq(S) /\ Len(u) = Len(s) - 1 /\ h = s[1]
        /\ \A i \in 1..Len(u) : u[i] = s[i + 1]
    BY <1>8, HeadTailProperties
  <2> HIDE DEF h, u
  <2>2. <<h>> \in Seq(S) /\ Len(<<h>>) = 1 /\ <<h>>[1] = h
    BY <2>1
  <2>3. /\ w \in Seq(S)
        /\ Len(w) = 1 + Len(u)
        /\ \A i \in 1..(1 + Len(u)) : w[i] = IF i <= 1 THEN <<h>>[i] ELSE u[i - 1]
    BY <2>1, <2>2, ConcatProperties
  <2> HIDE DEF w
  <2>4. Len(w) = Len(s) /\ \A i \in 1..Len(w) : w[i] = s[i]
    BY <1>3, <2>1, <2>2, <2>3
  <2>5. w = s
    BY <2>3, <2>4, SeqEqual
  <2> QED BY <2>5 DEF w, h, u
<1> QED BY <1>2, <1>4, <1>6, <1>7, <1>8 DEF t

(* Appending commutes with prepending. *)
LEMMA PrependAppend ==
  ASSUME NEW S, NEW e \in S, NEW s \in Seq(S), NEW p \in S
  PROVE  <<e>> \o Append(s, p) = Append(<<e>> \o s, p)
<1>1. <<e>> \in Seq(S) /\ <<p>> \in Seq(S)
  OBVIOUS
<1>2. Append(s, p) = s \o <<p>>
  BY AppendIsConcat
<1>3. <<e>> \o s \in Seq(S)
  BY <1>1, ConcatProperties
<1>4. Append(<<e>> \o s, p) = (<<e>> \o s) \o <<p>>
  BY <1>3, AppendIsConcat
<1> QED BY <1>1, <1>2, <1>4, ConcatAssociative

----------------------------------------------------------------------------
(* What the steps do to the lanes. *)

(* pump leaves the lane as its caller left it, whether or not it starts a    *)
(* write.                                                                    *)
LEMMA PumpLane ==
  ASSUME ChainTypes, NEW q \in Queues, NEW qs \in Seq(Packets),
         NEW cur \in Packets \cup {NoPacket}, NEW total,
         pump(q, qs, cur, total)
  PROVE  Lanes' = [Lanes EXCEPT ![q] = Lane(cur, qs)]
<1>1. CASE Pumpable(cur, qs)
  <2>1. cur = NoPacket /\ qs # <<>>
    BY <1>1 DEF Pumpable
  <2>2. Head(qs) \in Packets /\ Tail(qs) \in Seq(Packets)
    BY <2>1, HeadTailProperties
  <2>3. <<Head(qs)>> \o Tail(qs) = qs
    BY <2>1, <2>2, PrependHeadTail
  <2>4. Lane(Head(qs), Tail(qs)) = qs
    BY <2>2, <2>3, PacketsAssumption DEF Lane
  <2>5. Lane(cur, qs) = qs
    BY <2>1 DEF Lane
  <2>6. /\ queue' = [queue EXCEPT ![q] = Tail(qs)]
        /\ current' = [current EXCEPT ![q] = Head(qs)]
    BY <1>1 DEF pump
  <2> QED BY <2>4, <2>5, <2>6 DEF Lanes, ChainTypes
<1>2. CASE ~Pumpable(cur, qs)
  <2>1. /\ queue' = [queue EXCEPT ![q] = qs]
        /\ current' = [current EXCEPT ![q] = cur]
    BY <1>2 DEF pump
  <2> QED BY <2>1 DEF Lanes, ChainTypes
<1> QED BY <1>1, <1>2

(* A lane is a sequence of packets, empty when its chain is. *)
LEMMA LaneTypes ==
  ASSUME NEW qs \in Seq(Packets), NEW cur \in Packets \cup {NoPacket}
  PROVE  /\ Lane(cur, qs) \in Seq(Packets)
         /\ cur # NoPacket => /\ Lane(cur, qs) # <<>>
                               /\ Head(Lane(cur, qs)) = cur
                               /\ Tail(Lane(cur, qs)) = qs
         /\ \A p \in Packets : Lane(cur, Append(qs, p)) = Append(Lane(cur, qs), p)
<1>1. CASE cur = NoPacket
  BY <1>1 DEF Lane
<1>2. CASE cur # NoPacket
  <2>1. cur \in Packets
    BY <1>2
  <2> QED BY <1>2, <2>1, PrependHeadTail, PrependAppend DEF Lane
<1> QED BY <1>1, <1>2

(* The mapping of the instance is the lanes. *)
LEMMA FifoMapping ==
  /\ Fifo!Init <=> Lanes = [q \in Queues |-> <<>>] /\ Elems(submitted) = {} /\ wire = <<>>
  /\ Fifo!vars = <<Lanes, Elems(submitted), wire>>
BY DEF Fifo!Init, Fifo!vars, Lanes, Lane

(* A submitted packet enters its lane or is lost. *)
LEMMA OfferStep ==
  ASSUME ChainTypes, NEW p \in Packets,
         async_write_and_forget(p) \/ async_write(p)
  PROVE  Fifo!Offer(p)
<1>1. /\ p \notin Elems(submitted)
      /\ submitted' = Append(submitted, p)
      /\ wire' = wire
      /\ Enqueue(p) \/ UNCHANGED <<queue, current>>
  BY DEF async_write_and_forget, async_write, Submit
<1>2. Elems(submitted') = Elems(submitted) \cup {p}
  BY <1>1, ElemsAppend DEF ChainTypes
<1>3. (\E q \in Queues : Lanes' = [Lanes EXCEPT ![q] = Append(@, p)]) \/ Lanes' = Lanes
  <2>1. CASE Enqueue(p)
    <3> DEFINE q == pick_tx_queue(p)
               qs == queue[q]
               cur == current[q]
    <3>1. q \in Queues
      BY QueueOfPacket
    <3>2. pump(q, Append(qs, p), cur, queued_total + 1)
      BY <2>1 DEF Enqueue
    <3> HIDE DEF q
    <3>3. qs \in Seq(Packets) /\ cur \in Packets \cup {NoPacket}
      BY <3>1 DEF ChainTypes
    <3>4. Lanes[q] = Lane(cur, qs)
      BY <3>1 DEF Lanes
    <3> HIDE DEF qs, cur
    <3>5. Append(qs, p) \in Seq(Packets)
      BY <3>3
    <3>6. Lanes' = [Lanes EXCEPT ![q] = Lane(cur, Append(qs, p))]
      BY <3>1, <3>2, <3>3, <3>5, PumpLane
    <3>7. Lane(cur, Append(qs, p)) = Append(Lanes[q], p)
      BY <3>3, <3>4, LaneTypes
    <3> QED BY <3>1, <3>6, <3>7
  <2>2. CASE UNCHANGED <<queue, current>>
    BY <2>2 DEF Lanes
  <2> QED BY <1>1, <2>1, <2>2
<1> QED BY <1>1, <1>2, <1>3 DEF Fifo!Offer, Lanes, Lane

(* A retry changes no lane; the end of a write takes the head of its lane,   *)
(* out when the device wrote it and lost when it did not.                    *)
LEMMA DoneStep ==
  ASSUME ChainTypes, NEW q \in Queues, NEW result \in WriteResults,
         on_write_done(q, result)
  PROVE  Fifo!Deliver(q) \/ Fifo!LoseFirst(q) \/ UNCHANGED Fifo!vars
<1>1. current[q] # NoPacket /\ submitted' = submitted
  BY DEF on_write_done
<1>2. CASE RetryWrite(q, result)
  <2>1. queue' = queue /\ current' = current /\ wire' = wire
    BY <1>2 DEF RetryWrite
  <2> QED BY <1>1, <2>1, FifoMapping DEF Fifo!vars
<1>3. CASE FinishWrite(q, result)
  <2> DEFINE qs == queue[q]
             cur == current[q]
  <2>1. pump(q, qs, NoPacket, queued_total)
    BY <1>3 DEF FinishWrite
  <2>2. qs \in Seq(Packets) /\ cur \in Packets \cup {NoPacket} /\ cur # NoPacket
    BY <1>1 DEF ChainTypes
  <2>3. Lanes[q] = Lane(cur, qs)
    BY DEF Lanes
  <2>4. (wire' = Append(wire, cur)) \/ wire' = wire
    BY <1>3 DEF FinishWrite
  <2> HIDE DEF qs, cur
  <2>5. Lanes' = [Lanes EXCEPT ![q] = Lane(NoPacket, qs)]
    BY <2>1, <2>2, PumpLane
  <2>6. Lane(NoPacket, qs) = qs
    BY DEF Lane
  <2>7. Lanes[q] # <<>> /\ Head(Lanes[q]) = cur /\ Tail(Lanes[q]) = qs
    BY <2>2, <2>3, LaneTypes
  <2>8. Lanes' = [Lanes EXCEPT ![q] = Tail(Lanes[q])]
    BY <2>5, <2>6, <2>7
  <2>9. wire' = Append(wire, Head(Lanes[q])) \/ wire' = wire
    BY <2>4, <2>7
  <2> QED BY <1>1, <2>7, <2>8, <2>9 DEF Fifo!Deliver, Fifo!LoseFirst, Lanes, Lane
<1> QED BY <1>2, <1>3 DEF on_write_done

(* cancel_all keeps the head of a lane exactly when the device is writing it. *)
LEMMA CancelLanes ==
  ASSUME ChainTypes, cancel_all
  PROVE  Fifo!LoseLast
<1> DEFINE keep == [q \in Queues |-> IF current[q] = NoPacket THEN 0 ELSE 1]
<1>1. /\ queue' = [q \in Queues |-> <<>>]
      /\ current' = current
      /\ submitted' = submitted
      /\ wire' = wire
  BY DEF cancel_all
<1>2. keep \in [Queues -> {0, 1}]
  OBVIOUS
<1>3. ASSUME NEW q \in Queues
      PROVE  Lane(current'[q], queue'[q])
               = IF keep[q] = 1 /\ Lanes[q] # <<>> THEN <<Head(Lanes[q])>> ELSE <<>>
  <2> DEFINE qs == queue[q]
             cur == current[q]
  <2>1. qs \in Seq(Packets) /\ cur \in Packets \cup {NoPacket}
    BY DEF ChainTypes
  <2>2. Lanes[q] = Lane(cur, qs)
    BY DEF Lanes
  <2>3. queue'[q] = <<>> /\ current'[q] = cur
    BY <1>1
  <2>4. keep[q] = IF cur = NoPacket THEN 0 ELSE 1
    OBVIOUS
  <2> HIDE DEF qs, cur, keep
  <2>5. CASE cur = NoPacket
    BY <2>3, <2>4, <2>5 DEF Lane
  <2>6. CASE cur # NoPacket
    <3>1. Lane(cur, <<>>) = <<cur>>
      <4>1. cur \in Packets
        BY <2>1, <2>6
      <4>2. <<cur>> \in Seq(Packets)
        BY <4>1
      <4>3. <<cur>> \o <<>> = <<cur>>
        BY <4>2, ConcatEmptySeq
      <4> QED BY <2>6, <4>3 DEF Lane
    <3>2. Lanes[q] # <<>> /\ Head(Lanes[q]) = cur
      BY <2>1, <2>2, <2>6, LaneTypes
    <3> QED BY <2>3, <2>4, <2>6, <3>1, <3>2
  <2> QED BY <2>5, <2>6
<1> HIDE DEF keep
<1>4. Lanes' = [q \in Queues |-> IF keep[q] = 1 /\ Lanes[q] # <<>>
                                  THEN <<Head(Lanes[q])>> ELSE <<>>]
  BY <1>3 DEF Lanes
<1> QED BY <1>1, <1>2, <1>4 DEF Fifo!LoseLast, Lanes, Lane

----------------------------------------------------------------------------

(* The writer keeps its promise to the engines: whatever is refused, retried, *)
(* failed by the device or cancelled, what reaches the device from one queue  *)
(* is what was submitted to it, in order and at most once each.               *)
THEOREM ImplementsLossyFifo == Spec => LossyFifoSpec
<1>1. Init => Fifo!Init
  <2> SUFFICES ASSUME Init PROVE Fifo!Init
    OBVIOUS
  <2>1. Elems(submitted) = {}
    BY EmptySequence DEF Init
  <2>2. Lanes = [q \in Queues |-> <<>>]
    BY DEF Init, Lanes, Lane
  <2> QED BY <2>1, <2>2, FifoMapping DEF Init
<1>2. ChainTypes /\ [Next]_vars => [Fifo!Next]_(Fifo!vars)
  <2> SUFFICES ASSUME ChainTypes, [Next]_vars PROVE Fifo!Next \/ UNCHANGED Fifo!vars
    OBVIOUS
  <2>1. ASSUME NEW p \in Packets, async_write_and_forget(p) \/ async_write(p)
        PROVE  Fifo!Next
    BY <2>1, OfferStep DEF Fifo!Next
  <2>2. ASSUME NEW q \in Queues, NEW result \in WriteResults, on_write_done(q, result)
        PROVE  Fifo!Next \/ UNCHANGED Fifo!vars
    BY <2>2, DoneStep DEF Fifo!Next
  <2>3. CASE cancel_all
    BY <2>3, CancelLanes DEF Fifo!Next
  <2>4. CASE UNCHANGED vars
    BY <2>4 DEF vars, Fifo!vars
  <2> QED BY <2>1, <2>2, <2>3, <2>4 DEF Next
<1>3. TypeOK => ChainTypes
  BY DEF TypeOK, ChainTypes
<1> QED BY <1>1, <1>2, <1>3, TypeCorrect, PTL DEF Spec, LossyFifoSpec, Fifo!Spec
=============================================================================
