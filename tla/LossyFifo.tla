----------------------------- MODULE LossyFifo ------------------------------
(***************************************************************************)
(* What the engines may assume of the device write queue: parallel lanes,  *)
(* each a FIFO.  A packet offered to the pipe enters one lane or is lost;  *)
(* only the first packet of a lane comes out.  The first packet of a lane  *)
(* may be lost, and so may all packets, the first ones possibly excepted.  *)
(***************************************************************************)
EXTENDS Naturals, Sequences

CONSTANTS
  Packets,  \* what is sent
  Lanes     \* the independent FIFOs

VARIABLES
  pending,  \* the packets inside each lane, oldest first
  offered,  \* the packets offered so far
  out       \* the packets that came out, in order

vars == <<pending, offered, out>>

Init ==
  /\ pending = [l \in Lanes |-> <<>>]
  /\ offered = {}
  /\ out = <<>>

Offer(p) ==
  /\ p \notin offered
  /\ offered' = offered \cup {p}
  /\ \/ \E l \in Lanes : pending' = [pending EXCEPT ![l] = Append(@, p)]
     \/ UNCHANGED pending
  /\ UNCHANGED out

Deliver(l) ==
  /\ pending[l] # <<>>
  /\ pending' = [pending EXCEPT ![l] = Tail(@)]
  /\ out' = Append(out, Head(pending[l]))
  /\ UNCHANGED offered

LoseFirst(l) ==
  /\ pending[l] # <<>>
  /\ pending' = [pending EXCEPT ![l] = Tail(@)]
  /\ UNCHANGED <<offered, out>>

LoseLast ==
  /\ \E keep \in [Lanes -> {0, 1}] :
       pending' = [l \in Lanes |->
                     IF keep[l] = 1 /\ pending[l] # <<>>
                     THEN <<Head(pending[l])>> ELSE <<>>]
  /\ UNCHANGED <<offered, out>>

Next ==
  \/ \E p \in Packets : Offer(p)
  \/ \E l \in Lanes : Deliver(l) \/ LoseFirst(l)
  \/ LoseLast

Spec == Init /\ [][Next]_vars

=============================================================================
