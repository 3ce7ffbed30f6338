-------------------------- MODULE MCTunQueueWriter --------------------------
(* Instances of the device write queue for TLC. *)
EXTENDS TunQueueWriter

CONSTANTS p1, p2, p3, p4, f1, q1, q2

\* The packets of flow f1 go to q1, but for p4, a later fragment, which is
\* hashed by its own content and goes to q2.
MCFlowOf == [p \in Packets |-> f1]
MCHash == [x \in Packets \cup Flows |-> IF x = f1 THEN q1 ELSE q2]

=============================================================================
