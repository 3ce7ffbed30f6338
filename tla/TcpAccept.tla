------------------------------ MODULE TcpAccept ------------------------------
(***************************************************************************)
(* The flow table and the accept queue of the TCP engine:                  *)
(* src/tcp_engine.cpp and include/tunio/detail/tcp_engine.hpp.             *)
(*                                                                         *)
(* The engine's handlers as operators on a record w that holds             *)
(*   flows  every tcp_flow ever made, with the engine it belongs to        *)
(*   engs   the engines, one for each successful open()                    *)
(*   accs   the accepts the application asked for, and their completions   *)
(*   conns  stats.tcp_connections                                          *)
(* Tunio puts them on the strand and gives them packets.  What a           *)
(* connection sends and receives is in TcpFlow and TcpReceive; of its      *)
(* state machine only what the table depends on is kept (FIN_WAIT_1 and    *)
(* FIN_WAIT_2 are one, segments are in order, acknowledgements exact).     *)
(***************************************************************************)
EXTENDS Naturals, Sequences, FiniteSets, FiniteSetsExt, SequencesExt

CONSTANTS
  Keys,         \* five-tuples
  MaxTcpFlows   \* max_tcp_flows

ASSUME AcceptAssumption == MaxTcpFlows \in Nat

HalfOpen == {"SYN_RCVD", "SYN_ACK_SENT"}
FlowStates == HalfOpen \union {"ESTABLISHED", "FIN_WAIT", "CLOSE_WAIT", "LAST_ACK",
                               "TIME_WAIT", "CLOSED"}

new_engine == [table |-> [k \in Keys |-> 0], pend |-> <<>>, waiters |-> <<>>,
               sweep |-> "armed", closed |-> FALSE, late |-> FALSE]

InTable(w, g) == {w.engs[g].table[k] : k \in Keys} \ {0}

post_accept(w, i, st, f) ==
  LET a == w.accs[i]
  IN [w EXCEPT !.accs[i] = [a EXCEPT !.st = st, !.fid = f, !.times = a.times + 1]]

\* A flow leaves the list of those nobody accepted.
leave_pending(q, f) == RemoveAt(q, CHOOSE i \in DOMAIN q : q[i] = f)

\* A dead flow stays in the list of flows nobody accepted.
MutantCloseKeepsPending(w, f) ==
  LET d == w.flows[f]
      e == w.engs[d.gen]
  IN IF d.st = "CLOSED" THEN w
     ELSE [w EXCEPT !.flows[f] = [d EXCEPT !.st = "CLOSED"],
                    !.engs[d.gen] = [e EXCEPT !.table[d.key] = 0],
                    !.conns = IF d.st \in HalfOpen THEN @ ELSE @ - 1]

\* A flow that is given up before its handshake counts as a connection.
MutantCloseMiscounts(w, f) ==
  LET d == w.flows[f]
      e == w.engs[d.gen]
      pend == IF d.pending THEN leave_pending(e.pend, f) ELSE e.pend
  IN IF d.st = "CLOSED" THEN w
     ELSE [w EXCEPT !.flows[f] = [d EXCEPT !.st = "CLOSED", !.pending = FALSE],
                    !.engs[d.gen] = [e EXCEPT !.pend = pend, !.table[d.key] = 0],
                    !.conns = IF d.st = "SYN_RCVD" THEN @ ELSE @ - 1]

close_flow(w, f) ==
  LET d == w.flows[f]
      e == w.engs[d.gen]
      pend == IF d.pending THEN leave_pending(e.pend, f) ELSE e.pend
  IN IF d.st = "CLOSED" THEN w
     ELSE [w EXCEPT !.flows[f] = [d EXCEPT !.st = "CLOSED", !.pending = FALSE],
                    !.engs[d.gen] = [e EXCEPT !.pend = pend, !.table[d.key] = 0],
                    !.conns = IF d.st \in HalfOpen THEN @ ELSE @ - 1]

\* The RST that goes first is not seen here.
abort_flow(w, f) == close_flow(w, f)

notify_accept(w, f) ==
  LET g == w.flows[f].gen
      q == w.engs[g].waiters
  IN IF q # <<>>
     THEN post_accept([w EXCEPT !.engs[g].waiters = Tail(@), !.flows[f].accepted = TRUE],
                      Head(q), "ok", f)
     ELSE [w EXCEPT !.flows[f].pending = TRUE, !.engs[g].pend = Append(@, f)]

\* Flows closed while they waited are skipped.
Alive(w, q) == {j \in DOMAIN q : w.flows[q[j]].st # "CLOSED"}
async_accept(w, g, i) ==
  LET e == w.engs[g]
      first == Min(Alive(w, e.pend))
      f == e.pend[first]
      d == w.flows[f]
  IN IF Alive(w, e.pend) = {}
     THEN [w EXCEPT !.engs[g] = [e EXCEPT !.pend = <<>>, !.waiters = Append(e.waiters, i)]]
     ELSE post_accept([w EXCEPT !.engs[g].pend = SubSeq(e.pend, first + 1, Len(e.pend)),
                                !.flows[f] = [d EXCEPT !.pending = FALSE, !.accepted = TRUE]],
                      i, "ok", f)

cancel_accepts(w, g) ==
  LET q == w.engs[g].waiters
      after[n \in 0..Len(q)] ==
        IF n = 0 THEN [w EXCEPT !.engs[g].waiters = <<>>]
        ELSE post_accept(after[n - 1], q[n], "aborted", 0)
  IN after[Len(q)]

\* The flows of a set are closed one after another.
close_flows(w, S) ==
  LET after[n \in 0..Len(w.flows)] ==
        IF n = 0 THEN w
        ELSE IF n \in S THEN close_flow(after[n - 1], n) ELSE after[n - 1]
  IN after[Len(w.flows)]

\* The flows go, whoever waits for one is left waiting.
MutantCloseAllKeepsWaiters(w, g) ==
  LET c == close_flows(w, InTable(w, g))
      e == c.engs[g]
      late == e.late \/ e.sweep = "queued"
      sweep == IF e.sweep = "armed" THEN "none" ELSE e.sweep
  IN [c EXCEPT !.engs[g] = [e EXCEPT !.pend = <<>>, !.closed = TRUE, !.late = late,
                                     !.sweep = sweep]]

\* closed and late are history: the latter says that the sweep was already
\* on its way to the strand when its timer was cancelled.
close_all(w, g) ==
  LET c == close_flows(w, InTable(w, g))
      e == c.engs[g]
      late == e.late \/ e.sweep = "queued"
      sweep == IF e.sweep = "armed" THEN "none" ELSE e.sweep
  IN cancel_accepts([c EXCEPT !.engs[g] = [e EXCEPT !.pend = <<>>, !.closed = TRUE,
                                                    !.late = late, !.sweep = sweep]], g)

\* old are the flows for which the timeout of their state is over.  Those that
\* are half open or that nobody accepted are aborted, with an RST.
on_sweep(w, g, old) ==
  LET victims == {f \in InTable(w, g) \intersect old :
                    \/ w.flows[f].st \in HalfOpen \union {"TIME_WAIT", "FIN_WAIT", "LAST_ACK"}
                    \/ w.flows[f].st = "ESTABLISHED" /\ ~w.flows[f].accepted}
  IN [close_flows(w, victims) EXCEPT !.engs[g].sweep = "armed"]

\* What the segments of a client do to its flow.
handle_segment(w, f, seg) ==
  LET d == w.flows[f]
  IN CASE seg = "RST" -> close_flow(w, f)
       [] seg = "ACK" /\ d.st = "LAST_ACK" -> close_flow(w, f)
       [] seg = "ACK" /\ d.st = "SYN_ACK_SENT" ->
            LET e == [w EXCEPT !.flows[f].st = "ESTABLISHED", !.conns = @ + 1]
            IN IF d.accepted THEN e ELSE notify_accept(e, f)
       [] seg = "FIN" /\ d.st = "ESTABLISHED" -> [w EXCEPT !.flows[f].st = "CLOSE_WAIT"]
       [] seg = "FIN" /\ d.st = "FIN_WAIT" -> [w EXCEPT !.flows[f].st = "TIME_WAIT"]
       [] OTHER -> w

new_flow(w, g, k) ==
  LET f == Len(w.flows) + 1
  IN notify_accept(
       [w EXCEPT !.flows = Append(@, [gen |-> g, key |-> k, st |-> "SYN_RCVD",
                                      accepted |-> FALSE, pending |-> FALSE]),
                 !.engs[g].table[k] = f], f)

\* A SYN replaces a flow in TIME_WAIT; other segments need a flow.
on_packet(w, g, k, seg) ==
  LET f == w.engs[g].table[k]
      reuse == f # 0 /\ seg = "SYN" /\ w.flows[f].st = "TIME_WAIT"
      v == IF reuse THEN close_flow(w, f) ELSE w
  IN CASE f # 0 /\ ~reuse -> handle_segment(w, f, seg)
       [] (f = 0 \/ reuse) /\ seg # "SYN" -> v
       [] OTHER -> IF Cardinality(InTable(v, g)) >= MaxTcpFlows THEN v ELSE new_flow(v, g, k)

\* The application's calls on a flow it was given.
flow_op(w, f, op) ==
  LET s == w.flows[f].st
  IN CASE op = "accept" /\ s = "SYN_RCVD" -> [w EXCEPT !.flows[f].st = "SYN_ACK_SENT"]
       [] op = "reject" -> abort_flow(w, f)
       [] op = "close" /\ s \in HalfOpen -> abort_flow(w, f)
       [] op = "close" /\ s = "ESTABLISHED" -> [w EXCEPT !.flows[f].st = "FIN_WAIT"]
       [] op = "close" /\ s = "CLOSE_WAIT" -> [w EXCEPT !.flows[f].st = "LAST_ACK"]
       [] OTHER -> w
=============================================================================
