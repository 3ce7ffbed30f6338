--------------------------- MODULE TunQueueWriter ---------------------------
(***************************************************************************)
(* The serialised device write queue, include/tunio/detail/               *)
(* tun_queue_writer.hpp.  Every packet the engine sends goes through one   *)
(* writer.  The writer keeps one write chain per device queue: a FIFO and  *)
(* at most one packet handed to the device.  All its methods run on the    *)
(* engine's strand, so each action below is one uninterrupted call; what   *)
(* interleaves are the calls of the engines, the completions of the device *)
(* writes and the cancellation on close.                                   *)
(*                                                                         *)
(* A packet is an identifier.  Left out: the pool of send buffers and the  *)
(* IP identification counter, which the control flow never reads.          *)
(***************************************************************************)
EXTENDS Naturals, Sequences, FiniteSets

CONSTANTS
  Packets,         \* the packets the engines may submit, each at most once
  Flows,           \* the flows (address pair, protocol, ports) they belong to
  FlowOf,          \* the flow of each packet
  LaterFragments,  \* the packets that are not the first fragment of a datagram
  Queues,          \* the queues of the device
  Hash,            \* the queue FNV-1a chooses for the bytes it is given
  QueueMax,        \* k_queue_max_entries
  RetryLimit,      \* k_write_retry_limit
  NoPacket         \* an empty std::optional<entry>

ASSUME PacketsAssumption ==
  /\ IsFiniteSet(Packets)
  /\ NoPacket \notin Packets
  /\ LaterFragments \subseteq Packets
  /\ FlowOf \in [Packets -> Flows]

ASSUME QueuesAssumption == Hash \in [Packets \cup Flows -> Queues]

ASSUME BoundsAssumption ==
  /\ QueueMax \in Nat
  /\ RetryLimit \in Nat

VARIABLES
  queue,         \* states_[q].queue: the packets that wait for the device
  current,       \* states_[q].current: the packet the device is writing
  retries_left,  \* entry::retries_left of the current packet
  queued_total,  \* queued_total_
  cancelled,     \* cancelled_
  tx_packets,    \* engine_stats::tx_packets
  tx_dropped,    \* engine_stats::tx_dropped
  submitted,     \* history: the packets handed to the writer, in order
  awaited,       \* history: those submitted with a completion handler
  wire,          \* history: the packets the device wrote, in order
  completions    \* history: the codes each packet's handler was posted with

vars == <<queue, current, retries_left, queued_total, cancelled, tx_packets,
          tx_dropped, submitted, awaited, wire, completions>>

\* What a handler is completed with.
Codes == {"success", "device_error", "no_buffer_space", "operation_aborted"}

\* How a device write ends.
WriteResults == {"success", "transient", "device_error"}

Elems(s) == {s[i] : i \in DOMAIN s}

\* The packets waiting in some queue, and those the device is writing.
Queued == UNION {Elems(queue[q]) : q \in Queues}
InFlight == {current[q] : q \in Queues} \ {NoPacket}

----------------------------------------------------------------------------
(* pick_tx_queue hashes addresses, protocol and the four bytes after the IP *)
(* header.  Those are the ports, except in a later fragment, where they are *)
(* payload: such a packet is hashed by its own content.                     *)

pick_tx_queue(p) ==
  IF p \in LaterFragments THEN Hash[p] ELSE Hash[FlowOf[p]]

----------------------------------------------------------------------------

Init ==
  /\ queue = [q \in Queues |-> <<>>]
  /\ current = [q \in Queues |-> NoPacket]
  /\ retries_left = [q \in Queues |-> 0]
  /\ queued_total = 0
  /\ cancelled = FALSE
  /\ tx_packets = 0
  /\ tx_dropped = 0
  /\ submitted = <<>>
  /\ awaited = {}
  /\ wire = <<>>
  /\ completions = [p \in Packets |-> <<>>]

(* complete_write: the handler of p is posted with this code. *)
complete_write(p, code) ==
  completions' = [completions EXCEPT ![p] = Append(@, code)]

\* Mutant of Pumpable: the last packet stays in the queue.
PumpableButLast(cur, qs) == ~cancelled /\ cur = NoPacket /\ Len(qs) > 1

\* pump's early return: cancelled, a write outstanding, or nothing to write.
Pumpable(cur, qs) == ~cancelled /\ cur = NoPacket /\ qs # <<>>

(* pump(q) and start_write(q), given the chain's queue, its current packet   *)
(* and the total as the caller leaves them.                                  *)
pump(q, qs, cur, total) ==
  IF Pumpable(cur, qs)
  THEN /\ queue' = [queue EXCEPT ![q] = Tail(qs)]
       /\ current' = [current EXCEPT ![q] = Head(qs)]
       /\ queued_total' = total - 1
       /\ retries_left' = [retries_left EXCEPT ![q] = RetryLimit]
  ELSE /\ queue' = [queue EXCEPT ![q] = qs]
       /\ current' = [current EXCEPT ![q] = cur]
       /\ queued_total' = total
       /\ UNCHANGED retries_left

\* The safety valve: cancelled_ || queued_total_ >= k_queue_max_entries.
Refusing == cancelled \/ queued_total >= QueueMax

\* push_back, ++queued_total_, pump.
Enqueue(p) ==
  LET q == pick_tx_queue(p)
  IN  pump(q, Append(queue[q], p), current[q], queued_total + 1)

Submit(p) ==
  /\ p \notin Elems(submitted)
  /\ submitted' = Append(submitted, p)
  /\ UNCHANGED <<cancelled, tx_packets, wire>>

(* async_write_and_forget. *)
async_write_and_forget(p) ==
  /\ Submit(p)
  /\ UNCHANGED <<awaited, completions>>
  /\ \/ /\ Refusing
        /\ tx_dropped' = tx_dropped + 1
        /\ UNCHANGED <<queue, current, retries_left, queued_total>>
     \/ /\ ~Refusing
        /\ Enqueue(p)
        /\ UNCHANGED tx_dropped

(* async_write: as above, but a refused packet completes its handler. *)
async_write(p) ==
  /\ Submit(p)
  /\ awaited' = awaited \cup {p}
  /\ \/ /\ Refusing
        /\ tx_dropped' = tx_dropped + 1
        /\ complete_write(p, IF cancelled THEN "operation_aborted"
                                          ELSE "no_buffer_space")
        /\ UNCHANGED <<queue, current, retries_left, queued_total>>
     \/ /\ ~Refusing
        /\ Enqueue(p)
        /\ UNCHANGED <<tx_dropped, completions>>

\* Mutant of RetryWrite: the packet is retried after those behind it.
RetryWriteLater(q, result) ==
  /\ ~cancelled
  /\ result = "transient"
  /\ retries_left[q] > 0
  /\ pump(q, Append(queue[q], current[q]), NoPacket, queued_total + 1)
  /\ UNCHANGED <<tx_packets, tx_dropped, wire, completions>>

\* Mutant of RetryWrite: the number of retries is not looked at.
RetryWriteUnbounded(q, result) ==
  /\ ~cancelled
  /\ result = "transient"
  /\ retries_left' = [retries_left EXCEPT ![q] = @ - 1]
  /\ UNCHANGED <<queue, current, queued_total, tx_packets, tx_dropped, wire,
                 completions>>

(* on_write_done, the retry: the same packet is given to the device again. *)
RetryWrite(q, result) ==
  /\ ~cancelled
  /\ result = "transient"
  /\ retries_left[q] > 0
  /\ retries_left' = [retries_left EXCEPT ![q] = @ - 1]
  /\ UNCHANGED <<queue, current, queued_total, tx_packets, tx_dropped, wire,
                 completions>>

\* The error code the handler of a finished write is completed with.
WriteCode(result) ==
  CASE cancelled -> "operation_aborted"
    [] ~cancelled /\ result = "transient" -> "no_buffer_space"
    [] OTHER -> result

(* on_write_done, the end of a packet: count it, complete its handler, clear *)
(* current and pump.                                                         *)
FinishWrite(q, result) ==
  /\ cancelled \/ result # "transient" \/ retries_left[q] = 0
  /\ IF result = "success"
     THEN /\ tx_packets' = tx_packets + 1
          /\ wire' = Append(wire, current[q])
          /\ UNCHANGED tx_dropped
     ELSE /\ tx_dropped' = tx_dropped + 1
          /\ UNCHANGED <<tx_packets, wire>>
  /\ IF current[q] \in awaited
     THEN complete_write(current[q], WriteCode(result))
     ELSE UNCHANGED completions
  /\ pump(q, queue[q], NoPacket, queued_total)

on_write_done(q, result) ==
  /\ current[q] # NoPacket
  /\ RetryWrite(q, result) \/ FinishWrite(q, result)
  /\ UNCHANGED <<cancelled, submitted, awaited>>

\* Mutant of Aborted: the packets the device is writing are aborted as well.
AbortedWithCurrent == (Queued \cup InFlight) \cap awaited

\* The handlers cancel_all completes: those of the packets that wait.
Aborted == Queued \cap awaited

\* Mutant of cancel_all: what is thrown away is not counted.
cancel_all_uncounted ==
  /\ cancelled' = TRUE
  /\ queue' = [q \in Queues |-> <<>>]
  /\ queued_total' = 0
  /\ UNCHANGED <<current, retries_left, tx_packets, tx_dropped, submitted,
                 awaited, wire, completions>>

(* cancel_all: every waiting packet is dropped and its handler aborted; a    *)
(* packet the device is writing keeps its chain until the device is done.    *)
cancel_all ==
  /\ cancelled' = TRUE
  /\ queue' = [q \in Queues |-> <<>>]
  /\ queued_total' = queued_total - Cardinality(Queued)
  /\ tx_dropped' = tx_dropped + Cardinality(Queued)
  /\ completions' = [p \in Packets |->
                       IF p \in Aborted
                       THEN Append(completions[p], "operation_aborted")
                       ELSE completions[p]]
  /\ UNCHANGED <<current, retries_left, tx_packets, submitted, awaited, wire>>

Next ==
  \/ \E p \in Packets : async_write_and_forget(p) \/ async_write(p)
  \/ \E q \in Queues, result \in WriteResults : on_write_done(q, result)
  \/ cancel_all

Spec == Init /\ [][Next]_vars

(* The device ends every write it was given: the kernel takes or refuses a  *)
(* packet, and closing the device aborts what it still holds.               *)
FairSpec ==
  /\ Spec
  /\ \A q \in Queues : WF_vars(\E result \in WriteResults : on_write_done(q, result))

----------------------------------------------------------------------------
(* Properties. *)

TypeOK ==
  /\ queue \in [Queues -> Seq(Packets)]
  /\ current \in [Queues -> Packets \cup {NoPacket}]
  /\ retries_left \in [Queues -> 0..RetryLimit]
  /\ queued_total \in 0..QueueMax
  /\ cancelled \in BOOLEAN
  /\ tx_packets \in Nat
  /\ tx_dropped \in Nat
  /\ submitted \in Seq(Packets)
  /\ awaited \subseteq Packets
  /\ wire \in Seq(Packets)
  /\ completions \in [Packets -> Seq(Codes)]

(* No packet is lost from the books: what was handed to the writer is         *)
(* written, counted as dropped, waiting or being written, through refusals,   *)
(* retries, failures and cancel_all; and queued_total_, which the safety      *)
(* valve reads, is the number of packets that wait.                           *)
Accounting ==
  /\ queued_total = Cardinality(Queued)
  /\ Len(submitted) = tx_packets + tx_dropped + queued_total + Cardinality(InFlight)

(* Each completion handler is posted exactly once, when its packet has left   *)
(* the writer, and reports success only for a packet the device wrote.        *)
HandlersOnce ==
  \A p \in Packets :
    /\ Len(completions[p]) = IF p \in awaited \ (Queued \cup InFlight) THEN 1 ELSE 0
    /\ "success" \in Elems(completions[p]) => p \in Elems(wire)

(* No chain stalls: a packet waits only behind a write of its own queue, and  *)
(* none waits in a cancelled writer, where nothing would start it.            *)
ChainsBusy ==
  \A q \in Queues : queue[q] # <<>> => current[q] # NoPacket /\ ~cancelled

(* Every packet handed to the writer leaves it: written, refused by the       *)
(* device for good, or dropped.                                               *)
PacketsLeave ==
  \A p \in Packets :
    p \in Elems(submitted) ~> p \notin Queued \cup InFlight

(* What the writer promises the engines: a FIFO per queue that may lose       *)
(* packets but never reorders or repeats them.                                *)
Fifo == INSTANCE LossyFifo
          WITH Lanes <- Queues,
               pending <- [q \in Queues |->
                             IF current[q] = NoPacket THEN queue[q]
                                                      ELSE <<current[q]>> \o queue[q]],
               offered <- Elems(submitted),
               out <- wire

LossyFifoSpec == Fifo!Spec

=============================================================================
