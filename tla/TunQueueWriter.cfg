SPECIFICATION FairSpec
CONSTANTS
  p1 = p1  p2 = p2  p3 = p3  p4 = p4
  f1 = f1
  q1 = q1  q2 = q2
  Packets = {p1, p2, p3, p4}
  Flows = {f1}
  FlowOf <- MCFlowOf
  LaterFragments = {p4}
  Queues = {q1, q2}
  Hash <- MCHash
  QueueMax = 2
  RetryLimit = 1
  NoPacket = NoPacket
INVARIANTS
  TypeOK
  Accounting
  HandlersOnce
  ChainsBusy
PROPERTIES
  PacketsLeave
  LossyFifoSpec
