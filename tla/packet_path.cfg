CONSTANTS
  p1 = p1
  p2 = p2
  Packets = {p1, p2}
  s1 = s1
  s2 = s2
  Services = {s1, s2}
  nullptr = nullptr
  packet_queue_length = 1
  Node = s1
  Processing = processing
  w1 = w1
  Workers = {w1}
  nobody = nobody
  Outputs <- MCOutputs
  Items <- MCItems
  scratch_size = 5
  MaxTransactions = 2
SPECIFICATION MCFairSpec
INVARIANT TypeOK
INVARIANT OneOwner
 
INVARIANT TransactionArrives
 
