CONSTANTS
  p1 = p1
  p2 = p2
  Producers = {p1, p2}
  c1 = c1
  c2 = c2
  Consumers = {c1, c2}
  a = a
  b = b
  Items = {a, b}
  nullptr = nullptr
  queue_size_ = 3
SPECIFICATION Spec
INVARIANT NoNeedlessSleep
PROPERTY IsFifo
SYMMETRY Symmetry
