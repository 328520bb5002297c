CONSTANTS
  n1 = n1
  n2 = n2
  n3 = n3
  n4 = n4
  d1 = d1
  d2 = d2
  d3 = d3
  Node = {n1, n2, n3, n4}
  Data = {d1, d2, d3}
  Odd = d2
  Char <- MCChar
  Name = {"long1", "long2", "b", "c", "d", "e"}
  Capacity = {2, 3}
  MaxValue = 60
  NULL = NULL
SPECIFICATION MCSpec
SYMMETRY Symmetry
CHECK_DEADLOCK FALSE
INVARIANTS RingClosed LoadExact
PROPERTIES ListIsSequence QueueIsSequence TableIsMap NoPrimeSkipped
