CONSTANTS
  k1 = k1
  k2 = k2
  k3 = k3
  k4 = k4
  v1 = v1
  v2 = v2
  n1 = n1
  n2 = n2
  n3 = n3
  n4 = n4
  Keys = {k1, k2, k3, k4}
  Values = {v1, v2}
  Nodes = {n1, n2, n3, n4}
  head = head
  tail = tail
  Null = Null
  Capacity = 3
SPECIFICATION Spec
INVARIANT Consistent
PROPERTY
  IsRecencyList
