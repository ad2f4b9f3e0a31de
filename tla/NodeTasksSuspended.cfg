SPECIFICATION Spec
CONSTANTS
  t1 = t1
  t2 = t2
  n1 = n1
  n2 = n2
  s1 = s1
  s2 = s2
  l1 = l1
  l2 = l2
  l3 = l3
  a1 = a1
  None = None
  Tasks = {t1, t2}
  Nodes = {n1}
  Sessions = {s1}
  Leases = {l1}
  Answers = {a1}
  Kind <- MCKind
  Serves <- MCServes
  TaskThreshold = 2
  NodeThreshold = 2
SYMMETRY Symm
CONSTRAINT OneTask
INVARIANT DisabledSessionCanFinish
