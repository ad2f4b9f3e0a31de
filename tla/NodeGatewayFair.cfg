SPECIFICATION GatewaySpec
CONSTANTS
  t1 = t1
  t2 = t2
  n1 = n1
  s1 = s1
  s2 = s2
  l1 = l1
  l2 = l2
  a1 = a1
  None = None
  Tasks = {t1, t2}
  Nodes = {n1}
  Sessions = {s1}
  Leases = {l1, l2}
  Answers = {a1}
  Kind <- MCKind
  Serves <- MCServes
  Home <- MCHome
  TaskThreshold = 2
  NodeThreshold = 1
CONSTRAINTS OneTask LeasesInOrder
INVARIANT AnswersAreTrue
PROPERTIES
    TasksEnd
    RequestsAnswered
    LostHintsRecovered
