SPECIFICATION Spec
CONSTANTS
  Services = {s1}
  Conns = {c1, c2}
  Notes = {n1}
  Nobody = Nobody
  None = None
  MaxReports = 1
INVARIANT
  DisconnectedMeansGone
CHECK_DEADLOCK FALSE
