SPECIFICATION FairSpec
CONSTANTS
  Services = {s1, s2}
  Conns = {c1, c2, c3}
  Notes = {n1}
  Nobody = Nobody
  None = None
  MaxReports = 1
INVARIANTS
  TypeOK
  RegistryIsLive
  GoneIsReported
PROPERTIES
  OnlyOwnEntryDropped
  AbsenceShows
  ReaderGetsItsNotes
CHECK_DEADLOCK FALSE
