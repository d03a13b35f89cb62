\* A walker and another reader; pages of two and of three instances; one
\* change of the table and one expired marker.
SPECIFICATION Spec
CONSTANTS
  r1 = r1
  Rows <- AllRows
  InitialRows <- Present
  Setups <- ThreePaginators
  Readahead = 2
  Others = {r1}
  MaxPage = 3
  MaxChanges = 1
  MaxExpired = 1
CHECK_DEADLOCK FALSE
INVARIANTS WalkSeesEverything MarkersEndTheirPage CountWithinTable
