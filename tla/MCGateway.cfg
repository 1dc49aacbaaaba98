CONSTANTS
  Requests = {q1, q2}
  NEndpoints = 2
  MaxUpdates = 3
SPECIFICATION GSpec
INVARIANTS TypeOK FailedUpdateReleasesClients LiveTableOpen
           RequestsServedByBuiltTable
PROPERTIES SwapOnlyToBuiltTable ClosedOnlyWhenRetired
CHECK_DEADLOCK FALSE
