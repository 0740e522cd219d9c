SPECIFICATION Spec
\* The service is idle once requests and failures are used up.
CHECK_DEADLOCK FALSE
CONSTANTS
  Payloads <- MCPayloads
  MaxRequests = 4
  MaxFailures = 2
INVARIANTS
  TypeOK
  HandsOutChecked
  KeepsWhatWasSaved
