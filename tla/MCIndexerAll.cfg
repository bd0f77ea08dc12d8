CONSTANTS
  r1 = r1
  r2 = r2
  r3 = r3
  w1 = w1
  w2 = w2
  NoReq = NoReq
  Requests <- MCRequests
  Workers <- MCWorkers
  Ingestors <- MCIngestors
  MaxQueueSize = 1
SPECIFICATION Spec
INVARIANT TypeOK
INVARIANT DrainedWhenOffline
INVARIANT NoClosedDrop
INVARIANT ProbeSchedule
CHECK_DEADLOCK FALSE
