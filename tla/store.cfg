SPECIFICATION IngestSpec
CONSTANTS
  c1 = c1
  c2 = c2
  lead = lead
  kyc = kyc
  Clients = {c1, c2}
  Backends = {"memory", "postgres"}
  MayFail = TRUE
  MaxRecords = 4
  MaxTime = 1
  Events = {lead, kyc}
  Kind <- Applicant
  Carries <- Contents
INVARIANTS
  OneRecordAtATime
  CacheNeverAhead
  NothingLostInSequence

  
