SPECIFICATION Spec
CONSTANTS
  pool = pool
  engine = engine
  other = other
  t1 = t1
  t2 = t2
  t3 = t3
  Chain <- MCChain
  ContractIds <- MCContractIds
  FirstLedger = 4
  MaxLedger = 7
  RETENTION = 3
  LEDGER_SPAN = 2
  EVENT_PAGE_SIZE = 2
  MAX_PAGES_PER_BATCH = 2
  DEFAULT_LOOKBACK_LEDGERS = 2
  MAX_CONTRACT_IDS_PER_FILTER = 2
  MAX_FILTERS_PER_REQUEST = 1
  RETRIES = 1
  MaxFaults = 1
  MaxCrashes = 2
INVARIANT NothingMissed
INVARIANT RowsFollowTheLog
PROPERTY CatchesUp
CHECK_DEADLOCK TRUE
