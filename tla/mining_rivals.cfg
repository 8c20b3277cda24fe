\* Rival blocks that arrive while no handler waits for a store.
SPECIFICATION Spec
CONSTANTS
  alice = alice
  bob = bob
  me = me
  script = script
  empty = empty
  none = none
  Account <- MCAccount
  Code = {script}
  EMPTY_HASH = empty
  Absent = none
  Program <- MCProgram
  STEP_GAS = 1
  BLOCK_REWARD = 2
  BLOCK_GAS_LIMIT = 9
  PoolTx <- Payments
  PeerBlock <- PeerChain
  Genesis <- MCGenesis
  InitialLedger <- MCInitialLedger
  Coinbase = me
  Overlap = FALSE
  MaxJobs = 4
INVARIANTS LedgerIsReplay TakesOwnResult
PROPERTIES AdoptsChild
CHECK_DEADLOCK FALSE
