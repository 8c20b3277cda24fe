\* A rival block while the worker is at work.
SPECIFICATION Spec
CONSTANTS
  alice = alice
  bob = bob
  me = me
  script = script
  empty = empty
  none = none
  Account <- MCAccount
  Code = {script}
  EMPTY_HASH = empty
  Absent = none
  Program <- MCProgram
  STEP_GAS = 1
  BLOCK_REWARD = 2
  BLOCK_GAS_LIMIT = 9
  PoolTx <- NoTxs
  PeerBlock <- PeerChain
  Genesis <- MCGenesis
  InitialLedger <- MCInitialLedger
  Coinbase = me
  Overlap = FALSE
  MaxJobs = 9
INVARIANTS AlwaysMining
CHECK_DEADLOCK FALSE
