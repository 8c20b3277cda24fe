\* A miner without rivals whose stores answer before the next event.
SPECIFICATION FairSpec
CONSTANTS
  alice = alice
  bob = bob
  me = me
  script = script
  empty = empty
  none = none
  Account <- MCAccount
  Code = {script}
  EMPTY_HASH = empty
  Absent = none
  Program <- MCProgram
  STEP_GAS = 1
  BLOCK_REWARD = 2
  BLOCK_GAS_LIMIT = 9
  PoolTx <- Work
  PeerBlock <- NoBlocks
  Genesis <- MCGenesis
  InitialLedger <- MCInitialLedger
  Coinbase = me
  Overlap = FALSE
  MaxJobs = 4
INVARIANTS LedgerIsReplay OwnBlocksAnnounced AlwaysMining
PROPERTIES ChainGrows
CHECK_DEADLOCK FALSE
