\* One chain of valid blocks, received in any order and any number of times
\* among blocks that must be rejected; no crash.
SPECIFICATION Spec
CONSTANTS
  alice = alice
  bob = bob
  miner = miner
  forward = forward
  empty = empty
  none = none
  Handler = {h1, h2}
  Account <- MCAccount
  Code <- MCCode
  EMPTY_HASH = empty
  Absent = none
  Program <- MCProgram
  STEP_GAS = 1
  BLOCK_REWARD = 2
  BLOCK_GAS_LIMIT = 5
  PeerBlock <- LinearBlocks
  Genesis <- MCGenesis
  BootBlock <- MCBootBlock
  InitialLedger <- MCInitialLedger
  Clock <- MCClock
  Epoch = 3
  BLOCK_TIME = 10
  MaxRestarts = 0
INVARIANTS AccountsWellFormed BlockFoundByHash TxFoundByHash SupplyConserved DifficultyFollowsChain
PROPERTIES ImplementsLedgerLog
CHECK_DEADLOCK FALSE
