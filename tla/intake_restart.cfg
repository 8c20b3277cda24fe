\* A chain of three blocks and two crashes at any point.
SPECIFICATION FairSpec
CONSTANTS
  alice = alice
  bob = bob
  miner = miner
  forward = forward
  empty = empty
  none = none
  Handler = {h1, h2}
  Account <- MCAccount
  Code <- MCCode
  EMPTY_HASH = empty
  Absent = none
  Program <- MCProgram
  STEP_GAS = 1
  BLOCK_REWARD = 2
  BLOCK_GAS_LIMIT = 5
  PeerBlock <- ShortChain
  Genesis <- MCGenesis
  BootBlock <- MCBootBlock
  InitialLedger <- MCInitialLedger
  Clock <- MCClock
  Epoch = 3
  BLOCK_TIME = 5
  MaxRestarts = 2
INVARIANTS TypeOK ChainLinked TipStored RelayedOnce
PROPERTIES AdoptsChild AcceptedIsAdopted
CHECK_DEADLOCK FALSE
