\* The block of one peer is ahead of the clock, the block of the other is not.
SPECIFICATION SyncSpec
CONSTANTS
  alice = alice
  bob = bob
  miner = miner
  forward = forward
  empty = empty
  none = none
  p1 = p1
  p2 = p2
  Handler = {h1}
  Account <- MCAccount
  Code <- MCCode
  EMPTY_HASH = empty
  Absent = none
  Program <- MCProgram
  STEP_GAS = 1
  BLOCK_REWARD = 2
  BLOCK_GAS_LIMIT = 5
  PeerBlock <- BranchBlocks
  Genesis <- MCGenesis
  BootBlock <- MCBootBlock
  InitialLedger <- MCInitialLedger
  Clock <- MCEarlyClock
  Epoch = 2
  BLOCK_TIME = 10
  MaxRestarts = 0
  Peer <- MCPeer
  Branch <- ForkedBranches
  StartHeight <- MCStartHeight
  FIRST_ACCOUNT = alice
  INITIAL_SUPPLY = 20
  GENESIS_HASH = none
  NoHash = none
  NoBlock = none
  Overlap = FALSE
  MaxFaults = 0
INVARIANT StoresWhatItVerified
CHECK_DEADLOCK FALSE
