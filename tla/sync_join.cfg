\* Two peers on branches that part at block 2, which they extend and flood
\* while a node joins them; a disconnection or an unanswered request, and a
\* crash.
SPECIFICATION SyncFairSpec
CONSTANTS
  alice = alice
  bob = bob
  miner = miner
  forward = forward
  empty = empty
  none = none
  p1 = p1
  p2 = p2
  Handler = {h1}
  Account <- MCAccount
  Code <- MCCode
  EMPTY_HASH = empty
  Absent = none
  Program <- MCProgram
  STEP_GAS = 1
  BLOCK_REWARD = 2
  BLOCK_GAS_LIMIT = 5
  PeerBlock <- BranchBlocks
  Genesis <- MCGenesis
  BootBlock <- MCBootBlock
  InitialLedger <- MCInitialLedger
  Clock <- MCLateClock
  Epoch = 2
  BLOCK_TIME = 10
  MaxRestarts = 1
  Peer <- MCPeer
  Branch <- ForkedBranches
  StartHeight <- MCStartHeight
  FIRST_ACCOUNT = alice
  INITIAL_SUPPLY = 20
  GENESIS_HASH = none
  NoHash = none
  NoBlock = none
  Overlap = FALSE
  MaxFaults = 1
INVARIANTS QueueAnswersQuestion JoinedStateIsReplay IndexSurvives
PROPERTIES JoinsOneBranch CatchesUp
CHECK_DEADLOCK FALSE
