\* One sender, messages from peers, blocks adopted meanwhile.
SPECIFICATION Spec
CONSTANTS
  alice = alice
  bob = bob
  miner = miner
  script = script
  empty = empty
  none = none
  Account <- MCAccount
  Code = {script}
  EMPTY_HASH = empty
  Absent = none
  Program <- MCProgram
  STEP_GAS = 1
  BLOCK_REWARD = 2
  BLOCK_GAS_LIMIT = 5
  Handler = {h1, h2}
  Entry = {"message"}
  PoolTx <- OneSender
  Block <- OneSenderBlocks
  InitialLedger <- MCInitialLedger
INVARIANTS PoolIsMineable NoneLost RelayedOnce
CHECK_DEADLOCK FALSE
