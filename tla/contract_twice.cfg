\* Two calls of one contract in a block.
SPECIFICATION Spec
CONSTANTS
  STEP_GAS = 1
  WORD = 2
  Contract <- MCContract
  Program <- MCProgram
  Blocks <- TwoCalls
  InitialBalance <- MCInitialBalance
  BLOCK_REWARD = 1
  MaxBlocks = 1
INVARIANTS StorageIsKept
CHECK_DEADLOCK FALSE
