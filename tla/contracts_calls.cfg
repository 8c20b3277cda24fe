\* Two contracts called in blocks, with requests for their stores; runs that
\* end, revert and run out of gas.
SPECIFICATION FairSpec
CONSTANTS
  STEP_GAS = 1
  WORD = 2
  Contract <- MCContract
  Program <- MCProgram
  Blocks <- MCBlocks
  InitialBalance <- MCInitialBalance
  BLOCK_REWARD = 1
  MaxBlocks = 3
INVARIANTS TypeOK StoreClosedBehind Conserved RootDescribesStore
PROPERTIES BlocksEnd
CHECK_DEADLOCK FALSE
