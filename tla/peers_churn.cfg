\* Two nodes join through a third, with one refused dial, lost connection or
\* crash at any point.
SPECIFICATION FairSpec
CONSTANTS
  a = a
  b = b
  c = c
  Node = {a, b, c}
  PEERS <- OneSeed
  MAX_PEERS = 10
  MaxDials = 2
  MaxCopies = 1
  MaxFaults = 1
INVARIANTS ListsAgree Introduces
PROPERTIES KeepsOthers Heals
CHECK_DEADLOCK FALSE
