\* Blocks of up to five transactions, in base 3 and with fields of a few
\* digits, so that every field is filled.
SPECIFICATION Spec
CONSTANTS
  BASE = 3
  HASH = 2
  AMOUNT = 2
  NONCE = 4
  TX_NONCE = 2
  LONG = 2
  Income <- MCIncome
  Payments <- MCPayments
  Headers <- MCHeaders
  MaxTxs = 5
INVARIANTS AccountReadsBack BlockReadsBack PathsProve RootBinds
CHECK_DEADLOCK FALSE
