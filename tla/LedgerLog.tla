------------------------------ MODULE LedgerLog ------------------------------
(***************************************************************************)
(* What a JeChain node promises, without its stores and handlers: the      *)
(* chain grows by one block at a time, each block extends the tip and is   *)
(* valid in the ledger its predecessors left, and the ledger is the result *)
(* of applying each block of the chain exactly once (the comment at the    *)
(* head of verifyBlock, src/consensus/consensus.js).                       *)
(*                                                                         *)
(* What a block does to a ledger is a parameter: any replay will do, as    *)
(* long as the same one decides and writes.                                *)
(***************************************************************************)
EXTENDS Naturals

CONSTANTS
  Block,                   \* the blocks the node may be sent
  Genesis,                 \* the block the chain starts with
  InitialLedger,           \* the account state after the genesis block
  EMPTY_HASH,              \* the code hash of an account without code
  HasValidTxOrder(_, _),   \* do the transactions continue the ledger's nonces?
  Transit(_, _, _)         \* the verdict on a block and the accounts it changes

VARIABLES
  chain,    \* block number -> block
  tip,      \* the last block of the chain
  ledger,   \* address -> account state
  codes     \* hashes of the contract code that is stored

vars == <<chain, tip, ledger, codes>>

Init ==
  /\ chain = [n \in {Genesis.blockNumber} |-> Genesis]
  /\ tip = Genesis
  /\ ledger = InitialLedger
  /\ codes = {EMPTY_HASH}

ExtendsTip(block) ==
  /\ block.parentHash = tip.hash
  /\ block.blockNumber = tip.blockNumber + 1
  /\ block.timestamp > tip.timestamp

Extended(block) ==
  [n \in DOMAIN chain \cup {block.blockNumber} |->
     IF n = block.blockNumber THEN block ELSE chain[n]]

\* The ledger with the accounts in states replaced.
Updated(states) ==
  [a \in DOMAIN ledger |-> IF a \in DOMAIN states THEN states[a] ELSE ledger[a]]

AppendBlock(block) ==
  /\ ExtendsTip(block)
  /\ HasValidTxOrder(ledger, block.txs)
  /\ LET result == Transit(ledger, codes, block)
     IN  /\ result.status = "ok"
         /\ ledger' = Updated(result.states)
         /\ codes' = codes \cup {result.states[a].codeHash : a \in DOMAIN result.states}
  /\ chain' = Extended(block)
  /\ tip' = block

Next == \E block \in Block : AppendBlock(block)

Spec == Init /\ [][Next]_vars

=============================================================================
