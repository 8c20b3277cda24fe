------------------------------- MODULE MCIntake -------------------------------
(* Blocks, accounts and programs for the runs of Intake.                    *)
EXTENDS Intake

CONSTANTS alice, bob, miner, forward, empty, none

MCAccount == {alice, bob, miner}
MCCode == {forward}
\* forward passes 2 coins on to the miner.
MCProgram == [c \in MCCode |->
  [steps |-> 1, revert |-> FALSE, amount |-> 2, payee |-> miner]]

Tx(sender, nonce, recipient, amount) ==
  [sender |-> sender, nonce |-> nonce, recipient |-> recipient, amount |-> amount,
   gas |-> 1, contractGas |-> 0, scBody |-> empty]

\* Difficulty 2 is what the retarget at block 3 gives for BLOCK_TIME = 10.
MCBlock(name, parent, number, txs) ==
  [hash |-> name, parentHash |-> parent, blockNumber |-> number, timestamp |-> 10 * number,
   difficulty |-> IF number > Epoch THEN 2 ELSE 1, txs |-> txs, coinbase |-> miner,
   sealed |-> TRUE, rootOk |-> TRUE]

MCGenesis == [MCBlock("genesis", "", 1, << >>) EXCEPT !.coinbase = alice]
MCBootBlock == [MCGenesis EXCEPT !.hash = "boot", !.timestamp = 90]

MCInitialLedger ==
  [a \in MCAccount |-> IF a = alice THEN [balance |-> 22, nonce |-> 0, codeHash |-> empty] ELSE none]

-----------------------------------------------------------------------------
\* A chain that transfers, deploys a contract and calls it.
Transfer   == MCBlock("b2", "genesis", 2, <<Tx(alice, 1, bob, 8), Tx(alice, 2, miner, 1)>>)
Deployment == MCBlock("b3", "b2", 3, <<[Tx(bob, 1, alice, 1) EXCEPT !.scBody = forward]>>)
Call       == MCBlock("b4", "b3", 4, <<[Tx(alice, 3, bob, 3) EXCEPT !.contractGas = 2]>>)

\* Blocks no node may adopt.
OutOfGas   == MCBlock("b5", "b4", 5, <<Tx(alice, 4, bob, 1)>>)
BadRoot    == [MCBlock("r2", "genesis", 2, <<Tx(alice, 1, miner, 8)>>) EXCEPT !.rootOk = FALSE]
BadNonce   == MCBlock("n3", "b2", 3, <<Tx(alice, 9, bob, 1)>>)
BadNumber  == MCBlock("u3", "b2", 4, << >>)
Overspent  == MCBlock("o2", "genesis", 2, <<Tx(alice, 1, bob, 99)>>)
Unsealed   == [MCBlock("s2", "genesis", 2, << >>) EXCEPT !.sealed = FALSE]

LinearBlocks == {Transfer, Deployment, Call, OutOfGas, BadRoot, BadNonce, BadNumber, Overspent, Unsealed}

\* A short chain, for crashes, liveness and blocks that overtake each other.
Empty3 == MCBlock("e3", "b2", 3, << >>)
Misparented == MCBlock("m3", "elsewhere", 3, << >>)
ShortChain == {Transfer, Empty3, Misparented}

MCClock == {25, 100}

=============================================================================
