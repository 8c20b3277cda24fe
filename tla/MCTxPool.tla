------------------------------- MODULE MCTxPool -------------------------------
(* Transactions and blocks for the runs of TxPool.                          *)
EXTENDS TxPool

CONSTANTS alice, bob, miner, script, empty, none

MCAccount == {alice, bob, miner}
MCProgram == [c \in {script} |-> [steps |-> 1, revert |-> FALSE, amount |-> 0, payee |-> miner]]

Tx(sender, nonce) ==
  [sender |-> sender, nonce |-> nonce, recipient |-> miner, amount |-> 1,
   gas |-> 1, contractGas |-> 0, scBody |-> empty]

MCBlock(txs) == [txs |-> txs, coinbase |-> miner]

Rich == [balance |-> 20, nonce |-> 0, codeHash |-> empty]
MCInitialLedger == [a \in MCAccount |-> IF a = miner THEN none ELSE Rich]

\* Three transactions of alice, and one that competes with her second.
Rival2 == [Tx(alice, 2) EXCEPT !.amount = 2]
OneSender == {Tx(alice, 1), Tx(alice, 2), Tx(alice, 3), Rival2}
OneSenderBlocks == {MCBlock(<<Tx(alice, 1)>>), MCBlock(<<Tx(alice, 2)>>),
                    MCBlock(<<Tx(alice, 1), Rival2>>)}

=============================================================================
