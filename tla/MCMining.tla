------------------------------- MODULE MCMining -------------------------------
(* Transactions and blocks for the runs of Mining.                          *)
EXTENDS Mining

CONSTANTS alice, bob, me, script, empty, none

MCAccount == {alice, bob, me}
\* script pays the miner, who deploys nothing.
MCProgram == [c \in {script} |-> [steps |-> 1, revert |-> FALSE, amount |-> 1, payee |-> me]]

Tx(sender, nonce, recipient, amount) ==
  [sender |-> sender, nonce |-> nonce, recipient |-> recipient, amount |-> amount,
   gas |-> 1, contractGas |-> 0, scBody |-> empty]

MCGenesis == [hash |-> <<"peer", 1>>, parentHash |-> <<"none", 0>>, blockNumber |-> 1,
              txs |-> << >>, coinbase |-> alice]

PeerChild(n, txs) ==
  [hash |-> <<"peer", n>>, parentHash |-> <<"peer", n - 1>>, blockNumber |-> n,
   txs |-> txs, coinbase |-> alice]

MCInitialLedger ==
  [a \in MCAccount |-> IF a = alice THEN [balance |-> 12, nonce |-> 0, codeHash |-> empty] ELSE none]

\* Payments, a deployment by bob, a call of his contract, and a payment that
\* its sender cannot make.
Work == {Tx(alice, 1, bob, 4), [Tx(bob, 1, me, 0) EXCEPT !.scBody = script],
         [Tx(alice, 2, bob, 1) EXCEPT !.contractGas = 1],
         Tx(alice, 2, me, 99), Tx(alice, 3, me, 0)}

Payments == {Tx(alice, 1, bob, 4), Tx(alice, 2, bob, 1)}

NoTxs == {}
NoBlocks == {}
PeerChain == {PeerChild(2, <<Tx(alice, 1, bob, 2)>>), PeerChild(3, << >>)}

=============================================================================
