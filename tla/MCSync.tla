-------------------------------- MODULE MCSync --------------------------------
(* Branches for the runs of Sync.                                           *)
EXTENDS Sync, MCIntake

CONSTANTS p1, p2

\* Two branches that part at block 2; block 3 of each is asked the difficulty
\* that the retarget at block 2 gives.
Second == [MCBlock("d2", "genesis", 2, <<Tx(alice, 1, miner, 8)>>) EXCEPT !.timestamp = 25]
Third  == MCBlock("d3", "d2", 3, <<Tx(alice, 2, bob, 1)>>)
Fork2  == [MCBlock("f2", "genesis", 2, << >>) EXCEPT !.coinbase = bob]
Fork3  == MCBlock("f3", "f2", 3, <<Tx(bob, 1, alice, 1)>>)

MainBranch == <<MCGenesis, Second, Third>>
ForkBranch == <<MCGenesis, Fork2, Fork3>>

MCPeer == {p1, p2}
ForkedBranches == [p \in MCPeer |-> IF p = p1 THEN MainBranch ELSE ForkBranch]
MCStartHeight == [p \in MCPeer |-> 2]
BranchBlocks == Range(MainBranch) \cup Range(ForkBranch)

\* A clock ahead of every block, and one that is behind the block Second.
MCLateClock  == {100}
MCEarlyClock == {22}

=============================================================================
