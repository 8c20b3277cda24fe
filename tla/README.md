# Verification of JeChain in TLA+

JeChain is a proof-of-work blockchain node in JavaScript: one Node.js process per
node, five LevelDB stores, WebSocket messages between peers, a child process that
mines, a small contract language and an HTTP interface. This directory models the
node in TLA+, checks the models with TLC on small instances and proves theorems
about them with TLAPS.

## 1. The system

Everything but the mining worker runs on one event loop. An `async` handler runs
without interruption until it awaits a store; then any other handler may run.
There is no lock anywhere: the hard behaviours of this program are the orders in
which handlers that await stores overlap, and what is left on disk when the
process dies between two writes.

| Component | Source (under `src/src` unless noted) | State | Operations | Correct when |
|---|---|---|---|---|
| Block intake | `node/server.js` 81-149, `consensus/consensus.js` | `chainInfo.latestBlock`, `difficulty`, `checkedBlock`; stores `stateDB`, `codeDB`, `blockDB`, `bhashDB`, `txhashDB` | NEW_BLOCK: filter, `verifyBlock`, flush, `updateDifficulty`, index, flood | every adopted block extends the tip, is verified against the state its predecessors left, is applied once and is found by its hashes |
| Ledger | `core/block.js`, `core/transaction.js` | accounts: balance, nonce, code hash, storage root | `isValid`, `hasValidTxOrder`, `verifyTxAndTransit` | money is conserved, nothing is overdrawn, nonces count up |
| Start-up, genesis | `node/server.js` 306-330, `core/genesis.js`, `core/state.js` | the stores | first start, reload, `changeState` | a restart continues the chain on disk |
| Transaction pool | `core/txPool.js`, `node/server.js` 151-197, 405-411 | `chainInfo.transactionPool` | CREATE_TRANSACTION, `sendTransaction`/`addTransaction`, `clearDepreciatedTxns` | a sender's transactions in the pool continue the account's nonce; none that was accepted is lost |
| Mining | `node/server.js` 413-620, `miner/worker.js` | `worker`, `mined`, the job's working set | `loopMine`, `mine`, the worker's answer | what is mined is valid for every peer; mining goes on |
| Chain sync | `node/server.js` 199-290, 336-362, `node/queue.js` | `syncQueue`, `syncing`, `latestSyncBlock`, `currentSyncBlock`, `ENABLE_CHAIN_REQUEST` | REQUEST_BLOCK, SEND_BLOCK, `SyncQueue.add/sync/wipe` | blocks are applied in order and once; a node that joins ends with the state of its chain |
| Peers | `node/server.js` 292-301, 368-402, `node/message*.js` | `opened`, `connected`, `connectedNodes` | HANDSHAKE, `connect`, open, close | the two lists agree; every two nodes end up connected |
| Contract runtime | `core/runtime.js`, `core/block.js` 190-245 | memory, storage and accounts of a call; a LevelDB directory per contract | `jelscript`, and the writes of the storage | a block that fails changes nothing; the storage root of an account describes its store |
| Merkle trie | `core/merkle.js` | none | `buildTxTrie`, `getTxTriePath` | the path of a transaction leads to the root, and the root binds the list |
| Serialisation | `core/block.js` 27-113, `core/transaction.js` 20-130, `utils/utils.js` | none | `serialize`, `deserialize`, `serializeState` | what is written is what is read |
| RPC | `rpc/rpc.js` | a LevelDB lock per contract | 14 read requests, `sendTransaction`, `signTransaction` | answers describe the chain |
| Entry point, keygen | `src/index.js`, `src/utils/keygen.js` | none | read the configuration, print a key | not modelled |

Interaction: intake, mining and sync all write the five stores and `chainInfo`, and
none of them excludes the others. The pool reads `stateDB`, is read by the miner and
replaced at the end of intake and mining. The RPC server reads the stores and hands
transactions to the pool. The list `hazards` in `PROJECT.json` names each place where
this can go wrong, and the properties that watch it.

## 2. Modules

| Module | What it is | Depends on |
|---|---|---|
| `Ledger` | accounts, transactions, what a block does to them; operators only | |
| `LedgerLog` | abstract specification: a log of valid blocks and the ledger they produce | |
| `FoldTheorems` | what the folds of the library compute, proved by induction; recursive functions | |
| `LedgerProofs` | the theorems about what one block does to the accounts | `Ledger`, `FoldTheorems` |
| `Intake` | NEW_BLOCK from message to relay, await by await, and restart | `Ledger` |
| `IntakeProofs` | the theorems about `Intake`, and that it implements `LedgerLog` | `Intake`, `LedgerLog`, `LedgerProofs` |
| `PoolRules` | admission, sweep and selection of the pool; operators only | `Ledger` |
| `TxPool`, `TxPoolProofs` | the pool under concurrent submission, adoption and sweep; theorems | `PoolRules`, `LedgerProofs` |
| `Mining` | the mining loop, the worker processes and NEW_BLOCK on a miner | `PoolRules` |
| `MiningProofs` | the theorems about the race for a block, and about the ledger of what is mined and received | `Mining`, `LedgerProofs` |
| `Sync` | a node that joins: its requests, the queue, the handler of an answer, NEW_BLOCK meanwhile, peers that grow, crashes | `Intake` |
| `SyncProofs` | the theorems about the queue, the branch that is joined, its ledger and its indexes | `Sync`, `IntakeProofs` |
| `Peers`, `PeersProofs` | how nodes find each other, the lists they keep; theorems | |
| `Jelscript` | one instruction of the contract language; operators only | |
| `Contracts`, `ContractsProofs` | blocks that run contracts, the stores of contracts, RPC requests that read them; theorems | `Jelscript` |
| `Merkle` | the transaction tree and its paths; operators only | |
| `Wire` | accounts, transactions and blocks as bytes | `Merkle` |
| `MC...` | blocks, accounts, peers and programs for TLC | the module each is named after (`MCSync` also `MCIntake`) |

A step of a model is what runs between two awaits: it begins when a store, a timer, a
worker or a peer answers and ends at the next await. Handlers overlap in every
order those steps allow. An operator commented "Mutant" is a wrong version of its
neighbour; no specification uses it, and substituting it shows that a property
depends on that code.

### Ledger

Accounts are records of balance, nonce and code hash; an address without one is
`Absent`. `Transit` is `verifyTxAndTransit` up to its first write: it folds
`SettleTx` over the transactions, keeping the working set (`states`, `code`) the code
keeps, and pays the coinbase. `Execute` is one transaction: debit, credit,
deployment, nonce, and the contract of the recipient. A contract is summarised by
the number of its steps, whether it ends in `revert`, and the payment it makes;
running out of gas and the exception that `revert` causes in the caller (it returns
one value where a pair is taken apart) are kept. `RunContract` leaves the accounts it
pays without loaded code, as `jelscript` does: that is what makes a flush throw.
Left out: contract storage and `storageRoot` (`Contracts`), signatures (a transaction
names its sender), and the width of what is stored (`Wire`).

### Intake

State: the five stores, the three fields of `chainInfo` this path uses, the program
counter and working set of each handler, and the blocks sent on.
`Discard`/`Receive` are lines 85-109 of `server.js` up to the first await of
`verifyBlock`; `CheckOrder`, `Replay`, `FlushState`, `FlushCode`, `UpdateDifficulty`,
`PutBlock`, `PutBhash`, `PutTxhash` and `Relay` follow the awaits. `latestBlock` is
read again after the nonce check exactly where `verifyBlock` does. `Restart` forgets
memory and keeps the stores; `LoadChain` is the part of `startServer` that reloads the
chain, and messages are accepted before it, as in the code.

A throw ends only the handler, because the process installs a listener for
`uncaughtException` (server.js:65), so a node lives on with what was written so far.

Abstractions:
 - The pool is not here: the path replaces it and never reads it. `TxPool` has it.
 - `Replay` is one step although it awaits stores: between its reads only another
   handler could write accounts, and the invariant `Unique` of `IntakeProofs` says when
   two are there. The properties that fail with two handlers fail anyway;
   those that hold are about runs with one.
 - Accounts are flushed in any order; the code uses the insertion order of an object.
 - Hash arithmetic is two bits of a block: `sealed` and `rootOk`.

### TxPool

The pool is a JavaScript array that is pushed to and replaced. `arrays` is the
history of the arrays, the last being the pool, because `addTransaction` keeps one
across an await (line 29). A submission is `Submit`, `CheckValid` (after
`isValid`), `CheckNonce` (after the second read). `Adopt`, `FlushAccount` stand for
any block handler; `StartSweep`, `SweepTx` are `clearDepreciatedTxns`, a round per
await, over an array that grows meanwhile. One adoption runs at a time (two are the
subject of `Intake`), and the assignment of the result shares a step with the last
round.

### Mining

State: accounts, chain, pool; `mined`; the two variables of `loopMine`; every worker
process with its queue, listeners and answers; every call of `mine()`; the NEW_BLOCK
handler. `Tick` is the timer, `Collect` the selection, `Solve` the worker, `Deliver`
the arrival of an answer at all the jobs that listen to that worker, and `PutBlock`,
`Index`, `Reward`, `FlushAccount`, `Complete` the writes. A killed worker computes
nothing more; what it had sent arrives late (`Deliver`) or never (`Lose`).

Abstractions: the two index stores, difficulty and timestamps are left out; the
selection, the verification of a rival and the sweep are one step each; an account
and its code are written together; a rival is one handler without the filter of
checked blocks. The constant `Overlap` says whether an event may be handled while a
handler waits for a store; without it the timer also waits for the late answers of a
killed worker, which take milliseconds where it waits a second. `Overlap = FALSE` is not
what Node guarantees: in the runs it isolates the logic of mining from its races
(section 3). The theorems do without it and name the races instead (section 4). `mining_stalls` fails with
`Overlap = FALSE`, and needs no race.

### Sync

`Sync` extends `Intake`: the stores, the fields of `chainInfo` and the NEW_BLOCK
handlers are those of `Intake`, so the two paths that write the chain meet in one model.
It adds `currentSyncBlock`, `latestSyncBlock`, `ENABLE_CHAIN_REQUEST`, the queue of
`queue.js` with its flag `syncing`, the block whose handler it runs (`message`: the
handler closes over the message it came in), the program counter of that handler, and
the peers: how much of its branch each has, who is connected, and the requests, answers
and floods on their way.

`RequestFirst` is the timer of `startServer`; `ReceiveSent` is SEND_BLOCK up to the
first await of the handler (`RunQueue` is `SyncQueue.sync`, which may reject several
blocks before one awaits); `SyncOrder`, `SyncReplay`, `SyncFlush`, `SyncPutBlock`,
`SyncPutBhash`, `SyncPutTxhash`, `SyncReward` and `SyncDifficulty` follow the awaits.
`Wedge` is an exception in the handler, which leaves `syncing` set for ever.
`ReceiveFlood` and `NewBlockStep` are NEW_BLOCK with what sync adds to it. `Answer` and
`Throw` are REQUEST_BLOCK on the peer; `SyncRestart` is a crash and the start-up after
it, up to the timer. `SyncReward` is `changeState`, which is called with a block whose
transactions are still bytes: it throws at the first of them.

Abstractions: the peers are external and follow fixed branches; a request is a message
in a set, so that two equal ones to a peer count as one; floods of one peer keep their
order, answers do not; the verification is one step, as in `Intake`; the node does not
mine. `Overlap` is as in `Mining`.

### Peers

Per node: how far start-up has come, the sockets that are dialled and not open,
`opened`, `connected`, `connectedNodes`; between nodes: the HANDSHAKE messages and the
`close` events that are still to come. `DialPeers`, `Open`, `Handshake` and `Close` are
the callbacks, each a single step as none of them awaits; `Refuse`, `Lose`, `Crash` and
`Restart` are what the network and the processes do to them. `Splice` is JavaScript's,
where an index of -1 names the last element. A second socket to an address that is
already listed stays open unused and has no `close` listener; it is not in the model.

### Jelscript and Contracts

`Jelscript` is the interpreter: `Execute` is one round of its loop, `Verdict` the
conditions under which the loop ends, `Paid` the gas. Values are numbers instead of hex
strings. `Misread` keeps what the code does where it writes decimal digits behind `0x`:
in the comparisons, whose sum is made before the comparison, and in `txvalue`, `txgas`
and `txexecgas`. Left out: `sha256`, `blockhash`, `log`.

`Contracts` is `verifyTxAndTransit` around it: `Transfer`, `Load`, `ReadStore`,
`Instruction`, `Throw`, `Return`, `PayCoinbase`, and the writes: `Flush` and `PutKeys` for each
store, then `PutAccount`, one account with its text per step. The stores of contracts are
LevelDB directories that one handle at a time may open: `OpenStore` takes the lock, and a
call or a write that finds it taken throws, which drops the block. `code` are the texts
that have been loaded: `Loading` adds that of an account touched first by a transaction or
by the reward, and a payment by a contract adds none. `Unloaded` then makes a call throw
(`Load`) and the write of that account throw after its balance was put (`PutAccount`,
block.js:250): the block is not adopted, and what it has written stays (`Tear`).
`unwritten` are the accounts still to be written. Two history variables tell what torn
blocks leave: `torn`, for each, whether accounts or only stores were written; `stale`, the
contracts whose store has no root since. `GetStorage` and `GetStorageKeys` are the requests that take it
too; the first keeps it when it does not find its key (`Release` is then the garbage
collector). A storage root is represented by the storage it is the hash of. The accounts are
written in any order, where the code takes that of an object's keys. Left out: nonces,
deployments and the gas limit, which are in `Ledger` and `Intake`.

### Merkle and Wire

`Merkle` is `merkle.js`, with a hash as the term it is the hash of: the hash of a pair
as a set of two, because the code orders them by size. `Wire` is what is written and
read, digit by digit (`Field` is `padStart`, which never cuts), with the base and every
width as a parameter, so that a small base reaches the limits of the fields. Its actions
make the values: an account is paid (`Earn`), signs what it can pay (`Sign`) and is
charged for it in a block that travels as bytes (`Mine`); the account is read from its
bytes and written back each time (`Rewritten`). `Wire` keeps the account as it is meant
(`account`) beside the bytes (`record`), and the block as mined (`sent`) beside its bytes. Hashes, keys and signatures are numbers that fit their fields.

## 3. Runs

| Run | Result | Shows |
|---|---|---|
| `intake_linear` | holds | among valid and invalid blocks in any order the node is a ledger log (`ImplementsLedgerLog`), money is conserved, no account is overdrawn, indexes lead to their blocks, the difficulty is that of the chain |
| `intake_restart` | holds | two crashes at any step: the stored chain stays linked, its tip is found, no process floods a block twice, and a block that `verifyBlock` accepts becomes the latest unless the process dies |
| `pool_one_sender` | holds | the pool of one sender always continues its account; nothing is lost, nothing circulates |
| `mining_alone` | holds | the chain replays to the accounts, blocks are announced, a next job always follows, and the chain grows |
| `mining_rivals` | holds | with rival blocks there is one chain, its replay the accounts |
| `mining_stalls` | fails `AlwaysMining` | after a rival block the next own one is dropped and mining stops |
| `sync_join` | holds | a node joins two peers on different branches: no late or repeated answer is taken for the next block, it takes one branch, its accounts are the replay of what it stores, the indexes survive a crash, and it catches up with whom it asked |
| `sync_bytes` | fails `StoresWhatItVerified` | what is stored is the message that started the queue, not the block that was verified |
| `peers_churn` | holds | with a refused dial, a lost connection or a crash at any point the two lists agree, a close removes its own entry only, contacts become mutual and are passed on, and what has not been harmed ends in a full mesh |
| `contracts_calls` | holds | contracts that store, pay (also themselves and their caller), loop, revert and run out of gas, between RPC requests: money is conserved at each instruction and each write until a block throws between its accounts, a store without its root is one that a torn block left, no store stays open, every block ends |
| `contract_twice` | fails `StorageIsKept` | a second call of a contract in a block begins with an empty storage |
| `wire_blocks` | holds | what is read is what was written, up to the largest balance, the most transactions and the longest arguments; every transaction has a path to the root that no other has, and no list with one removed, doubled or exchanged has the same root |

Each failing run is a disagreement between the code and a statement of the
repository; `findings` in `PROJECT.json` quotes the statement.

### What fails without a run of its own

The runs that hold fix the conditions under which their properties hold; outside them
TLC finds behaviours of the code that break them. Each of these was seen in a trace
after the change given here.

 - `Intake`, two children of one block among the peer blocks: both are adopted
   (`AdoptsChild` fails), although consensus.js:17 asks that the parent be the latest
   block: it is compared before the awaits of `verifyBlock` and the latest block is
   replaced after them.
 - `Intake`, a block that arrives before its parent: it is marked as checked, and every
   later copy is ignored although it then extends the chain.
 - `intake_linear` with one crash: a block whose accounts were written and which was not
   stored itself is accepted again and pays twice (`SupplyConserved` fails). A crash
   between `blockDB` and `bhashDB` leaves a block without its hash.
 - `Intake`, other blocks: two senders of equal contents share a transaction hash; the
   gas of a block is never summed (block.js:141); the difficulty moves by a ratio, where
   the comment at consensus.js:18 says by one; a contract that pays another contract
   leaves half a block written (block.js:250, the text of the payee was never loaded).
 - `pool_one_sender` with `Entry = {"message", "rpc"}`: a transaction submitted over RPC
   is pushed to an array that a sweep replaces (`NoneLost` fails, txPool.js:53). With two
   senders the nonces of both are mixed (server.js:177). The sweep keeps the transactions
   of an account that became a contract (txPool.js:76).
 - `mining_rivals` with `Overlap = TRUE`: own and rival block of one height are both
   adopted (`AdoptsChild` fails), two jobs take the answer of one worker, or a job selects
   from accounts that are being written. `mining_alone` with a gap between the nonces in
   the pool: the gap is mined (`LedgerIsReplay` fails), and every peer rejects the block.
   A contract that reverts ends mining.
 - `sync_join` with `Overlap = TRUE`: a block that comes as an answer and as a flood is
   applied twice (`JoinedStateIsReplay` fails). When a peer also floods the other block of a
   height, the later one replaces the latest block and its entries (`JoinsOneBranch`,
   `IndexSurvives` fail).
 - `Sync` after a restart: the last block stored is taken again as if it were the first:
   unverified, and its reward paid once more; the difficulty starts from the start-up
   value. `JoinedStateIsReplay` is stated up to the first restart.
 - `Sync`: a first block with transactions, a sender without an account, or code that
   was not loaded make the handler throw, and the queue never runs again. Floods that
   were dropped while syncing stay marked, so a node whose sync was turned off by a later
   flood waits for others.
 - `Contracts`, a contract that pays a contract whose text no transaction of the block
   loaded: the flush throws at block.js:250 between two accounts (blocks of
   `contracts_calls` do). The sender may be debited and the fees lost while the coinbase is
   unpaid, or the payee paid and the debit lost, as the order has it. `Conserved` without its
   premise fails.
 - `Contracts` with two contracts in one block: when the store of the second is open at
   a reader, the block is dropped and the store of the first stays written
   (`RootDescribesStore` without `stale` fails).
 - `Jelscript`: the comparisons of CONTRACT.md:56-63 differ from 10 on, `equ` is never and
   `neq` always true; an instruction with three operands never ends.

### Bounds

`Intake`: two handlers, as every race found needs two, and the invariant excludes the
second where there are no siblings. Chains of three or four blocks: an epoch is three blocks instead of 100, so one retarget happens, followed by a
block under the new difficulty; one deployment followed by one call. `MaxRestarts` is 2, so that a
process meets what its predecessor and the one before left. `Clock` has a reading
before and one after the blocks. Balances are small and exact: one payment cannot be
afforded. The pool is given three consecutive nonces and one competitor. `MaxJobs` is
3 or 4, more than the rivals can interrupt, and 9 where mining must stop for another
reason than the bound.

`sync_join`: two peers, three blocks each, that part at block 2; an epoch is two blocks,
so that a retarget happens in the middle; the peers have two blocks at first and flood
the third while the node joins; one fault (`MaxFaults`), which may be a disconnection,
an unanswered request or a crash. One NEW_BLOCK handler, as the next flood is not
handled before. `sync_bytes` has a clock between the blocks of the two peers, so that the first
answer is rejected. `peers_churn`: three nodes are the fewest of which one can introduce two; two
dials of one address at once (`MaxDials`), a HANDSHAKE that is repeated counts once
(`MaxCopies`), one fault; `MAX_PEERS` is not reached, since the counter only grows and
past the limit nothing is promised. `contracts_calls`: gas for six instructions, one more
than the shortest program needs and fewer than the loop takes; the payee is the sender,
the coinbase, the contract itself or the other one, whose text the block has loaded, loads
later, or never; three blocks adopted or torn, so that a store is written, read and
written again, and that two whole blocks follow a torn one. `wire_blocks`: base 3 and fields of two or four digits,
with values at both ends of each, blocks of up to five transactions (an odd row at two
heights of the tree).

`CHECK_DEADLOCK FALSE` stands where
the messages, jobs or crashes are used up and the node waits for more.

### Fairness

`Intake` and `Mining` assume that a store operation that was started
completes (the event loop runs its callback), `LoadChain` that start-up finishes,
`Mining` also that the interval timer fires, that the worker finds a nonce, and that
the answer of a worker that was not killed arrives. Nothing is assumed there of peers,
submissions or late answers.

`SyncFairSpec` assumes weak fairness of `Progress` as a whole: while there is a request,
an answer, a flood, the timer or a started store operation, some one of them is handled;
nothing says which, and the bounds make every one of them come in the end. Connections,
growth, faults and restarts are never owed. `Peers` assumes of each node that it starts
and is started again, of each dial that is not refused that it opens, and of each
message and `close` event that it arrives: TCP and the event loop give as much.
`Contracts` assumes that a block once begun goes on (`WF(Node)`), and nothing of RPC
requests: a handle that is never closed is among the behaviours.

## 4. Proofs

What a theorem says holds for every value of the constants that the named assumptions
of the modules allow: any accounts, blocks, programs, handlers, peers and numbers of
crashes. Further conditions are hypotheses of the theorem.

**Assumptions on constants.** `LedgerAssumption`: finitely many accounts (what they hold
together is a sum), a reward, a gas limit and a step price that are natural numbers,
contracts that pay natural amounts to accounts. `AbsentAssumption`: the marker of a
missing account is no account. `IntakeAssumption`, `PoolAssumption`: the types of blocks,
transactions and the first ledger, an epoch of at least two blocks. `GenesisAssumption`:
block 1 has no transactions and no account of it is a contract, as
`generateGenesisBlock` makes it. `BootBlockAssumption`: no peer names the block that a
starting process makes up as a parent. `ContractsAssumption`, `ValuesAssumption`: programs
and blocks are finite sequences, and amounts, arguments and operands natural numbers,
because the code reads each behind `0x`. TLC evaluates all of them on the runs.

**Folds** (`FoldTheorems`). The ledger is a fold over the transactions of a block, the
supply a fold over the accounts. The library's induction theorems take an operator,
which no prover here can instantiate. `Induction` says the same of a *set* of numbers, and
is proved from the well-foundedness of the finite sets; from it follow, once and for any
step, `FoldedIsPrefix` (a fold over a sequence has an intermediate value after each
prefix, that of the next being one step further) and `GatheredIsPart` (the same for a
set, in the order `CHOOSE` takes it). An invariant of the step is then an invariant of
the fold, by `Induction` on the length of the prefix. This is how everything below that
speaks of all transactions or all accounts is proved. `Recursion` says that a function
defined from its smaller values exists and is what its definition says; it is used of
`Power` and `Misread`.

**Ledger** (`LedgerProofs`), about one block:

 - `TransitWellFormed`: whatever the block and whatever code is loaded, no account it would
   write has a negative balance or nonce, or code that nobody deployed.
 - `TransitConserves`: a block that is accepted adds its reward to what all accounts hold
   together, and to the nonce of each account the number of transactions it sent. The
   condition is that the code of every account is stored: without it the code takes an
   account for a new one (block.js:167). The argument follows the money through one transaction: the
   difference between what the accounts hold and what they held is the fees collected so
   far, less what is still owed to the recipient, or to the contract.
 - `TransitLoads`: if the contracts pay only addresses without code, all code that a block
   writes has been loaded.

**Intake** (`IntakeProofs`):

 - `AccountsStayWellFormed`, `RelaysEachBlockOnce`: with no hypothesis at all, so with
   competing blocks, any number of handlers and crashes.
 - `OnlyAdoptsChildren`: `Spec /\ [][OvertakesNoSibling]_vars => AdoptsChild`, with competing
   blocks, any number of handlers and crashes. The event that is excluded is the one that
   breaks it: a block becomes the latest while a sibling of it is under way, that is
   verified, or still waiting for the order of its transactions with a greater number.
   `verifyBlock` compares the parent before its awaits and the number after one of them, so a
   handler that was overtaken earlier is refused (`Refused`), and every other one that has
   passed the header check still has a child of the latest block (`Followed`).
 - `Invariance`: `Spec => []IInv`, under `NoSiblings`; from it `TypeCorrect`,
   `ChainAlwaysLinked`, `TipAlwaysStored`, through crashes. `NothingToOvertake`: without siblings
   the event above does not happen.
 - `DifficultyIsOfChain`, `BlocksFoundByHash`: also while the process has not crashed
   (`NoCrash`); the latter where hashes name blocks (`DistinctHashes`).

The argument. `TypeOK` alone is not inductive: that a retarget never divides by zero
needs the stored chain to increase in time; that needs a block to be written on top
of the latest one only; that needs no second handler to be between the header check
and the adoption. `IInv` says all of this: the stored chain is dense, linked and
increasing (`ChainInv`); the latest block is stored and only a block in flight lies
above it (`TipInv`); what a handler has checked still holds (`TaskInv`); at most one
handler is *live*, that is past the header check with a block that can be adopted
(`Unique`). `Unique` is where `NoSiblings` enters: two live handlers would have the
same parent, hence the same block, which the list of checked blocks lets through
once. Before the chain is loaded no peer block names the boot block as its parent,
so nothing is live. `AInv` says of the stored accounts and of every working set that
they are well formed; `RelayInv` that what a handler holds is checked and not sent on;
`DInv` in which steps the difficulty is one block ahead; `HashInv` which blocks have been
entered in the index.

**Refinement** (`IntakeProofs`). `Refinement`: without siblings, while the process has
not crashed and every flush finds the code it writes loaded (`[]CodeIsLoaded`), `Intake`
implements `LedgerLog`. The abstract append happens when `Replay` accepts; until the
handler has written everything, the abstract chain and ledger are the stored ones
overlaid with what it still has to write (`RInv`). The other steps stutter. The
properties of the ledger are proved of the log, where a block is one step, and carried
back:

 - `SupplyIsConserved`: by `TransitConserves`, one reward for each block (`SupplyInv`).
 - `NoReplay`: no two transactions of the chain have sender and nonce in common, so
   nothing is executed twice. `NonceInv` bounds each nonce of the chain by that of its
   account, which `TransitConserves` raises.
 - `TxsFoundByHash`: each transaction is found by its hash at its own position, where a hash
   determines the sender (`OneSigner`, which `getHash` does not give); a repeated hash
   would be a repeated nonce, so `NoReplay` is needed.
 - `FlushesDoNotThrow`: `Spec => []CodeIsLoaded` if contracts pay only addresses at which no
   code is ever deployed (`PayeesHoldNoCode`), with siblings and crashes too.
 - `LedgerOfTheChain`: all of it from conditions on the constants alone.

Each hypothesis is necessary: two children of one block, a crash between two writes, and
the contract that pays a contract (section 3) are what happens without it. The blocks of
`intake_restart` satisfy `NoSiblings`; those of `intake_linear` do not (a sealed block
with invalid contents competes with a valid one), so that the run checks there what
the theorems leave open. In both runs the contract pays the miner, who deploys nothing.

**Pool** (`TxPoolProofs`). `PoolCanBeMined`, `PoolLosesNothing`, `PoolRelaysOnce`, under
`OneAccount` (one sender) and `MessagesOnly` (no submission over RPC): both conditions hold
in `pool_one_sender`, and section 3 says what happens without either. The nonces of a pool
rise, and where they are beyond the account's next one, by one (`GapFree`): that is what a
sweep preserves when it drops the prefix that was executed, while submissions append to
the array it reads. `RecordOK` adds what has been reported against what is in the pool,
or was executed, for each submission at each of its awaits.

**Peers** (`PeersProofs`), for any nodes, configured peers, `MAX_PEERS` and faults:
`ListsAlwaysAgree` and `OnlyTheClosedLeaves`. `close` computes an index in `connected` and
splices `opened` with it, so the argument is about lists: a list without repetitions
loses exactly one element when one index is removed (`RemoveOne`), gains exactly one when
an address it lacks is appended (`AppendNew`). The invariant adds that no node dials
itself (`DialsOthers`) and that a `close` event is outstanding only for an address that is
still listed (`CutIsListed`); without the second the index would be -1 and `splice` would
remove somebody else.
`ContactsAreIntroduced`: `Spec /\ []Room => []Introduces`, where `Room` says that no node has
counted more than `MAX_PEERS` connections (the counter never falls, so that a node that has
is deaf to every HANDSHAKE that follows: the promise ends there in the code too). The
invariant adds that a node that is down holds nothing and nothing is on its way to it
(`DownIsSilent`), that whoever lists it has a `close` to come (`DownIsCut`), and that without
harm nobody else has (`CutIsDown`); `OpenAnnounces` says what the loops of an `open` send, for
any number of sockets, by the fold lemmas.

**Sync** (`SyncProofs`). `QueueSafe`: for any peers, branches and clocks, any number of
NEW_BLOCK handlers, faults and restarts, and every order of the messages, what is queued
and what the handler works on answers the number being asked. A number is replaced only
by a handler that finishes, and finishing empties the queue (`CompleteEmpties`); a
handler that throws keeps both (`WedgeKeeps`); each step of the NEW_BLOCK handlers
leaves the queue alone or is the one that turns sync off. The invariant adds the shape of
the messages on their way (`NetworkOK`) and of the handler's record (`HandlerOK`).

The other three hold with any number of NEW_BLOCK handlers and with an answer and floods in
each other's awaits, until an event that the theorem names. Each event does break its
property: with `Overlap = TRUE` TLC finds a trace to each of the three.

 - `FollowsOneBranch`: `SyncSpec /\ [][OvertakesNone]_syncVars => JoinsOneBranch`. As in `Intake`, a
   header is compared with the latest block when a handler starts and not again when it
   ends. The excluded event is a block that becomes the latest while a sibling of it is
   under way in another handler, be it a flood or the answer. `HeadInv` carries the
   comparison across every await (`SyncHead`, `TaskHead`). The first block is the exception,
   and `latestSyncBlock` says whether it has been taken.
 - `JoinedIsTheChain`: `SyncSpec /\ []OneVerified /\ []CodeIsLoaded /\ []StoresItsMessage =>
   []JoinedStateIsReplay`. `OneVerified`: one handler at most is between its last look at the
   latest block and its end, and none takes a block for the next one before the difficulty
   is set that it must have; any number may wait before. `StoresItsMessage` excludes the
   defect `sync_bytes` shows, `CodeIsLoaded` the flush that throws half way.
   `NumberedAlike` says that siblings have the same number, and `FirstDifficulty` that every
   branch starts from the difficulty the node boots with (genesis.js:7 and server.js:40,
   both 1). The invariant `JoinInv` says,
   for each await of either handler, how far the accounts are between two replays:
   `Flushing` (the accounts of `unwritten` are still those before the block), `Executed` (they
   are those after it, while the block is not yet the latest), `Stored`, `Retargeted`.
   `Adopts` closes the round with the fold lemma `ChainedStep`. Before the first block is
   adopted (`Booting`) the accounts are those of the start; after an exception (`Wedged`)
   nothing is promised, since the node never rests again.
 - `IndexesSurvive`: `SyncSpec /\ []OneVerified /\ []StoresItsMessage => []IndexSurvives`, through
   any number of crashes. The invariant `IndexInv` says that the stored blocks are those up
   to some `top` (`Filled`), that all of them but perhaps the last can be found, and how many entries of the
   last are written (`SyncIndex`, `TaskIndex`). A restarted node asks for `top` again, so that the
   one block that may be incomplete is the first to be repaired (`RestartIndexed`); a flood is
   stored above it, because until its first block is there no flood fits
   (`BootBlockAssumption`), and then the latest block is the last one that is stored and can
   be found while nobody is writing entries (`Whole`). An entry
   that is written never takes the place of another (`HashKept`, `TxKept`): this needs
   `DistinctEntries`, that two blocks of different heights share neither hash nor transaction.
   Without it the property is false: a node that resumes on a branch in which a transaction
   has another place overwrites its entry.

TLC finds all these conditions to hold in every state and step of `sync_join`. With
`Overlap = TRUE` and two handlers, restricted to the steps that keep them, it finds no
violation (1071319 states for the last two theorems; 4125138 for the first, with one
handler and peers that flood both blocks of a height).

**Contracts** (`ContractsProofs`), for any programs, blocks, gas and interleaving with RPC
requests:

 - `StoresAreClosed`: `Spec => []StoreClosedBehind`. The strengthening `Place` says where a
   block is whenever the node has a store open: at an instruction of a call, or at the
   write of the contract whose turn it is.
 - `RootsDescribeStores`: `Spec => []RootDescribesStore` where no block calls a contract twice
   (`OneCallEach`), wherever a block throws: between two stores, or between two accounts. The
   strengthening says what the steps of a block leave to each other. `Stores`: a store is
   what the root is of, but for the contracts of the block under way, whose store has
   what will be the root once it has been put, and for `stale` ones. `Queue`: what is left to
   be written, each contract once. `Calls`: a run holds every key of the store it was given,
   whatever its program does (`ExecuteKept`, one case per kind of instruction), so writing it
   over the store gives exactly what the run holds. The hypothesis is necessary: the
   second call of a contract begins without the keys of the first (`contract_twice`), and
   what it leaves replaces the root and only adds to the store.
 - `MoneyIsConserved`: `Spec => []Conserved`: at every instruction and between any two writes, until
   a block has thrown between its accounts; after that nothing is said, because nothing
   holds (section 3). `ExecutePays` says of each kind of instruction that it leaves numbers
   where there were numbers and moves money without making any (`SendPays`: also when a
   contract pays itself or an account that is not in the working set yet); `MovedPays`
   the same of the transfer before the call. `Sums` adds that what is stored is accounted
   for while no account of the block is written, `AllPut` that an account that is no longer
   `unwritten` is stored as the block leaves it, so that the last write makes the working
   set the state.
 - `BalancesAreNumbers`: `Spec => []TypeOK`, torn blocks included (`Values`).

**Mining** (`MiningProofs`), for any transactions, rival blocks, number of jobs and
`Overlap`, so with events in the middle of every await. The code does not guard against all
of them, so each theorem names the events that break its property (the section "The events
the code does not guard against" of the module):

| Event excluded | In the code |
|---|---|
| `TimerWaits` | `loopMine` starts a job while another has yet to be answered by the worker both listen to |
| `OvertakesNone` | a block becomes the latest while another is being written, or while a job is under way with one and `mined` is not set |
| `ForgetsNone` | a job that drops its result clears `mined` while a second overtaken block is under way |
| `KeepsLatest` | a block becomes the latest between the writes of another and its message to the peers |
| `NoFlushThrows` | `codeDB.put` throws between the chain and the message |
| `OneWrites` | two handlers write at once |
| `SelectsInOrder` | a job selects while accounts are being written, or from a pool with a gap |

 - `AddsWhatItMined`: `Spec /\ [][TimerWaits]_vars => []TakesOwnResult`. `mine` takes the first answer
   that arrives for its own. The invariant `WorkerInv` says why that is right: at most one
   block is on its way through each worker, that of the only job that waits for it, and only
   the current worker still hashes (`OneOnItsWay`), whatever rivals do to the workers.
 - `MinesOnTheTip`: `AdoptsChild`, also until `OvertakesNone` or `ForgetsNone` fails. `mine` adds the
   answer without a look at the latest block. `ChildInv` says that what is being written is a
   child of it, and so is what is on its way, unless `mined` is set.
 - `AnnouncesEveryBlock`: `OwnBlocksAnnounced`, until `KeepsLatest` or `NoFlushThrows` fails: `mine`
   announces whichever block is the latest after the flush. That jobs take each other's
   answers does no harm here (`Shapes` is all the proof needs of the workers).

The ledger of a miner. `mine` and `verifyBlock` are two programs that must agree: the first
charges transactions as it selects them from the pool, skips senders that cannot pay, looks
at no nonce and keeps what it read of those it passed over; the second checks the order of
the nonces, replays the block from the accounts and writes what it touched.

 - `SelectionIsAccepted`: from a pool in a valid order (`HasValidTxOrder`), the block that `Select`
   makes, unless it throws, has a valid order, `Transit` accepts it, and the accounts `mine`
   writes are those that `Transit` writes (`Mineable`). The proof follows the loop of `mine`
   (`SelectionOK`): after each transaction the two working sets are `Twins` (they agree on what
   both have, and what only the first has read is as it is stored), and what was selected of a
   sender that was never skipped is all the pool has of it, so that its nonces have no gap.
 - `ChainIsItsLedger`: `[]LedgerIsReplay`, until one of five events: the three of `MinesOnTheTip`,
   `OneWrites`, `SelectsInOrder`. `LedgerInv` says of each job how far its accounts are between two
   replays (`JobPhase`, `Flushing`), the same of the rival block (`RivalPhase`), that a block on
   its way through the workers is still one the ledger accepts (`OnItsWay`), and that the
   accounts are the replay whenever nobody is writing them (`AtRest`). A job may start, and a
   rival be adopted, during the writes of another: the block such a job mines is empty, or no
   longer fits the chain when they end.
 - `AnnouncesInOrder`: until one of these or `KeepsLatest`, `[]OwnBlocksAnnounced`: no flush throws.
 - `SweptIsInOrder`: what `clearDepreciatedTxns` keeps is in a valid order, whatever the pool was.

`PayeesStayPlain` says that nobody who deploys code is paid by a contract: `mine` and
`verifyTxAndTransit` leave the code of such a payee unloaded, and one loads it where the
other throws. A gap in the pool breaks `LedgerIsReplay` (section 3), and with two senders the
pool check itself lets one in, because it mixes the nonces of all (server.js:177).
`MiningAssumption` says of the ledger after block 1, which has no transactions, that no
account is a contract.

TLC confirms the conditions with `Overlap = TRUE`. Restricted to the steps and states that
keep them it finds no violation of `AdoptsChild` (653185 states), `OwnBlocksAnnounced`
(1897848) and `LedgerIsReplay` (14336). None can be spared: without any one of the five,
`LedgerIsReplay` fails, without any one of the first three, `AdoptsChild`, without
`TimerWaits` `TakesOwnResult`, and without `KeepsLatest` `OwnBlocksAnnounced`.

**Only model-checked.** The liveness properties: `AcceptedIsAdopted` of `Intake`, `ChainGrows` of
`Mining`, `CatchesUp` of `Sync`, `Heals` of `Peers`, `BlocksEnd` of `Contracts`, which this prover does
not do; `AlwaysMining` of `Mining`, which fails with the first rival block (`mining_stalls`) and
the first selection that throws; and `Wire` with `Merkle` (recursion over digits and over the tree, written with
`RECURSIVE`, which the prover does not take).

## 5. Plan

Done: intake with its refinement, the pool, mining, sync, the peers, the interpreter and
the stores of contracts, the trie and the formats. Left, in this order:

1. `Ledger` and `Contracts` composed: a block that deploys a contract and calls it, with the
   interpreter in the place of the summary, and `ContractsAssumption` discharged by what
   a deployment may contain.
2. In `Mining` and `Sync`, the liveness properties with `Overlap = TRUE`: which of the events
   of section 4 end the growth of the chain, and which only delay it.
3. Mining while syncing: the two paths share `chainInfo`, and neither looks at the other.
4. Two nodes of `Mining` that exchange what they announce.
5. Proofs: the order of the pool for several senders, once the pool check reads the sender
   it means; the formats of `Wire` with recursive functions in the place of operators.

## 6. Not modelled

 - The first start of the node that makes block 1: a few writes, while no peer has a block
   to send it yet, that end in the state `Init` of `Intake`. `changeState` on transactions that
   are already objects: no caller gives it any.
 - The read requests of the RPC server other than `get_storage` and `get_storageKeys`: each
   reads `chainInfo` or one store once and formats the answer. `signTransaction`: no state.
 - `sha256`, `blockhash` and `log` of the contract language; values that are not numbers.
 - The entry point and the key generator (no state that survives), logging, the
   formatting of HTTP answers.
 - The WebSocket and LevelDB libraries: a put, a batch and a get are atomic and completed
   in the order they were awaited; messages may be lost, repeated and reordered.
   Elliptic-curve signatures and SHA-256: distinct values have distinct hashes, except
   where `getHash` leaves a field out.
