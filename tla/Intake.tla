-------------------------------- MODULE Intake --------------------------------
(***************************************************************************)
(* The path of a NEW_BLOCK message through a JeChain node that neither     *)
(* mines nor syncs: the handler in src/node/server.js, verifyBlock and     *)
(* updateDifficulty of src/consensus/consensus.js, the writes of           *)
(* Block.verifyTxAndTransit, and the start-up code that reloads the chain. *)
(*                                                                         *)
(* The handler is an async callback: it runs without interruption from one *)
(* await on a store to the next, and other handlers run in between.  pc of *)
(* a handler names the store operation it waits for; a step is the         *)
(* completion of that operation and the code up to the next one.  The      *)
(* transaction pool is not here: nothing on this path reads it.            *)
(***************************************************************************)
EXTENDS Ledger

CONSTANTS
  Handler,         \* NEW_BLOCK callbacks that can be in progress at once
  PeerBlock,       \* the blocks peers may send, any number of times
  Genesis,         \* block 1, on disk since the first start
  BootBlock,       \* the block a restarting process generates for itself
  InitialLedger,   \* the account state once block 1 has been applied
  Clock,           \* the readings of Date.now()
  Epoch,           \* blocks between two retargets (100 in the code)
  BLOCK_TIME,
  MaxRestarts      \* bound on crashes

Block == PeerBlock \cup {Genesis, BootBlock}

(***************************************************************************)
(* A block carries its header, its transactions and two bits that stand    *)
(* for arithmetic on hashes: sealed, its hash is the one its header        *)
(* regenerates and starts with the zeros of its difficulty; rootOk, its    *)
(* txRoot is the Merkle root of its transactions.                          *)
(***************************************************************************)
ASSUME IntakeAssumption ==
  /\ Genesis.blockNumber = 1
  /\ InitialLedger \in [Account -> AccountState \cup {Absent}]
  /\ Epoch \in Nat \ {0, 1} /\ BLOCK_TIME \in Nat \ {0} /\ MaxRestarts \in Nat
  /\ \A b \in Block : /\ b.blockNumber \in Nat /\ b.timestamp \in Nat
                      /\ b.difficulty \in Nat \ {0}
                      /\ b.txs \in Seq(Transaction) /\ b.coinbase \in Account

\* Block 1 as generateGenesisBlock makes it has no transactions, so no account
\* is a contract after it.
ASSUME GenesisAssumption ==
  /\ Genesis.txs = << >>
  /\ \A a \in Account : InitialLedger[a] = Absent \/ InitialLedger[a].codeHash = EMPTY_HASH

\* The block a process makes up while it starts is sent to nobody, so no
\* block of a peer names it as its parent.
ASSUME BootBlockAssumption ==
  \A b \in PeerBlock : b.parentHash # BootBlock.hash

VARIABLES
  stateDB, codeDB, blockDB, bhashDB, txhashDB,  \* the stores, kept by a crash
  latestBlock, difficulty, checkedBlock,        \* fields of chainInfo
  relayed,                                      \* blocks sent on to peers, in order
  task,                                         \* handler -> where it is
  booted,                                       \* has startServer loaded the chain?
  restarts                                      \* crashes so far

stores == <<stateDB, codeDB, blockDB, bhashDB, txhashDB>>
chainInfo == <<latestBlock, difficulty, checkedBlock>>
process == <<booted, restarts>>
vars == <<stores, chainInfo, relayed, task, process>>

IdleTask == [pc |-> "idle", block |-> Genesis, work |-> EmptyWork,
             unwritten |-> {}, account |-> Genesis.coinbase, txIndex |-> 0]

Init ==
  /\ stateDB = InitialLedger
  /\ codeDB = {EMPTY_HASH}
  /\ blockDB = [n \in {1} |-> Genesis]
  /\ bhashDB = [hash \in {Genesis.hash} |-> 1]
  /\ txhashDB = << >>
  /\ latestBlock = Genesis
  /\ difficulty = Genesis.difficulty
  /\ checkedBlock = {}
  /\ relayed = << >>
  /\ task = [h \in Handler |-> IdleTask]
  /\ booted = TRUE
  /\ restarts = 0

-----------------------------------------------------------------------------
(* The checks of the handler and of verifyBlock.                           *)

\* Mutant: blocks are not remembered.
NeverChecked(block) == FALSE

IsChecked(block) == block.hash \in checkedBlock

\* The sibling filter: the block does not compete with the latest one.
IsSibling(block) == block.parentHash = latestBlock.parentHash

\* Mutant: the parent of the block is not compared with the latest block.
HeaderFitsAnyParent(block) == block.sealed /\ block.difficulty = difficulty

\* What verifyBlock evaluates before its first await.
HeaderFits(block) ==
  /\ block.sealed
  /\ block.parentHash = latestBlock.hash
  /\ block.difficulty = difficulty

\* What verifyBlock evaluates after hasValidTxOrder; latestBlock is read again.
BodyFits(block, now) ==
  /\ block.rootOk
  /\ block.timestamp > latestBlock.timestamp
  /\ block.timestamp < now
  /\ block.blockNumber = latestBlock.blockNumber + 1

-----------------------------------------------------------------------------
(* The handler.                                                            *)

At(h, pc) == task[h].pc = pc

Goto(h, pc) == task' = [task EXCEPT ![h].pc = pc]
Finish(h) == task' = [task EXCEPT ![h] = IdleTask]

\* A new block is marked as seen before anything about it is known, and
\* dropped when its header does not fit the latest block at this moment.
Discard(block) ==
  /\ ~IsChecked(block)
  /\ IsSibling(block) \/ ~HeaderFits(block)
  /\ checkedBlock' = checkedBlock \cup {block.hash}
  /\ UNCHANGED <<stores, latestBlock, difficulty, relayed, task, process>>

\* hasValidTxOrder awaits a store only when the block has transactions;
\* the other blocks go on to the replay in the same turn, or are dropped.
Receive(h, block) ==
  /\ At(h, "idle")
  /\ ~IsChecked(block) /\ ~IsSibling(block) /\ HeaderFits(block)
  /\ checkedBlock' = checkedBlock \cup {block.hash}
  /\ \/ /\ block.txs # << >>
        /\ task' = [task EXCEPT ![h] = [IdleTask EXCEPT !.pc = "order", !.block = block]]
     \/ /\ block.txs = << >>
        /\ \E now \in Clock :
             IF BodyFits(block, now)
             THEN task' = [task EXCEPT ![h] = [IdleTask EXCEPT !.pc = "replay", !.block = block]]
             ELSE task' = task
  /\ UNCHANGED <<stores, latestBlock, difficulty, relayed, process>>

\* Mutant: the nonces of the transactions are not checked.
CheckOrderNoNonce(h) ==
  /\ At(h, "order")
  /\ \E now \in Clock :
       IF BodyFits(task[h].block, now) THEN Goto(h, "replay") ELSE Finish(h)
  /\ UNCHANGED <<stores, chainInfo, relayed, process>>

CheckOrder(h) ==
  /\ At(h, "order")
  /\ \E now \in Clock :
       IF HasValidTxOrder(stateDB, task[h].block.txs) /\ BodyFits(task[h].block, now)
       THEN Goto(h, "replay")
       ELSE Finish(h)
  /\ UNCHANGED <<stores, chainInfo, relayed, process>>

\* verifyTxAndTransit up to its first write.  A throw ends the handler like
\* a verdict of "invalid": nothing has been written yet.
Replay(h) ==
  /\ At(h, "replay")
  /\ LET work == Transit(stateDB, codeDB, task[h].block)
     IN  IF work.status = "ok"
         THEN task' = [task EXCEPT ![h].pc = "flushState", ![h].work = work,
                                   ![h].unwritten = DOMAIN work.states]
         ELSE Finish(h)
  /\ UNCHANGED <<stores, chainInfo, relayed, process>>

FlushState(h) ==
  /\ At(h, "flushState")
  /\ \E a \in task[h].unwritten :
       /\ stateDB' = [stateDB EXCEPT ![a] = task[h].work.states[a]]
       /\ task' = [task EXCEPT ![h].pc = "flushCode", ![h].account = a,
                               ![h].unwritten = @ \ {a}]
  /\ UNCHANGED <<codeDB, blockDB, bhashDB, txhashDB, chainInfo, relayed, process>>

\* The code hash written last, whose text codeDB.put stores next to it.
FlushedCode(h) == task[h].work.states[task[h].account].codeHash

\* Mutant: the difficulty is never retargeted.
AfterFlushNoRetarget(block) == "blockDB"

AfterFlush(block) == IF block.blockNumber % Epoch = 0 THEN "difficulty" ELSE "blockDB"

\* Mutant: the handler returns when the text is already stored.
FlushCodeReturnsEarly(h) ==
  /\ At(h, "flushCode")
  /\ codeDB' = codeDB \cup {FlushedCode(h)}
  /\ IF FlushedCode(h) \in codeDB
     THEN Finish(h)
     ELSE Goto(h, IF task[h].unwritten # {} THEN "flushState" ELSE AfterFlush(task[h].block))
  /\ UNCHANGED <<stateDB, blockDB, bhashDB, txhashDB, chainInfo, relayed, process>>

\* Putting a text that was never loaded throws, with accounts already written.
FlushCode(h) ==
  /\ At(h, "flushCode")
  /\ IF FlushedCode(h) \in task[h].work.code
     THEN /\ codeDB' = codeDB \cup {FlushedCode(h)}
          /\ Goto(h, IF task[h].unwritten # {} THEN "flushState"
                     ELSE AfterFlush(task[h].block))
     ELSE /\ codeDB' = codeDB
          /\ Finish(h)
  /\ UNCHANGED <<stateDB, blockDB, bhashDB, txhashDB, chainInfo, relayed, process>>

UpdateDifficulty(h) ==
  /\ At(h, "difficulty")
  /\ LET block == task[h].block
         oldBlock == blockDB[block.blockNumber - (Epoch - 1)]
     IN  difficulty' = Retarget(difficulty, Epoch, BLOCK_TIME, oldBlock, block)
  /\ Goto(h, "blockDB")
  /\ UNCHANGED <<stores, latestBlock, checkedBlock, relayed, process>>

PutBlock(h) ==
  /\ At(h, "blockDB")
  /\ blockDB' = Put(blockDB, task[h].block.blockNumber, task[h].block)
  /\ Goto(h, "bhashDB")
  /\ UNCHANGED <<stateDB, codeDB, bhashDB, txhashDB, chainInfo, relayed, process>>

\* Mutant: the block becomes the latest one transaction too early.
AfterIndexEarly(h, written) ==
  IF written + 1 >= Len(task[h].block.txs)
  THEN /\ latestBlock' = task[h].block
       /\ Goto(h, "clear")
  ELSE /\ latestBlock' = latestBlock
       /\ task' = [task EXCEPT ![h].pc = "txhashDB", ![h].txIndex = written]

\* The last index entry of the block completes the handler's store writes,
\* and the same turn makes the block the latest one.
AfterIndex(h, written) ==
  IF written = Len(task[h].block.txs)
  THEN /\ latestBlock' = task[h].block
       /\ Goto(h, "clear")
  ELSE /\ latestBlock' = latestBlock
       /\ task' = [task EXCEPT ![h].pc = "txhashDB", ![h].txIndex = written]

\* Mutant: the hash is stored with the number of the latest block.
PutBhashOfLatest(h) ==
  /\ At(h, "bhashDB")
  /\ bhashDB' = Put(bhashDB, task[h].block.hash, latestBlock.blockNumber)
  /\ AfterIndex(h, 0)
  /\ UNCHANGED <<stateDB, codeDB, blockDB, txhashDB, difficulty, checkedBlock,
                 relayed, process>>

PutBhash(h) ==
  /\ At(h, "bhashDB")
  /\ bhashDB' = Put(bhashDB, task[h].block.hash, task[h].block.blockNumber)
  /\ AfterIndex(h, 0)
  /\ UNCHANGED <<stateDB, codeDB, blockDB, txhashDB, difficulty, checkedBlock,
                 relayed, process>>

PutTxhash(h) ==
  /\ At(h, "txhashDB")
  /\ LET block == task[h].block
         i == task[h].txIndex + 1
     IN  /\ txhashDB' = Put(txhashDB, TxHash(block.txs[i]), <<block.blockNumber, i - 1>>)
         /\ AfterIndex(h, i)
  /\ UNCHANGED <<stateDB, codeDB, blockDB, bhashDB, difficulty, checkedBlock,
                 relayed, process>>

\* After clearDepreciatedTxns, which reads the state and writes the pool.
Relay(h) ==
  /\ At(h, "clear")
  /\ relayed' = Append(relayed, task[h].block)
  /\ Finish(h)
  /\ UNCHANGED <<stores, chainInfo, process>>

-----------------------------------------------------------------------------
(* Crash and restart.                                                      *)

\* The process dies between two steps; the next one starts with the initial
\* values of the module variables and accepts messages at once.
Restart ==
  /\ restarts < MaxRestarts
  /\ restarts' = restarts + 1
  /\ booted' = FALSE
  /\ latestBlock' = BootBlock
  /\ difficulty' = BootBlock.difficulty
  /\ checkedBlock' = {}
  /\ relayed' = << >>
  /\ task' = [h \in Handler |-> IdleTask]
  /\ UNCHANGED stores

\* Mutant: the first block is loaded in place of the last.
Lowest(db) == CHOOSE n \in DOMAIN db : \A m \in DOMAIN db : n <= m

Highest(db) == CHOOSE n \in DOMAIN db : \A m \in DOMAIN db : m <= n

LoadChain ==
  /\ ~booted
  /\ booted' = TRUE
  /\ latestBlock' = blockDB[Highest(blockDB)]
  /\ difficulty' = latestBlock'.difficulty
  /\ UNCHANGED <<stores, checkedBlock, relayed, task, restarts>>

-----------------------------------------------------------------------------
Step(h) ==
  \/ CheckOrder(h) \/ Replay(h)
  \/ FlushState(h) \/ FlushCode(h)
  \/ UpdateDifficulty(h)
  \/ PutBlock(h) \/ PutBhash(h) \/ PutTxhash(h)
  \/ Relay(h)

Next ==
  \/ \E block \in PeerBlock : Discard(block)
  \/ \E h \in Handler, block \in PeerBlock : Receive(h, block)
  \/ \E h \in Handler : Step(h)
  \/ Restart
  \/ LoadChain

Spec == Init /\ [][Next]_vars

\* Node completes the store operations it has been given and starts up.
Fairness == (\A h \in Handler : WF_vars(Step(h))) /\ WF_vars(LoadChain)

FairSpec == Spec /\ Fairness

-----------------------------------------------------------------------------
(* Correctness.                                                            *)

Quiet == \A h \in Handler : At(h, "idle")

\* A handler whose block has passed verifyBlock and is not yet the latest.
Accepted(h) ==
  task[h].pc \in {"flushState", "flushCode", "difficulty", "blockDB", "bhashDB", "txhashDB"}

PC == {"idle", "order", "replay", "flushState", "flushCode", "difficulty",
       "blockDB", "bhashDB", "txhashDB", "clear"}

IsTask(t) ==
  /\ DOMAIN t = DOMAIN IdleTask
  /\ t.pc \in PC /\ t.txIndex \in Nat
  /\ t.pc # "idle" => t.block \in PeerBlock

\* The node's records keep the shape its handlers rely on.  Of the difficulty
\* this needs the timestamps of the chain: a retarget divides by the time
\* its blocks took.
TypeOK ==
  /\ DOMAIN stateDB = Account
  /\ DOMAIN blockDB \subseteq Nat /\ \A n \in DOMAIN blockDB : blockDB[n] \in Block
  /\ \A hash \in DOMAIN bhashDB : bhashDB[hash] \in Nat
  /\ \A hash \in DOMAIN txhashDB : txhashDB[hash] \in Nat \X Nat
  /\ latestBlock \in Block /\ difficulty \in Nat \ {0}
  /\ checkedBlock \subseteq {b.hash : b \in PeerBlock}
  /\ relayed \in Seq(PeerBlock)
  /\ DOMAIN task = Handler /\ \A h \in Handler : IsTask(task[h])
  /\ booted \in BOOLEAN /\ restarts \in 0..MaxRestarts

\* No execution of a block takes more from an account than it holds, stores a
\* malformed account, or indexes past the block's transactions.
AccountsWellFormed ==
  /\ \A a \in Account : stateDB[a] = Absent \/ stateDB[a] \in AccountState
  /\ codeDB \subseteq CodeHash
  /\ \A h \in Handler :
       /\ task[h].txIndex <= Len(task[h].block.txs)
       /\ task[h].unwritten \subseteq DOMAIN task[h].work.states
       /\ DOMAIN task[h].work.states \subseteq Account
       /\ \A a \in DOMAIN task[h].work.states : task[h].work.states[a] \in AccountState

\* The stored blocks are numbered from 1 without a gap and each names its
\* predecessor as parent, at every moment and after every crash: what
\* start-up reads with blockDB.get(max) and peers request by number.
ChainLinked ==
  \A n \in DOMAIN blockDB \ {1} :
    /\ n - 1 \in DOMAIN blockDB
    /\ blockDB[n].blockNumber = n
    /\ blockDB[n].parentHash = blockDB[n - 1].hash
    /\ blockDB[n].timestamp > blockDB[n - 1].timestamp

\* The cached latest block is the stored block of its number, and nothing is
\* stored above it but the block a handler is about to make the latest.
TipStored ==
  booted =>
    /\ latestBlock.blockNumber \in DOMAIN blockDB
    /\ blockDB[latestBlock.blockNumber] = latestBlock
    /\ \A n \in DOMAIN blockDB :
         \/ n <= latestBlock.blockNumber
         \/ \E h \in Handler : Accepted(h) /\ blockDB[n] = task[h].block

\* A running node replaces its latest block by a child of it only
\* ("Block's parentHash is equal to latest block's hash", verifyBlock).
AdoptsChild ==
  [][booted /\ booted' /\ latestBlock' # latestBlock
       => latestBlock'.parentHash = latestBlock.hash]_vars

\* Every block up to the latest is found by its hash (get_blockByHash, RPC.md).
BlockFoundByHash ==
  booted => \A n \in 1..latestBlock.blockNumber :
    blockDB[n].hash \in DOMAIN bhashDB /\ bhashDB[blockDB[n].hash] = n

\* Every transaction of those blocks is found by its hash at its own position
\* (get_transactionByTxHash, RPC.md).
TxFoundByHash ==
  booted => \A n \in 1..latestBlock.blockNumber : \A i \in DOMAIN blockDB[n].txs :
    LET hash == TxHash(blockDB[n].txs[i])
    IN  hash \in DOMAIN txhashDB /\ txhashDB[hash] = <<n, i - 1>>

\* Between blocks, what the accounts hold is the initial supply and one
\* reward for each block on the chain: fees, contract gas and the payments of
\* contracts only move money, and no block is applied twice.
SupplyConserved ==
  Quiet /\ booted =>
    Supply(stateDB) = Supply(InitialLedger) + BLOCK_REWARD * (latestBlock.blockNumber - 1)

\* The difficulty asked of the next block is determined by the stored chain:
\* nodes with the same chain agree on which block may follow.
NextDifficulty(db, last) ==
  IF last.blockNumber % Epoch = 0
  THEN Retarget(last.difficulty, Epoch, BLOCK_TIME,
                db[last.blockNumber - (Epoch - 1)], last)
  ELSE last.difficulty

DifficultyFollowsChain ==
  booted /\ (\A h \in Handler : ~Accepted(h)) =>
    difficulty = NextDifficulty(blockDB, latestBlock)

\* A process sends each block on at most once, however often it receives it,
\* so that flooding ends.
RelayedOnce == IsInjective(relayed)

\* A block that is accepted becomes the latest block, unless the process dies.
AcceptedIsAdopted ==
  \A block \in PeerBlock, r \in 0..MaxRestarts :
    (\E h \in Handler : Accepted(h) /\ task[h].block = block) /\ restarts = r
      ~> latestBlock = block \/ restarts > r

-----------------------------------------------------------------------------
(* The intake path implements the ledger log: a block is appended at the   *)
(* moment verifyBlock accepts it, while its writes are still ahead.        *)

InFlight == {h \in Handler : Accepted(h)}
TheTask == task[CHOOSE h \in Handler : Accepted(h)]

LogChain  == IF InFlight = {} THEN blockDB
             ELSE Put(blockDB, TheTask.block.blockNumber, TheTask.block)
LogTip    == IF InFlight = {} THEN latestBlock ELSE TheTask.block
LogLedger == IF InFlight = {} THEN stateDB ELSE Overlay(stateDB, TheTask.work.states)
LogCodes  == IF InFlight = {} THEN codeDB ELSE codeDB \cup CodeOf(TheTask.work.states)

Log == INSTANCE LedgerLog WITH
  chain <- LogChain, tip <- LogTip, ledger <- LogLedger, codes <- LogCodes

\* Whatever the interleaving, duplication and order of the messages, the node
\* is a log of valid blocks: each is verified against the state its
\* predecessors left and applied once.
ImplementsLedgerLog == Log!Spec

=============================================================================
