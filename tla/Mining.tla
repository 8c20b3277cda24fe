-------------------------------- MODULE Mining --------------------------------
(***************************************************************************)
(* A JeChain node that mines: loopMine and mine() of src/node/server.js,   *)
(* the worker process of src/miner/worker.js, and the NEW_BLOCK handler    *)
(* that interrupts them with the blocks of other miners.                   *)
(*                                                                         *)
(* A job is one call of mine(): it selects transactions, sends a block to  *)
(* the worker that is current then, and goes on with the first result that *)
(* worker sends back, whichever block that is.  A worker is killed and     *)
(* replaced after every job and by every block of a peer; what it had sent *)
(* before may still arrive.                                                *)
(*                                                                         *)
(* Left out: the two index stores, difficulty and timestamps (no step here *)
(* reads them; Intake has them), and the interleavings inside one          *)
(* selection, one verification and one sweep (TxPool has the last).  An    *)
(* account and its code are written in one step.                           *)
(***************************************************************************)
EXTENDS PoolRules

CONSTANTS
  PoolTx,          \* the transactions submitted to this node
  PeerBlock,       \* the blocks of other miners
  Genesis,
  InitialLedger,
  Coinbase,        \* the address of this miner
  Overlap,         \* may an event arrive while a handler awaits a store?
  MaxJobs          \* bound on the calls of mine()

\* Block 1 has no transactions, so no account is a contract after it.
ASSUME MiningAssumption ==
  /\ Genesis.blockNumber = 1
  /\ PoolTx \subseteq Transaction
  /\ \A block \in PeerBlock : block.txs \in Seq(Transaction) /\ block.coinbase \in Account
  /\ InitialLedger \in [Account -> AccountState \cup {Absent}]
  /\ \A a \in Account : InitialLedger[a] # Absent => InitialLedger[a].codeHash = EMPTY_HASH
  /\ Coinbase \in Account /\ Overlap \in BOOLEAN /\ MaxJobs \in Nat

VARIABLES
  stateDB, codeDB, blockDB,
  latestBlock, transactionPool,   \* fields of chainInfo
  mined,                          \* "another node has already mined before it"
  loop,                           \* the variables mining and length of loopMine
  workers,                        \* every worker process so far; the last is current
  jobs,                           \* every call of mine() so far
  rival,                          \* the NEW_BLOCK handler
  announced                       \* the blocks sent to peers

accounts == <<stateDB, codeDB>>
chain == <<blockDB, latestBlock>>
miner == <<mined, loop, workers, jobs>>
vars == <<accounts, chain, transactionPool, miner, rival, announced>>

FreshWorker == [queue |-> << >>, listeners |-> << >>, outbox |-> << >>]
IdleRival == [pc |-> "idle", block |-> Genesis, work |-> EmptyWork, unwritten |-> {}]

Init ==
  /\ stateDB = InitialLedger
  /\ codeDB = {EMPTY_HASH}
  /\ blockDB = [n \in {1} |-> Genesis]
  /\ latestBlock = Genesis
  /\ transactionPool = << >>
  /\ mined = FALSE
  /\ loop = [mining |-> TRUE, length |-> 1]
  /\ workers = <<FreshWorker>>
  /\ jobs = << >>
  /\ rival = IdleRival
  /\ announced = {}

-----------------------------------------------------------------------------
Writing == {"blockDB", "index", "reward", "flush", "sweep"}

NobodyWaits ==
  /\ rival.pc = "idle"
  /\ \A j \in DOMAIN jobs : jobs[j].pc \notin Writing \cup {"select"}

\* A timer, a message or an answer of a worker can be handled now.
EventArrives == Overlap \/ NobodyWaits

\* Nor does the timer overtake what a killed worker had sent.
TimerFires ==
  \/ Overlap
  \/ NobodyWaits /\ \A w \in 1..(Len(workers) - 1) : workers[w].outbox = << >>

\* Mutant: the worker is kept.
ReforkNothing(ws) == ws

\* worker.kill(); worker = fork(...)
Refork(ws) == Append([ws EXCEPT ![Len(ws)].queue = << >>], FreshWorker)

-----------------------------------------------------------------------------
(* loopMine and mine() up to the worker.                                   *)

NewBlock(j) ==
  [hash |-> <<"own", j>>, parentHash |-> latestBlock.hash,
   blockNumber |-> latestBlock.blockNumber + 1, txs |-> << >>, coinbase |-> Coinbase]

NewJob(j) ==
  [pc |-> "select", block |-> NewBlock(j), result |-> NewBlock(j),
   work |-> EmptySelection, unwritten |-> {}]

\* The job listens to the current worker and sends it its block.
SendToWorker(j, job) ==
  /\ jobs' = Put(jobs, j, [job EXCEPT !.pc = "hash"])
  /\ workers' = [workers EXCEPT ![Len(workers)].queue = Append(@, j),
                                ![Len(workers)].listeners = Append(@, j)]

\* Mutant: the length of the chain is not looked at.
DueOnce == loop.mining

Due == loop.mining \/ loop.length # latestBlock.blockNumber

\* With an empty pool mine() reaches the worker without an await.
Tick ==
  /\ TimerFires /\ Due
  /\ Len(jobs) < MaxJobs
  /\ loop' = [mining |-> FALSE, length |-> latestBlock.blockNumber]
  /\ LET j == Len(jobs) + 1
     IN  IF transactionPool = << >>
         THEN SendToWorker(j, NewJob(j))
         ELSE jobs' = Append(jobs, NewJob(j)) /\ workers' = workers
  /\ UNCHANGED <<accounts, chain, transactionPool, mined, rival, announced>>

\* A selection that throws ends the job: mine() is rejected.
Collect(j) ==
  /\ jobs[j].pc = "select"
  /\ LET work == Select(stateDB, codeDB, transactionPool)
     IN  IF work.status = "ok"
         THEN SendToWorker(j, [jobs[j] EXCEPT !.work = work, !.block.txs = work.txs])
         ELSE jobs' = [jobs EXCEPT ![j].pc = "dead"] /\ workers' = workers
  /\ UNCHANGED <<accounts, chain, transactionPool, mined, loop, rival, announced>>

\* The worker finds a nonce for the block it has had longest.
Solve ==
  LET w == Len(workers)
  IN  /\ workers[w].queue # << >>
      /\ workers' = [workers EXCEPT ![w].queue = Tail(@),
                       ![w].outbox = Append(@, jobs[Head(workers[w].queue)].block)]
      /\ UNCHANGED <<accounts, chain, transactionPool, mined, loop, jobs, rival, announced>>

-----------------------------------------------------------------------------
(* The answer of a worker.                                                 *)

\* Mutant: the blocks of other miners are not noticed.
NeverInterrupted == FALSE

Interrupted == mined

\* Every job that still listens to the worker takes the result for its own.
\* When mined is set the first of them drops it, clears mined and replaces
\* the worker; the others find mined cleared.
Deliver(w) ==
  LET heard   == workers[w].listeners
      turns   == {i \in DOMAIN heard : jobs[heard[i]].pc = "hash"}
      dropped == IF Interrupted /\ turns # {} THEN {heard[Min(turns)]} ELSE {}
      added   == {heard[i] : i \in turns} \ dropped
      drained == [workers EXCEPT ![w].outbox = Tail(@)]
  IN  /\ EventArrives
      /\ workers[w].outbox # << >>
      /\ jobs' = [j \in DOMAIN jobs |->
                    IF j \in dropped THEN [jobs[j] EXCEPT !.pc = "done"]
                    ELSE IF j \in added
                    THEN [jobs[j] EXCEPT !.pc = "blockDB", !.result = Head(workers[w].outbox)]
                    ELSE jobs[j]]
      /\ mined' = (mined /\ dropped = {})
      /\ workers' = IF dropped # {} THEN Refork(drained) ELSE drained
      /\ UNCHANGED <<accounts, chain, transactionPool, loop, rival, announced>>

\* What a killed worker had sent may also be lost.
Lose(w) ==
  /\ w # Len(workers) /\ workers[w].outbox # << >>
  /\ workers' = [workers EXCEPT ![w].outbox = << >>]
  /\ UNCHANGED <<accounts, chain, transactionPool, mined, loop, jobs, rival, announced>>

PutBlock(j) ==
  /\ jobs[j].pc = "blockDB"
  /\ blockDB' = Put(blockDB, jobs[j].result.blockNumber, jobs[j].result)
  /\ jobs' = [jobs EXCEPT ![j].pc = "index"]
  /\ UNCHANGED <<accounts, latestBlock, transactionPool, mined, loop, workers, rival, announced>>

\* Mutant: the latest block is not replaced.
IndexOnly(j) ==
  /\ jobs[j].pc = "index"
  /\ latestBlock' = latestBlock
  /\ jobs' = [jobs EXCEPT ![j].pc = "reward"]
  /\ UNCHANGED <<accounts, blockDB, transactionPool, mined, loop, workers, rival, announced>>

\* The index is written; the block becomes the latest before its accounts.
Index(j) ==
  /\ jobs[j].pc = "index"
  /\ latestBlock' = jobs[j].result
  /\ jobs' = [jobs EXCEPT ![j].pc = "reward"]
  /\ UNCHANGED <<accounts, blockDB, transactionPool, mined, loop, workers, rival, announced>>

\* The fees are those of the transactions the job itself selected.
Reward(j) ==
  /\ jobs[j].pc = "reward"
  /\ LET work == PayCoinbase(stateDB, codeDB, jobs[j].work, jobs[j].block)
     IN  jobs' = [jobs EXCEPT ![j].pc = "flush", ![j].work = work, ![j].unwritten = DOMAIN work.states]
  /\ UNCHANGED <<accounts, chain, transactionPool, mined, loop, workers, rival, announced>>

\* codeDB.put of a text that was never loaded throws; the worker stays.
FlushAccount(j) ==
  /\ jobs[j].pc = "flush"
  /\ \E a \in jobs[j].unwritten :
       LET state == jobs[j].work.states[a]
           loaded == state.codeHash \in jobs[j].work.code
       IN  /\ stateDB' = [stateDB EXCEPT ![a] = state]
           /\ codeDB' = IF loaded THEN codeDB \cup {state.codeHash} ELSE codeDB
           /\ jobs' = [jobs EXCEPT ![j].unwritten = @ \ {a},
                         ![j].pc = IF ~loaded THEN "dead"
                                   ELSE IF jobs[j].unwritten = {a} THEN "sweep" ELSE "flush"]
  /\ UNCHANGED <<chain, transactionPool, mined, loop, workers, rival, announced>>

\* The pool is swept, the latest block announced and the worker replaced.
Complete(j) ==
  /\ jobs[j].pc = "sweep"
  /\ transactionPool' = Swept(stateDB, transactionPool)
  /\ announced' = announced \cup {latestBlock}
  /\ workers' = Refork(workers)
  /\ jobs' = [jobs EXCEPT ![j].pc = "done"]
  /\ UNCHANGED <<accounts, chain, mined, loop, rival>>

-----------------------------------------------------------------------------
(* NEW_BLOCK on a mining node, and submissions.                            *)

Receive(block) ==
  LET work == Transit(stateDB, codeDB, block)
  IN  /\ EventArrives /\ rival.pc = "idle"
      /\ block.parentHash = latestBlock.hash
      /\ block.blockNumber = latestBlock.blockNumber + 1
      /\ HasValidTxOrder(stateDB, block.txs)
      /\ work.status = "ok"
      /\ rival' = [pc |-> "flush", block |-> block, work |-> work, unwritten |-> DOMAIN work.states]
      /\ UNCHANGED <<accounts, chain, transactionPool, miner, announced>>

\* verifyBlock returns when the last account is written, and only then is
\* the worker stopped.
RivalFlush ==
  /\ rival.pc = "flush"
  /\ \E a \in rival.unwritten :
       LET state == rival.work.states[a]
           loaded == state.codeHash \in rival.work.code
           last == rival.unwritten = {a}
       IN  /\ stateDB' = [stateDB EXCEPT ![a] = state]
           /\ codeDB' = IF loaded THEN codeDB \cup {state.codeHash} ELSE codeDB
           /\ rival' = IF ~loaded THEN IdleRival
                       ELSE [rival EXCEPT !.unwritten = @ \ {a}, !.pc = IF last THEN "blockDB" ELSE "flush"]
           /\ mined' = (mined \/ (loaded /\ last))
           /\ workers' = IF loaded /\ last THEN Refork(workers) ELSE workers
  /\ UNCHANGED <<chain, transactionPool, loop, jobs, announced>>

RivalPutBlock ==
  /\ rival.pc = "blockDB"
  /\ blockDB' = Put(blockDB, rival.block.blockNumber, rival.block)
  /\ rival' = [rival EXCEPT !.pc = "index"]
  /\ UNCHANGED <<accounts, latestBlock, transactionPool, miner, announced>>

RivalIndex ==
  /\ rival.pc = "index"
  /\ latestBlock' = rival.block
  /\ rival' = [rival EXCEPT !.pc = "sweep"]
  /\ UNCHANGED <<accounts, blockDB, transactionPool, miner, announced>>

RivalComplete ==
  /\ rival.pc = "sweep"
  /\ transactionPool' = Swept(stateDB, transactionPool)
  /\ announced' = announced \cup {rival.block}
  /\ rival' = IdleRival
  /\ UNCHANGED <<accounts, chain, miner>>

\* CREATE_TRANSACTION, whose interleavings are in TxPool.
Submit(tx) ==
  /\ EventArrives
  /\ IsValid(stateDB, tx)
  /\ tx.nonce = MaxNonce(stateDB, transactionPool, tx) + 1
  /\ transactionPool' = Append(transactionPool, tx)
  /\ UNCHANGED <<accounts, chain, miner, rival, announced>>

-----------------------------------------------------------------------------
JobStep(j) ==
  \/ Collect(j) \/ PutBlock(j) \/ Index(j)
  \/ Reward(j) \/ FlushAccount(j) \/ Complete(j)

RivalStep == RivalFlush \/ RivalPutBlock \/ RivalIndex \/ RivalComplete

Next ==
  \/ Tick
  \/ Solve
  \/ \E w \in DOMAIN workers : Deliver(w) \/ Lose(w)
  \/ \E j \in DOMAIN jobs : JobStep(j)
  \/ \E block \in PeerBlock : Receive(block)
  \/ RivalStep
  \/ \E tx \in PoolTx : Submit(tx)

Spec == Init /\ [][Next]_vars

\* The timer fires, the worker finds a nonce, the answer of the current
\* worker arrives and stores answer.
Fairness ==
  /\ WF_vars(Tick) /\ WF_vars(Solve) /\ WF_vars(RivalStep)
  /\ WF_vars(Deliver(Len(workers)))
  /\ \A j \in 1..MaxJobs : WF_vars(j \in DOMAIN jobs /\ JobStep(j))

FairSpec == Spec /\ Fairness

-----------------------------------------------------------------------------
(* Correctness.                                                            *)

\* The latest block is replaced by a child of it only: the miner adds a
\* block only "if the block is not mined before" (mine()).
AdoptsChild == [][latestBlock' # latestBlock => latestBlock'.parentHash = latestBlock.hash]_vars

\* What a job adds to the chain is the block it sent to be mined ("Mine the
\* block. If the block is not mined before, we will add it", mine()).
TakesOwnResult ==
  \A j \in DOMAIN jobs : jobs[j].pc \in Writing => jobs[j].result = jobs[j].block

\* A node that verifies the stored chain from the genesis block accepts every
\* block of it and reaches the accounts of this node: what mine() selects and
\* executes is what verifyTxAndTransit accepts and executes.
ReplayBlock(replay, block) ==
  LET work == Transit(replay.db, replay.codes, block)
  IN  IF replay.valid /\ HasValidTxOrder(replay.db, block.txs) /\ work.status = "ok"
      THEN [replay EXCEPT !.db = Overlay(@, work.states), !.codes = @ \cup CodeOf(work.states)]
      ELSE [replay EXCEPT !.valid = FALSE]

Replayed ==
  FoldLeft(ReplayBlock, [valid |-> TRUE, db |-> InitialLedger, codes |-> {EMPTY_HASH}],
           [i \in 1..(latestBlock.blockNumber - 1) |-> blockDB[i + 1]])

LedgerIsReplay ==
  NobodyWaits => Replayed = [valid |-> TRUE, db |-> stateDB, codes |-> codeDB]

\* Peers have been sent every block this node mined and kept.
OwnBlocksAnnounced ==
  NobodyWaits => \A n \in DOMAIN blockDB \ {1} : blockDB[n] \in announced

\* Something is under way that leads to another block: the timer will start a
\* job, the current worker has one, or a handler is at work ("Function to mine
\* continuously", loopMine).  The bound on jobs is no reason to stop.
AlwaysMining ==
  \/ Len(jobs) = MaxJobs \/ Due \/ ~NobodyWaits
  \/ workers[Len(workers)].queue # << >> \/ workers[Len(workers)].outbox # << >>

\* Mined blocks follow one another until the bound on jobs.
ChainGrows ==
  \A n \in 1..MaxJobs : latestBlock.blockNumber = n ~> latestBlock.blockNumber > n

=============================================================================
