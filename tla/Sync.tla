--------------------------------- MODULE Sync ---------------------------------
(***************************************************************************)
(* A JeChain node that joins with ENABLE_CHAIN_REQUEST: it asks its peers  *)
(* for one block number at a time, runs their answers through the queue of *)
(* src/node/queue.js and stores what fits (SEND_BLOCK and REQUEST_BLOCK in *)
(* src/node/server.js), while NEW_BLOCK messages are handled as in Intake. *)
(*                                                                         *)
(* The peers are external: each has a branch of the chain, stores more of  *)
(* it as time passes and floods what it stores.  Requests and answers may  *)
(* be handled in any order; the floods of one peer arrive in the order     *)
(* they were sent.  Two equal requests to a peer that are both unanswered  *)
(* count as one.                                                           *)
(***************************************************************************)
EXTENDS Intake

CONSTANTS
  Peer,
  Branch,          \* peer -> the blocks it will ever have, from block 1
  StartHeight,     \* peer -> how many of them it has at first
  FIRST_ACCOUNT, INITIAL_SUPPLY,
  GENESIS_HASH,    \* the configured hash of block 1, or NoHash
  NoHash,
  NoBlock,         \* latestSyncBlock before anything is synced
  Overlap,         \* may a NEW_BLOCK arrive while a SEND_BLOCK is handled?
  MaxFaults        \* bound on disconnections, unanswered requests and crashes

ASSUME SyncAssumption ==
  /\ FIRST_ACCOUNT \in Account /\ INITIAL_SUPPLY \in Nat
  /\ NoBlock \notin Block /\ BootBlock \notin PeerBlock
  /\ Overlap \in BOOLEAN /\ MaxFaults \in Nat
  /\ \A p \in Peer :
       /\ Branch[p] \in Seq(PeerBlock) /\ StartHeight[p] \in DOMAIN Branch[p]
       /\ \A n \in DOMAIN Branch[p] : Branch[p][n].blockNumber = n
  /\ StartHeight \in [Peer -> Nat]

VARIABLES
  height,                \* how much of its branch each peer has
  linked,                \* the peers connected in both directions
  asked, sent, floods,   \* messages: REQUEST_BLOCK, SEND_BLOCK, NEW_BLOCK
  lost,
  ENABLE_CHAIN_REQUEST, currentSyncBlock, latestSyncBlock,
  queue, syncing,        \* the fields of SyncQueue
  message,               \* the block whose handler the queue runs
  sync,                  \* the verification handler
  waiting                \* is the first request still to be sent?

network == <<height, linked, asked, sent, floods, lost>>
position == <<ENABLE_CHAIN_REQUEST, currentSyncBlock, latestSyncBlock, waiting>>
syncQueue == <<queue, syncing, message, sync>>
intake == <<stores, chainInfo, relayed, task, process>>
syncVars == <<intake, network, position, syncQueue>>

IdleSync == [pc |-> "idle", block |-> Genesis, work |-> EmptyWork,
             unwritten |-> {}, txIndex |-> 0]

Faults == lost + restarts

FirstFunds == [Fresh EXCEPT !.balance = INITIAL_SUPPLY]

SyncInit ==
  /\ stateDB = [a \in Account |-> IF a = FIRST_ACCOUNT THEN FirstFunds ELSE Absent]
  /\ codeDB = {EMPTY_HASH}
  /\ blockDB = << >> /\ bhashDB = << >> /\ txhashDB = << >>
  /\ latestBlock = BootBlock /\ difficulty = BootBlock.difficulty
  /\ checkedBlock = {} /\ relayed = << >>
  /\ task = [h \in Handler |-> IdleTask]
  /\ booted = TRUE /\ restarts = 0
  /\ height = StartHeight
  /\ linked = {} /\ asked = {} /\ sent = {} /\ lost = 0
  /\ floods = [p \in Peer |-> << >>]
  /\ ENABLE_CHAIN_REQUEST = TRUE /\ currentSyncBlock = 1
  /\ latestSyncBlock = NoBlock /\ waiting = TRUE
  /\ queue = << >> /\ syncing = FALSE /\ message = Genesis /\ sync = IdleSync

-----------------------------------------------------------------------------
(* The network.                                                            *)

Link(p) ==
  /\ p \notin linked
  /\ linked' = linked \cup {p}
  /\ UNCHANGED <<intake, height, asked, sent, floods, lost, position, syncQueue>>

Unlink(p) ==
  /\ p \in linked /\ Faults < MaxFaults
  /\ lost' = lost + 1
  /\ linked' = linked \ {p}
  /\ asked' = {m \in asked : m[1] # p}
  /\ sent' = {m \in sent : m[1] # p}
  /\ floods' = [floods EXCEPT ![p] = << >>]
  /\ UNCHANGED <<intake, height, position, syncQueue>>

\* A peer adopts the next block of its branch and floods it.
Grow(p) ==
  /\ height[p] < Len(Branch[p])
  /\ height' = [height EXCEPT ![p] = @ + 1]
  /\ floods' = IF p \in linked
               THEN [floods EXCEPT ![p] = Append(@, Branch[p][height[p] + 1])]
               ELSE floods
  /\ UNCHANGED <<intake, linked, asked, sent, lost, position, syncQueue>>

\* REQUEST_BLOCK: a block that is not stored is not answered for.
Answer(p, n) ==
  /\ <<p, n>> \in asked
  /\ asked' = asked \ {<<p, n>>}
  /\ sent' = IF n \in 1..height[p] THEN sent \cup {<<p, Branch[p][n]>>} ELSE sent
  /\ UNCHANGED <<intake, height, linked, floods, lost, position, syncQueue>>

\* The peer has not listed the node that asks yet: its handler throws.
Throw(p, n) ==
  /\ <<p, n>> \in asked /\ Faults < MaxFaults
  /\ lost' = lost + 1
  /\ asked' = asked \ {<<p, n>>}
  /\ UNCHANGED <<intake, height, linked, sent, floods, position, syncQueue>>

-----------------------------------------------------------------------------
(* Requests.                                                               *)

\* for (const node of opened) node.socket.send(REQUEST_BLOCK)
AskAll(n) == asked' = asked \cup {<<p, n>> : p \in linked}

\* The timer that startServer sets.
RequestFirst ==
  /\ waiting
  /\ waiting' = FALSE
  /\ AskAll(currentSyncBlock)
  /\ UNCHANGED <<intake, height, linked, sent, floods, lost, ENABLE_CHAIN_REQUEST,
                 currentSyncBlock, latestSyncBlock, syncQueue>>

-----------------------------------------------------------------------------
(* The queue.                                                              *)

Anchors(block) ==
  latestSyncBlock = NoBlock /\ GENESIS_HASH \in {NoHash, block.hash}

\* The handler gets as far as an await.
Starts(block, now) ==
  \/ Anchors(block)
  \/ HeaderFits(block) /\ (block.txs # << >> \/ BodyFits(block, now))

FirstPc(block) ==
  IF Anchors(block) THEN "blockDB" ELSE IF block.txs # << >> THEN "order" ELSE "replay"

\* SyncQueue.sync: blocks are taken from blocks until the handler of one
\* awaits; without one the queue is done.
RunQueue(blocks) ==
  \E now \in Clock :
    \/ /\ \A i \in DOMAIN blocks : ~Starts(blocks[i], now)
       /\ queue' = << >> /\ syncing' = FALSE /\ sync' = IdleSync
    \/ \E i \in DOMAIN blocks :
         /\ Starts(blocks[i], now) /\ \A j \in 1..(i - 1) : ~Starts(blocks[j], now)
         /\ queue' = SubSeq(blocks, i + 1, Len(blocks))
         /\ syncing' = TRUE
         /\ sync' = [IdleSync EXCEPT !.pc = FirstPc(blocks[i]), !.block = blocks[i]]

Wanted(block) == ENABLE_CHAIN_REQUEST /\ block.blockNumber = currentSyncBlock

\* SEND_BLOCK: an answer to another question is dropped; one that finds the
\* queue at work waits in it, and its handler is never used.
ReceiveSent(p, block) ==
  /\ <<p, block>> \in sent
  /\ sent' = sent \ {<<p, block>>}
  /\ \/ ~Wanted(block) /\ UNCHANGED syncQueue
     \/ /\ Wanted(block) /\ syncing
        /\ queue' = Append(queue, block)
        /\ UNCHANGED <<syncing, message, sync>>
     \/ /\ Wanted(block) /\ ~syncing
        /\ Overlap \/ Quiet
        /\ message' = block
        /\ RunQueue(Append(queue, block))
  /\ UNCHANGED <<intake, height, linked, asked, floods, lost, position>>

\* An exception leaves syncing set: the queue never runs again.
Wedge == sync' = IdleSync /\ UNCHANGED <<queue, syncing, message>>

SyncAt(pc) == sync.pc = pc
SyncGoto(pc) == sync' = [sync EXCEPT !.pc = pc] /\ UNCHANGED <<queue, syncing, message>>

-----------------------------------------------------------------------------
(* The verification handler.                                               *)

\* hasValidTxOrder reads the account of a sender that is in no store.
ReadsMissingSender(db, txs) ==
  \E i \in DOMAIN txs :
    /\ db[txs[i].sender] = Absent
    /\ HasValidTxOrder(db, SubSeq(txs, 1, i - 1))

SyncOrder ==
  /\ SyncAt("order")
  /\ IF ReadsMissingSender(stateDB, sync.block.txs) THEN Wedge
     ELSE \/ /\ HasValidTxOrder(stateDB, sync.block.txs)
             /\ \E now \in Clock : BodyFits(sync.block, now)
             /\ SyncGoto("replay")
          \/ /\ \/ ~HasValidTxOrder(stateDB, sync.block.txs)
                \/ \E now \in Clock : ~BodyFits(sync.block, now)
             /\ RunQueue(queue) /\ UNCHANGED message
  /\ UNCHANGED <<intake, network, position>>

SyncReplay ==
  /\ SyncAt("replay")
  /\ LET work == Transit(stateDB, codeDB, sync.block)
     IN  CASE work.status = "ok" ->
                /\ sync' = [sync EXCEPT !.pc = "flush", !.work = work,
                                        !.unwritten = DOMAIN work.states]
                /\ UNCHANGED <<queue, syncing, message>>
           [] work.status = "throws" -> Wedge
           [] OTHER -> RunQueue(queue) /\ UNCHANGED message
  /\ UNCHANGED <<intake, network, position>>

\* One round of the flush: an account, then the text of its code, whose put
\* throws when the text was never loaded.
SyncFlush ==
  /\ SyncAt("flush")
  /\ \E a \in sync.unwritten :
       LET state == sync.work.states[a]
       IN  /\ stateDB' = [stateDB EXCEPT ![a] = state]
           /\ IF state.codeHash \notin sync.work.code
              THEN codeDB' = codeDB /\ Wedge
              ELSE /\ codeDB' = codeDB \cup {state.codeHash}
                   /\ sync' = [sync EXCEPT !.unwritten = @ \ {a},
                                 !.pc = IF sync.unwritten = {a} THEN "blockDB" ELSE "flush"]
                   /\ UNCHANGED <<queue, syncing, message>>
  /\ UNCHANGED <<blockDB, bhashDB, txhashDB, chainInfo, relayed, task, process,
                 network, position>>

\* What is stored is the message the handler closes over.
SyncPutBlock ==
  /\ SyncAt("blockDB")
  /\ blockDB' = Put(blockDB, sync.block.blockNumber, message)
  /\ SyncGoto("bhashDB")
  /\ UNCHANGED <<stateDB, codeDB, bhashDB, txhashDB, chainInfo, relayed, task, process,
                 network, position>>

\* Mutant: the answers that still wait are kept.
KeptQueue == queue

\* SyncQueue.wipe
WipedQueue == << >>

\* Mutant: the next block is asked for by nobody.
CompleteSilently ==
  /\ currentSyncBlock' = currentSyncBlock + 1
  /\ asked' = asked
  /\ queue' = WipedQueue /\ syncing' = FALSE /\ sync' = IdleSync
  /\ UNCHANGED message

\* The end of a handler that succeeds: the next number is asked of every
\* peer, and the queue stops.
Complete ==
  /\ currentSyncBlock' = currentSyncBlock + 1
  /\ AskAll(currentSyncBlock + 1)
  /\ queue' = WipedQueue /\ syncing' = FALSE /\ sync' = IdleSync
  /\ UNCHANGED message

\* From the assignment of latestBlock on; updateDifficulty awaits a store
\* only at the end of an epoch.
Adopt ==
  /\ latestBlock' = sync.block
  /\ IF sync.block.blockNumber % Epoch = 0
     THEN SyncGoto("difficulty") /\ UNCHANGED <<currentSyncBlock, asked>>
     ELSE Complete

\* Mutant: the first block is not applied.
IndexedUnapplied ==
  /\ latestSyncBlock' = sync.block
  /\ Adopt

\* After the last index entry: the first block synced is still to be applied.
Indexed ==
  IF latestSyncBlock = NoBlock
  THEN /\ latestSyncBlock' = sync.block
       /\ SyncGoto("reward")
       /\ UNCHANGED <<latestBlock, currentSyncBlock, asked>>
  ELSE Adopt /\ UNCHANGED latestSyncBlock

AfterSyncIndex(written) ==
  IF written = Len(sync.block.txs) THEN Indexed
  ELSE /\ sync' = [sync EXCEPT !.pc = "txhashDB", !.txIndex = written]
       /\ UNCHANGED <<queue, syncing, message, latestSyncBlock, latestBlock,
                      currentSyncBlock, asked>>

SyncPutBhash ==
  /\ SyncAt("bhashDB")
  /\ bhashDB' = Put(bhashDB, sync.block.hash, sync.block.blockNumber)
  /\ AfterSyncIndex(0)
  /\ UNCHANGED <<stateDB, codeDB, blockDB, txhashDB, difficulty, checkedBlock, relayed,
                 task, process, height, linked, sent, floods, lost,
                 ENABLE_CHAIN_REQUEST, waiting>>

SyncPutTxhash ==
  /\ SyncAt("txhashDB")
  /\ LET i == sync.txIndex + 1
     IN  /\ txhashDB' = Put(txhashDB, TxHash(sync.block.txs[i]),
                            <<sync.block.blockNumber, i - 1>>)
         /\ AfterSyncIndex(i)
  /\ UNCHANGED <<stateDB, codeDB, blockDB, bhashDB, difficulty, checkedBlock, relayed,
                 task, process, height, linked, sent, floods, lost,
                 ENABLE_CHAIN_REQUEST, waiting>>

\* changeState on a block whose transactions are still bytes: it throws at
\* the first of them (it puts an account without an address), and otherwise
\* pays the reward.
SyncReward ==
  /\ SyncAt("reward")
  /\ IF sync.block.txs # << >>
     THEN Wedge /\ UNCHANGED <<stateDB, latestBlock, currentSyncBlock, asked>>
     ELSE /\ stateDB' = LET a == sync.block.coinbase
                            state == IF stateDB[a] = Absent THEN Fresh ELSE stateDB[a]
                        IN  [stateDB EXCEPT ![a] = [state EXCEPT !.balance = @ + BLOCK_REWARD]]
          /\ Adopt
  /\ UNCHANGED <<codeDB, blockDB, bhashDB, txhashDB, difficulty, checkedBlock, relayed,
                 task, process, height, linked, sent, floods, lost,
                 ENABLE_CHAIN_REQUEST, latestSyncBlock, waiting>>

SyncDifficulty ==
  /\ SyncAt("difficulty")
  /\ difficulty' = Retarget(difficulty, Epoch, BLOCK_TIME,
                            blockDB[sync.block.blockNumber - (Epoch - 1)], sync.block)
  /\ Complete
  /\ UNCHANGED <<stores, latestBlock, checkedBlock, relayed, task, process,
                 height, linked, sent, floods, lost,
                 ENABLE_CHAIN_REQUEST, latestSyncBlock, waiting>>

SyncStep ==
  \/ SyncOrder \/ SyncReplay \/ SyncFlush \/ SyncPutBlock \/ SyncPutBhash
  \/ SyncPutTxhash \/ SyncReward \/ SyncDifficulty

-----------------------------------------------------------------------------
(* NEW_BLOCK on a node that syncs.                                         *)

Follows == ~ENABLE_CHAIN_REQUEST \/ currentSyncBlock > 1

\* The oldest flood of p is handled up to its first await.
ReceiveFlood(p) ==
  /\ floods[p] # << >>
  /\ floods' = [floods EXCEPT ![p] = Tail(@)]
  /\ LET block == Head(floods[p])
     IN  \/ IsChecked(block) /\ UNCHANGED intake
         \/ /\ ~Follows /\ ~IsChecked(block)
            /\ checkedBlock' = checkedBlock \cup {block.hash}
            /\ UNCHANGED <<stores, latestBlock, difficulty, relayed, task, process>>
         \/ Follows /\ Discard(block)
         \/ /\ Follows
            /\ Overlap \/ SyncAt("idle")
            /\ \E h \in Handler : Receive(h, block)
  /\ UNCHANGED <<height, linked, asked, sent, lost, position, syncQueue>>

\* A node that has adopted a flooded block asks for no more.
NewBlockStep(h) ==
  /\ Step(h)
  /\ ENABLE_CHAIN_REQUEST' = (ENABLE_CHAIN_REQUEST /\ ~At(h, "clear"))
  /\ UNCHANGED <<network, currentSyncBlock, latestSyncBlock, waiting, syncQueue>>

-----------------------------------------------------------------------------
(* Crash and restart, up to the timer.                                     *)

\* Mutant: the block after the last one is asked for.
ResumeAfter == IF blockDB = << >> THEN 1 ELSE Highest(blockDB) + 1

ResumeAt == IF blockDB = << >> THEN 1 ELSE Highest(blockDB)

SyncRestart ==
  /\ Faults < MaxFaults
  /\ restarts' = restarts + 1
  /\ latestBlock' = BootBlock /\ difficulty' = BootBlock.difficulty
  /\ checkedBlock' = {} /\ relayed' = << >>
  /\ task' = [h \in Handler |-> IdleTask]
  /\ linked' = {} /\ asked' = {} /\ sent' = {}
  /\ floods' = [p \in Peer |-> << >>]
  /\ ENABLE_CHAIN_REQUEST' = TRUE /\ latestSyncBlock' = NoBlock /\ waiting' = TRUE
  /\ currentSyncBlock' = ResumeAt
  /\ stateDB' = IF ResumeAt = 1 THEN [stateDB EXCEPT ![FIRST_ACCOUNT] = FirstFunds] ELSE stateDB
  /\ queue' = << >> /\ syncing' = FALSE /\ message' = Genesis /\ sync' = IdleSync
  /\ UNCHANGED <<codeDB, blockDB, bhashDB, txhashDB, booted, height, lost>>

-----------------------------------------------------------------------------
\* What the event loop, the stores and the peers owe the node.
Progress ==
  \/ \E m \in asked : Answer(m[1], m[2])
  \/ \E m \in sent : ReceiveSent(m[1], m[2])
  \/ \E p \in Peer : ReceiveFlood(p)
  \/ RequestFirst
  \/ SyncStep
  \/ \E h \in Handler : NewBlockStep(h)

SyncNext ==
  \/ Progress
  \/ \E p \in Peer : Link(p) \/ Unlink(p) \/ Grow(p)
  \/ \E m \in asked : Throw(m[1], m[2])
  \/ SyncRestart

SyncSpec == SyncInit /\ [][SyncNext]_syncVars

\* Work that is there is done, in an order nobody promises.
SyncFairSpec == SyncSpec /\ WF_syncVars(Progress)

-----------------------------------------------------------------------------
(* Correctness.                                                            *)

\* Nothing is being handled, and no exception has stopped the queue.
Resting == Quiet /\ ~syncing

\* What waits in the queue, and what its handler works on, answers the
\* question being asked: an answer that comes twice, or late, is never taken
\* for the next block, and no handler works outside the queue.
QueueAnswersQuestion ==
  /\ ~syncing => SyncAt("idle") /\ queue = << >>
  /\ \A i \in DOMAIN queue : queue[i].blockNumber = currentSyncBlock
  /\ ~SyncAt("idle") => sync.block.blockNumber = currentSyncBlock

\* The state after one more block: the first only pays its reward.
ApplyBlock(before, block) ==
  LET a == block.coinbase
      rewarded == IF before.db[a] = Absent THEN Fresh ELSE before.db[a]
      work == Transit(before.db, before.codes, block)
  IN  IF block.blockNumber = 1
      THEN [before EXCEPT !.db[a] = [rewarded EXCEPT !.balance = @ + BLOCK_REWARD]]
      ELSE [valid |-> /\ before.valid /\ work.status = "ok"
                      /\ HasValidTxOrder(before.db, block.txs),
            db |-> Overlay(before.db, work.states),
            codes |-> before.codes \cup CodeOf(work.states)]

Replayed ==
  FoldLeft(ApplyBlock,
           [valid |-> TRUE, codes |-> {EMPTY_HASH},
            db |-> [a \in Account |-> IF a = FIRST_ACCOUNT THEN FirstFunds ELSE Absent]],
           [n \in 1..latestBlock.blockNumber |-> blockDB[n]])

\* What is stored under the number of the latest block is that block: the
\* bytes that were verified are those this node serves, and reads when it
\* restarts ("Add block to chain", SEND_BLOCK handler).
StoresWhatItVerified ==
  restarts = 0 /\ Resting /\ latestBlock # BootBlock =>
    blockDB[latestBlock.blockNumber] = latestBlock

\* Until it is restarted, a node that has joined holds what every node with
\* its chain holds: the accounts are the replay of the stored blocks, each
\* valid and applied once, and the next difficulty is the one they ask for.
JoinedStateIsReplay ==
  restarts = 0 /\ Resting /\ latestBlock # BootBlock =>
    /\ Replayed = [valid |-> TRUE, db |-> stateDB, codes |-> codeDB]
    /\ difficulty = NextDifficulty(blockDB, latestBlock)

\* Through crashes at any step, every block below the number asked for is
\* stored, found by its hash and its transactions by theirs: a node resumes early
\* enough to repair the entries of the block it was storing.
IndexSurvives ==
  \A n \in 1..(currentSyncBlock - 1) :
    /\ n \in DOMAIN blockDB
    /\ blockDB[n].hash \in DOMAIN bhashDB /\ bhashDB[blockDB[n].hash] = n
    /\ \A i \in DOMAIN blockDB[n].txs :
         LET hash == TxHash(blockDB[n].txs[i])
         IN  hash \in DOMAIN txhashDB /\ txhashDB[hash] = <<n, i - 1>>

\* Once it has a first block the node replaces its latest block by a child
\* only, whether the child was asked for or flooded.
JoinsOneBranch ==
  [][latestBlock' # latestBlock /\ latestBlock # BootBlock /\ restarts' = restarts
       => latestBlock'.parentHash = latestBlock.hash]_syncVars

OnOtherBranch(p) ==
  \E n \in DOMAIN blockDB \cap DOMAIN Branch[p] : blockDB[n] # Branch[p][n]

\* Sync reaches every peer it could ask at the beginning, again and again as
\* that peer goes on, unless the node has stopped asking or has taken another
\* branch.  A lost message, a disconnection or a crash voids the promise: no
\* request is ever repeated.
CatchesUp ==
  \A p \in Peer :
    <>(waiting /\ restarts = 0 /\ p \in linked) =>
      []<>(\/ latestBlock.blockNumber >= height[p] /\ latestBlock # BootBlock
           \/ OnOtherBranch(p) \/ ~ENABLE_CHAIN_REQUEST
           \/ lost > 0 \/ restarts > 0)

=============================================================================
