------------------------------ MODULE SyncProofs ------------------------------
(***************************************************************************)
(* For any peers, branches, clocks, number of handlers, faults and order   *)
(* of the messages, with NEW_BLOCK handlers between any two steps: the     *)
(* queue of a node that syncs holds only answers to the question that is   *)
(* being asked.  The node stays on the branch of its first block until a   *)
(* block becomes the latest while a sibling of it is under way.  And until *)
(* two blocks are verified or written at once: as long as it is not        *)
(* restarted its accounts are the replay of the blocks it stores, and      *)
(* through any crashes every block below the one it asks for can be found. *)
(***************************************************************************)
EXTENDS Sync, IntakeProofs

\* The messages of the network are blocks of the peers.
NetworkOK ==
  /\ linked \subseteq Peer
  /\ height \in [Peer -> Nat] /\ \A p \in Peer : height[p] <= Len(Branch[p])
  /\ \A m \in asked : m[1] \in Peer
  /\ \A m \in sent : m[2] \in PeerBlock

HandlerOK ==
  /\ DOMAIN sync = {"pc", "block", "work", "unwritten", "txIndex"}
  /\ queue \in Seq(PeerBlock)
  /\ ~SyncAt("idle") => sync.block \in PeerBlock

FloodsOK == floods \in [Peer -> Seq(PeerBlock)]

QueueInv == HandlerOK /\ QueueAnswersQuestion

SyncInv == NetworkOK /\ FloodsOK /\ QueueInv

-----------------------------------------------------------------------------
LEMMA IdleSyncShape ==
  /\ DOMAIN IdleSync = {"pc", "block", "work", "unwritten", "txIndex"}
  /\ IdleSync.pc = "idle"
BY DEF IdleSync

\* What the queue does with blocks that all answer the question leaves only
\* such blocks in it, and one of them with the handler.
LEMMA RunQueueAnswers ==
  ASSUME NEW blocks \in Seq(PeerBlock), RunQueue(blocks),
         \A i \in DOMAIN blocks : blocks[i].blockNumber = currentSyncBlock,
         currentSyncBlock' = currentSyncBlock
  PROVE  QueueInv'
<1>1. CASE queue' = << >> /\ syncing' = FALSE /\ sync' = IdleSync
  BY <1>1, IdleSyncShape DEF QueueInv, HandlerOK, QueueAnswersQuestion, SyncAt
<1>2. CASE \E i \in DOMAIN blocks :
             /\ queue' = SubSeq(blocks, i + 1, Len(blocks))
             /\ syncing' = TRUE
             /\ sync' = [IdleSync EXCEPT !.pc = FirstPc(blocks[i]), !.block = blocks[i]]
  <2>1. PICK i \in DOMAIN blocks :
          /\ queue' = SubSeq(blocks, i + 1, Len(blocks))
          /\ syncing' = TRUE
          /\ sync' = [IdleSync EXCEPT !.pc = FirstPc(blocks[i]), !.block = blocks[i]]
    BY <1>2
  <2>2. sync'.block = blocks[i] /\ DOMAIN sync' = DOMAIN IdleSync
    BY <2>1 DEF IdleSync
  <2>3. queue' \in Seq(PeerBlock)
    BY <2>1
  <2>4. \A j \in DOMAIN queue' : queue'[j].blockNumber = currentSyncBlock
    BY <2>1
  <2> QED
    BY <2>1, <2>2, <2>3, <2>4, IdleSyncShape DEF QueueInv, HandlerOK, QueueAnswersQuestion
<1> QED
  BY <1>1, <1>2 DEF RunQueue

\* Steps that only move the handler on.
LEMMA HandlerMoves ==
  ASSUME QueueInv, ~SyncAt("idle"), UNCHANGED <<queue, syncing, currentSyncBlock>>,
         DOMAIN sync' = DOMAIN sync, sync'.block = sync.block, sync'.pc # "idle"
  PROVE  QueueInv'
BY DEF QueueInv, HandlerOK, QueueAnswersQuestion, SyncAt

LEMMA GotoMoves ==
  ASSUME QueueInv, NEW pc, SyncGoto(pc)
  PROVE  /\ DOMAIN sync' = DOMAIN sync /\ sync'.block = sync.block /\ sync'.pc = pc
         /\ UNCHANGED <<queue, syncing>>
BY DEF QueueInv, HandlerOK, SyncGoto

\* An exception leaves the queue as it is, for ever.
LEMMA WedgeKeeps ==
  ASSUME QueueInv, ~SyncAt("idle"), Wedge, currentSyncBlock' = currentSyncBlock
  PROVE  QueueInv'
<1>1. syncing
  BY DEF QueueInv, QueueAnswersQuestion
<1> QED
  BY <1>1, IdleSyncShape DEF QueueInv, HandlerOK, QueueAnswersQuestion, SyncAt, Wedge

\* A handler that succeeds leaves the queue empty.
LEMMA CompleteEmpties ==
  ASSUME Complete
  PROVE  QueueInv'
BY IdleSyncShape DEF Complete, WipedQueue, QueueInv, HandlerOK, QueueAnswersQuestion, SyncAt

LEMMA QueueUntouched ==
  ASSUME QueueInv, UNCHANGED <<queue, syncing, sync, currentSyncBlock>>
  PROVE  QueueInv'
BY DEF QueueInv, HandlerOK, QueueAnswersQuestion, SyncAt

\* The queue goes on with what waits in it.
LEMMA QueueGoesOn ==
  ASSUME QueueInv, RunQueue(queue), currentSyncBlock' = currentSyncBlock
  PROVE  QueueInv'
BY RunQueueAnswers DEF QueueInv, HandlerOK, QueueAnswersQuestion

LEMMA AdoptKeeps ==
  ASSUME QueueInv, ~SyncAt("idle"), Adopt
  PROVE  QueueInv'
<1>1. CASE Complete
  BY <1>1, CompleteEmpties
<1>2. CASE SyncGoto("difficulty") /\ UNCHANGED currentSyncBlock
  BY <1>2, GotoMoves, HandlerMoves
<1> QED
  BY <1>1, <1>2 DEF Adopt

LEMMA AfterIndexKeeps ==
  ASSUME QueueInv, ~SyncAt("idle"), NEW written, AfterSyncIndex(written)
  PROVE  QueueInv'
<1>1. CASE Adopt
  BY <1>1, AdoptKeeps
<1>2. CASE SyncGoto("reward") /\ UNCHANGED currentSyncBlock
  BY <1>2, GotoMoves, HandlerMoves
<1>3. CASE /\ sync' = [sync EXCEPT !.pc = "txhashDB", !.txIndex = written]
           /\ UNCHANGED <<queue, syncing, currentSyncBlock>>
  BY <1>3, HandlerMoves DEF QueueInv, HandlerOK
<1> QED
  BY <1>1, <1>2, <1>3 DEF AfterSyncIndex, Indexed

\* One case per action of the verification handler.
LEMMA SyncStepKeeps ==
  ASSUME QueueInv, SyncStep
  PROVE  QueueInv'
<1>1. CASE SyncOrder
  <2>1. ~SyncAt("idle") /\ currentSyncBlock' = currentSyncBlock
    BY <1>1 DEF SyncOrder, SyncAt, position
  <2>2. Wedge \/ SyncGoto("replay") \/ RunQueue(queue)
    BY <1>1 DEF SyncOrder
  <2> QED
    BY <2>1, <2>2, WedgeKeeps, GotoMoves, HandlerMoves, QueueGoesOn
<1>2. CASE SyncReplay
  <2> DEFINE work == Transit(stateDB, codeDB, sync.block)
  <2>1. ~SyncAt("idle") /\ currentSyncBlock' = currentSyncBlock
    BY <1>2 DEF SyncReplay, SyncAt, position
  <2>2. \/ /\ sync' = [sync EXCEPT !.pc = "flush", !.work = work,
                                   !.unwritten = DOMAIN work.states]
           /\ UNCHANGED <<queue, syncing>>
        \/ Wedge \/ RunQueue(queue)
    BY <1>2 DEF SyncReplay
  <2>3. CASE /\ sync' = [sync EXCEPT !.pc = "flush", !.work = work,
                                     !.unwritten = DOMAIN work.states]
             /\ UNCHANGED <<queue, syncing>>
    BY <2>1, <2>3, HandlerMoves DEF QueueInv, HandlerOK
  <2> QED
    BY <2>1, <2>2, <2>3, WedgeKeeps, QueueGoesOn
<1>3. CASE SyncFlush
  <2>1. ~SyncAt("idle") /\ currentSyncBlock' = currentSyncBlock
    BY <1>3 DEF SyncFlush, SyncAt, position
  <2>2. PICK a \in sync.unwritten :
          \/ Wedge
          \/ /\ sync' = [sync EXCEPT !.unwritten = @ \ {a},
                          !.pc = IF sync.unwritten = {a} THEN "blockDB" ELSE "flush"]
             /\ UNCHANGED <<queue, syncing>>
    BY <1>3 DEF SyncFlush
  <2>3. CASE /\ sync' = [sync EXCEPT !.unwritten = @ \ {a},
                            !.pc = IF sync.unwritten = {a} THEN "blockDB" ELSE "flush"]
             /\ UNCHANGED <<queue, syncing>>
    BY <2>1, <2>3, HandlerMoves DEF QueueInv, HandlerOK
  <2> QED
    BY <2>1, <2>2, <2>3, WedgeKeeps
<1>4. CASE SyncPutBlock
  BY <1>4, GotoMoves, HandlerMoves DEF SyncPutBlock, SyncAt, position
<1>5. CASE SyncPutBhash
  BY <1>5, AfterIndexKeeps DEF SyncPutBhash, SyncAt
<1>6. CASE SyncPutTxhash
  BY <1>6, AfterIndexKeeps DEF SyncPutTxhash, SyncAt
<1>7. CASE SyncReward
  BY <1>7, AdoptKeeps, WedgeKeeps DEF SyncReward, SyncAt
<1>8. CASE SyncDifficulty
  BY <1>8, CompleteEmpties DEF SyncDifficulty
<1> QED
  BY <1>1, <1>2, <1>3, <1>4, <1>5, <1>6, <1>7, <1>8 DEF SyncStep

LEMMA ReceiveSentKeeps ==
  ASSUME SyncInv, NEW m \in sent, ReceiveSent(m[1], m[2])
  PROVE  QueueInv'
<1> DEFINE block == m[2]
<1>1. currentSyncBlock' = currentSyncBlock /\ block \in PeerBlock
  BY DEF ReceiveSent, position, SyncInv, NetworkOK
<1>2. CASE UNCHANGED syncQueue
  BY <1>1, <1>2, QueueUntouched DEF SyncInv, syncQueue
<1>3. CASE /\ Wanted(block) /\ syncing
           /\ queue' = Append(queue, block)
           /\ UNCHANGED <<syncing, message, sync>>
  BY <1>1, <1>3 DEF SyncInv, QueueInv, HandlerOK, QueueAnswersQuestion, Wanted, SyncAt
<1>4. CASE Wanted(block) /\ RunQueue(Append(queue, block))
  <2>1. Append(queue, block) \in Seq(PeerBlock)
    BY <1>1 DEF SyncInv, QueueInv, HandlerOK
  <2>2. \A i \in DOMAIN Append(queue, block) :
          Append(queue, block)[i].blockNumber = currentSyncBlock
    BY <1>1, <1>4 DEF SyncInv, QueueInv, HandlerOK, QueueAnswersQuestion, Wanted
  <2> QED
    BY <1>1, <1>4, <2>1, <2>2, RunQueueAnswers
<1> QED
  BY <1>2, <1>3, <1>4 DEF ReceiveSent

-----------------------------------------------------------------------------
(* The network.                                                            *)

LEMMA AskAllOK ==
  ASSUME NetworkOK, NEW n, AskAll(n)
  PROVE  \A m \in asked' : m[1] \in Peer
BY DEF AskAll, NetworkOK

\* Only the end of a handler asks, and no handler touches the rest.
LEMMA SyncStepNetwork ==
  ASSUME NetworkOK, SyncStep
  PROVE  NetworkOK'
<1>1. UNCHANGED <<height, linked, sent>>
  BY DEF SyncStep, SyncOrder, SyncReplay, SyncFlush, SyncPutBlock, SyncPutBhash,
         SyncPutTxhash, SyncReward, SyncDifficulty, network
<1>2. asked' = asked \/ \E n : AskAll(n)
  BY DEF SyncStep, SyncOrder, SyncReplay, SyncFlush, SyncPutBlock, SyncPutBhash,
         SyncPutTxhash, SyncReward, SyncDifficulty, network, AfterSyncIndex, Indexed,
         Adopt, Complete
<1>3. \A m \in asked' : m[1] \in Peer
  BY <1>2, AskAllOK DEF NetworkOK
<1> QED
  BY <1>1, <1>3 DEF NetworkOK

LEMMA AnswerOK ==
  ASSUME NetworkOK, NEW m \in asked, Answer(m[1], m[2])
  PROVE  NetworkOK'
<1> DEFINE block == Branch[m[1]][m[2]]
<1>1. CASE m[2] \in 1..height[m[1]]
  <2>1. block \in PeerBlock
    BY <1>1, SyncAssumption DEF NetworkOK
  <2>2. \A s \in sent' : s[2] \in PeerBlock
    BY <1>1, <2>1 DEF Answer, NetworkOK
  <2> QED
    BY <2>2 DEF Answer, NetworkOK
<1>2. CASE m[2] \notin 1..height[m[1]]
  BY <1>2 DEF Answer, NetworkOK
<1> QED
  BY <1>1, <1>2

-----------------------------------------------------------------------------
LEMMA SyncInitOK ==
  ASSUME SyncInit
  PROVE  SyncInv
<1>1. NetworkOK
  BY SyncAssumption DEF SyncInit, NetworkOK
<1>2. QueueInv
  BY IdleSyncShape DEF SyncInit, QueueInv, HandlerOK, QueueAnswersQuestion, SyncAt
<1>3. FloodsOK
  BY DEF SyncInit, FloodsOK
<1> QED
  BY <1>1, <1>2, <1>3 DEF SyncInv

LEMMA FloodsKept ==
  ASSUME SyncInv, [SyncNext]_syncVars
  PROVE  FloodsOK'
<1>1. ASSUME NEW p \in Peer, Unlink(p) \/ Grow(p) \/ ReceiveFlood(p)
      PROVE  FloodsOK'
  <2>1. CASE Unlink(p)
    BY <2>1 DEF Unlink, SyncInv, FloodsOK
  <2>2. CASE Grow(p)
    <3>1. Branch[p][height[p] + 1] \in PeerBlock
      <4>1. height[p] + 1 \in 1..Len(Branch[p]) /\ Branch[p] \in Seq(PeerBlock)
        BY <2>2, SyncAssumption DEF Grow, SyncInv, NetworkOK
      <4> QED
        BY <4>1
    <3>2. floods' = floods \/ floods' = [floods EXCEPT ![p] = Append(@, Branch[p][height[p] + 1])]
      BY <2>2 DEF Grow
    <3>3. Append(floods[p], Branch[p][height[p] + 1]) \in Seq(PeerBlock)
      BY <3>1 DEF SyncInv, FloodsOK
    <3> QED
      BY <3>2, <3>3 DEF SyncInv, FloodsOK
  <2>3. CASE ReceiveFlood(p)
    <3>1. floods' = [floods EXCEPT ![p] = Tail(@)] /\ floods[p] # << >>
      BY <2>3 DEF ReceiveFlood
    <3>2. Tail(floods[p]) \in Seq(PeerBlock)
      BY <3>1 DEF SyncInv, FloodsOK
    <3> QED
      BY <3>1, <3>2 DEF SyncInv, FloodsOK
  <2> QED
    BY <1>1, <2>1, <2>2, <2>3
<1>2. CASE UNCHANGED floods
  BY <1>2 DEF SyncInv, FloodsOK
<1>3. ASSUME NEW h \in Handler, NewBlockStep(h)
      PROVE  UNCHANGED floods
  BY <1>3 DEF NewBlockStep, network
<1>4. SyncStep => UNCHANGED floods
  BY DEF SyncStep, SyncOrder, SyncReplay, SyncFlush, SyncPutBlock, SyncPutBhash,
         SyncPutTxhash, SyncReward, SyncDifficulty, network
<1>5. SyncRestart => FloodsOK'
  BY DEF SyncRestart, FloodsOK
<1>6. (UNCHANGED syncVars) \/ RequestFirst
      \/ (\E p \in Peer : Link(p)) \/ (\E m \in asked : Answer(m[1], m[2]) \/ Throw(m[1], m[2]))
      \/ (\E m \in sent : ReceiveSent(m[1], m[2])) => UNCHANGED floods
  BY DEF syncVars, network, RequestFirst, Link, Answer, Throw, ReceiveSent
<1> QED
  BY <1>1, <1>2, <1>3, <1>4, <1>5, <1>6 DEF SyncNext, Progress

LEMMA SyncNextKeeps ==
  ASSUME SyncInv, [SyncNext]_syncVars
  PROVE  SyncInv'
<1>0. FloodsOK'
  BY FloodsKept
<1>1. ASSUME NEW p \in Peer, Link(p) \/ Unlink(p) \/ Grow(p) \/ ReceiveFlood(p)
      PROVE  SyncInv'
  <2>1. QueueInv'
    BY <1>1, QueueUntouched
    DEF Link, Unlink, Grow, ReceiveFlood, position, syncQueue, SyncInv
  <2>2. CASE Link(p) \/ Unlink(p) \/ ReceiveFlood(p)
    BY <1>0, <1>1, <2>1, <2>2 DEF Link, Unlink, ReceiveFlood, SyncInv, NetworkOK
  <2>3. CASE Grow(p)
    <3>1. height' = [height EXCEPT ![p] = @ + 1] /\ height[p] < Len(Branch[p])
      BY <2>3 DEF Grow
    <3>2. /\ height' \in [Peer -> Nat] /\ \A q \in Peer : height'[q] <= Len(Branch[q])
      BY <3>1, SyncAssumption DEF SyncInv, NetworkOK
    <3> QED
      BY <1>0, <2>1, <2>3, <3>2 DEF Grow, SyncInv, NetworkOK
  <2> QED
    BY <1>1, <2>2, <2>3
<1>2. ASSUME NEW m \in asked, Answer(m[1], m[2]) \/ Throw(m[1], m[2])
      PROVE  SyncInv'
  <2>1. QueueInv'
    BY <1>2, QueueUntouched DEF Answer, Throw, position, syncQueue, SyncInv
  <2>2. CASE Answer(m[1], m[2])
    BY <1>0, <2>1, <2>2, AnswerOK DEF SyncInv
  <2>3. CASE Throw(m[1], m[2])
    BY <1>0, <2>1, <2>3 DEF Throw, SyncInv, NetworkOK
  <2> QED
    BY <1>2, <2>2, <2>3
<1>3. ASSUME NEW m \in sent, ReceiveSent(m[1], m[2])
      PROVE  SyncInv'
  BY <1>0, <1>3, ReceiveSentKeeps DEF ReceiveSent, SyncInv, NetworkOK
<1>4. CASE RequestFirst
  BY <1>0, <1>4, AskAllOK, QueueUntouched DEF RequestFirst, SyncInv, NetworkOK, syncQueue
<1>5. CASE SyncStep
  BY <1>0, <1>5, SyncStepKeeps, SyncStepNetwork DEF SyncInv
<1>6. ASSUME NEW h \in Handler, NewBlockStep(h)
      PROVE  SyncInv'
  BY <1>0, <1>6, QueueUntouched DEF NewBlockStep, network, syncQueue, SyncInv, NetworkOK
<1>7. CASE SyncRestart
  BY <1>0, <1>7, IdleSyncShape
  DEF SyncRestart, SyncInv, NetworkOK, QueueInv, HandlerOK, QueueAnswersQuestion, SyncAt
<1>8. CASE UNCHANGED syncVars
  BY <1>0, <1>8, QueueUntouched
  DEF syncVars, network, position, syncQueue, SyncInv, NetworkOK
<1> QED
  BY <1>1, <1>2, <1>3, <1>4, <1>5, <1>6, <1>7, <1>8 DEF SyncNext, Progress

\* What waits in the queue and what its handler works on always answers the
\* question being asked, however often and late the answers come and however
\* the NEW_BLOCK handlers interleave (SyncQueue, SEND_BLOCK handler).
THEOREM QueueSafe == SyncSpec => []QueueAnswersQuestion
<1>1. SyncInit => SyncInv
  BY SyncInitOK
<1>2. SyncInv /\ [SyncNext]_syncVars => SyncInv'
  BY SyncNextKeeps
<1>3. SyncInv => QueueAnswersQuestion
  BY DEF SyncInv, QueueInv
<1> QED
  BY <1>1, <1>2, <1>3, PTL DEF SyncSpec

-----------------------------------------------------------------------------
(* The branch that is joined.  A block is compared with the latest one      *)
(* before the awaits of its handler and becomes the latest after them,     *)
(* whether it answers a request or was flooded.                            *)

Follower(block) == block.parentHash = latestBlock.hash
Succeeds(block) == Follower(block) /\ block.blockNumber = latestBlock.blockNumber + 1

\* verifyBlock will refuse it when it compares the numbers.
Stale(block) == block.rootOk => block.blockNumber <= latestBlock.blockNumber

Storing == sync.pc \in {"blockDB", "bhashDB", "txhashDB"}
SyncVerified == sync.pc \in {"replay", "flush"} \/ Storing

\* What SiblingUnderWay says of the floods, said of the answers.
AnswerUnderWay ==
  /\ sync.block.parentHash = latestBlock.parentHash
  /\ SyncVerified \/ (SyncAt("order") /\ ~Stale(sync.block))

\* The only event that is excluded: a block becomes the latest while a
\* sibling of it is under way in another handler.
OvertakesNone ==
  restarts' = restarts /\ latestBlock' # latestBlock =>
    ~AnswerUnderWay' /\ \A h \in Handler : ~SiblingUnderWay(h)'

\* The first block is taken as it comes.  Any other one is a child of the
\* latest block from the check of its header on, or will be refused.
SyncHead ==
  /\ sync.pc \in {"idle", "order", "replay", "flush", "blockDB", "bhashDB", "txhashDB",
                  "reward", "difficulty"}
  /\ SyncAt("order") => /\ latestBlock # BootBlock
                        /\ Follower(sync.block) \/ Stale(sync.block)
  /\ SyncVerified => (Storing /\ latestSyncBlock = NoBlock) \/ Succeeds(sync.block)
  /\ SyncAt("reward") => latestBlock = BootBlock /\ latestSyncBlock # NoBlock

TaskHead ==
  /\ DOMAIN task = Handler
  /\ \A h \in Handler :
       /\ IsTask(task[h])
       /\ At(h, "order") => /\ latestBlock # BootBlock
                            /\ Follower(task[h].block) \/ Stale(task[h].block)
       /\ Verified(h) => Succeeds(task[h].block)

HeadInv ==
  /\ SyncHead /\ TaskHead
  /\ latestBlock # BootBlock => latestSyncBlock # NoBlock
  /\ latestBlock \in Block /\ restarts \in Nat

TakesChild ==
  latestBlock' # latestBlock /\ latestBlock # BootBlock /\ restarts' = restarts
    => latestBlock'.parentHash = latestBlock.hash

LEMMA NotOfBoot ==
  ASSUME NEW block \in PeerBlock
  PROVE  /\ block # BootBlock /\ block.parentHash # BootBlock.hash /\ block # NoBlock
         /\ block \in Block
BY BootBlockAssumption, SyncAssumption DEF Block

LEMMA RunQueueStarts ==
  ASSUME NEW blocks \in Seq(PeerBlock), RunQueue(blocks)
  PROVE  \/ sync' = IdleSync
         \/ \E block \in PeerBlock :
              /\ sync' = [IdleSync EXCEPT !.pc = FirstPc(block), !.block = block]
              /\ \E now \in Clock : Starts(block, now)
<1>1. \A i \in DOMAIN blocks : blocks[i] \in PeerBlock
  OBVIOUS
<1>2. CASE \E now \in Clock : \E i \in DOMAIN blocks :
             /\ Starts(blocks[i], now)
             /\ sync' = [IdleSync EXCEPT !.pc = FirstPc(blocks[i]), !.block = blocks[i]]
  BY <1>1, <1>2
<1> QED
  BY <1>2 DEF RunQueue

\* Whatever the queue starts has just been compared with the latest block.
LEMMA RunQueueHead ==
  ASSUME NEW blocks \in Seq(PeerBlock), RunQueue(blocks),
         UNCHANGED <<latestBlock, latestSyncBlock>>
  PROVE  SyncHead'
<1>1. CASE sync' = IdleSync
  BY <1>1 DEF SyncHead, SyncVerified, Storing, SyncAt, IdleSync
<1>2. ASSUME NEW block \in PeerBlock, NEW now \in Clock, Starts(block, now),
             sync' = [IdleSync EXCEPT !.pc = FirstPc(block), !.block = block]
      PROVE  SyncHead'
  <2>1. sync'.pc = FirstPc(block) /\ sync'.block = block
    BY <1>2 DEF IdleSync
  <2>2. CASE Anchors(block)
    BY <2>1, <2>2 DEF FirstPc, Anchors, SyncHead, SyncVerified, Storing, SyncAt
  <2>3. CASE ~Anchors(block)
    <3>1. Follower(block) /\ latestBlock # BootBlock
      BY <1>2, <2>3, NotOfBoot DEF Starts, HeaderFits, Follower
    <3> QED
      BY <1>2, <2>1, <2>3, <3>1
         DEF FirstPc, Starts, BodyFits, SyncHead, SyncVerified, Storing, SyncAt, Follower, Succeeds
  <2> QED
    BY <2>2, <2>3
<1> QED
  BY <1>1, <1>2, RunQueueStarts

LEMMA TasksStay ==
  ASSUME HeadInv, UNCHANGED <<task, latestBlock>>
  PROVE  TaskHead'
BY DEF HeadInv, TaskHead, At, Verified, Accepted, Follower, Succeeds, Stale

\* A sibling that still waits has been overtaken.
LEMMA FallsBehind ==
  ASSUME latestBlock \in Block, NEW b \in PeerBlock, NEW c \in PeerBlock, Succeeds(b),
         latestBlock' = b, Follower(c) \/ Stale(c), c.parentHash # b.parentHash \/ Stale(c)'
  PROVE  Stale(c)'
<1>1. /\ latestBlock.blockNumber \in Nat /\ b.blockNumber = latestBlock.blockNumber + 1
      /\ c.blockNumber \in Nat
  BY NotOfBoot, IntakeAssumption DEF Succeeds
<1> QED
  BY <1>1 DEF Follower, Succeeds, Stale

\* No other handler has verified a block when one becomes the latest.
LEMMA TasksFallBehind ==
  ASSUME HeadInv, OvertakesNone, NEW b \in PeerBlock, latestBlock' = b, restarts' = restarts,
         Succeeds(b) \/ latestBlock = BootBlock, NEW g \in Handler, task'[g] = task[g]
  PROVE  /\ At(g, "order")' => Stale(task[g].block)' /\ latestBlock' # BootBlock
         /\ ~Verified(g)'
<1>1. latestBlock \in Block /\ latestBlock' # BootBlock
  BY NotOfBoot DEF HeadInv
<1>2. CASE latestBlock = BootBlock
  BY <1>2, NotOfBoot DEF HeadInv, TaskHead, IsTask, At, Verified, Accepted, Succeeds, Follower
<1>3. CASE Succeeds(b)
  <2>1. latestBlock' # latestBlock
    BY <1>1, <1>3, IntakeAssumption DEF Succeeds
  <2>2. ~SiblingUnderWay(g)'
    BY <2>1 DEF OvertakesNone
  <2>3. ASSUME Verified(g)' PROVE FALSE
    <3>1. Verified(g) /\ task'[g].block.parentHash = b.parentHash
      BY <1>3, <2>3 DEF HeadInv, TaskHead, Verified, Accepted, At, Succeeds, Follower
    <3> QED
      BY <2>2, <2>3, <3>1 DEF SiblingUnderWay
  <2>4. ASSUME At(g, "order")' PROVE Stale(task[g].block)'
    <3>1. /\ At(g, "order") /\ task[g].block \in PeerBlock
          /\ Follower(task[g].block) \/ Stale(task[g].block)
      BY <2>4 DEF HeadInv, TaskHead, At, IsTask
    <3>2. task[g].block.parentHash # b.parentHash \/ Stale(task[g].block)'
      <4>1. /\ task[g].block.blockNumber \in Nat /\ b.blockNumber \in Nat
            /\ task'[g].block = task[g].block
        BY <3>1, NotOfBoot, IntakeAssumption
      <4> QED
        BY <2>2, <2>4, <4>1 DEF SiblingUnderWay, Stale
    <3> QED
      BY <1>1, <1>3, <3>1, <3>2, FallsBehind
  <2> QED
    BY <1>1, <2>3, <2>4
<1> QED
  BY <1>2, <1>3

LEMMA TasksOvertaken ==
  ASSUME HeadInv, OvertakesNone, NEW b \in PeerBlock, latestBlock' = b, restarts' = restarts,
         Succeeds(b) \/ latestBlock = BootBlock, task' = task
  PROVE  TaskHead'
<1>1. DOMAIN task' = Handler /\ \A g \in Handler : IsTask(task'[g])
  BY DEF HeadInv, TaskHead
<1>2. \A g \in Handler :
        /\ At(g, "order")' => Stale(task[g].block)' /\ latestBlock' # BootBlock
        /\ ~Verified(g)'
  BY TasksFallBehind
<1> QED
  BY <1>1, <1>2 DEF TaskHead, Stale

LEMMA AdoptHead ==
  ASSUME QueueInv, sync.block \in PeerBlock, Adopt
  PROVE  SyncHead' /\ latestBlock' = sync.block
<1>1. CASE Complete
  <2>1. sync' = IdleSync
    BY <1>1 DEF Complete
  <2>2. SyncHead'
    BY <2>1 DEF IdleSync, SyncHead, SyncVerified, Storing, SyncAt
  <2> QED
    BY <2>2 DEF Adopt
<1>2. CASE SyncGoto("difficulty")
  <2>1. sync'.pc = "difficulty"
    BY <1>2, GotoMoves
  <2>2. SyncHead'
    BY <2>1 DEF SyncHead, SyncVerified, Storing, SyncAt
  <2> QED
    BY <2>2 DEF Adopt
<1> QED
  BY <1>1, <1>2 DEF Adopt

LEMMA AfterIndexHead ==
  ASSUME HeadInv, QueueInv, OvertakesNone, SyncAt("bhashDB") \/ SyncAt("txhashDB"), NEW written,
         AfterSyncIndex(written), UNCHANGED <<task, restarts>>
  PROVE  HeadInv' /\ TakesChild
<1>1. /\ latestSyncBlock = NoBlock => latestBlock = BootBlock
      /\ latestSyncBlock = NoBlock \/ Succeeds(sync.block)
      /\ sync.block \in PeerBlock /\ sync.block \in Block /\ sync.block # NoBlock
  BY NotOfBoot DEF HeadInv, SyncHead, SyncVerified, Storing, SyncAt, QueueInv, HandlerOK
<1>2. CASE latestSyncBlock = NoBlock /\ latestSyncBlock' = sync.block /\ SyncGoto("reward")
           /\ UNCHANGED latestBlock
  <2>1. sync'.pc = "reward"
    BY <1>2, GotoMoves
  <2>2. SyncHead'
    BY <1>1, <1>2, <2>1 DEF SyncHead, SyncVerified, Storing, SyncAt
  <2> QED
    BY <1>1, <1>2, <2>2, TasksStay DEF HeadInv, TakesChild
<1>3. CASE latestSyncBlock # NoBlock /\ Adopt /\ UNCHANGED latestSyncBlock
  <2>1. SyncHead' /\ latestBlock' = sync.block
    BY <1>1, <1>3, AdoptHead
  <2>2. TaskHead'
    BY <1>1, <1>3, <2>1, TasksOvertaken
  <2> QED
    BY <1>1, <1>3, <2>1, <2>2 DEF HeadInv, TakesChild, Succeeds, Follower
<1>4. CASE /\ sync' = [sync EXCEPT !.pc = "txhashDB", !.txIndex = written]
           /\ UNCHANGED <<latestSyncBlock, latestBlock>>
  <2>1. sync'.pc = "txhashDB" /\ sync'.block = sync.block
    BY <1>4 DEF QueueInv, HandlerOK
  <2>2. SyncHead'
    BY <1>1, <1>4, <2>1 DEF SyncHead, SyncVerified, Storing, SyncAt, Follower, Succeeds
  <2> QED
    BY <1>4, <2>2, TasksStay DEF HeadInv, TakesChild
<1> QED
  BY <1>2, <1>3, <1>4 DEF AfterSyncIndex, Indexed

LEMMA WedgeHead ==
  ASSUME Wedge
  PROVE  SyncHead'
BY DEF Wedge, IdleSync, SyncHead, SyncVerified, Storing, SyncAt

\* A step of the answer's handler that moves no block into place.
LEMMA SyncOnly ==
  ASSUME HeadInv, SyncHead', UNCHANGED <<task, restarts, latestBlock, latestSyncBlock>>
  PROVE  HeadInv' /\ TakesChild
BY TasksStay DEF HeadInv, TakesChild

LEMMA SyncStepHead ==
  ASSUME HeadInv, QueueInv, OvertakesNone, SyncStep
  PROVE  HeadInv' /\ TakesChild
<1>0. ~SyncAt("idle") /\ UNCHANGED <<task, restarts>>
  BY DEF SyncStep, SyncOrder, SyncReplay, SyncFlush, SyncPutBlock, SyncPutBhash,
         SyncPutTxhash, SyncReward, SyncDifficulty, SyncAt, intake, process
<1>1. queue \in Seq(PeerBlock) /\ sync.block \in PeerBlock
  BY <1>0 DEF QueueInv, HandlerOK
<1>4. CASE SyncOrder
  <2>1. UNCHANGED <<latestBlock, latestSyncBlock>>
    BY <1>4 DEF SyncOrder, intake, chainInfo, position
  <2>2. Wedge \/ (SyncGoto("replay") /\ \E now \in Clock : BodyFits(sync.block, now))
          \/ RunQueue(queue)
    BY <1>4 DEF SyncOrder
  <2>3. ASSUME SyncGoto("replay"), NEW now \in Clock, BodyFits(sync.block, now)
        PROVE  SyncHead'
    <3>1. sync'.pc = "replay" /\ sync'.block = sync.block
      BY <2>3, GotoMoves
    <3>2. latestBlock.blockNumber \in Nat
      BY IntakeAssumption DEF HeadInv
    <3>3. Succeeds(sync.block)
      BY <1>4, <2>3, <3>2 DEF SyncOrder, HeadInv, SyncHead, Stale, BodyFits, Succeeds
    <3> QED
      BY <2>1, <3>1, <3>3 DEF SyncHead, SyncVerified, Storing, SyncAt, Succeeds, Follower
  <2> QED
    BY <1>0, <1>1, <2>1, <2>2, <2>3, RunQueueHead, WedgeHead, SyncOnly
<1>5. CASE SyncReplay
  <2>1. UNCHANGED <<latestBlock, latestSyncBlock>>
    BY <1>5 DEF SyncReplay, intake, chainInfo, position
  <2> DEFINE work == Transit(stateDB, codeDB, sync.block)
  <2>2. \/ sync' = [sync EXCEPT !.pc = "flush", !.work = work, !.unwritten = DOMAIN work.states]
        \/ Wedge \/ RunQueue(queue)
    BY <1>5 DEF SyncReplay
  <2>3. CASE sync' = [sync EXCEPT !.pc = "flush", !.work = work, !.unwritten = DOMAIN work.states]
    <3>1. sync'.pc = "flush" /\ sync'.block = sync.block
      BY <2>3 DEF QueueInv, HandlerOK
    <3>2. SyncHead'
      BY <1>5, <2>1, <3>1
         DEF SyncReplay, HeadInv, SyncHead, SyncVerified, Storing, SyncAt, Follower, Succeeds
    <3> QED
      BY <1>0, <2>1, <3>2, SyncOnly
  <2> QED
    BY <1>0, <1>1, <2>1, <2>2, <2>3, RunQueueHead, WedgeHead, SyncOnly
<1>6. CASE SyncFlush
  <2>1. UNCHANGED <<latestBlock, latestSyncBlock>>
    BY <1>6 DEF SyncFlush, chainInfo, position
  <2>2. PICK a \in sync.unwritten :
          Wedge \/ sync' = [sync EXCEPT !.unwritten = @ \ {a},
                                !.pc = IF sync.unwritten = {a} THEN "blockDB" ELSE "flush"]
    BY <1>6 DEF SyncFlush
  <2>3. CASE sync' = [sync EXCEPT !.unwritten = @ \ {a},
                           !.pc = IF sync.unwritten = {a} THEN "blockDB" ELSE "flush"]
    <3>1. sync'.pc \in {"blockDB", "flush"} /\ sync'.block = sync.block
      BY <2>3 DEF QueueInv, HandlerOK
    <3>2. SyncHead'
      BY <1>6, <2>1, <3>1
         DEF SyncFlush, HeadInv, SyncHead, SyncVerified, Storing, SyncAt, Follower, Succeeds
    <3> QED
      BY <1>0, <2>1, <3>2, SyncOnly
  <2> QED
    BY <1>0, <2>1, <2>2, <2>3, WedgeHead, SyncOnly
<1>7. CASE SyncPutBlock
  <2>1. UNCHANGED <<latestBlock, latestSyncBlock>> /\ SyncGoto("bhashDB")
    BY <1>7 DEF SyncPutBlock, chainInfo, position
  <2>2. sync'.pc = "bhashDB" /\ sync'.block = sync.block
    BY <2>1, GotoMoves
  <2>3. SyncHead'
    BY <1>7, <2>1, <2>2
       DEF SyncPutBlock, HeadInv, SyncHead, SyncVerified, Storing, SyncAt, Follower, Succeeds
  <2> QED
    BY <1>0, <2>1, <2>3, SyncOnly
<1>8. CASE SyncPutBhash
  BY <1>0, <1>8, AfterIndexHead DEF SyncPutBhash
<1>9. CASE SyncPutTxhash
  BY <1>0, <1>9, AfterIndexHead DEF SyncPutTxhash
<1>10. CASE SyncReward
  <2>1. latestBlock = BootBlock /\ latestSyncBlock # NoBlock /\ UNCHANGED latestSyncBlock
    BY <1>10 DEF SyncReward, HeadInv, SyncHead
  <2>2. CASE Wedge /\ UNCHANGED latestBlock
    BY <1>0, <2>1, <2>2, WedgeHead, SyncOnly
  <2>3. CASE Adopt
    <3>1. SyncHead' /\ latestBlock' = sync.block
      BY <1>1, <2>3, AdoptHead
    <3>2. TaskHead' /\ sync.block \in Block
      BY <1>0, <1>1, <2>1, <3>1, NotOfBoot, TasksOvertaken
    <3> QED
      BY <1>0, <2>1, <3>1, <3>2 DEF HeadInv, TakesChild
  <2> QED
    BY <1>10, <2>2, <2>3 DEF SyncReward
<1>11. CASE SyncDifficulty
  <2>1. UNCHANGED <<latestBlock, latestSyncBlock>> /\ sync' = IdleSync
    BY <1>11 DEF SyncDifficulty, Complete
  <2>2. SyncHead'
    BY <2>1 DEF IdleSync, SyncHead, SyncVerified, Storing, SyncAt
  <2> QED
    BY <1>0, <2>1, <2>2, SyncOnly
<1> QED
  BY <1>4, <1>5, <1>6, <1>7, <1>8, <1>9, <1>10, <1>11 DEF SyncStep

LEMMA HeadFrame ==
  ASSUME HeadInv, UNCHANGED <<sync, task, latestBlock, latestSyncBlock, restarts>>
  PROVE  HeadInv' /\ TakesChild
<1>1. SyncHead'
  BY DEF HeadInv, SyncHead, SyncVerified, Storing, SyncAt, Follower, Succeeds, Stale
<1> QED
  BY <1>1, SyncOnly

LEMMA ReceiveSentHead ==
  ASSUME HeadInv, SyncInv, NEW m \in sent, ReceiveSent(m[1], m[2])
  PROVE  HeadInv' /\ TakesChild
<1>1. UNCHANGED <<task, latestBlock, latestSyncBlock, restarts>> /\ m[2] \in PeerBlock
  BY DEF ReceiveSent, intake, chainInfo, process, position, SyncInv, NetworkOK
<1>2. CASE UNCHANGED sync
  BY <1>1, <1>2, HeadFrame
<1>3. CASE RunQueue(Append(queue, m[2]))
  <2>1. Append(queue, m[2]) \in Seq(PeerBlock)
    BY <1>1 DEF SyncInv, QueueInv, HandlerOK
  <2>2. SyncHead'
    BY <1>1, <1>3, <2>1, RunQueueHead
  <2> QED
    BY <1>1, <2>2, SyncOnly
<1> QED
  BY <1>2, <1>3 DEF ReceiveSent, syncQueue

LEMMA ReceiveFloodHead ==
  ASSUME HeadInv, SyncInv, NEW p \in Peer, ReceiveFlood(p)
  PROVE  HeadInv' /\ TakesChild
<1> DEFINE block == Head(floods[p])
<1>1. block \in PeerBlock
  BY DEF ReceiveFlood, SyncInv, FloodsOK
<1>2. UNCHANGED <<sync, latestSyncBlock>>
  BY DEF ReceiveFlood, syncQueue, position
<1> HIDE DEF block
<1>3. CASE UNCHANGED <<task, latestBlock, restarts>>
  BY <1>2, <1>3, HeadFrame
<1>4. ASSUME NEW h \in Handler, Receive(h, block)
      PROVE  HeadInv' /\ TakesChild
  <2>1. UNCHANGED <<latestBlock, restarts>> /\ Follower(block) /\ latestBlock # BootBlock
    BY <1>1, <1>4, NotOfBoot DEF Receive, process, HeaderFits, Follower
  <2>2. \/ task' = [task EXCEPT ![h] = [IdleTask EXCEPT !.pc = "order", !.block = block]]
        \/ /\ task' = [task EXCEPT ![h] = [IdleTask EXCEPT !.pc = "replay", !.block = block]]
           /\ Succeeds(block)
        \/ task' = task
    BY <1>4, <2>1 DEF Receive, BodyFits, Succeeds
  <2>3. TaskHead'
    <3>1. CASE task' = task
      BY <2>1, <3>1, TasksStay
    <3>2. ASSUME NEW pc \in {"order", "replay"}, pc = "replay" => Succeeds(block),
                 task' = [task EXCEPT ![h] = [IdleTask EXCEPT !.pc = pc, !.block = block]]
          PROVE  TaskHead'
      <4>1. /\ task'[h].block = block /\ task'[h].pc = pc /\ IsTask(task'[h])
            /\ \A g \in Handler : g # h => task'[g] = task[g]
            /\ DOMAIN task' = Handler
        BY <1>1, <3>2 DEF HeadInv, TaskHead, IdleTask, IsTask, PC
      <4>2. ASSUME NEW g \in Handler
            PROVE  /\ IsTask(task'[g])
                   /\ At(g, "order")' => /\ latestBlock' # BootBlock
                                         /\ (Follower(task[g].block) \/ Stale(task[g].block))'
                   /\ Verified(g)' => Succeeds(task[g].block)'
        <5>1. CASE g # h
          BY <2>1, <4>1, <5>1
             DEF HeadInv, TaskHead, At, Verified, Accepted, Follower, Succeeds, Stale
        <5>2. CASE g = h
          BY <2>1, <3>2, <4>1, <5>2 DEF At, Verified, Accepted, Follower, Succeeds
        <5> QED
          BY <5>1, <5>2
      <4> QED
        BY <4>1, <4>2 DEF TaskHead
    <3> QED
      BY <2>2, <3>1, <3>2
  <2>4. SyncHead'
    BY <1>2, <2>1 DEF HeadInv, SyncHead, SyncVerified, Storing, SyncAt, Follower, Succeeds, Stale
  <2> QED
    BY <1>2, <2>1, <2>3, <2>4 DEF HeadInv, TakesChild
<1> QED
  BY <1>3, <1>4 DEF ReceiveFlood, block, intake, Discard, chainInfo, process

\* What a step of a handler does to its record.
LEMMA TaskMoves ==
  ASSUME TaskHead, NEW h \in Handler, Step(h)
  PROVE  /\ DOMAIN task' = Handler /\ ~At(h, "idle") /\ task[h].block \in PeerBlock
         /\ \A g \in Handler : g # h => task'[g] = task[g]
         /\ IsTask(task'[h])
         /\ ~At(h, "idle")' => task'[h].block = task[h].block /\ ~At(h, "clear")
         /\ \/ latestBlock' = latestBlock
            \/ latestBlock' = task[h].block /\ At(h, "clear")' /\ Indexing(h)
         /\ ~At(h, "order")'
         /\ Verified(h)' =>
              Verified(h) \/ (At(h, "order") /\ \E now \in Clock : BodyFits(task[h].block, now))
         /\ restarts' = restarts
<1> USE DEF IsTask, IdleTask, PC, At, Verified, Accepted, Indexing, Finish, Goto, chainInfo, process
<1>1. DOMAIN task = Handler /\ IsTask(task[h])
  BY DEF TaskHead
<1>2. CASE CheckOrder(h)
  BY <1>1, <1>2 DEF CheckOrder
<1>3. CASE Replay(h)
  BY <1>1, <1>3 DEF Replay
<1>4. CASE FlushState(h)
  BY <1>1, <1>4 DEF FlushState
<1>5. CASE FlushCode(h)
  BY <1>1, <1>5 DEF FlushCode, AfterFlush
<1>6. CASE UpdateDifficulty(h) \/ PutBlock(h)
  BY <1>1, <1>6 DEF UpdateDifficulty, PutBlock
<1>7. CASE PutBhash(h)
  BY <1>1, <1>7 DEF PutBhash, AfterIndex
<1>8. CASE PutTxhash(h)
  BY <1>1, <1>8 DEF PutTxhash, AfterIndex
<1>9. CASE Relay(h)
  BY <1>1, <1>9 DEF Relay
<1> QED
  BY <1>2, <1>3, <1>4, <1>5, <1>6, <1>7, <1>8, <1>9 DEF Step

LEMMA NewBlockHead ==
  ASSUME HeadInv, SyncInv, OvertakesNone, NEW h \in Handler, NewBlockStep(h)
  PROVE  HeadInv' /\ TakesChild
<1> DEFINE b == task[h].block
<1>1. Step(h) /\ UNCHANGED <<sync, latestSyncBlock>> /\ latestBlock.blockNumber \in Nat
  BY IntakeAssumption DEF NewBlockStep, syncQueue, HeadInv
<1>2. /\ DOMAIN task' = Handler /\ b \in PeerBlock /\ b \in Block /\ b # BootBlock
      /\ \A g \in Handler : g # h => task'[g] = task[g]
      /\ IsTask(task'[h]) /\ ~At(h, "order")' /\ restarts' = restarts
      /\ ~At(h, "idle")' => task'[h].block = b
      /\ \/ latestBlock' = latestBlock
         \/ latestBlock' = b /\ At(h, "clear")' /\ Indexing(h)
      /\ Verified(h)' => Verified(h) \/ (At(h, "order") /\ \E now \in Clock : BodyFits(b, now))
  BY <1>1, TaskMoves, NotOfBoot DEF HeadInv
<1>3. Verified(h)' => Succeeds(b) /\ task'[h].block = b
  BY <1>1, <1>2 DEF HeadInv, TaskHead, BodyFits, Stale, Succeeds, Verified, Accepted, At
<1> HIDE DEF b
<1>4. CASE latestBlock' = b /\ At(h, "clear")' /\ Indexing(h)
  <2>1. Succeeds(b) /\ latestBlock # BootBlock
    BY <1>2, <1>4, NotOfBoot
       DEF b, HeadInv, TaskHead, Verified, Accepted, Indexing, At, Succeeds, Follower
  <2>2. ASSUME NEW g \in Handler
        PROVE  /\ IsTask(task'[g])
               /\ At(g, "order")' => latestBlock' # BootBlock /\ Stale(task[g].block)'
               /\ ~Verified(g)'
    <3>1. CASE g = h
      BY <1>2, <1>4, <3>1 DEF At, Verified, Accepted
    <3>2. CASE g # h
      <4>1. IsTask(task'[g]) /\ task'[g] = task[g]
        BY <1>2, <3>2 DEF HeadInv, TaskHead
      <4> QED
        BY <1>2, <1>4, <2>1, <4>1, TasksFallBehind DEF Stale
    <3> QED
      BY <3>1, <3>2
  <2>3. TaskHead'
    BY <1>2, <2>2 DEF TaskHead
  <2>4. SyncHead'
    <3>1. latestSyncBlock # NoBlock /\ latestBlock' # latestBlock
      BY <1>1, <1>4, <2>1 DEF HeadInv, Succeeds
    <3>2. ~AnswerUnderWay'
      BY <1>2, <3>1 DEF OvertakesNone
    <3>3. ~SyncAt("reward")
      BY <2>1 DEF HeadInv, SyncHead
    <3>4. ~SyncVerified
      BY <1>1, <1>4, <2>1, <3>1, <3>2
         DEF HeadInv, SyncHead, AnswerUnderWay, SyncVerified, Storing, Succeeds, Follower
    <3>5. SyncAt("order") => Stale(sync.block)'
      <4> SUFFICES ASSUME SyncAt("order") PROVE Stale(sync.block)'
        OBVIOUS
      <4>1. sync.block \in PeerBlock /\ (Follower(sync.block) \/ Stale(sync.block))
        BY DEF HeadInv, SyncHead, SyncAt, SyncInv, QueueInv, HandlerOK
      <4>2. sync.block.parentHash # b.parentHash \/ Stale(sync.block)'
        BY <1>1, <1>4, <3>2 DEF AnswerUnderWay, SyncAt, Stale
      <4>3. ASSUME NEW c, c = sync.block PROVE Stale(c)'
        <5>1. c.parentHash # b.parentHash \/ Stale(c)'
          BY <1>1, <4>2, <4>3 DEF Stale
        <5> QED
          BY <1>2, <1>4, <2>1, <4>1, <4>3, <5>1, FallsBehind DEF HeadInv
      <4> QED
        BY <1>1, <4>3 DEF Stale
    <3> QED
      BY <1>1, <1>2, <1>4, <3>3, <3>4, <3>5
         DEF HeadInv, SyncHead, SyncVerified, Storing, SyncAt
  <2> QED
    BY <1>1, <1>2, <1>4, <2>1, <2>3, <2>4 DEF HeadInv, TakesChild, Succeeds, Follower
<1>5. CASE latestBlock' = latestBlock
  <2>1. ASSUME NEW g \in Handler
        PROVE  /\ IsTask(task'[g])
               /\ At(g, "order")' => /\ latestBlock' # BootBlock
                                     /\ (Follower(task[g].block) \/ Stale(task[g].block))'
               /\ Verified(g)' => Succeeds(task[g].block)'
    <3>1. CASE g = h
      BY <1>2, <1>3, <1>5, <3>1 DEF Succeeds, Follower
    <3>2. CASE g # h
      BY <1>2, <1>5, <3>2
         DEF HeadInv, TaskHead, At, Verified, Accepted, Follower, Succeeds, Stale
    <3> QED
      BY <3>1, <3>2
  <2>2. TaskHead'
    BY <1>2, <2>1 DEF TaskHead
  <2>3. SyncHead'
    BY <1>1, <1>5
       DEF HeadInv, SyncHead, SyncVerified, Storing, SyncAt, Follower, Succeeds, Stale
  <2> QED
    BY <1>1, <1>2, <1>5, <2>2, <2>3 DEF HeadInv, TakesChild
<1> QED
  BY <1>2, <1>4, <1>5

LEMMA HeadNext ==
  ASSUME HeadInv, SyncInv, [SyncNext]_syncVars, [OvertakesNone]_syncVars
  PROVE  HeadInv' /\ TakesChild
<1>1. ASSUME UNCHANGED syncVars \/ (\E p \in Peer : Link(p) \/ Unlink(p) \/ Grow(p))
             \/ (\E m \in asked : Answer(m[1], m[2]) \/ Throw(m[1], m[2])) \/ RequestFirst
      PROVE  HeadInv' /\ TakesChild
  <2>1. UNCHANGED <<sync, task, latestBlock, latestSyncBlock, restarts>>
    BY <1>1 DEF syncVars, Link, Unlink, Grow, Answer, Throw, RequestFirst, syncQueue, intake,
                chainInfo, process, position
  <2> QED
    BY <2>1, HeadFrame
<1>2. CASE SyncRestart
  <2>1. /\ latestBlock' = BootBlock /\ task' = [h \in Handler |-> IdleTask] /\ sync' = IdleSync
        /\ restarts' = restarts + 1 /\ BootBlock \in Block
    BY <1>2 DEF SyncRestart, Block
  <2>2. SyncHead' /\ TaskHead'
    BY <2>1 DEF SyncHead, TaskHead, SyncVerified, Storing, SyncAt, At, Verified, Accepted,
                IdleSync, IdleTask, IsTask, PC
  <2> QED
    BY <2>1, <2>2 DEF HeadInv, TakesChild
<1>3. CASE OvertakesNone /\ (SyncStep \/ \E h \in Handler : NewBlockStep(h))
  BY <1>3, NewBlockHead, SyncStepHead DEF SyncInv
<1> QED
  BY <1>1, <1>2, <1>3, ReceiveSentHead, ReceiveFloodHead DEF SyncNext, Progress

LEMMA HeadInit ==
  ASSUME SyncInit
  PROVE  HeadInv
BY DEF SyncInit, HeadInv, SyncHead, TaskHead, SyncVerified, Storing, SyncAt, At, Verified,
       Accepted, IdleSync, IdleTask, IsTask, PC, Block

\* A node that has its first block replaces its latest block by a child of it,
\* with any number of handlers between each other's awaits, through crashes,
\* failed handlers and exceptions, and whatever branches its peers are on,
\* until a block becomes the latest while a sibling of it is under way: that
\* is the one event that breaks it.
THEOREM FollowsOneBranch == SyncSpec /\ [][OvertakesNone]_syncVars => JoinsOneBranch
<1>1. SyncInit => SyncInv /\ HeadInv
  BY SyncInitOK, HeadInit
<1>2. SyncInv /\ HeadInv /\ [SyncNext]_syncVars /\ [OvertakesNone]_syncVars => SyncInv' /\ HeadInv'
  BY SyncNextKeeps, HeadNext
<1>3. SyncInv /\ HeadInv /\ [SyncNext]_syncVars /\ [OvertakesNone]_syncVars =>
        [latestBlock' # latestBlock /\ latestBlock # BootBlock /\ restarts' = restarts
           => latestBlock'.parentHash = latestBlock.hash]_syncVars
  BY HeadNext DEF TakesChild
<1> QED
  BY <1>1, <1>2, <1>3, PTL DEF SyncSpec, JoinsOneBranch

-----------------------------------------------------------------------------
(* What the replay of a chain makes of the accounts.                       *)

ApplyNext(env, before, block) == ApplyBlock(before, block)

ReplayFold == INSTANCE FoldTheorems WITH Step <- ApplyNext

FirstLedger ==
  [valid |-> TRUE, codes |-> {EMPTY_HASH},
   db |-> [a \in Account |-> IF a = FIRST_ACCOUNT THEN FirstFunds ELSE Absent]]

FirstBlocks(db, n) == [k \in 1..n |-> db[k]]

\* The ledger after the first n blocks of db.
Chained(db, n) == ReplayFold!Prefix(0, FirstLedger, FirstBlocks(db, n), n)

LEMMA BlocksAreSequence ==
  ASSUME NEW db, NEW n \in Nat
  PROVE  ReplayFold!IsSequence(FirstBlocks(db, n)) /\ Len(FirstBlocks(db, n)) = n
<1>1. FirstBlocks(db, n) \in Seq({db[k] : k \in 1..n})
  BY DEF FirstBlocks
<1>2. Len(FirstBlocks(db, n)) = n /\ DOMAIN FirstBlocks(db, n) = 1..n
  BY <1>1 DEF FirstBlocks
<1> QED
  BY <1>2 DEF ReplayFold!IsSequence

LEMMA ChainedStart ==
  ASSUME NEW db
  PROVE  Chained(db, 0) = FirstLedger
BY BlocksAreSequence, ReplayFold!PrefixBase DEF Chained

LEMMA ChainedStep ==
  ASSUME NEW db, NEW n \in Nat
  PROVE  Chained(db, n + 1) = ApplyBlock(Chained(db, n), db[n + 1])
<1> DEFINE long == FirstBlocks(db, n + 1)
           short == FirstBlocks(db, n)
<1>1. /\ ReplayFold!IsSequence(long) /\ Len(long) = n + 1
      /\ ReplayFold!IsSequence(short) /\ Len(short) = n
  BY BlocksAreSequence
<1>2. (\A k \in 1..n : long[k] = short[k]) /\ long[n + 1] = db[n + 1]
  BY DEF FirstBlocks
<1> HIDE DEF long, short
<1>3. n + 1 \in 1..Len(long) /\ (n + 1) - 1 = n /\ n <= Len(long) /\ n <= Len(short)
  BY <1>1
<1>4. ReplayFold!Prefix(0, FirstLedger, long, n + 1) =
        ApplyNext(0, ReplayFold!Prefix(0, FirstLedger, long, (n + 1) - 1), long[n + 1])
  BY <1>1, <1>3, ReplayFold!PrefixStep
<1>5. ReplayFold!Prefix(0, FirstLedger, long, n) = ReplayFold!Prefix(0, FirstLedger, short, n)
  BY <1>1, <1>2, <1>3, ReplayFold!PrefixAgrees
<1> QED
  BY <1>2, <1>3, <1>4, <1>5 DEF Chained, ApplyNext, long, short

LEMMA ChainedSame ==
  ASSUME NEW db, NEW other, NEW n \in Nat, \A k \in 1..n : db[k] = other[k]
  PROVE  Chained(db, n) = Chained(other, n)
<1>1. FirstBlocks(db, n) = FirstBlocks(other, n)
  BY DEF FirstBlocks
<1> QED
  BY <1>1 DEF Chained

LEMMA ReplayedIsChained ==
  ASSUME latestBlock.blockNumber \in Nat
  PROVE  Replayed = Chained(blockDB, latestBlock.blockNumber)
<1> DEFINE n == latestBlock.blockNumber
           blocks == FirstBlocks(blockDB, n)
<1>1. ReplayFold!IsSequence(blocks) /\ Len(blocks) = n
  BY BlocksAreSequence
<1>2. Replayed = ReplayFold!Folded(0, FirstLedger, blocks)
  BY DEF Replayed, FirstLedger, FirstBlocks, ApplyNext, FoldLeft, MapThenFoldSet, Max,
         ReplayFold!Folded, ReplayFold!FoldLeft, ReplayFold!MapThenFoldSet, ReplayFold!Max
<1> HIDE DEF blocks
<1>3. ReplayFold!Folded(0, FirstLedger, blocks) = ReplayFold!Prefix(0, FirstLedger, blocks, n)
  BY <1>1, ReplayFold!FoldedIsPrefix
<1> QED
  BY <1>2, <1>3 DEF Chained, blocks

-----------------------------------------------------------------------------
(* A block on its way into the stores.                                     *)

\* The state, and the stored code, once the accounts of done are written.
StateAfter(before, work, done) ==
  [a \in Account |-> IF a \in done THEN work.states[a] ELSE before.db[a]]
CodesAfter(before, work, done) == before.codes \cup {work.states[a].codeHash : a \in done}

\* The block has been verified on this ledger.
Accepts(before, block, work) ==
  /\ before = [valid |-> TRUE, db |-> before.db, codes |-> before.codes]
  /\ DOMAIN before.db = Account
  /\ work = Transit(before.db, before.codes, block) /\ work.status = "ok"
  /\ HasValidTxOrder(before.db, block.txs)

LEMMA AcceptedApplies ==
  ASSUME NEW before, NEW block, NEW work, Accepts(before, block, work), block.blockNumber # 1
  PROVE  ApplyBlock(before, block) =
           [valid |-> TRUE, db |-> StateAfter(before, work, DOMAIN work.states),
            codes |-> CodesAfter(before, work, DOMAIN work.states)]
<1>1. Overlay(before.db, work.states) = StateAfter(before, work, DOMAIN work.states)
  BY DEF Accepts, Overlay, StateAfter
<1>2. before.codes \cup CodeOf(work.states) = CodesAfter(before, work, DOMAIN work.states)
  BY DEF CodeOf, CodesAfter
<1>3. before.valid = TRUE
  BY DEF Accepts
<1> QED
  BY <1>1, <1>2, <1>3 DEF Accepts, ApplyBlock

-----------------------------------------------------------------------------
(* The accounts of a node that has joined.                                 *)

\* The blocks that are applied, and the ledger they make.
Tip == latestBlock.blockNumber
Before == Chained(blockDB, Tip)
Result(db, codes) == [valid |-> TRUE, db |-> db, codes |-> codes]

LedgerShape == DOMAIN stateDB = Account /\ stateDB = [a \in Account |-> stateDB[a]]

ChainStored ==
  /\ Tip \in Nat \ {0} /\ latestBlock \in PeerBlock
  /\ 1..Tip \subseteq DOMAIN blockDB /\ blockDB[Tip] = latestBlock

AtRest == LedgerShape /\ Before = Result(stateDB, codeDB)
NextFits == difficulty = NextDifficulty(blockDB, latestBlock)
Calm == AtRest /\ NextFits

Asks(block) == block.difficulty = difficulty
IsNext(block) == block.blockNumber = Tip + 1

Verifying(block) == Calm /\ Asks(block)

\* The handler of an answer between its last look at the latest block and its
\* end.
SyncPast == SyncVerified \/ SyncAt("reward") \/ SyncAt("difficulty")

Alone == \A h \in Handler : ~Verified(h)

\* One block is verified and written at a time, and none is taken for the next
\* one before the difficulty is set that it must have.
OneVerified ==
  /\ \A g, h \in Handler : Verified(g) /\ Verified(h) => g = h
  /\ SyncPast => Alone
  /\ SyncAt("difficulty") => \A h \in Handler : At(h, "order") => ~Follower(task[h].block)

\* Peers number their blocks after the parents.
NumberedAlike ==
  \A b, c \in PeerBlock : b.parentHash = c.parentHash => b.blockNumber = c.blockNumber

\* A block whose transactions are still to be looked at: it has the difficulty
\* that is due, or will be refused, for a sibling of it is about to be adopted.
Committing(h) == task[h].pc \in {"blockDB", "bhashDB", "txhashDB"}
Waits(block) ==
  Stale(block) \/ (Follower(block) /\ (Asks(block) \/ \E h \in Handler : Committing(h)))

Ordered(block) ==
  Verifying(block) /\ IsNext(block) /\ HasValidTxOrder(stateDB, block.txs)

\* The accounts of unwritten are still to be written, and the code of pending.
Flushing(block, work, unwritten, pending) ==
  /\ Asks(block) /\ IsNext(block) /\ Accepts(Before, block, work)
  /\ unwritten \subseteq DOMAIN work.states /\ pending \subseteq DOMAIN work.states \ unwritten
  /\ stateDB = StateAfter(Before, work, DOMAIN work.states \ unwritten)
  /\ codeDB = CodesAfter(Before, work, DOMAIN work.states \ (unwritten \cup pending))

Executed(block) ==
  IsNext(block) /\ LedgerShape /\ ApplyBlock(Before, block) = Result(stateDB, codeDB)

Stored(block) == block.blockNumber \in DOMAIN blockDB /\ blockDB[block.blockNumber] = block

Retargeted(block) == difficulty = NextDifficulty(blockDB, block)

SyncPhase ==
  /\ SyncAt("order") => Waits(sync.block)
  /\ SyncAt("replay") => Ordered(sync.block)
  /\ SyncAt("flush") => Flushing(sync.block, sync.work, sync.unwritten, {})
  /\ SyncAt("blockDB") => Executed(sync.block) /\ Asks(sync.block)
  /\ SyncAt("bhashDB") \/ SyncAt("txhashDB") =>
       Executed(sync.block) /\ Asks(sync.block) /\ Stored(sync.block)
  /\ SyncAt("difficulty") => /\ AtRest /\ Asks(latestBlock) /\ Tip % Epoch = 0
                             /\ latestBlock = sync.block
  /\ ~SyncAt("reward")

TaskPhase(t) ==
  /\ t.pc = "order" => Waits(t.block)
  /\ t.pc = "replay" => Ordered(t.block)
  /\ t.pc = "flushState" => Flushing(t.block, t.work, t.unwritten, {})
  /\ t.pc = "flushCode" => Flushing(t.block, t.work, t.unwritten, {t.account})
  /\ t.pc = "difficulty" =>
       Executed(t.block) /\ Asks(t.block) /\ t.block.blockNumber % Epoch = 0
  /\ t.pc = "blockDB" => Executed(t.block) /\ Retargeted(t.block)
  /\ t.pc \in {"bhashDB", "txhashDB"} =>
       Executed(t.block) /\ Retargeted(t.block) /\ Stored(t.block)

Joined ==
  /\ ChainStored /\ SyncPhase
  /\ \A h \in Handler : TaskPhase(task[h])
  /\ ~SyncPast /\ Alone => Calm

\* Before the first block is adopted the accounts are those of the start.
Booting ==
  /\ Quiet /\ currentSyncBlock = 1 /\ difficulty = BootBlock.difficulty
  /\ stateDB = FirstLedger.db /\ codeDB = {EMPTY_HASH}
  /\ sync.pc \in {"idle", "blockDB", "bhashDB", "txhashDB", "reward"}
  /\ sync.pc \in {"bhashDB", "txhashDB", "reward"} => Stored(sync.block)
  /\ ~SyncAt("reward") => latestSyncBlock = NoBlock

\* A handler has thrown: the queue is at work for ever.
Wedged == syncing /\ SyncAt("idle")

JoinInv ==
  restarts = 0 =>
    \/ Wedged
    \/ latestBlock = BootBlock /\ Booting
    \/ latestBlock # BootBlock /\ Joined

\* What the handler stores is what it verified: no block was rejected after
\* an await while another one waited (see StoresWhatItVerified).
StoresItsMessage == ~SyncAt("idle") => message = sync.block

\* generateGenesisBlock and chainInfo start from the same difficulty.
FirstDifficulty ==
  \A block \in PeerBlock : block.blockNumber = 1 => block.difficulty = BootBlock.difficulty

-----------------------------------------------------------------------------
(* What the steps of a handler do to a block on its way.                   *)

\* Before the writes begin nothing is written.
LEMMA Begins ==
  ASSUME NEW block, NEW work, Ordered(block),
         work = Transit(stateDB, codeDB, block), work.status = "ok"
  PROVE  Flushing(block, work, DOMAIN work.states, {})
<1> DEFINE before == Before
<1>1. /\ before = Result(stateDB, codeDB) /\ LedgerShape
      /\ HasValidTxOrder(stateDB, block.txs) /\ Asks(block) /\ IsNext(block)
  BY DEF Ordered, Verifying, Calm, AtRest
<1>2. /\ before.valid = TRUE /\ before.db = stateDB /\ before.codes = codeDB
      /\ before = [valid |-> TRUE, db |-> before.db, codes |-> before.codes]
  BY <1>1 DEF Result
<1> HIDE DEF before
<1>3. Accepts(before, block, work)
  BY <1>1, <1>2 DEF Accepts, LedgerShape
<1>4. StateAfter(before, work, {}) = stateDB /\ CodesAfter(before, work, {}) = codeDB
  BY <1>1, <1>2 DEF LedgerShape, StateAfter, CodesAfter
<1>5. DOMAIN work.states \ DOMAIN work.states = {}
      /\ DOMAIN work.states \ (DOMAIN work.states \cup {}) = {}
  OBVIOUS
<1> QED
  BY <1>1, <1>3, <1>4, <1>5 DEF Flushing, before

\* The ledger below the block does not depend on what is being written.
LEMMA BeforeSame ==
  ASSUME UNCHANGED <<blockDB, latestBlock>>
  PROVE  Before' = Before /\ Tip' = Tip
BY DEF Before, Tip

LEMMA WritesState ==
  ASSUME NEW block, NEW work, NEW unwritten, Flushing(block, work, unwritten, {}),
         NEW a \in unwritten, stateDB' = [stateDB EXCEPT ![a] = work.states[a]],
         UNCHANGED <<codeDB, blockDB, latestBlock, difficulty>>
  PROVE  Flushing(block, work, unwritten \ {a}, {a})'
<1> DEFINE before == Before
           done == DOMAIN work.states \ unwritten
           left == unwritten \ {a}
<1>1. Before' = before /\ Tip' = Tip
  BY BeforeSame
<1>2. /\ Asks(block) /\ IsNext(block) /\ Accepts(before, block, work)
      /\ unwritten \subseteq DOMAIN work.states
      /\ stateDB = StateAfter(before, work, done)
      /\ codeDB = CodesAfter(before, work, DOMAIN work.states \ (unwritten \cup {}))
  BY DEF Flushing
<1>3. /\ DOMAIN work.states \ left = done \cup {a}
      /\ DOMAIN work.states \ (left \cup {a}) = DOMAIN work.states \ (unwritten \cup {})
      /\ left \subseteq DOMAIN work.states /\ {a} \subseteq DOMAIN work.states \ left
  BY <1>2
<1>4. stateDB' = StateAfter(before, work, DOMAIN work.states \ left)
  <2>1. stateDB' = [StateAfter(before, work, done) EXCEPT ![a] = work.states[a]]
    BY <1>2
  <2>2. [StateAfter(before, work, done) EXCEPT ![a] = work.states[a]]
          = StateAfter(before, work, done \cup {a})
    BY DEF StateAfter
  <2> HIDE DEF before, done
  <2> QED
    BY <1>3, <2>1, <2>2
<1>5. codeDB' = CodesAfter(before, work, DOMAIN work.states \ (left \cup {a}))
  BY <1>2, <1>3
<1>6. Asks(block)' /\ IsNext(block)' /\ Accepts(Before', block, work)
  BY <1>1, <1>2 DEF Asks, IsNext
<1> QED
  BY <1>1, <1>3, <1>4, <1>5, <1>6 DEF Flushing

LEMMA WritesCode ==
  ASSUME NEW block, NEW work, NEW unwritten, NEW a, Flushing(block, work, unwritten, {a}),
         codeDB' = codeDB \cup {work.states[a].codeHash},
         UNCHANGED <<stateDB, blockDB, latestBlock, difficulty>>
  PROVE  Flushing(block, work, unwritten, {})'
<1> DEFINE before == Before
<1>1. Before' = before /\ Tip' = Tip
  BY BeforeSame
<1>2. /\ Asks(block) /\ IsNext(block) /\ Accepts(before, block, work)
      /\ unwritten \subseteq DOMAIN work.states /\ {a} \subseteq DOMAIN work.states \ unwritten
      /\ stateDB = StateAfter(before, work, DOMAIN work.states \ unwritten)
      /\ codeDB = CodesAfter(before, work, DOMAIN work.states \ (unwritten \cup {a}))
  BY DEF Flushing
<1>3. (DOMAIN work.states \ (unwritten \cup {a})) \cup {a} = DOMAIN work.states \ (unwritten \cup {})
  BY <1>2
<1>4. codeDB' = CodesAfter(before, work, DOMAIN work.states \ (unwritten \cup {}))
  <2> DEFINE known == DOMAIN work.states \ (unwritten \cup {a})
  <2>1. codeDB' = CodesAfter(before, work, known) \cup {work.states[a].codeHash}
    BY <1>2
  <2>2. CodesAfter(before, work, known) \cup {work.states[a].codeHash}
          = CodesAfter(before, work, known \cup {a})
    BY DEF CodesAfter
  <2> QED
    BY <1>3, <2>1, <2>2
<1>5. Asks(block)' /\ IsNext(block)' /\ Accepts(Before', block, work)
  BY <1>1, <1>2 DEF Asks, IsNext
<1> QED
  BY <1>1, <1>2, <1>4, <1>5 DEF Flushing

\* An account and its code in one step.
LEMMA WritesBoth ==
  ASSUME NEW block, NEW work, NEW unwritten, Flushing(block, work, unwritten, {}),
         NEW a \in unwritten, stateDB' = [stateDB EXCEPT ![a] = work.states[a]],
         codeDB' = codeDB \cup {work.states[a].codeHash},
         UNCHANGED <<blockDB, latestBlock, difficulty>>
  PROVE  Flushing(block, work, unwritten \ {a}, {})'
<1> DEFINE before == Before
           done == DOMAIN work.states \ unwritten
           left == unwritten \ {a}
<1>1. Before' = before /\ Tip' = Tip
  BY BeforeSame
<1>2. /\ Asks(block) /\ IsNext(block) /\ Accepts(before, block, work)
      /\ unwritten \subseteq DOMAIN work.states
      /\ stateDB = StateAfter(before, work, done)
      /\ codeDB = CodesAfter(before, work, DOMAIN work.states \ (unwritten \cup {}))
  BY DEF Flushing
<1>3. /\ DOMAIN work.states \ left = done \cup {a}
      /\ DOMAIN work.states \ (unwritten \cup {}) = done
      /\ DOMAIN work.states \ (left \cup {}) = done \cup {a}
      /\ left \subseteq DOMAIN work.states
  BY <1>2
<1>4. stateDB' = StateAfter(before, work, DOMAIN work.states \ left)
  <2>1. stateDB' = [StateAfter(before, work, done) EXCEPT ![a] = work.states[a]]
    BY <1>2
  <2>2. [StateAfter(before, work, done) EXCEPT ![a] = work.states[a]]
          = StateAfter(before, work, done \cup {a})
    BY DEF StateAfter
  <2> HIDE DEF before, done
  <2> QED
    BY <1>3, <2>1, <2>2
<1>5. codeDB' = CodesAfter(before, work, DOMAIN work.states \ (left \cup {}))
  <2>1. CodesAfter(before, work, done) \cup {work.states[a].codeHash}
          = CodesAfter(before, work, done \cup {a})
    BY DEF CodesAfter
  <2> QED
    BY <1>2, <1>3, <2>1
<1>6. Asks(block)' /\ IsNext(block)' /\ Accepts(Before', block, work)
  BY <1>1, <1>2 DEF Asks, IsNext
<1> QED
  BY <1>1, <1>3, <1>4, <1>5, <1>6 DEF Flushing

\* Once everything is written the block is executed.
LEMMA Flushes ==
  ASSUME NEW block, NEW work, Tip' \in Nat \ {0}, Flushing(block, work, {}, {})'
  PROVE  Executed(block)'
<1> DEFINE before == Before'
<1>1. /\ IsNext(block)' /\ Accepts(before, block, work)
      /\ stateDB' = StateAfter(before, work, DOMAIN work.states \ {})
      /\ codeDB' = CodesAfter(before, work, DOMAIN work.states \ ({} \cup {}))
  BY DEF Flushing
<1>2. /\ DOMAIN work.states \ {} = DOMAIN work.states
      /\ DOMAIN work.states \ ({} \cup {}) = DOMAIN work.states
  OBVIOUS
<1>3. block.blockNumber # 1
  <2>1. block.blockNumber = Tip' + 1
    BY <1>1 DEF IsNext
  <2>2. Tip' \in Nat \ {0}
    OBVIOUS
  <2> QED
    BY <2>1, <2>2 DEF Tip
<1>4. LedgerShape'
  BY <1>1 DEF LedgerShape, StateAfter
<1>5. ApplyBlock(before, block) = Result(stateDB, codeDB)'
  BY <1>1, <1>2, <1>3, AcceptedApplies DEF Result
<1> QED
  BY <1>1, <1>4, <1>5 DEF Executed

\* The blocks up to the latest stay as they are when the next one is stored.
LEMMA Stores ==
  ASSUME NEW block \in PeerBlock, ChainStored, Executed(block),
         blockDB' = Put(blockDB, block.blockNumber, block),
         UNCHANGED <<stateDB, codeDB, latestBlock, difficulty>>
  PROVE  /\ ChainStored' /\ Executed(block)' /\ Stored(block)'
         /\ Retargeted(block) => Retargeted(block)'
<1>1. Tip' = Tip /\ Tip \in Nat \ {0} /\ block.blockNumber = Tip + 1
  BY DEF Tip, Executed, IsNext, ChainStored
<1>2. /\ \A k \in 1..Tip : blockDB'[k] = blockDB[k]
      /\ DOMAIN blockDB' = DOMAIN blockDB \cup {Tip + 1} /\ blockDB'[Tip + 1] = block
  BY <1>1 DEF Put, ChainStored
<1>3. ChainStored' /\ Stored(block)'
  BY <1>1, <1>2 DEF ChainStored, Stored, Tip
<1>4. Before' = Before
  BY <1>1, <1>2, ChainedSame DEF Before
<1>5. Executed(block)'
  BY <1>1, <1>4 DEF Executed, IsNext, LedgerShape, Tip
<1>6. Retargeted(block) => Retargeted(block)'
  <2>1. CASE block.blockNumber % Epoch = 0
    <3>1. block.blockNumber - (Epoch - 1) \in 1..Tip
      BY <1>1, <2>1, EpochReached, IntakeAssumption
    <3>2. blockDB'[block.blockNumber - (Epoch - 1)] = blockDB[block.blockNumber - (Epoch - 1)]
      BY <1>2, <3>1
    <3> QED
      BY <3>2 DEF Retargeted, NextDifficulty
  <2> QED
    BY <2>1 DEF Retargeted, NextDifficulty
<1> QED
  BY <1>3, <1>5, <1>6

\* The executed block becomes the latest.
LEMMA Adopts ==
  ASSUME NEW block \in PeerBlock, ChainStored, Executed(block), Stored(block),
         latestBlock' = block, UNCHANGED <<stateDB, codeDB, blockDB>>
  PROVE  ChainStored' /\ AtRest'
<1>1. Tip' = Tip + 1 /\ Tip \in Nat \ {0} /\ block.blockNumber = Tip + 1
  BY DEF Tip, Executed, IsNext, ChainStored
<1>2. 1..(Tip + 1) \subseteq DOMAIN blockDB /\ blockDB[Tip + 1] = block
  BY <1>1 DEF ChainStored, Stored
<1>3. ChainStored'
  BY <1>1, <1>2 DEF ChainStored, Tip
<1>4. Before' = ApplyBlock(Before, block)
  BY <1>1, <1>2, ChainedStep DEF Before
<1> QED
  BY <1>3, <1>4 DEF Executed, AtRest, LedgerShape, Result

\* What is held of the chain and its ledger.
held == <<stateDB, codeDB, blockDB, latestBlock, difficulty>>

LEMMA PhaseKept ==
  ASSUME UNCHANGED held, NEW block, NEW work, NEW unwritten, NEW pending
  PROVE  /\ ChainStored => ChainStored'
         /\ Calm => Calm'
         /\ Verifying(block) => Verifying(block)'
         /\ Ordered(block) => Ordered(block)'
         /\ Flushing(block, work, unwritten, pending) => Flushing(block, work, unwritten, pending)'
         /\ Executed(block) => Executed(block)'
         /\ Asks(block) => Asks(block)'
         /\ Retargeted(block) => Retargeted(block)'
         /\ Stored(block) => Stored(block)'
<1>1. Tip' = Tip /\ Before' = Before
  BY BeforeSame DEF held
<1>2. UNCHANGED stateDB /\ UNCHANGED codeDB /\ UNCHANGED blockDB /\ UNCHANGED latestBlock
      /\ UNCHANGED difficulty
  BY DEF held
<1>3. ChainStored => ChainStored'
  BY <1>1, <1>2 DEF ChainStored
<1>4. Calm => Calm'
  BY <1>1, <1>2 DEF Calm, AtRest, LedgerShape, NextFits
<1>5. Asks(block) => Asks(block)'
  BY <1>2 DEF Asks
<1>6. IsNext(block) => IsNext(block)'
  BY <1>1 DEF IsNext
<1>7. Ordered(block) => Ordered(block)'
  BY <1>2, <1>4, <1>5, <1>6 DEF Ordered, Verifying
<1>8. Flushing(block, work, unwritten, pending) => Flushing(block, work, unwritten, pending)'
  BY <1>1, <1>2, <1>5, <1>6 DEF Flushing
<1>9. Executed(block) => Executed(block)'
  BY <1>1, <1>2, <1>6 DEF Executed, LedgerShape
<1>10. (Retargeted(block) => Retargeted(block)') /\ (Stored(block) => Stored(block)')
  BY <1>2 DEF Retargeted, Stored
<1> QED
  BY <1>3, <1>4, <1>5, <1>7, <1>8, <1>9, <1>10 DEF Verifying

LEMMA WaitsKept ==
  ASSUME UNCHANGED <<latestBlock, difficulty>>, NEW block, Waits(block),
         \A h \in Handler : Committing(h) => Committing(h)'
  PROVE  Waits(block)'
BY DEF Waits, Stale, Follower, Asks

\* A handler that waits sees nothing of what is written.
LEMMA PhaseStays ==
  ASSUME UNCHANGED held, NEW t, TaskPhase(t), \A h \in Handler : Committing(h) => Committing(h)'
  PROVE  TaskPhase(t)'
<1>1. UNCHANGED <<latestBlock, difficulty>>
  BY DEF held
<1>2. Waits(t.block) => Waits(t.block)'
  BY <1>1, WaitsKept
<1> QED
  BY <1>2, PhaseKept DEF TaskPhase

LEMMA SyncPhaseStays ==
  ASSUME UNCHANGED held, SyncPhase, sync' = sync,
         \A h \in Handler : Committing(h) => Committing(h)'
  PROVE  SyncPhase'
<1>1. UNCHANGED <<latestBlock, difficulty>>
  BY DEF held
<1>2. ASSUME NEW b, b = sync.block
      PROVE  /\ Waits(b) => Waits(b)'
             /\ Ordered(b) => Ordered(b)'
             /\ Executed(b) => Executed(b)'
             /\ Asks(b) => Asks(b)'
             /\ Stored(b) => Stored(b)'
             /\ Flushing(b, sync.work, sync.unwritten, {})
                  => Flushing(b, sync.work, sync.unwritten, {})'
  <2>1. Waits(b) => Waits(b)'
    BY <1>1, WaitsKept
  <2>2. ASSUME NEW w, NEW u, w = sync.work, u = sync.unwritten
        PROVE  Flushing(b, w, u, {}) => Flushing(b, w, u, {})'
    BY PhaseKept
  <2>3. Flushing(b, sync.work, sync.unwritten, {}) => Flushing(b, sync.work, sync.unwritten, {})'
    BY <2>2
  <2> QED
    BY <2>1, <2>3, PhaseKept
<1>3. AtRest /\ Asks(latestBlock) /\ Tip % Epoch = 0
        => (AtRest /\ Asks(latestBlock) /\ Tip % Epoch = 0)'
  BY BeforeSame DEF held, AtRest, LedgerShape, Asks, Tip
<1> QED
  BY <1>1, <1>2, <1>3 DEF SyncPhase, SyncAt

LEMMA JoinFrame ==
  ASSUME JoinInv,
         UNCHANGED <<held, sync, task, syncing, latestSyncBlock, currentSyncBlock, restarts>>
  PROVE  JoinInv'
<1>1. UNCHANGED held /\ sync' = sync /\ task' = task
  OBVIOUS
<1>2. UNCHANGED <<stateDB, codeDB, latestBlock, difficulty>>
  BY <1>1 DEF held
<1>3. Wedged => Wedged'
  BY DEF Wedged, SyncAt
<1>4. Booting => Booting'
  BY <1>1, <1>2, PhaseKept DEF Booting, SyncAt, Quiet, At
<1>5. \A h \in Handler : Committing(h) => Committing(h)'
  BY <1>1 DEF Committing
<1>6. \A h \in Handler : TaskPhase(task[h]) => TaskPhase(task[h])'
  <2>1. ASSUME NEW h \in Handler, NEW t, t = task[h], TaskPhase(t)
        PROVE  TaskPhase(t)'
    BY <1>1, <1>5, <2>1, PhaseStays
  <2> QED
    BY <1>1, <2>1 DEF TaskPhase
<1>7. Joined => Joined'
  BY <1>1, <1>5, <1>6, SyncPhaseStays, PhaseKept
     DEF Joined, SyncPast, SyncVerified, Storing, SyncAt, Alone, Verified, Accepted, At
<1> QED
  BY <1>2, <1>3, <1>4, <1>7 DEF JoinInv

LEMMA WedgeWedges ==
  ASSUME QueueInv, ~SyncAt("idle"), Wedge
  PROVE  Wedged'
BY DEF QueueInv, QueueAnswersQuestion, Wedge, Wedged, SyncAt, IdleSync

\* A sibling of the block that is adopted has been overtaken.
LEMMA WaiterOvertaken ==
  ASSUME NumberedAlike, latestBlock \in Block, NEW b \in PeerBlock, NEW c \in PeerBlock,
         Succeeds(b), latestBlock' = b, Waits(c)
  PROVE  Stale(c)' /\ Waits(c)'
<1>1. b.blockNumber \in Nat /\ c.blockNumber \in Nat
  BY NotOfBoot, IntakeAssumption
<1>2. c.parentHash # b.parentHash \/ Stale(c)'
  BY <1>1 DEF NumberedAlike, Stale
<1>3. Follower(c) \/ Stale(c)
  BY DEF Waits
<1>4. Stale(c)'
  BY <1>2, <1>3, FallsBehind
<1> QED
  BY <1>4 DEF Waits

\* While an answer is verified the other handlers wait.
LEMMA JoinedBySync ==
  ASSUME Alone, UNCHANGED task, ChainStored', SyncPhase', ~SyncPast' => Calm',
         \A h \in Handler : At(h, "order") => Waits(task[h].block)'
  PROVE  Joined'
<1>1. Alone'
  BY DEF Alone, Verified, Accepted, At
<1>2. \A h \in Handler : TaskPhase(task[h])'
  BY DEF Alone, Verified, Accepted, At, TaskPhase
<1> QED
  BY <1>1, <1>2 DEF Joined

LEMMA OthersWait ==
  ASSUME Joined, Alone, UNCHANGED <<task, latestBlock, difficulty>>, NEW h \in Handler,
         At(h, "order")
  PROVE  Waits(task[h].block)'
<1>1. Stale(task[h].block) \/ (Follower(task[h].block) /\ Asks(task[h].block))
  BY DEF Joined, TaskPhase, At, Waits, Alone, Verified, Accepted, Committing
<1> QED
  BY <1>1 DEF Waits, Stale, Follower, Asks

LEMMA OthersOvertaken ==
  ASSUME NumberedAlike, HeadInv, Joined, UNCHANGED task, NEW b \in PeerBlock, Succeeds(b),
         latestBlock' = b, NEW h \in Handler, At(h, "order")
  PROVE  Waits(task[h].block)'
<1>1. Waits(task[h].block) /\ task[h].block \in PeerBlock /\ latestBlock \in Block
  BY DEF Joined, TaskPhase, At, HeadInv, TaskHead, IsTask
<1>2. ASSUME NEW c, c = task[h].block PROVE Waits(c)'
  BY <1>1, <1>2, WaiterOvertaken
<1> QED
  BY <1>2 DEF Waits, Stale, Follower, Asks, Committing

\* The queue starts a block only if its header asks for the difficulty that
\* is due.
LEMMA QueueJoins ==
  ASSUME OneVerified', Joined, ~SyncPast \/ (Calm /\ Alone), latestSyncBlock # NoBlock,
         NEW blocks \in Seq(PeerBlock), RunQueue(blocks), UNCHANGED <<held, task>>
  PROVE  Joined'
<1>1. UNCHANGED held /\ task' = task /\ UNCHANGED <<latestBlock, difficulty>>
  BY DEF held
<1>2. ChainStored' /\ (Calm => Calm')
  BY <1>1, PhaseKept DEF Joined
<1>3. Alone => Calm
  BY DEF Joined
<1>4. Alone' <=> Alone
  BY <1>1 DEF Alone, Verified, Accepted, At
<1>5. \A h \in Handler : Committing(h) => Committing(h)'
  BY <1>1 DEF Committing
<1>6. \A h \in Handler : TaskPhase(task[h])'
  <2>1. ASSUME NEW h \in Handler, NEW t, t = task[h] PROVE TaskPhase(t)'
    BY <1>1, <1>5, <2>1, PhaseStays DEF Joined
  <2> QED
    BY <1>1, <2>1 DEF TaskPhase
<1>7. SyncPhase'
  <2>1. CASE sync' = IdleSync
    BY <2>1 DEF SyncPhase, SyncAt, IdleSync
  <2>2. ASSUME NEW block \in PeerBlock, NEW now \in Clock, Starts(block, now),
               sync' = [IdleSync EXCEPT !.pc = FirstPc(block), !.block = block]
        PROVE  SyncPhase'
    <3>1. sync'.pc = FirstPc(block) /\ sync'.block = block
      BY <2>2 DEF IdleSync
    <3>2. ~Anchors(block)
      BY DEF Anchors
    <3>3. Follower(block) /\ Asks(block)
      BY <2>2, <3>2 DEF Starts, HeaderFits, Follower, Asks
    <3>4. CASE block.txs # << >>
      <4>1. SyncAt("order")' /\ Waits(block)'
        BY <1>1, <3>1, <3>2, <3>3, <3>4 DEF FirstPc, SyncAt, Waits, Follower, Asks
      <4> QED
        BY <3>1, <4>1 DEF SyncPhase, SyncAt
    <3>5. CASE block.txs = << >>
      <4>1. SyncAt("replay")' /\ SyncPast'
        BY <3>1, <3>2, <3>5 DEF FirstPc, SyncAt, SyncPast, SyncVerified
      <4>2. Calm
        BY <1>3, <1>4, <4>1 DEF OneVerified
      <4>3. Ordered(block)
        BY <2>2, <3>2, <3>3, <3>5, <4>2, EmptyOrder
           DEF Starts, BodyFits, Ordered, Verifying, IsNext, Tip
      <4>4. Ordered(block)'
        BY <1>1, <4>3, PhaseKept
      <4> QED
        BY <3>1, <4>1, <4>4 DEF SyncPhase, SyncAt
    <3> QED
      BY <3>4, <3>5
  <2> QED
    BY <2>1, <2>2, RunQueueStarts
<1> QED
  BY <1>2, <1>3, <1>4, <1>6, <1>7 DEF Joined

-----------------------------------------------------------------------------
(* The handler of an answer, once there is a first block.                  *)

\* The handler goes on with the same block.
LEMMA SyncMoves ==
  ASSUME QueueInv, NEW pc, SyncGoto(pc)
  PROVE  sync'.pc = pc /\ sync'.block = sync.block
BY GotoMoves

LEMMA SyncOrderJoin ==
  ASSUME QueueInv, HeadInv, Joined, OneVerified', latestBlock # BootBlock, SyncOrder
  PROVE  Wedged' \/ Joined'
<1>1. /\ SyncAt("order") /\ UNCHANGED <<held, task>> /\ latestSyncBlock # NoBlock
      /\ ChainStored /\ Waits(sync.block) /\ ~SyncPast /\ queue \in Seq(PeerBlock)
      /\ sync.block \in PeerBlock
  BY DEF SyncOrder, SyncAt, HeadInv, Joined, SyncPhase, QueueInv, HandlerOK,
         intake, stores, chainInfo, held, SyncPast, SyncVerified, Storing
<1>2. CASE Wedge
  BY <1>1, <1>2, WedgeWedges DEF SyncAt
<1>3. CASE RunQueue(queue)
  BY <1>1, <1>3, QueueJoins
<1>4. CASE /\ HasValidTxOrder(stateDB, sync.block.txs)
           /\ \E now \in Clock : BodyFits(sync.block, now)
           /\ SyncGoto("replay")
  <2>1. sync'.pc = "replay" /\ sync'.block = sync.block
    BY <1>4, SyncMoves
  <2>2. Alone
    <3>1. SyncPast'
      BY <2>1 DEF SyncPast, SyncVerified
    <3> QED
      BY <1>1, <3>1 DEF OneVerified, Alone, Verified, Accepted, At
  <2>3. Calm /\ Asks(sync.block)
    <3>1. ~Stale(sync.block)
      BY <1>1, <1>4 DEF BodyFits, Stale, ChainStored, Tip
    <3> QED
      BY <1>1, <2>2, <3>1 DEF Joined, Waits, Alone, Verified, Accepted, At, Committing
  <2>4. Ordered(sync.block)
    BY <1>4, <2>3 DEF Ordered, Verifying, BodyFits, IsNext, Tip
  <2>5. ChainStored' /\ Ordered(sync.block)'
    <3> DEFINE block == sync.block
    <3>1. ASSUME NEW b, b = block
          PROVE  Ordered(b)'
      BY <1>1, <2>4, <3>1, PhaseKept
    <3> QED
      BY <1>1, <2>1, <3>1, PhaseKept
  <2>6. SyncPhase' /\ SyncPast'
    BY <2>1, <2>5 DEF SyncPhase, SyncAt, SyncPast, SyncVerified
  <2> QED
    BY <1>1, <2>2, <2>5, <2>6, JoinedBySync, OthersWait DEF held
<1> QED
  BY <1>2, <1>3, <1>4 DEF SyncOrder

LEMMA SyncReplayJoin ==
  ASSUME OneVerified, OneVerified', QueueInv, HeadInv, Joined, latestBlock # BootBlock, SyncReplay
  PROVE  Wedged' \/ Joined'
<1> DEFINE work == Transit(stateDB, codeDB, sync.block)
<1>1. /\ SyncAt("replay") /\ UNCHANGED <<held, task>> /\ latestSyncBlock # NoBlock
      /\ ChainStored /\ Ordered(sync.block) /\ Alone /\ queue \in Seq(PeerBlock)
      /\ UNCHANGED latestSyncBlock
  BY DEF SyncReplay, SyncAt, HeadInv, Joined, SyncPhase, OneVerified, SyncPast, SyncVerified, Storing, QueueInv, HandlerOK,
         intake, stores, chainInfo, held, position
<1>2. CASE Wedge
  BY <1>1, <1>2, WedgeWedges DEF SyncAt
<1>3. CASE RunQueue(queue)
  BY <1>1, <1>3, QueueJoins DEF Ordered, Verifying
<1>4. CASE /\ work.status = "ok"
           /\ sync' = [sync EXCEPT !.pc = "flush", !.work = work, !.unwritten = DOMAIN work.states]
  <2>1. /\ sync'.pc = "flush" /\ sync'.block = sync.block /\ sync'.work = work
        /\ sync'.unwritten = DOMAIN work.states
    BY <1>4 DEF QueueInv, HandlerOK
  <2> HIDE DEF work
  <2>2. Flushing(sync.block, work, DOMAIN work.states, {})
    BY <1>1, <1>4, Begins DEF work
  <2>3. ASSUME NEW b, NEW w, NEW u, b = sync.block, w = work, u = DOMAIN work.states
        PROVE  Flushing(b, w, u, {})'
    BY <1>1, <2>2, <2>3, PhaseKept
  <2>4. Flushing(sync.block, sync.work, sync.unwritten, {})'
    BY <2>1, <2>3
  <2>5. SyncPhase'
    BY <2>1, <2>4 DEF SyncPhase, SyncAt
  <2> QED
    BY <1>1, <2>1, <2>5, PhaseKept, JoinedBySync, OthersWait DEF SyncPast, SyncVerified, Storing, held
<1> QED
  BY <1>2, <1>3, <1>4 DEF SyncReplay

LEMMA SyncFlushJoin ==
  ASSUME OneVerified, QueueInv, HeadInv, Joined, latestBlock # BootBlock, SyncFlush
  PROVE  Wedged' \/ Joined'
<1> DEFINE state(a) == sync.work.states[a]
<1>1. /\ SyncAt("flush") /\ UNCHANGED <<blockDB, latestBlock, difficulty, task>>
      /\ ChainStored /\ Flushing(sync.block, sync.work, sync.unwritten, {}) /\ Alone
  BY DEF SyncFlush, SyncAt, HeadInv, Joined, SyncPhase, OneVerified, SyncPast, SyncVerified, Storing, chainInfo
<1>2. CASE Wedge
  BY <1>1, <1>2, WedgeWedges DEF SyncAt
<1>3. ASSUME NEW a \in sync.unwritten,
             stateDB' = [stateDB EXCEPT ![a] = sync.work.states[a]],
             codeDB' = codeDB \cup {sync.work.states[a].codeHash},
             sync' = [sync EXCEPT !.unwritten = @ \ {a},
                          !.pc = IF sync.unwritten = {a} THEN "blockDB" ELSE "flush"]
      PROVE  Joined'
  <2>1. /\ sync'.pc = (IF sync.unwritten = {a} THEN "blockDB" ELSE "flush")
        /\ sync'.block = sync.block /\ sync'.work = sync.work
        /\ sync'.unwritten = sync.unwritten \ {a}
    BY <1>3 DEF QueueInv, HandlerOK
  <2>2. Tip' = Tip /\ ChainStored'
    BY <1>1 DEF ChainStored, Tip
  <2>3. ASSUME NEW b, NEW w, NEW u, b = sync.block, w = sync.work, u = sync.unwritten
        PROVE  Flushing(b, w, u \ {a}, {})'
    <3>1. Flushing(b, w, u, {}) /\ a \in u
      BY <1>1, <2>3
    <3>2. stateDB' = [stateDB EXCEPT ![a] = w.states[a]]
          /\ codeDB' = codeDB \cup {w.states[a].codeHash}
      BY <1>3, <2>3
    <3> QED
      BY <1>1, <3>1, <3>2, WritesBoth
  <2>4. SyncPhase'
    <3>1. CASE sync.unwritten = {a}
      <4>1. ASSUME NEW b, NEW w, b = sync.block, w = sync.work
            PROVE  Executed(b)' /\ Asks(b)'
        <5>1. sync.unwritten \ {a} = {}
          BY <3>1
        <5>2. Flushing(b, w, {}, {})'
          BY <2>3, <4>1, <5>1
        <5> QED
          BY <2>2, <5>2, Flushes DEF ChainStored, Flushing
      <4>2. Executed(sync.block)' /\ Asks(sync.block)'
        BY <2>1, <4>1
      <4> QED
        BY <2>1, <3>1, <4>2 DEF SyncPhase, SyncAt
    <3>2. CASE sync.unwritten # {a}
      <4>1. Flushing(sync.block, sync.work, sync.unwritten, {})'
        BY <2>1, <2>3
      <4> QED
        BY <2>1, <3>2, <4>1 DEF SyncPhase, SyncAt
    <3> QED
      BY <3>1, <3>2
  <2> QED
    BY <1>1, <2>1, <2>2, <2>4, JoinedBySync, OthersWait DEF SyncPast, SyncVerified, Storing, held
<1> QED
  BY <1>2, <1>3 DEF SyncFlush

LEMMA SyncPutBlockJoin ==
  ASSUME OneVerified, QueueInv, HeadInv, Joined, latestBlock # BootBlock, StoresItsMessage, SyncPutBlock
  PROVE  Joined'
<1>1. /\ SyncAt("blockDB") /\ UNCHANGED <<stateDB, codeDB, latestBlock, difficulty, task>>
      /\ ChainStored /\ Executed(sync.block) /\ Asks(sync.block) /\ Alone
      /\ sync.block \in PeerBlock /\ SyncGoto("bhashDB")
      /\ blockDB' = Put(blockDB, sync.block.blockNumber, sync.block)
  BY DEF SyncPutBlock, SyncAt, HeadInv, Joined, SyncPhase, OneVerified, SyncPast, SyncVerified, Storing, chainInfo, QueueInv, HandlerOK,
         StoresItsMessage
<1>2. sync'.pc = "bhashDB" /\ sync'.block = sync.block
  BY <1>1, SyncMoves
<1>3. ASSUME NEW b, b = sync.block
      PROVE  ChainStored' /\ Executed(b)' /\ Stored(b)' /\ Asks(b)'
  <2>1. /\ b \in PeerBlock /\ Executed(b) /\ Asks(b)
        /\ blockDB' = Put(blockDB, b.blockNumber, b)
    BY <1>1, <1>3
  <2>2. ChainStored' /\ Executed(b)' /\ Stored(b)'
    BY <1>1, <2>1, Stores
  <2> QED
    BY <1>1, <2>1, <2>2 DEF Asks
<1>4. ChainStored' /\ (Executed(sync.block) /\ Stored(sync.block) /\ Asks(sync.block))'
  BY <1>2, <1>3
<1>5. SyncPhase'
  BY <1>2, <1>4 DEF SyncPhase, SyncAt
<1> QED
  BY <1>1, <1>2, <1>4, <1>5, JoinedBySync, OthersWait DEF SyncPast, SyncVerified, Storing, held

\* The last index entry makes the block the latest; where an epoch ends the
\* difficulty is still to follow.
LEMMA SyncIndexJoin ==
  ASSUME NumberedAlike, OneVerified, QueueInv, HeadInv, Joined, latestBlock # BootBlock, SyncPutBhash \/ SyncPutTxhash
  PROVE  Joined'
<1>1. /\ SyncAt("bhashDB") \/ SyncAt("txhashDB")
      /\ UNCHANGED <<stateDB, codeDB, blockDB, difficulty, task>>
      /\ ChainStored /\ Alone /\ latestSyncBlock # NoBlock
      /\ sync.block \in PeerBlock
      /\ \E written : AfterSyncIndex(written)
  BY DEF SyncPutBhash, SyncPutTxhash, SyncAt, HeadInv, Joined, QueueInv, HandlerOK,
         OneVerified, SyncPast, SyncVerified, Storing
<1>2. Executed(sync.block) /\ Asks(sync.block) /\ Stored(sync.block)
  BY <1>1 DEF Joined, SyncPhase
<1>3. CASE Adopt
  <2>1. latestBlock' = sync.block
    BY <1>3 DEF Adopt
  <2>0. \A h \in Handler : At(h, "order") => Waits(task[h].block)'
    <3>1. Succeeds(sync.block)
      BY <1>1 DEF HeadInv, SyncHead, SyncVerified, Storing, SyncAt
    <3> QED
      BY <1>1, <2>1, <3>1, OthersOvertaken
  <2>2. ChainStored' /\ AtRest'
    <3>1. ASSUME NEW b, b = sync.block
          PROVE  ChainStored' /\ AtRest'
      BY <1>1, <1>2, <2>1, <3>1, Adopts
    <3> QED
      BY <3>1
  <2>3. Asks(latestBlock)' /\ Tip' = sync.block.blockNumber
    BY <1>1, <1>2, <2>1 DEF Asks, Tip
  <2>4. CASE sync.block.blockNumber % Epoch = 0 /\ SyncGoto("difficulty")
    <3>1. sync'.pc = "difficulty"
      BY <2>4, SyncMoves
    <3>2. SyncPhase' /\ SyncPast'
      BY <2>1, <2>2, <2>3, <2>4, <3>1, SyncMoves DEF SyncPhase, SyncAt, SyncPast
    <3> QED
      BY <1>1, <2>0, <2>2, <3>2, JoinedBySync
  <2>5. CASE sync.block.blockNumber % Epoch # 0 /\ Complete
    <3>1. sync' = IdleSync
      BY <2>5 DEF Complete
    <3>2. SyncPhase'
      BY <3>1 DEF SyncPhase, SyncAt, IdleSync
    <3>3. NextDifficulty(blockDB, sync.block) = sync.block.difficulty
      BY <2>5, NotAtEpoch
    <3>4. NextFits'
      BY <1>1, <1>2, <2>1, <3>3 DEF NextFits, Asks
    <3> QED
      BY <1>1, <2>0, <2>2, <3>2, <3>4, JoinedBySync DEF Calm
  <2> QED
    BY <1>3, <2>4, <2>5 DEF Adopt
<1>4. ASSUME NEW written, sync' = [sync EXCEPT !.pc = "txhashDB", !.txIndex = written],
             latestBlock' = latestBlock
      PROVE  Joined'
  <2>1. sync'.pc = "txhashDB" /\ sync'.block = sync.block
    BY <1>4 DEF QueueInv, HandlerOK
  <2>2. UNCHANGED held
    BY <1>1, <1>4 DEF held
  <2>3. ASSUME NEW b, b = sync.block
        PROVE  ChainStored' /\ Executed(b)' /\ Asks(b)' /\ Stored(b)'
    BY <1>1, <1>2, <2>2, <2>3, PhaseKept
  <2>4. ChainStored' /\ (Executed(sync.block) /\ Asks(sync.block) /\ Stored(sync.block))'
    BY <2>1, <2>3
  <2>5. SyncPhase' /\ SyncPast'
    BY <2>1, <2>4 DEF SyncPhase, SyncAt, SyncPast, SyncVerified, Storing
  <2>6. UNCHANGED <<task, latestBlock, difficulty>>
    BY <1>1, <1>4
  <2>7. \A h \in Handler : At(h, "order") => Waits(task[h].block)'
    BY <1>1, <2>6, OthersWait
  <2> QED
    BY <1>1, <2>4, <2>5, <2>7, JoinedBySync
<1> QED
  BY <1>1, <1>3, <1>4 DEF AfterSyncIndex, Indexed

LEMMA SyncDifficultyJoin ==
  ASSUME OneVerified, QueueInv, HeadInv, Joined, SyncDifficulty
  PROVE  Joined'
<1>1. /\ SyncAt("difficulty") /\ UNCHANGED <<stateDB, codeDB, blockDB, latestBlock, task>>
      /\ ChainStored /\ Alone /\ latestBlock = sync.block /\ sync' = IdleSync
      /\ AtRest /\ Asks(latestBlock) /\ Tip % Epoch = 0
      /\ difficulty' = Retarget(difficulty, Epoch, BLOCK_TIME,
                                blockDB[sync.block.blockNumber - (Epoch - 1)], sync.block)
  BY DEF SyncDifficulty, SyncAt, OneVerified, SyncPast, Joined, SyncPhase, Complete, stores
<1>2. Tip' = Tip /\ Before' = Before
  BY <1>1, BeforeSame
<1>3. ChainStored' /\ AtRest'
  BY <1>1, <1>2 DEF ChainStored, AtRest, LedgerShape
<1>4. NextFits'
  BY <1>1 DEF NextFits, NextDifficulty, Asks, Tip
<1>5. SyncPhase'
  BY <1>1 DEF SyncPhase, SyncAt, IdleSync
<1>6. ASSUME NEW h \in Handler, At(h, "order") PROVE Waits(task[h].block)'
  <2>1. Stale(task[h].block)
    BY <1>1, <1>6 DEF OneVerified, Joined, TaskPhase, At, Waits
  <2> QED
    BY <1>1, <2>1 DEF Waits, Stale
<1> QED
  BY <1>1, <1>3, <1>4, <1>5, <1>6, JoinedBySync DEF Calm

\* The handler of the first block, which is stored before it is applied.
LEMMA SyncStepBoot ==
  ASSUME FirstDifficulty, QueueInv, HeadInv, latestBlock = BootBlock, Booting,
         StoresItsMessage, SyncStep
  PROVE  \/ Wedged'
         \/ latestBlock' = BootBlock /\ Booting'
         \/ latestBlock' # BootBlock /\ Joined'
<1> DEFINE block == sync.block
<1>1. ~SyncAt("idle") /\ UNCHANGED task
  BY DEF SyncStep, SyncOrder, SyncReplay, SyncFlush, SyncPutBlock, SyncPutBhash,
         SyncPutTxhash, SyncReward, SyncDifficulty, SyncAt, intake
<1>2. /\ block \in PeerBlock /\ block.blockNumber = 1 /\ block # BootBlock
      /\ sync.pc \in {"blockDB", "bhashDB", "txhashDB", "reward"}
  BY <1>1, NotOfBoot DEF Booting, QueueInv, HandlerOK, QueueAnswersQuestion, SyncAt
<1>3. Quiet'
  BY <1>1 DEF Booting, Quiet, At
<1>4. CASE SyncPutBlock
  <2>1. /\ UNCHANGED <<stateDB, codeDB, latestBlock, difficulty, currentSyncBlock, latestSyncBlock>>
        /\ blockDB' = Put(blockDB, block.blockNumber, block)
        /\ SyncAt("blockDB") /\ SyncGoto("bhashDB")
    BY <1>1, <1>4 DEF SyncPutBlock, chainInfo, position, StoresItsMessage
  <2>2. sync'.pc = "bhashDB" /\ sync'.block = block
    BY <2>1, SyncMoves
  <2>3. Stored(sync.block)'
    BY <2>1, <2>2 DEF Stored, Put
  <2>4. Booting'
    BY <1>3, <2>1, <2>2, <2>3 DEF Booting, SyncAt
  <2> QED
    BY <2>1, <2>4
<1>5. CASE SyncPutBhash \/ SyncPutTxhash
  <2>1. /\ UNCHANGED <<stateDB, codeDB, blockDB, difficulty>>
        /\ \E written : AfterSyncIndex(written)
        /\ SyncAt("bhashDB") \/ SyncAt("txhashDB")
    BY <1>5 DEF SyncPutBhash, SyncPutTxhash
  <2>2. latestSyncBlock = NoBlock /\ Stored(sync.block)
    BY <2>1 DEF Booting, SyncAt
  <2>3. /\ UNCHANGED <<latestBlock, currentSyncBlock>> /\ sync'.block = block
        /\ \/ sync'.pc = "reward"
           \/ sync'.pc = "txhashDB" /\ UNCHANGED latestSyncBlock
    <3>1. CASE SyncGoto("reward") /\ UNCHANGED <<latestBlock, currentSyncBlock>>
      BY <3>1, SyncMoves
    <3>2. ASSUME NEW written, sync' = [sync EXCEPT !.pc = "txhashDB", !.txIndex = written],
                 UNCHANGED <<latestSyncBlock, latestBlock, currentSyncBlock>>
          PROVE  <2>3
      BY <3>2 DEF QueueInv, HandlerOK
    <3> QED
      BY <2>1, <2>2, <3>1, <3>2 DEF AfterSyncIndex, Indexed
  <2>4. Stored(sync.block)'
    BY <2>1, <2>2, <2>3 DEF Stored
  <2>5. Booting'
    BY <1>3, <2>1, <2>2, <2>3, <2>4 DEF Booting, SyncAt
  <2> QED
    BY <2>3, <2>5
<1>6. CASE SyncReward
  <2>1. SyncAt("reward") /\ Stored(sync.block) /\ UNCHANGED <<codeDB, blockDB, difficulty>>
    BY <1>6 DEF SyncReward, Booting, SyncAt
  <2>2. CASE Wedge
    BY <1>1, <2>2, WedgeWedges
  <2>3. CASE /\ stateDB' = LET a == sync.block.coinbase
                               state == IF stateDB[a] = Absent THEN Fresh ELSE stateDB[a]
                           IN  [stateDB EXCEPT ![a] = [state EXCEPT !.balance = @ + BLOCK_REWARD]]
             /\ Adopt
    <3>1. latestBlock' = block
      BY <2>3 DEF Adopt
    <3>2. Complete /\ block.blockNumber % Epoch # 0
      BY <1>2, <2>3, EpochReached, IntakeAssumption DEF Adopt
    <3>3. sync' = IdleSync
      BY <3>2 DEF Complete
    <3>4. Tip' = 1 /\ ChainStored'
      BY <1>2, <2>1, <3>1 DEF Tip, ChainStored, Stored
    <3>5. Before' = ApplyBlock(FirstLedger, block)
      <4>1. Chained(blockDB, 0 + 1) = ApplyBlock(Chained(blockDB, 0), blockDB[0 + 1])
        BY ChainedStep
      <4>2. Chained(blockDB, 1) = ApplyBlock(FirstLedger, blockDB[1])
        BY <4>1, ChainedStart
      <4>3. blockDB[1] = block
        BY <1>2, <2>1 DEF Stored
      <4> QED
        BY <2>1, <3>4, <4>2, <4>3 DEF Before
    <3>6. AtRest'
      <4>1. /\ FirstLedger.valid = TRUE /\ FirstLedger.codes = codeDB /\ FirstLedger.db = stateDB
            /\ FirstLedger = [valid |-> TRUE, codes |-> codeDB, db |-> stateDB]
        BY DEF FirstLedger, Booting
      <4>2. LedgerShape'
        BY <2>3 DEF Booting, FirstLedger, LedgerShape
      <4>3. ApplyBlock(FirstLedger, block) = [FirstLedger EXCEPT !.db = stateDB']
        BY <1>2, <2>3, <4>1 DEF ApplyBlock
      <4>4. [FirstLedger EXCEPT !.db = stateDB'] = Result(stateDB, codeDB)'
        <5> DEFINE Start == [valid : {TRUE}, codes : {codeDB}, db : {stateDB}]
                   Paid == [valid : {TRUE}, codes : {codeDB'}, db : {stateDB'}]
        <5>1. FirstLedger \in Start
          BY <4>1
        <5> HIDE DEF Start
        <5>2. [FirstLedger EXCEPT !.db = stateDB'] \in Paid
          BY <2>1, <5>1 DEF Start
        <5>3. ASSUME NEW s \in Paid
              PROVE  s = [valid |-> TRUE, db |-> stateDB', codes |-> codeDB']
          OBVIOUS
        <5> QED
          BY <5>2, <5>3 DEF Result
      <4> QED
        BY <3>5, <4>2, <4>3, <4>4 DEF AtRest
    <3>7. NextFits'
      <4>1. block.difficulty = difficulty
        BY <1>2 DEF FirstDifficulty, Booting
      <4> QED
        BY <2>1, <3>1, <3>2, <4>1, NotAtEpoch DEF NextFits
    <3>8. SyncPhase'
      BY <3>3 DEF SyncPhase, SyncAt, IdleSync
    <3>9. Joined'
      <4>1. Alone /\ \A h \in Handler : ~At(h, "order")
        BY DEF Booting, Quiet, Alone, Verified, Accepted, At
      <4> QED
        BY <1>1, <3>4, <3>6, <3>7, <3>8, <4>1, JoinedBySync DEF Calm
    <3> QED
      BY <1>2, <3>1, <3>9
  <2> QED
    BY <1>6, <2>2, <2>3 DEF SyncReward
<1> QED
  BY <1>2, <1>4, <1>5, <1>6
  DEF SyncStep, SyncOrder, SyncReplay, SyncFlush, SyncDifficulty, SyncAt

LEMMA SyncStepJoin ==
  ASSUME FirstDifficulty, NumberedAlike, OneVerified, OneVerified', StoresItsMessage,
         QueueInv, HeadInv, HeadInv', JoinInv, SyncStep
  PROVE  JoinInv'
<1>0. SUFFICES ASSUME restarts' = 0
               PROVE  JoinInv'
  BY DEF JoinInv
<1>1. ~SyncAt("idle") /\ restarts = 0 /\ ~Wedged
  BY <1>0 DEF SyncStep, SyncOrder, SyncReplay, SyncFlush, SyncPutBlock, SyncPutBhash,
         SyncPutTxhash, SyncReward, SyncDifficulty, SyncAt, intake, process, Wedged
<1>2. CASE latestBlock = BootBlock /\ Booting
  BY <1>2, SyncStepBoot DEF JoinInv
<1>3. CASE latestBlock # BootBlock /\ Joined
  <2>1. Wedged' \/ Joined'
    BY <1>3, SyncOrderJoin, SyncReplayJoin, SyncFlushJoin, SyncPutBlockJoin, SyncIndexJoin,
       SyncDifficultyJoin
    DEF SyncStep, SyncReward, Joined, SyncPhase
  <2>2. latestBlock' # BootBlock
    <3>1. Tip \in Nat \ {0} /\ sync.block \in PeerBlock
      BY <1>1, <1>3 DEF Joined, ChainStored, QueueInv, HandlerOK
    <3>2. latestBlock' = latestBlock \/ latestBlock' = sync.block
      BY DEF SyncStep, SyncOrder, SyncReplay, SyncFlush, SyncPutBlock, SyncPutBhash,
             SyncPutTxhash, SyncReward, SyncDifficulty, intake, chainInfo, AfterSyncIndex,
             Indexed, Adopt
    <3> QED
      BY <1>3, <3>1, <3>2, NotOfBoot
  <2> QED
    BY <2>1, <2>2 DEF JoinInv
<1> QED
  BY <1>1, <1>2, <1>3 DEF JoinInv

-----------------------------------------------------------------------------
(* NEW_BLOCK on a node that has joined.                                    *)

\* What a step of a handler leaves alone, and what it takes for granted.
OnTask(h, t) ==
  /\ task[h] = t /\ DOMAIN t = DOMAIN IdleTask
  /\ t.pc # "clear" => t.block \in PeerBlock
  /\ DOMAIN task = Handler /\ ChainStored /\ TaskPhase(t)

LEMMA FinishPhase ==
  ASSUME NEW h \in Handler, DOMAIN task = Handler, Finish(h)
  PROVE  TaskPhase(task[h])' /\ task'[h] = IdleTask
<1>1. task'[h] = IdleTask
  BY DEF Finish
<1> QED
  BY <1>1 DEF TaskPhase, IdleTask

LEMMA GotoPhase ==
  ASSUME NEW h \in Handler, NEW t, OnTask(h, t), NEW pc, Goto(h, pc)
  PROVE  /\ task'[h].pc = pc /\ task'[h].block = t.block /\ task'[h].work = t.work
         /\ task'[h].unwritten = t.unwritten /\ task'[h].account = t.account
BY DEF OnTask, Goto, IdleTask

\* A block that waits meanwhile keeps waiting for the difficulty that is due,
\* or is overtaken.
LEMMA StepWaits ==
  ASSUME NumberedAlike, HeadInv, NEW h \in Handler, Step(h), NEW c \in PeerBlock, Waits(c)
  PROVE  Waits(c)'
<1> DEFINE b == task[h].block
<1>1. /\ DOMAIN task = Handler /\ IsTask(task[h]) /\ b \in PeerBlock /\ latestBlock \in Block
      /\ \A g \in Handler : g # h => task'[g] = task[g]
  BY TaskMoves DEF HeadInv, TaskHead
<1>2. CASE latestBlock' = b /\ Indexing(h)
  <2>1. Succeeds(b)
    BY <1>2 DEF HeadInv, TaskHead, Verified, Accepted, Indexing, At
  <2> HIDE DEF b
  <2> QED
    BY <1>1, <1>2, <2>1, WaiterOvertaken
<1>3. ASSUME latestBlock' = latestBlock, Committing(h) => Committing(h)',
             difficulty' = difficulty \/ Committing(h)'
      PROVE  Waits(c)'
  <2>1. \A g \in Handler : Committing(g) => Committing(g)'
    BY <1>1, <1>3 DEF Committing
  <2>2. CASE difficulty' = difficulty
    BY <1>3, <2>1, <2>2, WaitsKept
  <2>3. CASE Committing(h)'
    BY <1>3, <2>3 DEF Waits, Stale, Follower
  <2> QED
    BY <1>3, <2>2, <2>3
<1>4. CASE CheckOrder(h) \/ Replay(h) \/ Relay(h)
  BY <1>3, <1>4 DEF CheckOrder, Replay, Relay, At, Committing, chainInfo
<1>5. CASE FlushState(h) \/ FlushCode(h)
  BY <1>3, <1>5 DEF FlushState, FlushCode, At, Committing, chainInfo
<1>6. CASE UpdateDifficulty(h)
  <2>1. task'[h].pc = "blockDB" /\ latestBlock' = latestBlock
    BY <1>1, <1>6 DEF UpdateDifficulty, Goto, IsTask, IdleTask
  <2> QED
    BY <1>3, <2>1 DEF Committing
<1>7. CASE PutBlock(h)
  <2>1. task'[h].pc = "bhashDB" /\ UNCHANGED <<latestBlock, difficulty>>
    BY <1>1, <1>7 DEF PutBlock, Goto, IsTask, IdleTask, chainInfo
  <2> QED
    BY <1>3, <2>1 DEF Committing
<1>8. CASE PutBhash(h) \/ PutTxhash(h)
  <2>1. difficulty' = difficulty /\ Indexing(h)
    BY <1>8 DEF PutBhash, PutTxhash, Indexing
  <2>2. ASSUME NEW written, latestBlock' = latestBlock,
               task' = [task EXCEPT ![h].pc = "txhashDB", ![h].txIndex = written]
        PROVE  Waits(c)'
    <3>1. task'[h].pc = "txhashDB"
      BY <1>1, <2>2 DEF IsTask, IdleTask
    <3> QED
      BY <1>3, <2>1, <2>2, <3>1 DEF Committing
  <2> QED
    BY <1>2, <1>8, <2>1, <2>2 DEF PutBhash, PutTxhash, AfterIndex
<1> QED
  BY <1>4, <1>5, <1>6, <1>7, <1>8 DEF Step

\* The last look at the latest block is taken while nobody else writes.
LEMMA CheckOrderJoin ==
  ASSUME NEW h \in Handler, NEW t, OnTask(h, t), CheckOrder(h),
         Verified(h)' => Calm /\ \A g \in Handler : ~Committing(g)
  PROVE  UNCHANGED held /\ TaskPhase(task[h])'
<1>1. UNCHANGED held /\ t.pc = "order" /\ Waits(t.block) /\ ChainStored
  BY DEF CheckOrder, At, OnTask, TaskPhase, stores, chainInfo, held
<1>2. CASE Finish(h)
  BY <1>1, <1>2, FinishPhase DEF OnTask
<1>3. ASSUME NEW now \in Clock, HasValidTxOrder(stateDB, t.block.txs), BodyFits(t.block, now),
             Goto(h, "replay")
      PROVE  TaskPhase(task[h])'
  <2>1. task'[h].pc = "replay" /\ task'[h].block = t.block
    BY <1>3, GotoPhase
  <2>2. Calm /\ \A g \in Handler : ~Committing(g)
    BY <2>1 DEF Verified, At
  <2>3. ~Stale(t.block)
    BY <1>1, <1>3 DEF BodyFits, Stale, ChainStored, Tip
  <2>4. Ordered(t.block)
    BY <1>1, <1>3, <2>2, <2>3 DEF Waits, Verifying, Ordered, BodyFits, IsNext, Tip
  <2>5. Ordered(t.block)'
    BY <1>1, <2>4, PhaseKept
  <2> QED
    BY <2>1, <2>5 DEF TaskPhase
<1> QED
  BY <1>1, <1>2, <1>3 DEF CheckOrder, OnTask

LEMMA ReplayJoin ==
  ASSUME NEW h \in Handler, NEW t, OnTask(h, t), Replay(h)
  PROVE  ChainStored' /\ TaskPhase(task[h])' /\ (Verified(h)' \/ Calm')
<1> DEFINE work == Transit(stateDB, codeDB, t.block)
<1>1. UNCHANGED held /\ t.pc = "replay" /\ Ordered(t.block) /\ ChainStored
  BY DEF Replay, At, OnTask, TaskPhase, stores, chainInfo, held
<1>2. ChainStored' /\ Calm'
  BY <1>1, PhaseKept DEF Ordered, Verifying
<1>3. CASE Finish(h)
  BY <1>2, <1>3, FinishPhase DEF OnTask
<1>4. CASE /\ work.status = "ok"
           /\ task' = [task EXCEPT ![h].pc = "flushState", ![h].work = work,
                                   ![h].unwritten = DOMAIN work.states]
  <2>1. /\ task'[h].pc = "flushState" /\ task'[h].block = t.block /\ task'[h].work = work
        /\ task'[h].unwritten = DOMAIN work.states
    BY <1>4 DEF OnTask, IdleTask
  <2> HIDE DEF work
  <2>2. Flushing(t.block, work, DOMAIN work.states, {})
    BY <1>1, <1>4, Begins DEF work
  <2>3. ASSUME NEW b, NEW w, NEW u, b = t.block, w = work, u = DOMAIN work.states
        PROVE  Flushing(b, w, u, {})'
    BY <1>1, <2>2, <2>3, PhaseKept
  <2> QED
    BY <1>2, <2>1, <2>3 DEF TaskPhase
<1> QED
  BY <1>2, <1>3, <1>4 DEF Replay, OnTask

LEMMA FlushStateJoin ==
  ASSUME NEW h \in Handler, NEW t, OnTask(h, t), FlushState(h)
  PROVE  ChainStored' /\ TaskPhase(task[h])' /\ (Verified(h)' \/ Calm')
<1>1. /\ UNCHANGED <<codeDB, blockDB, latestBlock, difficulty>> /\ t.pc = "flushState"
      /\ Flushing(t.block, t.work, t.unwritten, {}) /\ ChainStored
  BY DEF FlushState, At, OnTask, TaskPhase, chainInfo
<1>2. PICK a \in t.unwritten :
        /\ stateDB' = [stateDB EXCEPT ![a] = t.work.states[a]]
        /\ task' = [task EXCEPT ![h].pc = "flushCode", ![h].account = a, ![h].unwritten = @ \ {a}]
  BY DEF FlushState, OnTask
<1>3. /\ task'[h].pc = "flushCode" /\ task'[h].block = t.block /\ task'[h].work = t.work
      /\ task'[h].unwritten = t.unwritten \ {a} /\ task'[h].account = a
  BY <1>2 DEF OnTask, IdleTask
<1>4. Flushing(t.block, t.work, t.unwritten \ {a}, {a})'
  BY <1>1, <1>2, WritesState
<1>5. TaskPhase(task[h])'
  BY <1>3, <1>4 DEF TaskPhase
<1>6. ChainStored'
  BY <1>1 DEF ChainStored, Tip
<1> QED
  BY <1>3, <1>5, <1>6 DEF Verified, Accepted, At

LEMMA FlushCodeJoin ==
  ASSUME CodeIsLoaded, NEW h \in Handler, NEW t, OnTask(h, t), FlushCode(h)
  PROVE  ChainStored' /\ TaskPhase(task[h])' /\ (Verified(h)' \/ Calm')
<1>1. /\ UNCHANGED <<stateDB, blockDB, latestBlock, difficulty>> /\ t.pc = "flushCode"
      /\ Flushing(t.block, t.work, t.unwritten, {t.account}) /\ ChainStored /\ Tip' = Tip
  BY DEF FlushCode, At, OnTask, TaskPhase, chainInfo, Tip
<1>2. t.account \in DOMAIN t.work.states
  BY <1>1 DEF Flushing
<1>3. FlushedCode(h) = t.work.states[t.account].codeHash /\ FlushedCode(h) \in t.work.code
  BY <1>1, <1>2 DEF FlushedCode, OnTask, CodeIsLoaded, Accepted, CodeOf
<1>4. /\ codeDB' = codeDB \cup {t.work.states[t.account].codeHash}
      /\ Goto(h, IF t.unwritten # {} THEN "flushState" ELSE AfterFlush(t.block))
  BY <1>3 DEF FlushCode, OnTask
<1>5. Flushing(t.block, t.work, t.unwritten, {})'
  BY <1>1, <1>4, WritesCode
<1>6. ChainStored'
  BY <1>1 DEF ChainStored, Tip
<1>7. CASE t.unwritten # {}
  <2>1. /\ task'[h].pc = "flushState" /\ task'[h].block = t.block /\ task'[h].work = t.work
        /\ task'[h].unwritten = t.unwritten
    BY <1>4, <1>7, GotoPhase
  <2> QED
    BY <1>5, <1>6, <2>1 DEF TaskPhase, Verified, Accepted, At
<1>8. CASE t.unwritten = {}
  <2>1. Executed(t.block)' /\ Asks(t.block)' /\ Asks(t.block)
    <3>1. Flushing(t.block, t.work, {}, {})'
      BY <1>5, <1>8
    <3>2. Tip' \in Nat \ {0}
      BY <1>1 DEF ChainStored
    <3> QED
      BY <1>1, <3>1, <3>2, Flushes DEF Flushing
  <2>2. task'[h].pc = AfterFlush(t.block) /\ task'[h].block = t.block
    BY <1>4, <1>8, GotoPhase
  <2>3. CASE t.block.blockNumber % Epoch = 0
    <3>1. task'[h].pc = "difficulty"
      BY <2>2, <2>3 DEF AfterFlush
    <3> QED
      BY <1>6, <2>1, <2>2, <2>3, <3>1 DEF TaskPhase, Verified, Accepted, At
  <2>4. CASE t.block.blockNumber % Epoch # 0
    <3>1. task'[h].pc = "blockDB"
      BY <2>2, <2>4 DEF AfterFlush
    <3>2. NextDifficulty(blockDB, t.block) = t.block.difficulty
      BY <2>4, NotAtEpoch
    <3>3. Retargeted(t.block)'
      BY <1>1, <2>1, <3>2 DEF Retargeted, Asks
    <3> QED
      BY <1>6, <2>1, <2>2, <3>1, <3>3 DEF TaskPhase, Verified, Accepted, At
  <2> QED
    BY <2>3, <2>4
<1> QED
  BY <1>7, <1>8

LEMMA UpdateDifficultyJoin ==
  ASSUME NEW h \in Handler, NEW t, OnTask(h, t), UpdateDifficulty(h)
  PROVE  ChainStored' /\ TaskPhase(task[h])' /\ (Verified(h)' \/ Calm')
<1>1. /\ UNCHANGED <<stateDB, codeDB, blockDB, latestBlock>> /\ t.pc = "difficulty"
      /\ Executed(t.block) /\ Asks(t.block) /\ t.block.blockNumber % Epoch = 0 /\ ChainStored
      /\ difficulty' = Retarget(difficulty, Epoch, BLOCK_TIME,
                                blockDB[t.block.blockNumber - (Epoch - 1)], t.block)
      /\ Goto(h, "blockDB")
  BY DEF UpdateDifficulty, At, OnTask, TaskPhase, stores
<1>2. Tip' = Tip /\ Before' = Before
  BY <1>1, BeforeSame
<1>3. ChainStored' /\ Executed(t.block)'
  BY <1>1, <1>2 DEF ChainStored, Executed, IsNext, LedgerShape
<1>4. Retargeted(t.block)'
  BY <1>1 DEF Retargeted, NextDifficulty, Asks
<1>5. task'[h].pc = "blockDB" /\ task'[h].block = t.block
  BY <1>1, GotoPhase
<1> QED
  BY <1>3, <1>4, <1>5 DEF TaskPhase, Verified, Accepted, At

LEMMA PutBlockJoin ==
  ASSUME NEW h \in Handler, NEW t, OnTask(h, t), PutBlock(h)
  PROVE  ChainStored' /\ TaskPhase(task[h])' /\ (Verified(h)' \/ Calm')
<1>1. /\ UNCHANGED <<stateDB, codeDB, latestBlock, difficulty>> /\ t.pc = "blockDB"
      /\ Executed(t.block) /\ Retargeted(t.block) /\ ChainStored /\ t.block \in PeerBlock
      /\ blockDB' = Put(blockDB, t.block.blockNumber, t.block) /\ Goto(h, "bhashDB")
  BY DEF PutBlock, At, OnTask, TaskPhase, chainInfo
<1>2. ChainStored' /\ Executed(t.block)' /\ Stored(t.block)' /\ Retargeted(t.block)'
  BY <1>1, Stores
<1>3. task'[h].pc = "bhashDB" /\ task'[h].block = t.block
  BY <1>1, GotoPhase
<1> QED
  BY <1>2, <1>3 DEF TaskPhase, Verified, Accepted, At

LEMMA IndexJoin ==
  ASSUME NEW h \in Handler, NEW t, OnTask(h, t), PutBhash(h) \/ PutTxhash(h)
  PROVE  ChainStored' /\ TaskPhase(task[h])' /\ (Verified(h)' \/ Calm')
<1>1. /\ UNCHANGED <<stateDB, codeDB, blockDB, difficulty>> /\ t.pc \in {"bhashDB", "txhashDB"}
      /\ ChainStored /\ t.block \in PeerBlock
      /\ \/ latestBlock' = t.block /\ Goto(h, "clear")
         \/ \E written : /\ latestBlock' = latestBlock
                         /\ task' = [task EXCEPT ![h].pc = "txhashDB", ![h].txIndex = written]
  BY DEF PutBhash, PutTxhash, AfterIndex, At, OnTask
<1>2. Executed(t.block) /\ Retargeted(t.block) /\ Stored(t.block)
  BY <1>1 DEF OnTask, TaskPhase
<1>3. CASE latestBlock' = t.block /\ Goto(h, "clear")
  <2>1. ChainStored' /\ AtRest'
    BY <1>1, <1>2, <1>3, Adopts
  <2>2. NextFits'
    BY <1>1, <1>2, <1>3 DEF NextFits, Retargeted
  <2>3. task'[h].pc = "clear"
    BY <1>3, GotoPhase
  <2> QED
    BY <2>1, <2>2, <2>3 DEF TaskPhase, Verified, Accepted, At, Calm
<1>4. ASSUME NEW written, latestBlock' = latestBlock,
             task' = [task EXCEPT ![h].pc = "txhashDB", ![h].txIndex = written]
      PROVE  ChainStored' /\ TaskPhase(task[h])' /\ (Verified(h)' \/ Calm')
  <2>1. task'[h].pc = "txhashDB" /\ task'[h].block = t.block
    BY <1>4 DEF OnTask, IdleTask
  <2>2. UNCHANGED held
    BY <1>1, <1>4 DEF held
  <2>3. ChainStored' /\ Executed(t.block)' /\ Retargeted(t.block)' /\ Stored(t.block)'
    BY <1>1, <1>2, <2>2, PhaseKept
  <2> QED
    BY <2>1, <2>3 DEF TaskPhase, Verified, Accepted, At
<1> QED
  BY <1>1, <1>3, <1>4

LEMMA RelayJoin ==
  ASSUME NEW h \in Handler, NEW t, OnTask(h, t), Relay(h)
  PROVE  UNCHANGED held /\ TaskPhase(task[h])'
BY FinishPhase DEF Relay, OnTask, stores, chainInfo, held

LEMMA NewBlockJoin ==
  ASSUME NumberedAlike, OneVerified, OneVerified', CodeIsLoaded, SyncInv, HeadInv, HeadInv', JoinInv,
         NEW h \in Handler, NewBlockStep(h)
  PROVE  JoinInv'
<1> DEFINE t == task[h]
<1>1. /\ Step(h) /\ UNCHANGED <<sync, syncing, latestSyncBlock, currentSyncBlock>>
  BY DEF NewBlockStep, syncQueue
<1>2. /\ ~At(h, "idle") /\ restarts' = restarts /\ DOMAIN task = Handler
      /\ \A g \in Handler : g # h => task'[g] = task[g]
      /\ \/ latestBlock' = latestBlock
         \/ latestBlock' = t.block /\ Indexing(h)
  BY <1>1, TaskMoves DEF HeadInv, TaskHead
<1>3. ~Quiet
  BY <1>2 DEF Quiet
<1>4. Wedged => Wedged'
  BY <1>1 DEF Wedged, SyncAt
<1>5. CASE Joined /\ latestBlock # BootBlock
  <2>1. OnTask(h, t)
    BY <1>2, <1>5 DEF OnTask, HeadInv, TaskHead, IsTask, At, Joined
  <2>2. (SyncPast <=> SyncPast') /\ \A pc : SyncAt(pc) <=> SyncAt(pc)'
    BY <1>1 DEF SyncPast, SyncVerified, Storing, SyncAt
  <2>3. ASSUME NEW g \in Handler, g # h
        PROVE  /\ At(g, "order") => Waits(task[g].block)'
               /\ Verified(g)' <=> Verified(g)
    <3>1. At(g, "order") => Waits(task[g].block) /\ task[g].block \in PeerBlock
      BY <1>5 DEF Joined, TaskPhase, HeadInv, TaskHead, IsTask, At
    <3>2. ASSUME NEW c, c = task[g].block, At(g, "order") PROVE Waits(c)'
      BY <1>1, <3>1, <3>2, StepWaits
    <3>3. At(g, "order") => Waits(task[g].block)'
      BY <1>2, <2>3, <3>2
    <3> QED
      BY <1>2, <2>3, <3>3 DEF Verified, Accepted, At
  <2>4. SyncAt("order") => Waits(sync.block)'
    <3>1. SyncAt("order") => Waits(sync.block) /\ sync.block \in PeerBlock
      BY <1>5 DEF Joined, SyncPhase, SyncInv, QueueInv, HandlerOK, SyncAt
    <3>2. ASSUME NEW c, c = sync.block, SyncAt("order") PROVE Waits(c)'
      BY <1>1, <3>1, <3>2, StepWaits
    <3> QED
      BY <1>1, <3>2
  <2>5. latestBlock' # BootBlock
    BY <1>2, <1>5, NotOfBoot DEF HeadInv, TaskHead, IsTask, Indexing, At
  <2> HIDE DEF t
  <2>6. CASE CheckOrder(h) \/ Relay(h)
    <3>1. ~Verified(h) /\ UNCHANGED held
      BY <2>6 DEF CheckOrder, Relay, At, Verified, Accepted, stores, chainInfo, held
    <3>2. Verified(h)' => Calm /\ \A g \in Handler : ~Committing(g)
      <4>1. Verified(h)' => ~SyncPast /\ Alone
        BY <2>2, <2>3, <3>1 DEF OneVerified, Alone
      <4> QED
        BY <1>5, <4>1 DEF Joined, Alone, Verified, Accepted, At, Committing
    <3>3. TaskPhase(task[h])'
      BY <2>1, <2>6, <3>2, CheckOrderJoin, RelayJoin
    <3>4. \A g \in Handler : Committing(g) => Committing(g)'
      BY <1>2, <2>6 DEF Committing, CheckOrder, Relay, At
    <3>5. ASSUME NEW g \in Handler, g # h PROVE TaskPhase(task[g])'
      <4>1. ASSUME NEW u, u = task[g] PROVE TaskPhase(u)'
        BY <1>5, <3>1, <3>4, <4>1, PhaseStays DEF Joined
      <4> QED
        BY <1>2, <3>5, <4>1 DEF TaskPhase
    <3>6. SyncPhase' /\ ChainStored'
      BY <1>1, <1>5, <3>1, <3>4, SyncPhaseStays, PhaseKept DEF Joined
    <3>7. ~SyncPast' /\ Alone' => Calm'
      BY <1>5, <2>2, <2>3, <3>1, PhaseKept DEF Joined, Alone
    <3>8. Joined'
      BY <3>3, <3>5, <3>6, <3>7 DEF Joined
    <3> QED
      BY <2>5, <3>8 DEF JoinInv
  <2>7. CASE ~CheckOrder(h) /\ ~Relay(h)
    <3>1. Verified(h)
      BY <1>1, <2>7 DEF Step, Replay, FlushState, FlushCode, UpdateDifficulty, PutBlock,
                       PutBhash, PutTxhash, Verified, Accepted, At
    <3>2. ~SyncPast /\ \A g \in Handler : g # h => ~Verified(g)
      BY <3>1 DEF OneVerified, Alone
    <3>3. ChainStored' /\ TaskPhase(task[h])' /\ (Verified(h)' \/ Calm')
      BY <1>1, <2>1, <2>7, ReplayJoin, FlushStateJoin, FlushCodeJoin,
         UpdateDifficultyJoin, PutBlockJoin, IndexJoin DEF Step
    <3>4. ASSUME NEW g \in Handler, g # h PROVE TaskPhase(task[g])'
      <4>1. ~Verified(g)' /\ (At(g, "order")' => Waits(task[g].block)')
        BY <1>2, <2>3, <3>2, <3>4 DEF At
      <4>2. ASSUME NEW u, u = task'[g] PROVE TaskPhase(u)'
        BY <1>2, <2>3, <3>4, <4>1, <4>2 DEF TaskPhase, Verified, Accepted, At
      <4> QED
        BY <4>1 DEF TaskPhase, Verified, Accepted, At
    <3>5. SyncPhase'
      BY <2>2, <2>4, <3>2 DEF SyncPhase, SyncPast, SyncVerified, Storing, SyncAt
    <3>6. Joined'
      BY <3>3, <3>4, <3>5 DEF Joined, Alone
    <3> QED
      BY <2>5, <3>6 DEF JoinInv
  <2> QED
    BY <2>6, <2>7
<1>6. ~Booting
  BY <1>3 DEF Booting
<1> QED
  BY <1>2, <1>4, <1>5, <1>6 DEF JoinInv

LEMMA ReceiveSentJoin ==
  ASSUME OneVerified', HeadInv, SyncInv, JoinInv, NEW m \in sent, ReceiveSent(m[1], m[2])
  PROVE  JoinInv'
<1> DEFINE blocks == Append(queue, m[2])
<1>1. /\ UNCHANGED <<held, task, latestSyncBlock, currentSyncBlock, restarts>>
      /\ UNCHANGED latestBlock /\ m[2] \in PeerBlock
  BY DEF ReceiveSent, intake, stores, chainInfo, held, process, position, SyncInv, NetworkOK
<1>2. CASE UNCHANGED <<sync, syncing>>
  BY <1>1, <1>2, JoinFrame
<1>3. CASE ~syncing /\ RunQueue(blocks)
  <2>1. blocks \in Seq(PeerBlock) /\ SyncAt("idle") /\ ~Wedged
    BY <1>1, <1>3 DEF SyncInv, QueueInv, HandlerOK, QueueAnswersQuestion, Wedged
  <2> HIDE DEF blocks
  <2>2. CASE latestBlock = BootBlock /\ Booting
    <3>1. sync'.pc \in {"idle", "blockDB"}
      <4>1. ASSUME NEW block \in PeerBlock, NEW now \in Clock, Starts(block, now),
                   sync' = [IdleSync EXCEPT !.pc = FirstPc(block), !.block = block]
            PROVE  sync'.pc = "blockDB"
        <5>1. Anchors(block)
          BY <2>2, <4>1, NotOfBoot DEF Starts, HeaderFits
        <5> QED
          BY <4>1, <5>1 DEF FirstPc, IdleSync
      <4>2. sync' = IdleSync => sync'.pc = "idle"
        BY DEF IdleSync
      <4> QED
        BY <1>3, <2>1, <4>1, <4>2, RunQueueStarts
    <3>2. UNCHANGED <<stateDB, codeDB, difficulty>> /\ Quiet' /\ latestSyncBlock = NoBlock
      BY <1>1, <2>1, <2>2 DEF held, Quiet, At, Booting, SyncAt
    <3>3. Booting'
      BY <1>1, <2>2, <3>1, <3>2 DEF Booting, SyncAt
    <3> QED
      BY <1>1, <2>2, <3>3 DEF JoinInv
  <2>3. CASE latestBlock # BootBlock /\ Joined
    <3>1. latestSyncBlock # NoBlock /\ ~SyncPast
      BY <2>1, <2>3 DEF HeadInv, SyncPast, SyncVerified, Storing, SyncAt
    <3>2. Joined'
      BY <1>1, <1>3, <2>1, <2>3, <3>1, QueueJoins
    <3> QED
      BY <1>1, <2>3, <3>2 DEF JoinInv
  <2> QED
    BY <1>1, <2>1, <2>2, <2>3 DEF JoinInv
<1> QED
  BY <1>2, <1>3 DEF ReceiveSent, syncQueue

LEMMA ReceiveJoin ==
  ASSUME OneVerified', HeadInv, JoinInv, NEW h \in Handler,
         NEW block \in PeerBlock, Receive(h, block),
         UNCHANGED <<sync, syncing, latestSyncBlock, currentSyncBlock>>
  PROVE  JoinInv'
<1>1. UNCHANGED <<held, restarts, latestBlock>> /\ HeaderFits(block) /\ At(h, "idle")
  BY DEF Receive, process, held, stores
<1>2. Wedged => Wedged'
  BY DEF Wedged, SyncAt
<1>3. latestBlock # BootBlock
  BY <1>1, NotOfBoot DEF HeaderFits
<1>4. CASE Joined
  <2>1. CASE task' = task
    BY <1>1, <2>1, JoinFrame
  <2>2. ASSUME NEW pc \in {"order", "replay"},
               pc = "replay" => block.txs = << >> /\ \E now \in Clock : BodyFits(block, now),
               task' = [task EXCEPT ![h] = [IdleTask EXCEPT !.pc = pc, !.block = block]]
        PROVE  JoinInv'
    <3>1. task'[h].pc = pc /\ task'[h].block = block /\ \A g \in Handler : g # h => task'[g] = task[g]
      BY <2>2 DEF HeadInv, TaskHead, IdleTask
    <3>2. \A g \in Handler : Committing(g) => Committing(g)'
      BY <1>1, <3>1 DEF Committing, At
    <3>3. ASSUME NEW g \in Handler, g # h PROVE TaskPhase(task[g])'
      <4>1. ASSUME NEW u, u = task[g] PROVE TaskPhase(u)'
        BY <1>1, <1>4, <3>2, <4>1, PhaseStays DEF Joined
      <4> QED
        BY <3>1, <3>3, <4>1 DEF TaskPhase
    <3>4. ChainStored' /\ SyncPhase' /\ ChainStored
      BY <1>1, <1>4, <3>2, SyncPhaseStays, PhaseKept DEF Joined
    <3>5. (SyncPast <=> SyncPast') /\ (\A g \in Handler : g # h => (Verified(g)' <=> Verified(g)))
          /\ ~Verified(h)
      BY <1>1, <3>1 DEF SyncPast, SyncVerified, Storing, SyncAt, Verified, Accepted, At
    <3>6. ~SyncPast' /\ Alone' => Calm'
      BY <1>1, <1>4, <3>5, PhaseKept DEF Joined, Alone
    <3>7. TaskPhase(task[h])'
      <4>1. CASE pc = "order"
        <5>1. Waits(block)'
          BY <1>1 DEF HeaderFits, Waits, Follower, Asks, held
        <5> QED
          BY <3>1, <4>1, <5>1 DEF TaskPhase
      <4>2. CASE pc = "replay"
        <5>1. Verified(h)'
          BY <3>1, <4>2 DEF Verified, At
        <5>2. ~SyncPast /\ Alone
          BY <3>5, <5>1 DEF OneVerified, Alone
        <5>3. Calm
          BY <1>4, <5>2 DEF Joined
        <5>4. Ordered(block)
          BY <1>1, <2>2, <3>4, <4>2, <5>3, EmptyOrder
             DEF BodyFits, HeaderFits, Ordered, Verifying, Asks, IsNext, Tip
        <5>5. Ordered(block)'
          BY <1>1, <5>4, PhaseKept
        <5> QED
          BY <3>1, <4>2, <5>5 DEF TaskPhase
      <4> QED
        BY <2>2, <4>1, <4>2
    <3>8. Joined'
      BY <3>3, <3>4, <3>6, <3>7 DEF Joined
    <3> QED
      BY <1>1, <1>3, <3>8 DEF JoinInv
  <2>3. \/ task' = task
        \/ task' = [task EXCEPT ![h] = [IdleTask EXCEPT !.pc = "order", !.block = block]]
        \/ /\ block.txs = << >> /\ \E now \in Clock : BodyFits(block, now)
           /\ task' = [task EXCEPT ![h] = [IdleTask EXCEPT !.pc = "replay", !.block = block]]
    BY DEF Receive
  <2> QED
    BY <2>1, <2>2, <2>3
<1> QED
  BY <1>1, <1>2, <1>3, <1>4 DEF JoinInv

LEMMA ReceiveFloodJoin ==
  ASSUME OneVerified', HeadInv, SyncInv, JoinInv, NEW p \in Peer, ReceiveFlood(p)
  PROVE  JoinInv'
<1> DEFINE block == Head(floods[p])
<1>1. /\ UNCHANGED <<sync, syncing, latestSyncBlock, currentSyncBlock>>
      /\ block \in PeerBlock
  BY DEF ReceiveFlood, syncQueue, position, SyncInv, FloodsOK
<1> HIDE DEF block
<1>2. CASE UNCHANGED <<held, task, restarts>>
  BY <1>1, <1>2, JoinFrame
<1>3. ASSUME NEW h \in Handler, Receive(h, block)
      PROVE  JoinInv'
  BY <1>1, <1>3, ReceiveJoin
<1> QED
  BY <1>2, <1>3 DEF ReceiveFlood, block, intake, Discard, stores, chainInfo, held, process

\* The handler of an answer adopts the block it has verified.
LEMMA AdoptsOwn ==
  ASSUME QueueInv, SyncStep, latestBlock' # latestBlock
  PROVE  /\ UNCHANGED task /\ latestBlock' = sync.block /\ sync.block \in PeerBlock /\ SyncPast
         /\ sync'.pc \in {"idle", "difficulty"}
<1>1. /\ UNCHANGED task /\ Adopt
      /\ SyncAt("bhashDB") \/ SyncAt("txhashDB") \/ SyncAt("reward")
  BY DEF SyncStep, SyncOrder, SyncReplay, SyncFlush, SyncPutBlock, SyncPutBhash,
         SyncPutTxhash, SyncReward, SyncDifficulty, intake, chainInfo, AfterSyncIndex, Indexed
<1>2. sync.block \in PeerBlock /\ SyncPast
  BY <1>1 DEF QueueInv, HandlerOK, SyncAt, SyncPast, SyncVerified, Storing
<1>3. sync'.pc \in {"idle", "difficulty"}
  BY <1>1, GotoMoves DEF Adopt, Complete, IdleSync
<1> QED
  BY <1>1, <1>2, <1>3 DEF Adopt

LEMMA SameNumber ==
  ASSUME NumberedAlike, NEW b \in PeerBlock, NEW c \in PeerBlock, c.parentHash = b.parentHash
  PROVE  c.blockNumber <= b.blockNumber /\ ~(c.blockNumber > b.blockNumber)
<1>1. c.blockNumber = b.blockNumber /\ b.blockNumber \in Nat
  BY NotOfBoot, IntakeAssumption DEF NumberedAlike
<1> QED
  BY <1>1

\* With one block verified at a time none is overtaken that would be adopted.
LEMMA OneVerifiedOvertakes ==
  ASSUME NumberedAlike, OneVerified, SyncInv, HeadInv, [SyncNext]_syncVars
  PROVE  [OvertakesNone]_syncVars
<1> SUFFICES ASSUME restarts' = restarts, latestBlock' # latestBlock
             PROVE  ~AnswerUnderWay' /\ \A h \in Handler : ~SiblingUnderWay(h)'
  BY DEF OvertakesNone
<1>1. CASE SyncStep
  <2>1. /\ UNCHANGED task /\ latestBlock' = sync.block /\ sync.block \in PeerBlock /\ SyncPast
        /\ sync'.pc \in {"idle", "difficulty"}
    BY <1>1, AdoptsOwn DEF SyncInv
  <2>2. Alone
    BY <2>1 DEF OneVerified
  <2>3. ~AnswerUnderWay'
    BY <2>1 DEF AnswerUnderWay, SyncVerified, Storing, SyncAt
  <2>4. ASSUME NEW g \in Handler PROVE ~SiblingUnderWay(g)'
    <3>1. ~Verified(g)' /\ (At(g, "order") => task[g].block \in PeerBlock)
      BY <2>1, <2>2 DEF HeadInv, TaskHead, IsTask, Alone, Verified, Accepted, At
    <3>2. ASSUME NEW b \in PeerBlock, b = sync.block, NEW c \in PeerBlock, c = task[g].block,
                 c.parentHash = b.parentHash
          PROVE  ~(c.blockNumber > b.blockNumber)
      BY <3>2, SameNumber
    <3> QED
      BY <2>1, <3>1, <3>2 DEF SiblingUnderWay, At
  <2> QED
    BY <2>3, <2>4
<1>2. ASSUME NEW h \in Handler, NewBlockStep(h)
      PROVE  ~AnswerUnderWay' /\ \A g \in Handler : ~SiblingUnderWay(g)'
  <2> DEFINE b == task[h].block
  <2>1. /\ latestBlock' = b /\ b \in PeerBlock /\ At(h, "clear")' /\ Indexing(h)
        /\ \A g \in Handler : g # h => task'[g] = task[g] /\ IsTask(task[g])
        /\ UNCHANGED sync
    BY <1>2, TaskMoves DEF NewBlockStep, syncQueue, HeadInv, TaskHead
  <2>2. Verified(h)
    BY <2>1 DEF Indexing, Verified, Accepted, At
  <2>3. ~SyncPast /\ \A g \in Handler : g # h => ~Verified(g)
    BY <2>2 DEF OneVerified, Alone
  <2> HIDE DEF b
  <2>4. ASSUME NEW g \in Handler PROVE ~SiblingUnderWay(g)'
    <3>1. CASE g = h
      BY <2>1, <3>1 DEF SiblingUnderWay, Verified, Accepted, At
    <3>2. CASE g # h
      <4>1. ~Verified(g)' /\ (At(g, "order") => task[g].block \in PeerBlock)
        BY <2>1, <2>3, <3>2 DEF IsTask, Verified, Accepted, At
      <4>2. ASSUME NEW c \in PeerBlock, c = task[g].block, c.parentHash = b.parentHash
            PROVE  ~(c.blockNumber > b.blockNumber)
        BY <2>1, <4>2, SameNumber
      <4> QED
        BY <2>1, <3>2, <4>1, <4>2 DEF SiblingUnderWay, At
    <3> QED
      BY <3>1, <3>2
  <2>5. ~AnswerUnderWay'
    <3>1. ~SyncVerified'
      BY <2>1, <2>3 DEF SyncPast, SyncVerified, Storing
    <3>2. SyncAt("order") => sync.block \in PeerBlock
      BY DEF SyncInv, QueueInv, HandlerOK, SyncAt
    <3>3. ASSUME SyncAt("order"), sync.block.parentHash = b.parentHash
          PROVE  sync.block.blockNumber <= b.blockNumber
      BY <2>1, <3>2, <3>3, SameNumber
    <3> QED
      BY <2>1, <3>1, <3>3 DEF AnswerUnderWay, SyncAt, Stale
  <2> QED
    BY <2>4, <2>5
<1>3. ~(UNCHANGED syncVars \/ (\E p \in Peer : Link(p) \/ Unlink(p) \/ Grow(p))
        \/ (\E m \in asked : Answer(m[1], m[2]) \/ Throw(m[1], m[2])) \/ RequestFirst)
  BY DEF syncVars, Link, Unlink, Grow, Answer, Throw, RequestFirst, intake, chainInfo
<1>4. ~\E m \in sent : ReceiveSent(m[1], m[2])
  BY DEF ReceiveSent, intake, chainInfo
<1>5. ~\E p \in Peer : ReceiveFlood(p)
  BY DEF ReceiveFlood, Receive, Discard, intake, chainInfo
<1>6. ~SyncRestart
  BY DEF SyncRestart, HeadInv
<1> QED
  BY <1>1, <1>2, <1>3, <1>4, <1>5, <1>6 DEF SyncNext, Progress

LEMMA JoinNext ==
  ASSUME FirstDifficulty, NumberedAlike, OneVerified, OneVerified', CodeIsLoaded, StoresItsMessage,
         SyncInv, HeadInv, HeadInv', JoinInv, [SyncNext]_syncVars
  PROVE  JoinInv'
<1>1. ASSUME UNCHANGED syncVars \/ (\E p \in Peer : Link(p) \/ Unlink(p) \/ Grow(p))
             \/ (\E m \in asked : Answer(m[1], m[2]) \/ Throw(m[1], m[2])) \/ RequestFirst
      PROVE  JoinInv'
  <2>1. UNCHANGED <<held, sync, task, syncing, latestSyncBlock, currentSyncBlock, restarts>>
    BY <1>1 DEF syncVars, Link, Unlink, Grow, Answer, Throw, RequestFirst, syncQueue, intake,
                stores, chainInfo, held, process, position
  <2> QED
    BY <2>1, JoinFrame
<1>2. CASE SyncRestart
  BY <1>2 DEF SyncRestart, HeadInv, JoinInv
<1> QED
  BY <1>1, <1>2, ReceiveSentJoin, ReceiveFloodJoin, NewBlockJoin, SyncStepJoin
  DEF SyncNext, Progress, SyncInv

LEMMA JoinInit ==
  ASSUME SyncInit
  PROVE  JoinInv
BY DEF SyncInit, JoinInv, Booting, FirstLedger, Quiet, At, SyncAt, IdleTask, IdleSync

LEMMA JoinedIsReplay ==
  ASSUME SyncInv, JoinInv
  PROVE  JoinedStateIsReplay
<1>1. SUFFICES ASSUME restarts = 0, Resting, latestBlock # BootBlock
               PROVE  /\ Replayed = [valid |-> TRUE, db |-> stateDB, codes |-> codeDB]
                      /\ difficulty = NextDifficulty(blockDB, latestBlock)
  BY DEF JoinedStateIsReplay
<1>2. Quiet /\ SyncAt("idle") /\ ~Wedged
  BY <1>1 DEF Resting, Wedged, SyncInv, QueueInv, QueueAnswersQuestion
<1>3. ChainStored /\ Calm
  BY <1>1, <1>2 DEF JoinInv, Joined, Quiet, Alone, Verified, Accepted, At, SyncPast,
                    SyncVerified, Storing, SyncAt
<1>4. Replayed = Before
  BY <1>3, ReplayedIsChained DEF ChainStored, Tip, Before
<1> QED
  BY <1>3, <1>4 DEF Calm, AtRest, NextFits, Result

\* A node that has joined holds, whenever it rests, exactly what the replay of
\* its stored blocks gives, and asks the difficulty they ask, whichever blocks
\* were asked for and whichever flooded, however many handlers wait between
\* their awaits and whatever was rejected in between: until two blocks are
\* verified or written at once, code is stored that was never loaded, or a
\* block is stored that was not the one verified.  (The peers number their
\* blocks after the parents, and start from the difficulty every node starts
\* from.)
THEOREM JoinedIsTheChain ==
  ASSUME FirstDifficulty, NumberedAlike
  PROVE  SyncSpec /\ []OneVerified /\ []CodeIsLoaded /\ []StoresItsMessage
           => []JoinedStateIsReplay
<1>1. SyncInit => SyncInv /\ HeadInv /\ JoinInv
  BY SyncInitOK, HeadInit, JoinInit
<1>2. OneVerified /\ SyncInv /\ HeadInv /\ [SyncNext]_syncVars => SyncInv' /\ HeadInv'
  BY SyncNextKeeps, HeadNext, OneVerifiedOvertakes
<1>3. OneVerified /\ OneVerified' /\ CodeIsLoaded /\ StoresItsMessage
        /\ SyncInv /\ HeadInv /\ HeadInv' /\ JoinInv /\ [SyncNext]_syncVars => JoinInv'
  BY JoinNext
<1>4. SyncInv /\ JoinInv => JoinedStateIsReplay
  BY JoinedIsReplay
<1> QED
  BY <1>1, <1>2, <1>3, <1>4, PTL DEF SyncSpec

-----------------------------------------------------------------------------
(* The indexes of the chain, through crashes.                              *)

\* Blocks of different heights have neither their hash nor a transaction in
\* common, and no transaction has two places.
DistinctEntries ==
  \A b, c \in PeerBlock :
    /\ b.hash = c.hash => b.blockNumber = c.blockNumber
    /\ \A i \in DOMAIN b.txs, j \in DOMAIN c.txs :
         TxHash(b.txs[i]) = TxHash(c.txs[j]) => b.blockNumber = c.blockNumber /\ i = j

\* The entries of a block and of its first count transactions lead to it.
FoundTo(block, count) ==
  /\ block.hash \in DOMAIN bhashDB /\ bhashDB[block.hash] = block.blockNumber
  /\ \A i \in 1..count :
       /\ TxHash(block.txs[i]) \in DOMAIN txhashDB
       /\ txhashDB[TxHash(block.txs[i])] = <<block.blockNumber, i - 1>>

IsFound(n) == FoundTo(blockDB[n], Len(blockDB[n].txs))

\* The blocks up to top are stored, and only the last of them, while it is
\* still to be asked for, may miss entries.  A node that has restarted asks for
\* no block below it.
Filled(top) ==
  /\ DOMAIN blockDB = 1..top
  /\ \A n \in 1..top : blockDB[n] \in PeerBlock /\ blockDB[n].blockNumber = n
  /\ currentSyncBlock \in 1..(top + 1)
  /\ latestBlock = BootBlock => top <= currentSyncBlock
  /\ \A n \in 1..top : n < top \/ n < currentSyncBlock => IsFound(n)

\* How far the handler of an answer is with the entries of its block.
SyncIndex(top) ==
  /\ sync.pc \in {"bhashDB", "txhashDB", "reward", "difficulty"} =>
       top = currentSyncBlock /\ blockDB[top] = sync.block
  /\ SyncAt("txhashDB") =>
       sync.txIndex \in 0..(Len(sync.block.txs) - 1) /\ FoundTo(sync.block, sync.txIndex)
  /\ sync.pc \in {"reward", "difficulty"} => IsFound(top)
  /\ SyncAt("difficulty") => latestBlock = sync.block

\* The same of a NEW_BLOCK handler.
TaskIndex(top, t) ==
  /\ t.pc \in {"bhashDB", "txhashDB"} => top # 0 /\ t.block = blockDB[top]
  /\ t.pc = "txhashDB" =>
       t.txIndex \in 0..(Len(t.block.txs) - 1) /\ FoundTo(t.block, t.txIndex)

\* The latest block is the last one that is stored, and it can be found.
Whole(top) ==
  latestBlock # BootBlock => top # 0 /\ latestBlock.blockNumber = top /\ IsFound(top)

\* The handler of an answer has not stored its block.
SyncRests == sync.pc \in {"idle", "order", "replay", "flush", "blockDB"}

IndexAt(top) ==
  /\ Filled(top) /\ SyncIndex(top)
  /\ \A h \in Handler : TaskIndex(top, task[h])
  /\ SyncRests /\ (\A h \in Handler : ~Indexing(h)) => Whole(top)

IndexInv == \E top \in Nat : IndexAt(top)

\* Nothing that could be found is lost.
EntriesKept ==
  \A block \in PeerBlock : \A count \in 0..Len(block.txs) :
    FoundTo(block, count) => FoundTo(block, count)'

\* What this depends on.
entries == <<blockDB, bhashDB, txhashDB>>
progress == <<latestBlock, currentSyncBlock>>

LEMMA BlockTyped ==
  ASSUME NEW block \in PeerBlock
  PROVE  /\ block.blockNumber \in Nat /\ Len(block.txs) \in Nat
         /\ DOMAIN block.txs = 1..Len(block.txs)
<1>1. block \in Block
  BY DEF Block
<1>2. block.blockNumber \in Nat /\ block.txs \in Seq(Transaction)
  BY <1>1, IntakeAssumption
<1> QED
  BY <1>2

LEMMA UnchangedKept ==
  ASSUME UNCHANGED <<bhashDB, txhashDB>>
  PROVE  EntriesKept
BY DEF EntriesKept, FoundTo

\* The entry of a hash replaces none of another block.
LEMMA HashKept ==
  ASSUME DistinctEntries, NEW block \in PeerBlock, UNCHANGED txhashDB,
         bhashDB' = Put(bhashDB, block.hash, block.blockNumber)
  PROVE  EntriesKept /\ FoundTo(block, 0)'
<1>1. /\ DOMAIN bhashDB' = DOMAIN bhashDB \cup {block.hash}
      /\ bhashDB'[block.hash] = block.blockNumber
      /\ \A hash \in DOMAIN bhashDB : hash # block.hash => bhashDB'[hash] = bhashDB[hash]
  BY DEF Put
<1>2. FoundTo(block, 0)'
  BY <1>1 DEF FoundTo
<1>3. ASSUME NEW c \in PeerBlock, NEW count \in 0..Len(c.txs), FoundTo(c, count)
      PROVE  FoundTo(c, count)'
  <2>1. c.hash = block.hash => c.blockNumber = block.blockNumber
    BY DEF DistinctEntries
  <2>2. c.hash \in DOMAIN bhashDB' /\ bhashDB'[c.hash] = c.blockNumber
    BY <1>1, <1>3, <2>1 DEF FoundTo
  <2> QED
    BY <1>3, <2>2 DEF FoundTo
<1> QED
  BY <1>2, <1>3 DEF EntriesKept

\* Nor does the entry of a transaction.
LEMMA TxKept ==
  ASSUME DistinctEntries, NEW block \in PeerBlock, NEW i \in 1..Len(block.txs),
         UNCHANGED bhashDB, FoundTo(block, i - 1),
         txhashDB' = Put(txhashDB, TxHash(block.txs[i]), <<block.blockNumber, i - 1>>)
  PROVE  EntriesKept /\ FoundTo(block, i)'
<1> DEFINE key == TxHash(block.txs[i])
<1>1. /\ DOMAIN txhashDB' = DOMAIN txhashDB \cup {key}
      /\ txhashDB'[key] = <<block.blockNumber, i - 1>>
      /\ \A hash \in DOMAIN txhashDB : hash # key => txhashDB'[hash] = txhashDB[hash]
  BY DEF Put
<1>2. Len(block.txs) \in Nat /\ DOMAIN block.txs = 1..Len(block.txs)
  BY BlockTyped
<1>3. ASSUME NEW c \in PeerBlock, NEW j \in DOMAIN c.txs, TxHash(c.txs[j]) = key
      PROVE  c.blockNumber = block.blockNumber /\ j = i
  BY <1>2, <1>3 DEF DistinctEntries
<1> HIDE DEF key
<1>4. ASSUME NEW c \in PeerBlock, NEW j \in DOMAIN c.txs, TxHash(c.txs[j]) \in DOMAIN txhashDB,
             txhashDB[TxHash(c.txs[j])] = <<c.blockNumber, j - 1>>
      PROVE  /\ TxHash(c.txs[j]) \in DOMAIN txhashDB'
             /\ txhashDB'[TxHash(c.txs[j])] = <<c.blockNumber, j - 1>>
  <2>1. CASE TxHash(c.txs[j]) = key
    BY <1>1, <1>3, <2>1
  <2>2. CASE TxHash(c.txs[j]) # key
    BY <1>1, <1>4, <2>2
  <2> QED
    BY <2>1, <2>2
<1>5. ASSUME NEW c \in PeerBlock, NEW count \in 0..Len(c.txs), FoundTo(c, count)
      PROVE  FoundTo(c, count)'
  <2>1. Len(c.txs) \in Nat /\ DOMAIN c.txs = 1..Len(c.txs)
    BY BlockTyped
  <2>2. \A j \in 1..count : j \in DOMAIN c.txs
    BY <2>1
  <2> QED
    BY <1>4, <1>5, <2>2 DEF FoundTo
<1>6. FoundTo(block, i)'
  <2>1. ASSUME NEW j \in 1..i
        PROVE  /\ TxHash(block.txs[j]) \in DOMAIN txhashDB'
               /\ txhashDB'[TxHash(block.txs[j])] = <<block.blockNumber, j - 1>>
    <3>1. CASE j = i
      BY <1>1, <3>1 DEF key
    <3>2. CASE j # i
      <4>1. j \in 1..(i - 1) /\ j \in DOMAIN block.txs
        BY <1>2, <3>2
      <4> QED
        BY <1>4, <4>1 DEF FoundTo
    <3> QED
      BY <3>1, <3>2
  <2> QED
    BY <2>1 DEF FoundTo
<1> QED
  BY <1>5, <1>6 DEF EntriesKept

\* While the blocks stay, what can be found can be found.
LEMMA FoundKept ==
  ASSUME EntriesKept, UNCHANGED blockDB, NEW n, blockDB[n] \in PeerBlock, IsFound(n)
  PROVE  IsFound(n)'
<1>1. PICK block : block = blockDB[n]
  OBVIOUS
<1>2. block \in PeerBlock /\ block = blockDB'[n] /\ Len(block.txs) \in 0..Len(block.txs)
  BY <1>1, BlockTyped
<1>3. FoundTo(block, Len(block.txs))
  BY <1>1 DEF IsFound
<1>4. FoundTo(block, Len(block.txs))'
  BY <1>2, <1>3 DEF EntriesKept
<1> QED
  BY <1>2, <1>4 DEF IsFound

LEMMA FilledKept ==
  ASSUME EntriesKept, UNCHANGED blockDB, NEW top \in Nat, Filled(top),
         currentSyncBlock' \in 1..(top + 1),
         latestBlock' = BootBlock => top <= currentSyncBlock',
         \A n \in 1..top : n < currentSyncBlock' =>
           n < top \/ n < currentSyncBlock \/ IsFound(n)'
  PROVE  Filled(top)'
<1>1. ASSUME NEW n \in 1..top, n < top \/ n < currentSyncBlock'
      PROVE  IsFound(n)'
  BY <1>1, FoundKept DEF Filled
<1> QED
  BY <1>1 DEF Filled

\* A block is stored after the last one, or in its place while that is still
\* to be asked for.
LEMMA PutFills ==
  ASSUME NEW top \in Nat, Filled(top), NEW n \in {top, top + 1}, NEW block \in PeerBlock,
         block.blockNumber = n, currentSyncBlock <= n, n # 0,
         latestBlock = BootBlock => n <= currentSyncBlock, n # top /\ top # 0 => IsFound(top),
         blockDB' = Put(blockDB, n, block),
         UNCHANGED <<bhashDB, txhashDB, currentSyncBlock, latestBlock>>
  PROVE  Filled(n)' /\ blockDB'[n] = block
<1>1. /\ DOMAIN blockDB' = 1..n /\ blockDB'[n] = block
      /\ \A m \in 1..n : m # n => m \in 1..top /\ blockDB'[m] = blockDB[m]
  BY DEF Put, Filled
<1>2. currentSyncBlock \in Nat \ {0}
  BY DEF Filled
<1>3. ASSUME NEW m \in 1..n, m < n \/ m < currentSyncBlock
      PROVE  IsFound(m)'
  <2>1. m < n /\ m \in 1..top /\ blockDB'[m] = blockDB[m]
    BY <1>1, <1>2, <1>3
  <2>2. IsFound(m)
    <3>1. CASE m = top
      BY <2>1, <3>1
    <3>2. CASE m < top
      BY <2>1, <3>2 DEF Filled
    <3> QED
      BY <2>1, <3>1, <3>2
  <2> QED
    BY <2>1, <2>2 DEF IsFound, FoundTo
<1>4. \A m \in 1..n : blockDB'[m] \in PeerBlock /\ blockDB'[m].blockNumber = m
  BY <1>1 DEF Filled
<1> QED
  BY <1>1, <1>2, <1>3, <1>4 DEF Filled

-----------------------------------------------------------------------------
(* The handler of an answer.                                               *)

\* While an answer is written no flooded block is.
LEMMA SyncIndexed ==
  ASSUME Alone, UNCHANGED task, NEW top \in Nat, Filled(top)', SyncIndex(top)',
         SyncRests' => Whole(top)'
  PROVE  IndexInv'
<1>1. \A h \in Handler : TaskIndex(top, task[h])'
  BY DEF Alone, Verified, Accepted, At, TaskIndex
<1> QED
  BY <1>1 DEF IndexInv, IndexAt

\* The handler goes on, or another one starts, and no entry is written.
LEMMA RestKept ==
  ASSUME SyncRests, UNCHANGED <<task, entries, progress>>, SyncRests', IndexInv
  PROVE  IndexInv'
<1>1. PICK top \in Nat : IndexAt(top)
  BY DEF IndexInv
<1>2. Filled(top)' /\ (Whole(top) => Whole(top)')
  BY <1>1 DEF IndexAt, entries, progress, Filled, Whole, IsFound, FoundTo
<1>3. SyncIndex(top)'
  BY DEF SyncIndex, SyncRests, SyncAt
<1>4. \A h \in Handler : TaskIndex(top, task[h])'
  BY <1>1 DEF IndexAt, entries, progress, TaskIndex, FoundTo
<1>5. \A h \in Handler : Indexing(h)' = Indexing(h)
  BY DEF Indexing, At
<1> QED
  BY <1>1, <1>2, <1>3, <1>4, <1>5 DEF IndexInv, IndexAt

LEMMA RunQueueRests ==
  ASSUME NEW blocks \in Seq(PeerBlock), RunQueue(blocks)
  PROVE  SyncRests'
<1>1. sync' = IdleSync => SyncRests'
  BY DEF SyncRests, IdleSync
<1>2. ASSUME NEW block \in PeerBlock,
             sync' = [IdleSync EXCEPT !.pc = FirstPc(block), !.block = block]
      PROVE  SyncRests'
  <2>1. sync'.pc = FirstPc(block)
    BY <1>2 DEF IdleSync
  <2> QED
    BY <2>1 DEF FirstPc, SyncRests
<1> QED
  BY <1>1, <1>2, RunQueueStarts

\* The block whose entries are all written becomes the latest one.
LEMMA AdoptIndexed ==
  ASSUME QueueInv, Alone, UNCHANGED <<task, blockDB>>, EntriesKept,
         sync.block \in PeerBlock, NEW top \in Nat, Filled(top), top = currentSyncBlock,
         blockDB[top] = sync.block, IsFound(top)', Adopt
  PROVE  IndexInv'
<1>1. /\ latestBlock' = sync.block /\ top \in 1..top /\ blockDB'[top] = sync.block
      /\ sync.block.blockNumber = top /\ latestBlock' # BootBlock
  BY NotOfBoot DEF Adopt, Filled
<1>2. Whole(top)'
  BY <1>1 DEF Whole
<1>3. CASE Complete
  <2>1. currentSyncBlock' = top + 1 /\ sync' = IdleSync
    BY <1>3 DEF Complete
  <2>2. Filled(top)'
    BY <1>1, <2>1, FilledKept DEF Filled
  <2>3. SyncIndex(top)'
    BY <2>1 DEF SyncIndex, SyncAt, IdleSync
  <2> QED
    BY <1>2, <2>2, <2>3, SyncIndexed
<1>4. CASE SyncGoto("difficulty") /\ UNCHANGED currentSyncBlock
  <2>1. sync'.pc = "difficulty" /\ sync'.block = sync.block
    BY <1>4, GotoMoves
  <2>2. Filled(top)'
    BY <1>1, <1>4, FilledKept DEF Filled
  <2>3. SyncIndex(top)'
    BY <1>1, <1>4, <2>1 DEF SyncIndex, SyncAt
  <2>4. ~SyncRests'
    BY <2>1 DEF SyncRests
  <2> QED
    BY <2>2, <2>3, <2>4, SyncIndexed
<1> QED
  BY <1>3, <1>4 DEF Adopt

\* The handler writes the entries of its block, and after the last one either
\* the reward is due or the block is the latest one.
LEMMA AfterIndexIndexed ==
  ASSUME QueueInv, Alone, UNCHANGED <<task, blockDB>>, EntriesKept, NEW block \in PeerBlock, block = sync.block,
         NEW top \in Nat, Filled(top), top = currentSyncBlock, blockDB[top] = block,
         NEW written \in 0..Len(block.txs), FoundTo(block, written)',
         AfterSyncIndex(written)
  PROVE  IndexInv'
<1>1. block = blockDB'[top] /\ Len(block.txs) \in Nat
  BY BlockTyped
<1>2. CASE written = Len(sync.block.txs) /\ Indexed
  <2>1. IsFound(top)'
    BY <1>1, <1>2 DEF IsFound
  <2>2. CASE SyncGoto("reward") /\ UNCHANGED <<latestBlock, currentSyncBlock>>
    <3>1. sync'.pc = "reward" /\ sync'.block = sync.block
      BY <2>2, GotoMoves
    <3>2. Filled(top)'
      BY <2>2, FilledKept DEF Filled
    <3>3. SyncIndex(top)' /\ ~SyncRests'
      BY <1>1, <2>1, <2>2, <3>1 DEF SyncIndex, SyncAt, SyncRests
    <3> QED
      BY <3>2, <3>3, SyncIndexed
  <2>3. CASE Adopt
    BY <2>1, <2>3, AdoptIndexed
  <2> QED
    BY <1>2, <2>2, <2>3 DEF Indexed
<1>3. CASE /\ written # Len(sync.block.txs) /\ UNCHANGED <<latestBlock, currentSyncBlock>>
           /\ sync' = [sync EXCEPT !.pc = "txhashDB", !.txIndex = written]
  <2>1. sync'.pc = "txhashDB" /\ sync'.block = block /\ sync'.txIndex = written
    BY <1>1, <1>3 DEF QueueInv, HandlerOK
  <2>2. Filled(top)'
    BY <1>3, FilledKept DEF Filled
  <2>3. FoundTo(sync.block, sync.txIndex)'
    BY <2>1 DEF FoundTo
  <2>4. SyncIndex(top)' /\ ~SyncRests'
    BY <1>1, <1>3, <2>1, <2>3 DEF SyncIndex, SyncAt, SyncRests
  <2> QED
    BY <2>2, <2>4, SyncIndexed
<1> QED
  BY <1>2, <1>3 DEF AfterSyncIndex

LEMMA SyncStepIndexed ==
  ASSUME DistinctEntries, StoresItsMessage, OneVerified, HeadInv, QueueInv, IndexInv, SyncStep
  PROVE  IndexInv'
<1>1. ~SyncAt("idle") /\ UNCHANGED task
  BY DEF SyncStep, SyncOrder, SyncReplay, SyncFlush, SyncPutBlock, SyncPutBhash,
         SyncPutTxhash, SyncReward, SyncDifficulty, SyncAt, intake, position
<1>2. /\ queue \in Seq(PeerBlock) /\ sync.block \in PeerBlock /\ message = sync.block
      /\ sync.block.blockNumber = currentSyncBlock
      /\ SyncPast => Alone
  BY <1>1 DEF HeadInv, QueueInv, HandlerOK, QueueAnswersQuestion, StoresItsMessage, OneVerified
<1>3. PICK top \in Nat : IndexAt(top)
  BY DEF IndexInv
<1>4. Filled(top) /\ SyncIndex(top)
  BY <1>3 DEF IndexAt
<1>5. Wedge => SyncRests'
  BY DEF Wedge, IdleSync, SyncRests
<1>6. CASE SyncOrder \/ SyncReplay \/ SyncFlush
  <2>1. SyncRests /\ UNCHANGED <<entries, progress>>
    BY <1>6 DEF SyncOrder, SyncReplay, SyncFlush, SyncAt, SyncRests, entries, progress, intake,
                stores, chainInfo, position
  <2>2. Wedge \/ RunQueue(queue) \/ SyncRests'
    <3>1. CASE SyncOrder
      <4>1. SyncGoto("replay") => sync'.pc = "replay"
        BY GotoMoves DEF QueueInv
      <4> QED
        BY <3>1, <4>1 DEF SyncOrder, SyncRests
    <3>2. CASE SyncReplay
      <4> DEFINE work == Transit(stateDB, codeDB, sync.block)
      <4>1. sync' = [sync EXCEPT !.pc = "flush", !.work = work, !.unwritten = DOMAIN work.states]
              => sync'.pc = "flush"
        BY DEF QueueInv, HandlerOK
      <4> QED
        BY <3>2, <4>1 DEF SyncReplay, SyncRests
    <3>3. CASE SyncFlush
      <4>1. PICK a \in sync.unwritten :
              Wedge \/ sync' = [sync EXCEPT !.unwritten = @ \ {a},
                                    !.pc = IF sync.unwritten = {a} THEN "blockDB" ELSE "flush"]
        BY <3>3 DEF SyncFlush
      <4>2. sync' = [sync EXCEPT !.unwritten = @ \ {a},
                         !.pc = IF sync.unwritten = {a} THEN "blockDB" ELSE "flush"]
              => sync'.pc \in {"blockDB", "flush"}
        BY DEF QueueInv, HandlerOK
      <4> QED
        BY <4>1, <4>2 DEF SyncRests
    <3> QED
      BY <1>6, <3>1, <3>2, <3>3
  <2>3. SyncRests'
    BY <1>2, <1>5, <2>2, RunQueueRests
  <2> QED
    BY <1>1, <2>1, <2>3, RestKept
<1>7. CASE SyncPutBlock
  <2>1. /\ SyncAt("blockDB") /\ UNCHANGED <<bhashDB, txhashDB, latestBlock, currentSyncBlock>>
        /\ SyncGoto("bhashDB") /\ blockDB' = Put(blockDB, currentSyncBlock, sync.block)
    BY <1>2, <1>7 DEF SyncPutBlock, chainInfo, position
  <2>2. sync'.pc = "bhashDB" /\ sync'.block = sync.block
    BY <2>1, GotoMoves
  <2>3. PICK n : n = currentSyncBlock
    OBVIOUS
  <2>8. Alone /\ SyncRests /\ SyncVerified
    BY <1>2, <2>1 DEF SyncPast, SyncVerified, Storing, SyncAt, SyncRests
  <2>9. latestBlock # BootBlock => n = top + 1 /\ top # 0 /\ IsFound(top)
    <3> SUFFICES ASSUME latestBlock # BootBlock PROVE n = top + 1 /\ top # 0 /\ IsFound(top)
      OBVIOUS
    <3>1. Whole(top)
      BY <1>3, <2>8 DEF IndexAt, Alone, Verified, Accepted, At, Indexing
    <3>2. Succeeds(sync.block)
      BY <2>8 DEF HeadInv, SyncHead
    <3> QED
      BY <1>2, <2>3, <3>1, <3>2 DEF Whole, Succeeds
  <2>4. n \in {top, top + 1} /\ n # 0 /\ (n # top /\ top # 0 => IsFound(top))
    <3>1. CASE latestBlock = BootBlock
      BY <1>4, <2>3, <3>1 DEF Filled
    <3>2. CASE latestBlock # BootBlock
      BY <2>9, <3>2
    <3> QED
      BY <3>1, <3>2
  <2>5. PICK block \in PeerBlock : block = sync.block
    BY <1>2
  <2>6. Filled(n)' /\ blockDB'[n] = block
    <3>1. blockDB' = Put(blockDB, n, block) /\ block.blockNumber = n
      BY <1>2, <2>1, <2>3, <2>5
    <3> QED
      BY <1>1, <1>4, <2>1, <2>3, <2>4, <3>1, PutFills
  <2>7. SyncIndex(n)' /\ ~SyncRests'
    BY <1>1, <1>4, <2>1, <2>2, <2>3, <2>5, <2>6 DEF SyncIndex, SyncAt, SyncRests
  <2> QED
    BY <1>1, <2>4, <2>6, <2>7, <2>8, SyncIndexed
<1>8. CASE SyncPutBhash
  <2>1. /\ SyncAt("bhashDB") /\ UNCHANGED <<blockDB, txhashDB>> /\ AfterSyncIndex(0)
        /\ bhashDB' = Put(bhashDB, sync.block.hash, sync.block.blockNumber)
    BY <1>8 DEF SyncPutBhash
  <2>2. top = currentSyncBlock /\ blockDB[top] = sync.block
    BY <1>4, <2>1 DEF SyncIndex, SyncAt
  <2>3. PICK block \in PeerBlock : block = sync.block
    BY <1>2
  <2>4. EntriesKept /\ FoundTo(block, 0)'
    BY <2>1, <2>3, HashKept
  <2>5. 0 \in 0..Len(block.txs) /\ blockDB[top] = block /\ Alone
    BY <1>2, <2>1, <2>2, <2>3, BlockTyped DEF SyncPast, SyncVerified, Storing, SyncAt
  <2> QED
    BY <1>1, <1>2, <1>4, <2>1, <2>2, <2>3, <2>4, <2>5, AfterIndexIndexed
<1>9. CASE SyncPutTxhash
  <2>1. sync.txIndex \in Nat
    BY <1>4, <1>9 DEF SyncPutTxhash, SyncIndex, SyncAt
  <2>2. PICK block \in PeerBlock, i \in Nat : block = sync.block /\ i = sync.txIndex + 1
    BY <1>2, <2>1
  <2>3. /\ SyncAt("txhashDB") /\ UNCHANGED <<blockDB, bhashDB>> /\ AfterSyncIndex(i)
        /\ txhashDB' = Put(txhashDB, TxHash(block.txs[i]), <<block.blockNumber, i - 1>>)
    BY <1>9, <2>2 DEF SyncPutTxhash
  <2>4. /\ top = currentSyncBlock /\ blockDB[top] = block
        /\ sync.txIndex \in 0..(Len(block.txs) - 1) /\ FoundTo(block, sync.txIndex)
    BY <1>4, <2>2, <2>3 DEF SyncIndex, SyncAt
  <2>5. i \in 1..Len(block.txs) /\ i \in 0..Len(block.txs) /\ FoundTo(block, i - 1)
    <3>1. sync.txIndex = i - 1 /\ Len(block.txs) \in Nat
      BY <2>2, <2>4, BlockTyped
    <3> QED
      BY <2>2, <2>4, <3>1
  <2>6. EntriesKept /\ FoundTo(block, i)' /\ Alone
    BY <1>2, <2>3, <2>5, TxKept DEF SyncPast, SyncVerified, Storing, SyncAt
  <2> QED
    BY <1>1, <1>2, <1>4, <2>2, <2>3, <2>4, <2>5, <2>6, AfterIndexIndexed
<1>10. CASE SyncReward
  <2>1. SyncAt("reward") /\ UNCHANGED entries
    BY <1>10 DEF SyncReward, entries
  <2>2. top = currentSyncBlock /\ blockDB[top] = sync.block /\ IsFound(top)
    BY <1>4, <2>1 DEF SyncIndex, SyncAt
  <2>3. EntriesKept /\ UNCHANGED blockDB /\ Alone
    BY <1>2, <2>1, UnchangedKept DEF entries, SyncPast
  <2>4. CASE Wedge /\ UNCHANGED <<latestBlock, currentSyncBlock>>
    <3>1. Filled(top)'
      BY <1>1, <1>4, <2>3, <2>4, FilledKept DEF Filled
    <3>2. SyncIndex(top)'
      BY <2>4 DEF Wedge, IdleSync, SyncIndex, SyncAt
    <3>3. latestBlock' = BootBlock
      BY <2>1, <2>4 DEF HeadInv, SyncHead
    <3> QED
      BY <1>1, <2>3, <3>1, <3>2, <3>3, SyncIndexed DEF Whole
  <2>5. CASE Adopt
    <3>1. IsFound(top)'
      BY <1>2, <2>2, <2>3, FoundKept
    <3> QED
      BY <1>1, <1>2, <1>4, <2>2, <2>3, <2>5, <3>1, AdoptIndexed
  <2> QED
    BY <1>10, <2>4, <2>5 DEF SyncReward
<1>11. CASE SyncDifficulty
  <2>1. /\ SyncAt("difficulty") /\ UNCHANGED <<entries, latestBlock>> /\ Complete
    BY <1>11 DEF SyncDifficulty, entries, stores
  <2>2. /\ top = currentSyncBlock /\ blockDB[top] = sync.block /\ IsFound(top)
        /\ latestBlock = sync.block /\ latestBlock # BootBlock /\ Alone
    BY <1>2, <1>4, <2>1, NotOfBoot DEF SyncIndex, SyncAt, SyncPast
  <2>3. EntriesKept /\ UNCHANGED blockDB /\ IsFound(top)'
    BY <1>2, <2>1, <2>2, UnchangedKept, FoundKept DEF entries
  <2>4. currentSyncBlock' = top + 1 /\ sync' = IdleSync
    BY <2>1, <2>2 DEF Complete
  <2>5. Filled(top)'
    BY <1>4, <2>1, <2>2, <2>3, <2>4, FilledKept DEF Filled
  <2>6. SyncIndex(top)'
    BY <2>4 DEF SyncIndex, SyncAt, IdleSync
  <2>7. Whole(top)'
    <3>1. top # 0 /\ sync.block.blockNumber = top
      BY <1>2, <1>4, <2>2 DEF Filled
    <3> QED
      BY <2>1, <2>2, <2>3, <3>1 DEF Whole
  <2> QED
    BY <1>1, <2>2, <2>5, <2>6, <2>7, SyncIndexed
<1> QED
  BY <1>6, <1>7, <1>8, <1>9, <1>10, <1>11 DEF SyncStep

-----------------------------------------------------------------------------
(* NEW_BLOCK, and the rest.                                                *)

\* While a flooded block is written no answer is, nor another flooded one.
LEMMA TaskIndexed ==
  ASSUME OneVerified, NEW h \in Handler, Verified(h), UNCHANGED sync,
         \A g \in Handler : g # h => task'[g] = task[g],
         NEW top \in Nat, Filled(top)', TaskIndex(top, task[h])', ~Indexing(h)' => Whole(top)'
  PROVE  IndexInv'
<1>1. ~SyncPast /\ \A g \in Handler : g # h => ~Verified(g)
  BY DEF OneVerified, Alone
<1>2. \A g \in Handler : TaskIndex(top, task[g])'
  BY <1>1 DEF TaskIndex, Verified, Accepted, At
<1>3. SyncIndex(top)'
  BY <1>1 DEF SyncIndex, SyncPast, SyncVerified, Storing, SyncAt
<1> QED
  BY <1>2, <1>3 DEF IndexInv, IndexAt

\* Before a handler stores its block it changes nothing that matters here.
LEMMA EarlyIndexed ==
  ASSUME IndexInv, NEW h \in Handler, UNCHANGED <<sync, entries, progress>>,
         \A g \in Handler : g # h => task'[g] = task[g],
         ~Indexing(h), ~Indexing(h)'
  PROVE  IndexInv'
<1>1. PICK top \in Nat : IndexAt(top)
  BY DEF IndexInv
<1>2. /\ Filled(top)' /\ (Whole(top) => Whole(top)') /\ SyncIndex(top)'
      /\ (SyncRests <=> SyncRests')
  BY <1>1 DEF IndexAt, entries, progress, Filled, Whole, SyncIndex, SyncAt, SyncRests, IsFound,
              FoundTo
<1>3. ASSUME NEW g \in Handler
      PROVE  TaskIndex(top, task[g])' /\ (Indexing(g)' <=> Indexing(g))
  <2>1. CASE g = h
    BY <2>1 DEF TaskIndex, Indexing, At
  <2>2. CASE g # h
    BY <1>1, <2>2 DEF IndexAt, TaskIndex, Indexing, At, entries, FoundTo
  <2> QED
    BY <2>1, <2>2
<1> QED
  BY <1>1, <1>2, <1>3 DEF IndexInv, IndexAt

LEMMA NewBlockIndexed ==
  ASSUME DistinctEntries, OneVerified, HeadInv, IndexInv, NEW h \in Handler, NewBlockStep(h)
  PROVE  IndexInv'
<1>1. Step(h) /\ UNCHANGED <<sync, currentSyncBlock>>
  BY DEF NewBlockStep, syncQueue
<1>2. /\ DOMAIN task = Handler /\ DOMAIN task[h] = DOMAIN IdleTask
      /\ task[h].block \in PeerBlock /\ \A g \in Handler : g # h => task'[g] = task[g]
  BY <1>1, TaskMoves DEF HeadInv, TaskHead, IsTask
<1>3. PICK top \in Nat : IndexAt(top)
  BY DEF IndexInv
<1>4. PICK t : t = task[h]
  OBVIOUS
<1>5. Filled(top) /\ TaskIndex(top, t)
  BY <1>3, <1>4 DEF IndexAt
<1>6. ASSUME NEW pc, Goto(h, pc)
      PROVE  task'[h].pc = pc /\ task'[h].block = t.block
  BY <1>2, <1>4, <1>6 DEF Goto, IdleTask
<1>7. Finish(h) => task'[h].pc = "idle"
  BY <1>2 DEF Finish, IdleTask
<1>8. CASE \/ CheckOrder(h) \/ Replay(h) \/ FlushState(h) \/ FlushCode(h)
           \/ UpdateDifficulty(h) \/ Relay(h)
  <2>1. UNCHANGED <<entries, progress>> /\ ~Indexing(h)
    BY <1>1, <1>8 DEF CheckOrder, Replay, FlushState, FlushCode, UpdateDifficulty, Relay, At,
                      entries, progress, stores, chainInfo, Indexing
  <2>2. ~Indexing(h)'
    <3>1. CASE CheckOrder(h)
      <4>1. Goto(h, "replay") \/ Finish(h)
        BY <3>1 DEF CheckOrder
      <4> QED
        BY <1>6, <1>7, <4>1 DEF Indexing, At
    <3>2. CASE Replay(h)
      <4> DEFINE work == Transit(stateDB, codeDB, task[h].block)
      <4>1. task' = [task EXCEPT ![h].pc = "flushState", ![h].work = work,
                                 ![h].unwritten = DOMAIN work.states]
              => task'[h].pc = "flushState"
        BY <1>2 DEF IdleTask
      <4> QED
        BY <1>7, <3>2, <4>1 DEF Replay, Indexing, At
    <3>3. CASE FlushState(h)
      <4>1. PICK a \in task[h].unwritten :
              task' = [task EXCEPT ![h].pc = "flushCode", ![h].account = a,
                                   ![h].unwritten = @ \ {a}]
        BY <3>3 DEF FlushState
      <4> QED
        BY <1>2, <4>1 DEF IdleTask, Indexing, At
    <3>4. CASE FlushCode(h)
      <4>1. Finish(h) \/ \E pc \in {"flushState", "difficulty", "blockDB"} : Goto(h, pc)
        BY <3>4 DEF FlushCode, AfterFlush
      <4> QED
        BY <1>6, <1>7, <4>1 DEF Indexing, At
    <3>5. CASE UpdateDifficulty(h)
      BY <1>6, <3>5 DEF UpdateDifficulty, Indexing, At
    <3>6. CASE Relay(h)
      BY <1>7, <3>6 DEF Relay, Indexing, At
    <3> QED
      BY <1>8, <3>1, <3>2, <3>3, <3>4, <3>5, <3>6
  <2> QED
    BY <1>1, <1>2, <2>1, <2>2, EarlyIndexed
<1>9. CASE PutBlock(h)
  <2>1. /\ t.pc = "blockDB" /\ UNCHANGED <<bhashDB, txhashDB, latestBlock>>
        /\ blockDB' = Put(blockDB, t.block.blockNumber, t.block) /\ Goto(h, "bhashDB")
    BY <1>4, <1>9 DEF PutBlock, At, chainInfo
  <2>2. Verified(h) /\ ~Indexing(h)
    BY <1>4, <2>1 DEF Verified, Accepted, At, Indexing
  <2>3. ~SyncPast /\ \A g \in Handler : g # h => ~Verified(g)
    BY <2>2 DEF OneVerified, Alone
  <2>4. Succeeds(t.block) /\ t.block \in PeerBlock /\ latestBlock # BootBlock
    BY <1>2, <1>4, <2>2, NotOfBoot DEF HeadInv, TaskHead, Succeeds, Follower
  <2>5. Whole(top)
    <3>1. SyncRests /\ \A g \in Handler : ~Indexing(g)
      BY <2>2, <2>3 DEF HeadInv, SyncHead, SyncPast, SyncVerified, Storing, SyncAt, SyncRests,
                        Verified, Accepted, Indexing, At
    <3> QED
      BY <1>3, <3>1 DEF IndexAt
  <2>6. /\ latestBlock.blockNumber = top /\ top # 0 /\ IsFound(top)
        /\ t.block.blockNumber = top + 1
    BY <2>4, <2>5 DEF Whole, Succeeds
  <2>7. PICK n \in Nat : n = top + 1
    OBVIOUS
  <2>8. Filled(n)' /\ blockDB'[n] = t.block
    <3>1. currentSyncBlock <= n /\ n \in {top, top + 1} /\ n # 0
      BY <1>5, <2>7 DEF Filled
    <3> QED
      BY <1>1, <1>5, <2>1, <2>4, <2>6, <2>7, <3>1, PutFills
  <2>9. task'[h].pc = "bhashDB" /\ task'[h].block = t.block
    BY <1>6, <2>1
  <2>10. TaskIndex(n, task[h])' /\ Indexing(h)'
    BY <2>7, <2>8, <2>9 DEF TaskIndex, Indexing, At
  <2> QED
    BY <1>1, <1>2, <2>2, <2>8, <2>10, TaskIndexed
<1>10. ASSUME t.pc \in {"bhashDB", "txhashDB"}, EntriesKept, UNCHANGED blockDB,
              NEW written \in 0..Len(t.block.txs), FoundTo(t.block, written)',
              AfterIndex(h, written)
       PROVE  IndexInv'
  <2>1. /\ top # 0 /\ t.block = blockDB[top] /\ t.block \in PeerBlock /\ Verified(h)
        /\ latestBlock # BootBlock /\ t.block # BootBlock
    <3>1. Verified(h)
      BY <1>4, <1>10 DEF Verified, Accepted, At
    <3> QED
      BY <1>2, <1>4, <1>5, <1>10, <3>1, NotOfBoot
         DEF TaskIndex, HeadInv, TaskHead, Succeeds, Follower
  <2>2. Filled(top)'
    <3>1. latestBlock' # BootBlock
      BY <1>4, <1>10, <2>1 DEF AfterIndex
    <3> QED
      BY <1>1, <1>5, <1>10, <2>1, <3>1, FilledKept DEF Filled
  <2>3. CASE written = Len(t.block.txs) /\ latestBlock' = t.block /\ Goto(h, "clear")
    <3>1. task'[h].pc = "clear"
      BY <1>6, <2>3
    <3>2. blockDB'[top] = t.block /\ t.block.blockNumber = top
      BY <1>5, <1>10, <2>1 DEF Filled
    <3>3. IsFound(top)'
      BY <1>10, <2>3, <3>2 DEF IsFound
    <3>4. Whole(top)'
      BY <2>1, <2>3, <3>2, <3>3 DEF Whole
    <3>5. TaskIndex(top, task[h])'
      BY <3>1 DEF TaskIndex
    <3> QED
      BY <1>1, <1>2, <2>1, <2>2, <3>4, <3>5, TaskIndexed
  <2>4. CASE /\ written # Len(t.block.txs)
             /\ task' = [task EXCEPT ![h].pc = "txhashDB", ![h].txIndex = written]
    <3>1. task'[h].pc = "txhashDB" /\ task'[h].block = t.block /\ task'[h].txIndex = written
      BY <1>2, <1>4, <2>4 DEF IdleTask
    <3>2. written \in 0..(Len(t.block.txs) - 1)
      BY <2>1, <2>4, BlockTyped
    <3>3. TaskIndex(top, task[h])' /\ Indexing(h)'
      BY <1>10, <2>1, <3>1, <3>2 DEF TaskIndex, Indexing, At
    <3> QED
      BY <1>1, <1>2, <2>1, <2>2, <3>3, TaskIndexed
  <2> QED
    BY <1>4, <1>10, <2>3, <2>4 DEF AfterIndex
<1>11. CASE PutBhash(h)
  <2>1. /\ t.pc = "bhashDB" /\ UNCHANGED <<blockDB, txhashDB>> /\ AfterIndex(h, 0)
        /\ bhashDB' = Put(bhashDB, t.block.hash, t.block.blockNumber)
        /\ t.block \in PeerBlock
    BY <1>2, <1>4, <1>11 DEF PutBhash, At
  <2>2. EntriesKept /\ FoundTo(t.block, 0)' /\ 0 \in 0..Len(t.block.txs)
    BY <2>1, HashKept, BlockTyped
  <2> QED
    BY <1>10, <2>1, <2>2
<1>12. CASE PutTxhash(h)
  <2>1. PICK i : i = t.txIndex + 1
    OBVIOUS
  <2>2. /\ t.pc = "txhashDB" /\ UNCHANGED <<blockDB, bhashDB>> /\ AfterIndex(h, i)
        /\ txhashDB' = Put(txhashDB, TxHash(t.block.txs[i]), <<t.block.blockNumber, i - 1>>)
        /\ t.block \in PeerBlock
    BY <1>2, <1>4, <1>12, <2>1 DEF PutTxhash, At
  <2>3. t.txIndex \in 0..(Len(t.block.txs) - 1) /\ FoundTo(t.block, t.txIndex)
    BY <1>5, <2>2 DEF TaskIndex
  <2>4. /\ i \in 1..Len(t.block.txs) /\ i \in 0..Len(t.block.txs) /\ t.txIndex = i - 1
    BY <2>1, <2>2, <2>3, BlockTyped
  <2>5. EntriesKept /\ FoundTo(t.block, i)'
    BY <2>2, <2>3, <2>4, TxKept
  <2> QED
    BY <1>10, <2>2, <2>4, <2>5
<1> QED
  BY <1>1, <1>8, <1>9, <1>11, <1>12 DEF Step

LEMMA IndexFrame ==
  ASSUME IndexInv, UNCHANGED <<sync, task, entries, progress>>
  PROVE  IndexInv'
<1>1. PICK top \in Nat : IndexAt(top)
  BY DEF IndexInv
<1>2. /\ Filled(top) => Filled(top)'
      /\ Whole(top) => Whole(top)'
      /\ SyncIndex(top) => SyncIndex(top)'
  BY DEF entries, progress, Filled, Whole, SyncIndex, SyncAt, IsFound, FoundTo
<1>3. \A h \in Handler : TaskIndex(top, task[h]) => TaskIndex(top, task[h])'
  BY DEF entries, progress, TaskIndex, FoundTo
<1>4. SyncRests' = SyncRests /\ \A h \in Handler : Indexing(h)' = Indexing(h)
  BY DEF SyncRests, Indexing, At
<1> QED
  BY <1>1, <1>2, <1>3, <1>4 DEF IndexInv, IndexAt

LEMMA ReceiveFloodIndexed ==
  ASSUME HeadInv, SyncInv, IndexInv, NEW p \in Peer, ReceiveFlood(p)
  PROVE  IndexInv'
<1>1. PICK block \in PeerBlock : block = Head(floods[p])
  BY DEF ReceiveFlood, SyncInv, FloodsOK
<1>2. UNCHANGED <<sync, currentSyncBlock>>
  BY DEF ReceiveFlood, syncQueue, position
<1>3. CASE UNCHANGED <<stores, latestBlock, task>>
  BY <1>2, <1>3, IndexFrame DEF stores, entries, progress
<1>4. ASSUME NEW h \in Handler, Receive(h, block)
      PROVE  IndexInv'
  <2>1. At(h, "idle") /\ UNCHANGED <<entries, progress>> /\ DOMAIN task = Handler
    BY <1>2, <1>4 DEF Receive, stores, entries, progress, HeadInv, TaskHead
  <2>2. /\ task'[h].pc \in {"idle", "order", "replay"}
        /\ \A g \in Handler : g # h => task'[g] = task[g]
    <3>1. ASSUME NEW pc \in {"order", "replay"},
                 task' = [task EXCEPT ![h] = [IdleTask EXCEPT !.pc = pc, !.block = block]]
          PROVE  task'[h].pc = pc /\ \A g \in Handler : g # h => task'[g] = task[g]
      BY <2>1, <3>1 DEF IdleTask
    <3>2. task' = task => task'[h].pc = "idle"
      BY <2>1 DEF At
    <3> QED
      BY <1>4, <3>1, <3>2 DEF Receive
  <2> QED
    BY <1>2, <2>1, <2>2, EarlyIndexed DEF Indexing, At
<1> QED
  BY <1>1, <1>3, <1>4 DEF ReceiveFlood, intake, Discard, chainInfo

LEMMA ReceiveSentIndexed ==
  ASSUME SyncInv, IndexInv, NEW m \in sent, ReceiveSent(m[1], m[2])
  PROVE  IndexInv'
<1>1. UNCHANGED <<task, entries, progress>> /\ m[2] \in PeerBlock
  BY DEF ReceiveSent, intake, stores, chainInfo, entries, progress, position, SyncInv, NetworkOK
<1>2. CASE UNCHANGED sync
  BY <1>1, <1>2, IndexFrame
<1>3. CASE ~syncing /\ RunQueue(Append(queue, m[2]))
  <2>1. Append(queue, m[2]) \in Seq(PeerBlock) /\ SyncRests
    BY <1>1, <1>3 DEF SyncInv, QueueInv, HandlerOK, QueueAnswersQuestion, SyncAt, SyncRests
  <2> QED
    BY <1>1, <1>3, <2>1, RunQueueRests, RestKept
<1> QED
  BY <1>2, <1>3 DEF ReceiveSent, syncQueue

\* A node resumes at the last block it stores, whose entries may be missing.
LEMMA RestartIndexed ==
  ASSUME IndexInv, SyncRestart
  PROVE  IndexInv'
<1>1. PICK top \in Nat : IndexAt(top)
  BY DEF IndexInv
<1>2. /\ UNCHANGED entries /\ currentSyncBlock' = ResumeAt /\ latestBlock' = BootBlock
      /\ sync' = IdleSync /\ task' = [h \in Handler |-> IdleTask]
  BY DEF SyncRestart, entries
<1>3. Filled(top)
  BY <1>1 DEF IndexAt
<1>4. ResumeAt = IF top = 0 THEN 1 ELSE top
  <2>1. CASE top = 0
    <3>1. DOMAIN blockDB = {}
      BY <1>3, <2>1 DEF Filled
    <3>2. blockDB = << >>
      BY <3>1
    <3> QED
      BY <2>1, <3>2 DEF ResumeAt
  <2>2. CASE top # 0
    <3>1. top \in DOMAIN blockDB /\ \A m \in DOMAIN blockDB : m <= top
      BY <1>3, <2>2 DEF Filled
    <3>2. blockDB # << >>
      BY <3>1
    <3>5. \E n \in DOMAIN blockDB : \A m \in DOMAIN blockDB : m <= n
      BY <3>1
    <3>3. Highest(blockDB) \in DOMAIN blockDB /\ \A m \in DOMAIN blockDB : m <= Highest(blockDB)
      BY <3>5, Zenon DEF Highest
    <3>4. Highest(blockDB) = top
      <4>1. Highest(blockDB) \in 1..top /\ top <= Highest(blockDB)
        BY <1>3, <3>1, <3>3 DEF Filled
      <4> QED
        BY <4>1
    <3> QED
      BY <2>2, <3>2, <3>4 DEF ResumeAt
  <2> QED
    BY <2>1, <2>2
<1>5. Filled(top)'
  <2>1. EntriesKept /\ UNCHANGED blockDB
    BY <1>2, UnchangedKept DEF entries
  <2> QED
    BY <1>2, <1>3, <1>4, <2>1, FilledKept
<1>6. SyncIndex(top)' /\ Whole(top)'
  BY <1>2 DEF SyncIndex, SyncAt, IdleSync, Whole
<1>7. \A h \in Handler : TaskIndex(top, task[h])'
  BY <1>2 DEF TaskIndex, IdleTask
<1> QED
  BY <1>5, <1>6, <1>7 DEF IndexInv, IndexAt

LEMMA IndexNext ==
  ASSUME DistinctEntries, OneVerified, StoresItsMessage, SyncInv, HeadInv, IndexInv,
         [SyncNext]_syncVars
  PROVE  IndexInv'
<1>1. ASSUME UNCHANGED syncVars \/ (\E p \in Peer : Link(p) \/ Unlink(p) \/ Grow(p))
             \/ (\E m \in asked : Answer(m[1], m[2]) \/ Throw(m[1], m[2])) \/ RequestFirst
      PROVE  IndexInv'
  <2>1. UNCHANGED <<sync, task, entries, progress>>
    BY <1>1 DEF syncVars, Link, Unlink, Grow, Answer, Throw, RequestFirst, syncQueue, intake,
                stores, chainInfo, entries, progress, position
  <2> QED
    BY <2>1, IndexFrame
<1> QED
  BY <1>1, ReceiveSentIndexed, ReceiveFloodIndexed, NewBlockIndexed, SyncStepIndexed, RestartIndexed
  DEF SyncNext, Progress, SyncInv

LEMMA IndexInit ==
  ASSUME SyncInit
  PROVE  IndexInv
<1>1. /\ blockDB = << >> /\ currentSyncBlock = 1 /\ latestBlock = BootBlock /\ sync = IdleSync
      /\ task = [h \in Handler |-> IdleTask]
  BY DEF SyncInit
<1>2. Filled(0)
  BY <1>1 DEF Filled
<1>3. SyncIndex(0) /\ Whole(0)
  BY <1>1 DEF SyncIndex, SyncAt, IdleSync, Whole
<1>4. \A h \in Handler : TaskIndex(0, task[h])
  BY <1>1 DEF TaskIndex, IdleTask
<1> QED
  BY <1>2, <1>3, <1>4 DEF IndexInv, IndexAt

LEMMA IndexIsKept ==
  ASSUME IndexInv
  PROVE  IndexSurvives
<1>1. PICK top \in Nat : Filled(top)
  BY DEF IndexInv, IndexAt
<1>2. ASSUME NEW n \in 1..(currentSyncBlock - 1)
      PROVE  /\ n \in DOMAIN blockDB /\ blockDB[n].blockNumber = n /\ IsFound(n)
             /\ DOMAIN blockDB[n].txs = 1..Len(blockDB[n].txs)
  <2>1. n \in 1..top /\ n < currentSyncBlock
    BY <1>1, <1>2 DEF Filled
  <2>2. blockDB[n] \in PeerBlock
    BY <1>1, <2>1 DEF Filled
  <2> QED
    BY <1>1, <2>1, <2>2, BlockTyped DEF Filled
<1> QED
  BY <1>2 DEF IndexSurvives, IsFound, FoundTo

\* Through any number of crashes at any step, with any number of handlers
\* between their awaits and whichever branch a restarted node goes on with,
\* every block below the one it asks for is stored and found by its hash, and
\* its transactions by theirs: until two blocks are verified or written at
\* once, or a block is stored that was not the one verified.  (No entry has two
\* meanings, and peers number their blocks after the parents.)
THEOREM IndexesSurvive ==
  ASSUME DistinctEntries, NumberedAlike
  PROVE  SyncSpec /\ []OneVerified /\ []StoresItsMessage => []IndexSurvives
<1>1. SyncInit => SyncInv /\ HeadInv /\ IndexInv
  BY SyncInitOK, HeadInit, IndexInit
<1>2. OneVerified /\ SyncInv /\ HeadInv /\ [SyncNext]_syncVars => SyncInv' /\ HeadInv'
  BY SyncNextKeeps, HeadNext, OneVerifiedOvertakes
<1>3. OneVerified /\ StoresItsMessage /\ SyncInv /\ HeadInv /\ IndexInv
        /\ [SyncNext]_syncVars => IndexInv'
  BY IndexNext
<1>4. IndexInv => IndexSurvives
  BY IndexIsKept
<1> QED
  BY <1>1, <1>2, <1>3, <1>4, PTL DEF SyncSpec

=============================================================================
