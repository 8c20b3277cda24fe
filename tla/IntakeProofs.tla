----------------------------- MODULE IntakeProofs -----------------------------
(***************************************************************************)
(* Proofs about Intake for every set of blocks, handlers and accounts:     *)
(* first its invariants, then that the intake path implements LedgerLog (a *)
(* node that does not crash, in a network without siblings, verifies each  *)
(* block against the state its predecessors left and applies it once) and  *)
(* what follows from that.                                                 *)
(*                                                                         *)
(* Those about the chain are about networks where honest mining produced   *)
(* at most one block per parent (NoSiblings).  Without it they are false:  *)
(* two siblings that arrive together are both adopted.  OnlyAdoptsChildren *)
(* is about any network and names the event that breaks it.                *)
(***************************************************************************)
EXTENDS Intake, LedgerProofs

\* At most one block per parent passes the checks on hashes.
NoSiblings ==
  \A a, b \in PeerBlock :
    a.sealed /\ a.rootOk /\ b.sealed /\ b.rootOk /\ a.parentHash = b.parentHash => a = b

-----------------------------------------------------------------------------
(* Arithmetic of the retarget.                                             *)

LEMMA CeilDivPositive ==
  ASSUME NEW n \in Nat \ {0}, NEW d \in Nat \ {0}
  PROVE  CeilDiv(n, d) \in Nat \ {0}
<1>1. n + d - 1 \in Nat /\ n + d - 1 >= d
  OBVIOUS
<1>2. \A m \in Nat : m >= d => m \div d \in Nat \ {0}
  OBVIOUS
<1> QED
  BY <1>1, <1>2 DEF CeilDiv

LEMMA EpochReached ==
  ASSUME NEW n \in Nat \ {0}, n % Epoch = 0
  PROVE  n >= Epoch
<1>1. Epoch \in Nat \ {0, 1}
  BY IntakeAssumption
<1>2. CASE n < Epoch
  <2>1. n % Epoch = n
    BY <1>1, <1>2
  <2> QED
    BY <2>1
<1> QED
  BY <1>1, <1>2

-----------------------------------------------------------------------------
(* The inductive invariant.                                                *)

\* A handler that may still make its block the latest one.
Live(h) == task[h].pc \notin {"idle", "clear"} /\ task[h].block.rootOk

\* A handler past the last look at the latest block.
Verified(h) == At(h, "replay") \/ Accepted(h)

\* A handler whose block is stored and not yet the latest.
Indexing(h) == At(h, "bhashDB") \/ At(h, "txhashDB")

\* Until the chain is loaded nothing passes the header check.
BootInv == ~booted => latestBlock = BootBlock /\ Quiet

Dense == \E n \in Nat \ {0} : DOMAIN blockDB = 1..n

Increasing ==
  \A m, n \in DOMAIN blockDB : m < n => blockDB[m].timestamp < blockDB[n].timestamp

ChainInv ==
  /\ Dense
  /\ \A n \in DOMAIN blockDB : blockDB[n].blockNumber = n
  /\ \A n \in DOMAIN blockDB \ {1} : blockDB[n].parentHash = blockDB[n - 1].hash
  /\ Increasing

TipInv ==
  booted =>
    /\ latestBlock.blockNumber \in DOMAIN blockDB
    /\ blockDB[latestBlock.blockNumber] = latestBlock
    /\ \A n \in DOMAIN blockDB :
         n > latestBlock.blockNumber => \E h \in Handler : Indexing(h) /\ blockDB[n] = task[h].block

TaskInv ==
  \A h \in Handler :
    /\ Live(h) => /\ task[h].block.sealed
                  /\ task[h].block.parentHash = latestBlock.hash
                  /\ task[h].block.hash \in checkedBlock
    /\ Verified(h) => /\ task[h].block.rootOk
                      /\ task[h].block.blockNumber = latestBlock.blockNumber + 1
                      /\ task[h].block.timestamp > latestBlock.timestamp
    /\ At(h, "difficulty") => task[h].block.blockNumber % Epoch = 0
    /\ Indexing(h) => /\ task[h].block.blockNumber \in DOMAIN blockDB
                      /\ blockDB[task[h].block.blockNumber] = task[h].block

Unique == \A g, h \in Handler : Live(g) /\ Live(h) => g = h

IInv == TypeOK /\ BootInv /\ ChainInv /\ TipInv /\ TaskInv /\ Unique

LEMMA InitIInv == Init => IInv
<1> SUFFICES ASSUME Init PROVE IInv
  OBVIOUS
<1> USE IntakeAssumption DEF Init
<1>1. TypeOK
  BY DEF TypeOK, IsTask, IdleTask, PC, Block
<1>2. BootInv /\ ChainInv /\ TipInv
  BY DEF BootInv, ChainInv, Dense, Increasing, TipInv, Block
<1>3. TaskInv /\ Unique
  BY DEF TaskInv, Unique, Live, Verified, Accepted, Indexing, At, IdleTask
<1> QED
  BY <1>1, <1>2, <1>3 DEF IInv

\* A step that leaves blockDB and latestBlock alone keeps what the invariant
\* says of them, whatever it does to the handlers that are not indexing.
LEMMA ChainFrame ==
  ASSUME ChainInv, TipInv, UNCHANGED <<blockDB, latestBlock, booted>>,
         \A h \in Handler : Indexing(h) => Indexing(h)' /\ task'[h].block = task[h].block
  PROVE  ChainInv' /\ TipInv'
<1>1. ChainInv'
  BY DEF ChainInv, Dense, Increasing
<1>2. TipInv'
  BY DEF TipInv
<1> QED
  BY <1>1, <1>2

LEMMA DiscardIInv ==
  ASSUME IInv, NEW block \in PeerBlock, Discard(block)
  PROVE  IInv'
<1> USE DEF IInv, Discard, stores, process
<1>1. TypeOK'
  BY DEF TypeOK, IsTask
<1>2. BootInv'
  BY DEF BootInv, Quiet, At
<1>3. ChainInv' /\ TipInv'
  BY ChainFrame DEF Indexing, At
<1>4. TaskInv' /\ Unique'
  BY DEF TaskInv, Unique, Live, Verified, Accepted, Indexing, At
<1> QED
  BY <1>1, <1>2, <1>3, <1>4

LEMMA ReceiveIInv ==
  ASSUME NoSiblings, IInv, NEW h \in Handler, NEW block \in PeerBlock, Receive(h, block)
  PROVE  IInv'
<1> USE IntakeAssumption DEF IInv, Receive, stores, process
<1> DEFINE Taken(pc) == [IdleTask EXCEPT !.pc = pc, !.block = block]
<1>1. \/ task' = task
      \/ \E pc \in {"order", "replay"} : task' = [task EXCEPT ![h] = Taken(pc)]
  OBVIOUS
<1>2. TypeOK'
  <2>1. \A pc \in {"order", "replay"} : IsTask(Taken(pc))
    BY DEF IsTask, IdleTask, PC
  <2>2. \A g \in Handler : IsTask(task[g])
    BY DEF TypeOK
  <2>3. \A g \in Handler : IsTask(task'[g])
    BY <1>1, <2>1, <2>2 DEF TypeOK
  <2>4. DOMAIN task' = Handler
    BY <1>1 DEF TypeOK
  <2> QED
    BY <2>3, <2>4 DEF TypeOK
<1>3. booted /\ BootInv'
  BY BootBlockAssumption DEF BootInv, HeaderFits
<1>4. ChainInv' /\ TipInv'
  <2>1. \A g \in Handler : Indexing(g) => Indexing(g)' /\ task'[g].block = task[g].block
    BY <1>1 DEF Indexing, At, TypeOK
  <2> QED
    BY <2>1, ChainFrame
<1>5. TaskInv'
  <2>1. CASE task' = task
    BY <2>1 DEF TaskInv, Live, Verified, Accepted, Indexing, At
  <2>2. CASE block.txs # << >> /\ task' = [task EXCEPT ![h] = Taken("order")]
    BY <2>2 DEF TaskInv, Live, Verified, Accepted, Indexing, At, IdleTask, HeaderFits, TypeOK
  <2>3. CASE task' = [task EXCEPT ![h] = Taken("replay")] /\ \E now \in Clock : BodyFits(block, now)
    BY <2>3 DEF TaskInv, Live, Verified, Accepted, Indexing, At, IdleTask, HeaderFits, BodyFits, TypeOK
  <2> QED
    BY <2>1, <2>2, <2>3
<1>6. Unique'
  <2>1. CASE task' = task
    BY <2>1 DEF Unique, Live
  <2>2. CASE \E pc \in {"order", "replay"} : task' = [task EXCEPT ![h] = Taken(pc)]
    <3>1. \A g \in Handler : Live(g) /\ g # h => task[g].block.hash # block.hash
      BY DEF TaskInv, IsChecked
    <3>2. block.rootOk => \A g \in Handler : g # h => ~Live(g)
      BY <3>1 DEF TaskInv, NoSiblings, HeaderFits, TypeOK, IsTask, Live
    <3>3. \A g \in Handler : g # h => Live(g)' = Live(g)
      BY <2>2 DEF Live, TypeOK
    <3>4. Live(h)' => block.rootOk
      BY <2>2 DEF Live, IdleTask, TypeOK
    <3> QED
      BY <3>2, <3>3, <3>4 DEF Unique
  <2> QED
    BY <1>1, <2>1, <2>2
<1> QED
  BY <1>2, <1>3, <1>4, <1>5, <1>6

\* What a step of one handler does to the handlers: it goes on to pc with
\* its block, or ends.
Moves(h, pc) ==
  /\ DOMAIN task' = Handler
  /\ \A g \in Handler : g # h => task'[g] = task[g]
  /\ DOMAIN task'[h] = DOMAIN IdleTask /\ task'[h].txIndex \in Nat
  /\ \/ task'[h].pc = "idle"
     \/ task'[h].pc = pc /\ task'[h].block = task[h].block

LEMMA MoveTypes ==
  ASSUME TypeOK, NEW h \in Handler, NEW pc \in PC, task[h].pc # "idle", Moves(h, pc)
  PROVE  \A g \in Handler : IsTask(task'[g])
<1>1. \A g \in Handler : IsTask(task[g])
  BY DEF TypeOK
<1>2. IsTask(task'[h])
  BY <1>1 DEF Moves, IsTask, PC
<1> QED
  BY <1>1, <1>2 DEF Moves

LEMMA UniqueFrame ==
  ASSUME Unique, \A g \in Handler : Live(g)' => Live(g)
  PROVE  Unique'
BY DEF Unique

LEMMA MoveLive ==
  ASSUME NEW h \in Handler, NEW pc \in PC, task[h].pc \notin {"idle", "clear"}, Moves(h, pc)
  PROVE  \A g \in Handler : Live(g)' => Live(g) /\ task'[g].block = task[g].block
BY DEF Moves, Live

\* A step of a handler between its arrival and the write of its block.
LEMMA MoveTasks ==
  ASSUME TaskInv, NEW h \in Handler, NEW pc \in PC, Moves(h, pc),
         task[h].pc \notin {"idle", "clear"},
         UNCHANGED <<latestBlock, checkedBlock, blockDB>>,
         pc # "order",
         ~Verified(h) => \/ task'[h].pc = "idle"
                         \/ pc = "replay" /\ \E now \in Clock : BodyFits(task[h].block, now),
         pc = "difficulty" => task[h].block.blockNumber % Epoch = 0,
         pc \in {"bhashDB", "txhashDB"} => Indexing(h)
  PROVE  TaskInv'
<1> SUFFICES ASSUME NEW g \in Handler
             PROVE  /\ Live(g)' => /\ task'[g].block.sealed
                                   /\ task'[g].block.parentHash = latestBlock.hash
                                   /\ task'[g].block.hash \in checkedBlock
                    /\ Verified(g)' => /\ task'[g].block.rootOk
                                       /\ task'[g].block.blockNumber = latestBlock.blockNumber + 1
                                       /\ task'[g].block.timestamp > latestBlock.timestamp
                    /\ At(g, "difficulty")' => task'[g].block.blockNumber % Epoch = 0
                    /\ Indexing(g)' => /\ task'[g].block.blockNumber \in DOMAIN blockDB
                                       /\ blockDB[task'[g].block.blockNumber] = task'[g].block
  BY DEF TaskInv
<1>1. CASE g # h
  BY <1>1 DEF Moves, TaskInv, Live, Verified, Accepted, Indexing, At
<1>2. CASE g = h /\ task'[h].pc = "idle"
  BY <1>2 DEF Moves, Live, Verified, Accepted, Indexing, At
<1>3. CASE g = h /\ task'[h].pc = pc /\ task'[h].block = task[h].block /\ pc # "idle"
  BY <1>3, MoveLive DEF TaskInv, BodyFits, Verified, Accepted, Indexing, At
<1> QED
  BY <1>1, <1>2, <1>3 DEF Moves

LEMMA MoveIInv ==
  ASSUME IInv, NEW h \in Handler, NEW pc \in PC, Moves(h, pc),
         task[h].pc \notin {"idle", "clear"},
         UNCHANGED <<latestBlock, checkedBlock, blockDB, booted>>,
         pc # "order",
         ~Verified(h) => \/ task'[h].pc = "idle"
                         \/ pc = "replay" /\ \E now \in Clock : BodyFits(task[h].block, now),
         pc = "difficulty" => task[h].block.blockNumber % Epoch = 0,
         pc \in {"bhashDB", "txhashDB"} <=> Indexing(h),
         Indexing(h) => task'[h].pc # "idle",
         TypeOK'
  PROVE  IInv'
<1> USE DEF IInv
<1>1. TaskInv'
  BY MoveTasks
<1>2. Unique'
  BY MoveLive, UniqueFrame
<1>3. BootInv'
  BY DEF BootInv, Quiet, At
<1>4. ChainInv' /\ TipInv'
  <2>1. \A g \in Handler : Indexing(g) => Indexing(g)' /\ task'[g].block = task[g].block
    BY DEF Moves, Indexing, At
  <2> QED
    BY <2>1, ChainFrame
<1> QED
  BY <1>1, <1>2, <1>3, <1>4

LEMMA CheckOrderIInv ==
  ASSUME IInv, NEW h \in Handler, CheckOrder(h)
  PROVE  IInv'
<1> USE DEF IInv, CheckOrder, stores, chainInfo, process
<1>1. /\ Moves(h, "replay")
      /\ task'[h].pc = "idle" \/ \E now \in Clock : BodyFits(task[h].block, now)
  BY DEF Moves, Goto, Finish, TypeOK, IsTask, IdleTask
<1>2. TypeOK'
  BY <1>1, MoveTypes DEF TypeOK, PC, At, Moves
<1> QED
  BY <1>1, <1>2, MoveIInv DEF PC, At, Verified, Accepted, Indexing

LEMMA ReplayIInv ==
  ASSUME IInv, NEW h \in Handler, Replay(h)
  PROVE  IInv'
<1> USE DEF IInv, Replay, stores, chainInfo, process
<1>1. Moves(h, "flushState")
  BY DEF Moves, Finish, TypeOK, IsTask, IdleTask
<1>2. TypeOK'
  BY <1>1, MoveTypes DEF TypeOK, PC, At, Moves
<1> QED
  BY <1>1, <1>2, MoveIInv DEF PC, At, Verified, Accepted, Indexing

LEMMA FlushStateIInv ==
  ASSUME IInv, NEW h \in Handler, FlushState(h)
  PROVE  IInv'
<1> USE DEF IInv, FlushState, chainInfo, process
<1>1. Moves(h, "flushCode")
  BY DEF Moves, TypeOK, IsTask, IdleTask
<1>2. TypeOK'
  BY <1>1, MoveTypes DEF TypeOK, PC, At, Moves
<1> QED
  BY <1>1, <1>2, MoveIInv DEF PC, At, Verified, Accepted, Indexing

LEMMA FlushCodeIInv ==
  ASSUME IInv, NEW h \in Handler, FlushCode(h)
  PROVE  IInv'
<1> USE DEF IInv, FlushCode, chainInfo, process
<1>1. PICK pc \in {"flushState", "difficulty", "blockDB"} :
        /\ Moves(h, pc)
        /\ pc = "difficulty" => task[h].block.blockNumber % Epoch = 0
  BY DEF Moves, Goto, Finish, AfterFlush, TypeOK, IsTask, IdleTask
<1>2. TypeOK'
  BY <1>1, MoveTypes DEF TypeOK, PC, At, Moves
<1> QED
  BY <1>1, <1>2, MoveIInv DEF PC, At, Verified, Accepted, Indexing

\* No stored block is younger than a stored block of a higher number.
LEMMA TimesBelowTip ==
  ASSUME TypeOK, ChainInv, NEW n \in DOMAIN blockDB, NEW m \in DOMAIN blockDB, m <= n
  PROVE  /\ blockDB[m].timestamp \in Nat /\ blockDB[n].timestamp \in Nat
         /\ blockDB[m].timestamp <= blockDB[n].timestamp
<1>1. blockDB[m].timestamp \in Nat /\ blockDB[n].timestamp \in Nat
  <2>1. blockDB[m] \in Block /\ blockDB[n] \in Block
    BY DEF TypeOK
  <2> QED
    BY <2>1, IntakeAssumption
<1>2. m \in Nat /\ n \in Nat
  BY DEF TypeOK
<1>3. m < n => blockDB[m].timestamp < blockDB[n].timestamp
  BY DEF ChainInv, Increasing
<1> QED
  BY <1>1, <1>2, <1>3

\* Appending a younger child of the last block keeps the chain a chain.
LEMMA AppendKeepsChain ==
  ASSUME TypeOK, ChainInv,
         NEW last \in Nat \ {0}, DOMAIN blockDB = 1..last,
         NEW block \in Block,
         block.blockNumber = last + 1,
         block.parentHash = blockDB[last].hash,
         block.timestamp > blockDB[last].timestamp,
         blockDB' = Put(blockDB, last + 1, block)
  PROVE  /\ DOMAIN blockDB' = 1..(last + 1)
         /\ blockDB'[last + 1] = block
         /\ \A n \in 1..last : blockDB'[n] = blockDB[n]
         /\ ChainInv'
<1>1. /\ DOMAIN blockDB' = 1..(last + 1)
      /\ blockDB'[last + 1] = block
      /\ \A n \in 1..last : blockDB'[n] = blockDB[n]
  BY DEF Put
<1>2. Dense'
  BY <1>1 DEF Dense
<1>3. \A n \in DOMAIN blockDB' : blockDB'[n].blockNumber = n
  BY <1>1 DEF ChainInv
<1>4. \A n \in DOMAIN blockDB' \ {1} : blockDB'[n].parentHash = blockDB'[n - 1].hash
  <2> SUFFICES ASSUME NEW n \in 2..(last + 1)
               PROVE  blockDB'[n].parentHash = blockDB'[n - 1].hash
    BY <1>1
  <2>1. CASE n = last + 1
    BY <1>1, <2>1
  <2>2. CASE n \in 2..last
    <3>1. n - 1 \in 1..last /\ n \in DOMAIN blockDB \ {1}
      BY <2>2
    <3> QED
      BY <1>1, <2>2, <3>1 DEF ChainInv
  <2> QED
    BY <2>1, <2>2
<1>5. Increasing'
  <2> SUFFICES ASSUME NEW m \in 1..(last + 1), NEW n \in 1..(last + 1), m < n
               PROVE  blockDB'[m].timestamp < blockDB'[n].timestamp
    BY <1>1 DEF Increasing
  <2>1. m \in 1..last
    OBVIOUS
  <2>2. CASE n = last + 1
    <3>1. /\ blockDB[m].timestamp \in Nat /\ blockDB[last].timestamp \in Nat
          /\ blockDB[m].timestamp <= blockDB[last].timestamp
      BY <2>1, TimesBelowTip
    <3>2. block.timestamp \in Nat
      BY IntakeAssumption
    <3> QED
      BY <1>1, <2>1, <2>2, <3>1, <3>2
  <2>3. CASE n \in 1..last
    BY <1>1, <2>1, <2>3 DEF ChainInv, Increasing
  <2> QED
    BY <2>2, <2>3
<1> QED
  BY <1>1, <1>2, <1>3, <1>4, <1>5 DEF ChainInv

\* The retarget divides by a positive time, because the chain's timestamps
\* increase and the two blocks it looks at are at least one block apart.
LEMMA UpdateDifficultyIInv ==
  ASSUME NoSiblings, IInv, NEW h \in Handler, UpdateDifficulty(h)
  PROVE  IInv'
<1> USE DEF IInv, UpdateDifficulty, stores, process
<1> DEFINE block == task[h].block
           old == block.blockNumber - (Epoch - 1)
<1>1. /\ block.blockNumber = latestBlock.blockNumber + 1
      /\ block.timestamp > latestBlock.timestamp
      /\ block.blockNumber % Epoch = 0
      /\ block \in PeerBlock
  BY DEF TaskInv, Verified, Accepted, At, TypeOK, IsTask
<1>2. /\ latestBlock.blockNumber \in DOMAIN blockDB
      /\ blockDB[latestBlock.blockNumber] = latestBlock
  BY DEF TipInv, BootInv, Quiet, At
<1>3. /\ latestBlock.blockNumber \in Nat /\ latestBlock.timestamp \in Nat
      /\ block.blockNumber \in Nat \ {0} /\ block.timestamp \in Nat
      /\ Epoch \in Nat \ {0, 1} /\ BLOCK_TIME \in Nat \ {0}
  <2>1. latestBlock \in Block /\ block \in Block /\ PeerBlock \subseteq Block
    BY <1>1, IntakeAssumption DEF TypeOK, Block
  <2>2. \A b \in Block : b.blockNumber \in Nat /\ b.timestamp \in Nat
    BY IntakeAssumption
  <2>3. block.blockNumber = latestBlock.blockNumber + 1
    BY <1>1
  <2> HIDE DEF block
  <2> QED
    BY <2>1, <2>2, <2>3, IntakeAssumption
<1>4. old \in DOMAIN blockDB /\ old \in Nat /\ old <= latestBlock.blockNumber
  <2>1. old >= 1 /\ old <= latestBlock.blockNumber
    BY <1>1, <1>3, EpochReached
  <2> QED
    BY <1>2, <1>3, <2>1 DEF ChainInv, Dense
<1>5. blockDB[old].timestamp \in Nat /\ blockDB[old].timestamp <= latestBlock.timestamp
  BY <1>2, <1>3, <1>4, TimesBelowTip
<1>6. difficulty' \in Nat \ {0}
  <2>1. block.timestamp - blockDB[old].timestamp \in Nat \ {0}
    BY <1>1, <1>3, <1>5
  <2>2. difficulty * Epoch * BLOCK_TIME \in Nat \ {0}
    BY <1>3 DEF TypeOK
  <2> QED
    BY <2>1, <2>2, CeilDivPositive DEF Retarget
<1>7. Moves(h, "blockDB")
  BY DEF Moves, Goto, TypeOK, IsTask, IdleTask
<1>8. TypeOK'
  BY <1>6, <1>7, MoveTypes DEF TypeOK, PC, At, Moves
<1> QED
  BY <1>7, <1>8, MoveIInv DEF PC, At, Verified, Accepted, Indexing

LEMMA PutBlockIInv ==
  ASSUME NoSiblings, IInv, NEW h \in Handler, PutBlock(h)
  PROVE  IInv'
<1> DEFINE block == task[h].block
           last == latestBlock.blockNumber
<1>1. /\ TypeOK /\ BootInv /\ ChainInv /\ TipInv /\ TaskInv /\ Unique
      /\ At(h, "blockDB")
      /\ blockDB' = Put(blockDB, block.blockNumber, block)
      /\ Goto(h, "bhashDB")
      /\ UNCHANGED <<stateDB, bhashDB, txhashDB, latestBlock, difficulty, checkedBlock,
                     relayed, booted, restarts>>
  BY DEF IInv, PutBlock, chainInfo, process
<1>2. /\ block.blockNumber = last + 1
      /\ block.timestamp > latestBlock.timestamp
      /\ block.parentHash = latestBlock.hash
      /\ Live(h) /\ booted
  BY <1>1 DEF TaskInv, Live, Verified, Accepted, At, BootInv, Quiet
<1>3. block \in PeerBlock /\ block \in Block
  BY <1>1 DEF TypeOK, IsTask, At, Block
<1>4. \A g \in Handler : ~Indexing(g)
  BY <1>1, <1>2 DEF Unique, Live, Indexing, At, TaskInv, Verified, Accepted
<1>5. /\ last \in Nat \ {0} /\ DOMAIN blockDB = 1..last
      /\ blockDB[last] = latestBlock
  BY <1>1, <1>2, <1>4 DEF TipInv, ChainInv, Dense
<1>6. /\ DOMAIN blockDB' = 1..(last + 1)
      /\ blockDB'[last + 1] = block
      /\ \A n \in 1..last : blockDB'[n] = blockDB[n]
      /\ ChainInv'
  BY <1>1, <1>2, <1>3, <1>5, AppendKeepsChain
<1>7. Moves(h, "bhashDB") /\ task'[h].pc = "bhashDB" /\ task'[h].block = block
  BY <1>1 DEF Moves, Goto, TypeOK, IsTask, IdleTask
<1>8. TypeOK'
  <2>1. \A n \in DOMAIN blockDB' : n \in Nat /\ blockDB'[n] \in Block
    BY <1>1, <1>3, <1>5, <1>6 DEF TypeOK
  <2>2. \A g \in Handler : IsTask(task'[g])
    BY <1>1, <1>7, MoveTypes DEF PC, At
  <2> QED
    BY <1>1, <1>7, <2>1, <2>2 DEF TypeOK, Moves
<1>9. BootInv' /\ TipInv'
  BY <1>1, <1>2, <1>5, <1>6, <1>7 DEF BootInv, TipInv, Indexing, At
<1>10. TaskInv'
  <2> SUFFICES ASSUME NEW g \in Handler
               PROVE  /\ Live(g)' => /\ task'[g].block.sealed
                                     /\ task'[g].block.parentHash = latestBlock.hash
                                     /\ task'[g].block.hash \in checkedBlock
                      /\ Verified(g)' => /\ task'[g].block.rootOk
                                         /\ task'[g].block.blockNumber = latestBlock.blockNumber + 1
                                         /\ task'[g].block.timestamp > latestBlock.timestamp
                      /\ At(g, "difficulty")' => task'[g].block.blockNumber % Epoch = 0
                      /\ Indexing(g)' => /\ task'[g].block.blockNumber \in DOMAIN blockDB'
                                         /\ blockDB'[task'[g].block.blockNumber] = task'[g].block
    BY <1>1 DEF TaskInv
  <2>1. CASE g # h
    BY <1>1, <1>4, <1>7, <2>1 DEF Moves, TaskInv, Live, Verified, Accepted, Indexing, At
  <2>2. CASE g = h
    <3>1. task'[h].pc = "bhashDB" /\ task'[h].block = block
      BY <1>7
    <3>2. block.sealed /\ block.hash \in checkedBlock /\ block.rootOk
      BY <1>1, <1>2 DEF TaskInv, Verified, Accepted, At
    <3>3. block.blockNumber \in DOMAIN blockDB' /\ blockDB'[block.blockNumber] = block
      BY <1>2, <1>5, <1>6
    <3> HIDE DEF block
    <3> QED
      BY <1>1, <1>2, <2>2, <3>1, <3>2, <3>3 DEF At
  <2> QED
    BY <2>1, <2>2
<1>11. Unique'
  BY <1>1, <1>7, MoveLive, UniqueFrame DEF PC, At
<1> QED
  BY <1>6, <1>8, <1>9, <1>10, <1>11 DEF IInv

\* The write of the last index entry makes the stored block the latest one.
\* The handler is the only live one, so no other header check goes stale.
LEMMA CommitIInv ==
  ASSUME IInv, NEW h \in Handler, Indexing(h),
         UNCHANGED <<blockDB, checkedBlock, booted>>,
         latestBlock' = task[h].block, Goto(h, "clear"), TypeOK'
  PROVE  IInv'
<1> DEFINE block == task[h].block
           last == latestBlock.blockNumber
<1>1. /\ TypeOK /\ BootInv /\ ChainInv /\ TipInv /\ TaskInv /\ Unique
      /\ Moves(h, "clear") /\ task'[h].pc = "clear"
  BY DEF IInv, Moves, Goto, TypeOK, IsTask, IdleTask
<1>2. /\ block.blockNumber = last + 1 /\ Live(h) /\ booted
      /\ block.blockNumber \in DOMAIN blockDB
      /\ blockDB[block.blockNumber] = block
  BY <1>1 DEF TaskInv, Live, Verified, Accepted, Indexing, At, BootInv, Quiet
<1>3. \A g \in Handler : ~Live(g)'
  BY <1>1, <1>2 DEF Unique, Live, Moves
<1>4. BootInv' /\ ChainInv'
  BY <1>1, <1>2 DEF BootInv, ChainInv, Dense, Increasing
<1>5. TipInv'
  <2>1. \A n \in DOMAIN blockDB : n <= block.blockNumber
    <3> SUFFICES ASSUME NEW n \in DOMAIN blockDB, n > last
                 PROVE  n = block.blockNumber
      <4>1. last \in Nat /\ \A n \in DOMAIN blockDB : n \in Nat
        BY <1>1, IntakeAssumption DEF TypeOK
      <4> QED
        BY <1>2, <4>1
    <3>1. PICK g \in Handler : Indexing(g) /\ blockDB[n] = task[g].block
      BY <1>1, <1>2 DEF TipInv
    <3>2. g = h
      BY <1>1, <1>2, <3>1 DEF Unique, Live, TaskInv, Verified, Accepted, Indexing, At
    <3> QED
      BY <1>1, <3>1, <3>2 DEF ChainInv
  <2> QED
    BY <1>1, <1>2, <2>1 DEF TipInv, ChainInv, Dense
<1>6. TaskInv'
  <2>1. \A g \in Handler : ~Verified(g)' /\ ~Indexing(g)' /\ ~At(g, "difficulty")'
    <3>1. \A g \in Handler : g # h => ~Verified(g) /\ ~Indexing(g) /\ ~At(g, "difficulty")
      BY <1>1, <1>2 DEF Unique, Live, TaskInv, Verified, Accepted, Indexing, At
    <3> QED
      BY <1>1, <3>1 DEF Moves, Verified, Accepted, Indexing, At
  <2> QED
    BY <1>3, <2>1 DEF TaskInv
<1>7. Unique'
  BY <1>3 DEF Unique
<1> QED
  BY <1>4, <1>5, <1>6, <1>7 DEF IInv

LEMMA IndexIInv ==
  ASSUME IInv, NEW h \in Handler, NEW written \in Nat, Indexing(h),
         AfterIndex(h, written),
         UNCHANGED <<stateDB, blockDB, difficulty, checkedBlock, relayed, booted, restarts>>,
         \A hash \in DOMAIN bhashDB' : bhashDB'[hash] \in Nat,
         \A hash \in DOMAIN txhashDB' : txhashDB'[hash] \in Nat \X Nat
  PROVE  IInv'
<1>1. CASE latestBlock' = task[h].block /\ Goto(h, "clear")
  <2>1. Moves(h, "clear")
    BY <1>1 DEF IInv, Moves, Goto, TypeOK, IsTask, IdleTask
  <2>2. TypeOK'
    <3>1. latestBlock' \in Block
      BY <1>1 DEF IInv, TypeOK, IsTask, Indexing, At, Block
    <3>2. \A g \in Handler : IsTask(task'[g])
      BY <2>1, MoveTypes DEF IInv, Indexing, At, PC
    <3> QED
      BY <2>1, <3>1, <3>2 DEF IInv, TypeOK, Moves
  <2> QED
    BY <1>1, <2>2, CommitIInv
<1>2. CASE /\ latestBlock' = latestBlock
           /\ task' = [task EXCEPT ![h].pc = "txhashDB", ![h].txIndex = written]
  <2>1. Moves(h, "txhashDB") /\ task'[h].pc = "txhashDB"
    BY <1>2 DEF IInv, Moves, TypeOK, IsTask, IdleTask
  <2>2. TypeOK'
    <3>1. \A g \in Handler : IsTask(task'[g])
      BY <2>1, MoveTypes DEF IInv, Indexing, At, PC
    <3> QED
      BY <1>2, <2>1, <3>1 DEF IInv, TypeOK, Moves
  <2>3. Verified(h)
    BY DEF Verified, Accepted, Indexing, At
  <2> QED
    BY <1>2, <2>1, <2>2, <2>3, MoveIInv DEF PC, At, Indexing
<1> QED
  BY <1>1, <1>2 DEF AfterIndex

LEMMA PutBhashIInv ==
  ASSUME IInv, NEW h \in Handler, PutBhash(h)
  PROVE  IInv'
<1>1. task[h].block \in Block
  BY DEF PutBhash, At, IInv, TypeOK, IsTask, Block
<1>2. \A hash \in DOMAIN bhashDB' : bhashDB'[hash] \in Nat
  BY <1>1, IntakeAssumption DEF PutBhash, Put, IInv, TypeOK
<1>3. \A hash \in DOMAIN txhashDB' : txhashDB'[hash] \in Nat \X Nat
  BY DEF PutBhash, IInv, TypeOK
<1> QED
  BY <1>2, <1>3, IndexIInv DEF PutBhash, Indexing, At, process

LEMMA PutTxhashIInv ==
  ASSUME IInv, NEW h \in Handler, PutTxhash(h)
  PROVE  IInv'
<1> DEFINE i == task[h].txIndex + 1
<1>1. task[h].block \in Block /\ task[h].txIndex \in Nat
  BY DEF PutTxhash, At, IInv, TypeOK, IsTask, Block
<1>2. <<task[h].block.blockNumber, i - 1>> \in Nat \X Nat
  BY <1>1, IntakeAssumption
<1>3. \A hash \in DOMAIN txhashDB' : txhashDB'[hash] \in Nat \X Nat
  BY <1>2 DEF PutTxhash, Put, IInv, TypeOK
<1>4. \A hash \in DOMAIN bhashDB' : bhashDB'[hash] \in Nat
  BY DEF PutTxhash, IInv, TypeOK
<1> QED
  BY <1>1, <1>3, <1>4, IndexIInv DEF PutTxhash, Indexing, At, process

LEMMA RelayIInv ==
  ASSUME IInv, NEW h \in Handler, Relay(h)
  PROVE  IInv'
<1>1. /\ TypeOK /\ BootInv /\ ChainInv /\ TipInv /\ TaskInv /\ Unique
      /\ task[h].pc = "clear" /\ Finish(h)
      /\ relayed' = Append(relayed, task[h].block)
      /\ UNCHANGED <<stateDB, blockDB, bhashDB, txhashDB, latestBlock, difficulty,
                     checkedBlock, booted, restarts>>
  BY DEF IInv, Relay, At, stores, chainInfo, process
<1>2. /\ DOMAIN task' = Handler /\ task'[h] = IdleTask
      /\ \A g \in Handler : g # h => task'[g] = task[g]
  BY <1>1 DEF Finish, TypeOK
<1>3. TypeOK'
  <2>1. \A g \in Handler : IsTask(task'[g])
    BY <1>1, <1>2 DEF TypeOK, IsTask, IdleTask, PC
  <2>2. relayed' \in Seq(PeerBlock)
    BY <1>1 DEF TypeOK, IsTask
  <2> QED
    BY <1>1, <1>2, <2>1, <2>2 DEF TypeOK
<1>4. BootInv'
  BY <1>1 DEF BootInv, Quiet, At
<1>5. ChainInv' /\ TipInv'
  <2>1. \A g \in Handler : Indexing(g) => Indexing(g)' /\ task'[g].block = task[g].block
    BY <1>1, <1>2 DEF Indexing, At
  <2> QED
    BY <1>1, <2>1, ChainFrame
<1>6. \A g \in Handler : task'[g] = task[g] \/ task'[g].pc = "idle"
  BY <1>2 DEF IdleTask
<1>7. TaskInv'
  BY <1>1, <1>6 DEF TaskInv, Live, Verified, Accepted, Indexing, At
<1>8. Unique'
  BY <1>1, <1>6, UniqueFrame DEF Live
<1> QED
  BY <1>3, <1>4, <1>5, <1>7, <1>8 DEF IInv

LEMMA RestartIInv ==
  ASSUME IInv, Restart
  PROVE  IInv'
<1>1. /\ TypeOK /\ ChainInv
      /\ restarts' = restarts + 1 /\ restarts < MaxRestarts
      /\ booted' = FALSE /\ latestBlock' = BootBlock /\ difficulty' = BootBlock.difficulty
      /\ checkedBlock' = {} /\ relayed' = << >>
      /\ task' = [h \in Handler |-> IdleTask]
      /\ UNCHANGED <<stateDB, blockDB, bhashDB, txhashDB>>
  BY DEF IInv, Restart, stores
<1>2. \A h \in Handler : task'[h] = IdleTask
  BY <1>1
<1>3. TypeOK'
  <2>1. BootBlock \in Block /\ BootBlock.difficulty \in Nat \ {0}
    BY IntakeAssumption DEF Block
  <2>2. DOMAIN task' = Handler /\ \A h \in Handler : IsTask(task'[h])
    BY <1>1, <1>2 DEF IsTask, IdleTask, PC
  <2>3. restarts' \in 0..MaxRestarts
    <3>1. restarts \in 0..MaxRestarts /\ MaxRestarts \in Nat
      BY <1>1, IntakeAssumption DEF TypeOK
    <3> QED
      BY <1>1, <3>1
  <2>4. relayed' \in Seq(PeerBlock)
    BY <1>1
  <2> QED
    BY <1>1, <2>1, <2>2, <2>3, <2>4 DEF TypeOK
<1>4. BootInv'
  BY <1>1, <1>2 DEF BootInv, Quiet, At, IdleTask
<1>5. ChainInv' /\ TipInv'
  BY <1>1 DEF ChainInv, Dense, Increasing, TipInv
<1>6. TaskInv' /\ Unique'
  BY <1>2 DEF TaskInv, Unique, Live, Verified, Accepted, Indexing, At, IdleTask
<1> QED
  BY <1>3, <1>4, <1>5, <1>6 DEF IInv

LEMMA LoadChainIInv ==
  ASSUME IInv, LoadChain
  PROVE  IInv'
<1> DEFINE last == Highest(blockDB)
<1>1. /\ TypeOK /\ ChainInv /\ Unique /\ TaskInv /\ Quiet
      /\ booted' = TRUE /\ latestBlock' = blockDB[last]
      /\ difficulty' = latestBlock'.difficulty
      /\ UNCHANGED <<stateDB, blockDB, bhashDB, txhashDB, checkedBlock, relayed, task, restarts>>
  BY DEF IInv, LoadChain, BootInv, stores
<1>2. last \in DOMAIN blockDB /\ \A m \in DOMAIN blockDB : m <= last
  <2>1. PICK n \in Nat \ {0} : DOMAIN blockDB = 1..n
    BY <1>1 DEF ChainInv, Dense
  <2>2. n \in DOMAIN blockDB /\ \A m \in DOMAIN blockDB : m <= n
    BY <2>1
  <2> QED
    BY <2>2 DEF Highest
<1>3. latestBlock' \in Block /\ latestBlock'.difficulty \in Nat \ {0}
  BY <1>1, <1>2, IntakeAssumption DEF TypeOK
<1>4. TypeOK'
  BY <1>1, <1>3 DEF TypeOK, IsTask
<1>5. BootInv' /\ ChainInv'
  BY <1>1 DEF BootInv, ChainInv, Dense, Increasing
<1>6. TipInv'
  <2>1. latestBlock'.blockNumber = last
    BY <1>1, <1>2 DEF ChainInv
  <2>2. \A n \in DOMAIN blockDB : ~(n > last)
    BY <1>1, <1>2 DEF TypeOK
  <2> QED
    BY <1>1, <1>2, <2>1, <2>2 DEF TipInv
<1>7. TaskInv' /\ Unique'
  BY <1>1 DEF Quiet, TaskInv, Unique, Live, Verified, Accepted, Indexing, At
<1> QED
  BY <1>4, <1>5, <1>6, <1>7 DEF IInv

LEMMA NextIInv ==
  ASSUME NoSiblings, IInv, [Next]_vars
  PROVE  IInv'
<1>1. CASE UNCHANGED vars
  <2>1. UNCHANGED <<stateDB, blockDB, bhashDB, txhashDB, latestBlock, difficulty, checkedBlock,
                    relayed, task, booted, restarts>>
    BY <1>1 DEF vars, stores, chainInfo, process
  <2>2. TypeOK' /\ BootInv'
    BY <2>1 DEF IInv, TypeOK, IsTask, BootInv, Quiet, At
  <2>3. ChainInv' /\ TipInv'
    BY <2>1, ChainFrame DEF IInv, Indexing, At
  <2>4. TaskInv' /\ Unique'
    BY <2>1 DEF IInv, TaskInv, Unique, Live, Verified, Accepted, Indexing, At
  <2> QED
    BY <2>2, <2>3, <2>4 DEF IInv
<1>2. CASE \E block \in PeerBlock : Discard(block)
  BY <1>2, DiscardIInv
<1>3. CASE \E h \in Handler, block \in PeerBlock : Receive(h, block)
  BY <1>3, ReceiveIInv
<1>4. ASSUME NEW h \in Handler, Step(h)
      PROVE  IInv'
  BY <1>4, CheckOrderIInv, ReplayIInv, FlushStateIInv, FlushCodeIInv, UpdateDifficultyIInv,
     PutBlockIInv, PutBhashIInv, PutTxhashIInv, RelayIInv DEF Step
<1>5. CASE Restart
  BY <1>5, RestartIInv
<1>6. CASE LoadChain
  BY <1>6, LoadChainIInv
<1> QED
  BY <1>1, <1>2, <1>3, <1>4, <1>5, <1>6 DEF Next

-----------------------------------------------------------------------------
(* The theorems.                                                           *)

THEOREM Invariance ==
  ASSUME NoSiblings
  PROVE  Spec => []IInv
<1>1. Init => IInv
  BY InitIInv
<1>2. IInv /\ [Next]_vars => IInv'
  BY NextIInv
<1> QED
  BY <1>1, <1>2, PTL DEF Spec

\* The records of the node keep their shape, and the difficulty stays a
\* positive number through every retarget, crash and restart.
THEOREM TypeCorrect ==
  ASSUME NoSiblings
  PROVE  Spec => []TypeOK
<1>1. IInv => TypeOK
  BY DEF IInv
<1> QED
  BY <1>1, Invariance, PTL

\* What is on disk is a chain without gaps at every moment, so also at every
\* moment at which the process may crash.
THEOREM ChainAlwaysLinked ==
  ASSUME NoSiblings
  PROVE  Spec => []ChainLinked
<1>1. IInv => ChainLinked
  <2> SUFFICES ASSUME IInv, NEW n \in DOMAIN blockDB \ {1}
               PROVE  /\ n - 1 \in DOMAIN blockDB
                      /\ blockDB[n].blockNumber = n
                      /\ blockDB[n].parentHash = blockDB[n - 1].hash
                      /\ blockDB[n].timestamp > blockDB[n - 1].timestamp
    BY DEF ChainLinked
  <2>1. n - 1 \in DOMAIN blockDB /\ n \in Nat /\ n - 1 < n
    BY DEF IInv, ChainInv, Dense
  <2>2. blockDB[n - 1].timestamp < blockDB[n].timestamp
    BY <2>1 DEF IInv, ChainInv, Increasing
  <2>3. blockDB[n].timestamp \in Nat /\ blockDB[n - 1].timestamp \in Nat
    BY <2>1, TimesBelowTip DEF IInv
  <2> QED
    BY <2>1, <2>2, <2>3 DEF IInv, ChainInv
<1> QED
  BY <1>1, Invariance, PTL

\* The latest block in memory is the stored block of its number, and above it
\* there is only the block of a handler that is about to make it the latest.
THEOREM TipAlwaysStored ==
  ASSUME NoSiblings
  PROVE  Spec => []TipStored
<1>1. IInv => TipStored
  <2> SUFFICES ASSUME IInv, booted, NEW n \in DOMAIN blockDB
               PROVE  /\ latestBlock.blockNumber \in DOMAIN blockDB
                      /\ blockDB[latestBlock.blockNumber] = latestBlock
                      /\ \/ n <= latestBlock.blockNumber
                         \/ \E h \in Handler : Accepted(h) /\ blockDB[n] = task[h].block
    BY DEF TipStored, IInv, TipInv
  <2>1. n \in Nat /\ latestBlock.blockNumber \in Nat
    BY IntakeAssumption DEF IInv, TypeOK
  <2> QED
    BY <2>1 DEF IInv, TipInv, Indexing, Accepted, At
<1> QED
  BY <1>1, Invariance, PTL

-----------------------------------------------------------------------------
(* What holds whatever blocks arrive, siblings included.                   *)

TaskOK(t) ==
  /\ IsTask(t)
  /\ t.txIndex <= Len(t.block.txs)
  /\ t.pc = "txhashDB" => t.txIndex < Len(t.block.txs)
  /\ WorkOK(t.work) /\ t.unwritten \subseteq DOMAIN t.work.states
  /\ t.pc = "flushCode" => t.account \in DOMAIN t.work.states

AInv ==
  /\ AccountsOK(stateDB) /\ codeDB \subseteq CodeHash
  /\ DOMAIN task = Handler /\ \A h \in Handler : TaskOK(task[h])

LEMMA IdleTaskOK == TaskOK(IdleTask)
<1>1. Len(Genesis.txs) \in Nat
  BY IntakeAssumption DEF Block
<1> QED
  BY <1>1, EmptyWorkOK DEF TaskOK, IsTask, IdleTask, PC

LEMMA InitAInv == Init => AInv
<1> SUFFICES ASSUME Init PROVE AInv
  OBVIOUS
<1>1. AccountsOK(stateDB) /\ codeDB \subseteq CodeHash
  BY IntakeAssumption DEF Init, AccountsOK, CodeHash
<1> QED
  BY <1>1, IdleTaskOK DEF Init, AInv

\* A step of one handler that writes no account.
LEMMA AFrame ==
  ASSUME AInv, NEW h \in Handler, DOMAIN task' = Handler,
         \A g \in Handler : g # h => task'[g] = task[g],
         task'[h] = task[h] \/ TaskOK(task'[h]),
         UNCHANGED <<stateDB, codeDB>>
  PROVE  AInv'
BY DEF AInv

LEMMA FinishAInv ==
  ASSUME AInv, NEW h \in Handler, Finish(h), UNCHANGED <<stateDB, codeDB>>
  PROVE  AInv'
BY IdleTaskOK, AFrame DEF Finish, AInv

LEMMA GotoAInv ==
  ASSUME AInv, NEW h \in Handler, task[h].pc # "idle",
         NEW pc \in PC \ {"txhashDB", "flushCode"}, Goto(h, pc),
         UNCHANGED <<stateDB, codeDB>>
  PROVE  AInv'
<1>1. TaskOK(task[h]) /\ DOMAIN task = Handler
  BY DEF AInv
<1>2. /\ DOMAIN task' = Handler /\ \A g \in Handler : g # h => task'[g] = task[g]
      /\ task'[h] = [task[h] EXCEPT !.pc = pc]
  BY <1>1 DEF Goto
<1>3. TaskOK(task'[h])
  BY <1>1, <1>2 DEF TaskOK, IsTask, IdleTask
<1> QED
  BY <1>2, <1>3, AFrame

LEMMA ReceiveAInv ==
  ASSUME AInv, NEW h \in Handler, NEW block \in PeerBlock, Receive(h, block)
  PROVE  AInv'
<1>1. /\ UNCHANGED <<stateDB, codeDB>>
      /\ \/ task' = task
         \/ \E pc \in {"order", "replay"} :
              task' = [task EXCEPT ![h] = [IdleTask EXCEPT !.pc = pc, !.block = block]]
  BY DEF Receive, stores
<1>2. CASE task' = task
  BY <1>1, <1>2, AFrame DEF AInv
<1>3. ASSUME NEW pc \in {"order", "replay"},
             task' = [task EXCEPT ![h] = [IdleTask EXCEPT !.pc = pc, !.block = block]]
      PROVE  AInv'
  <2> DEFINE t == [IdleTask EXCEPT !.pc = pc, !.block = block]
  <2>1. Len(block.txs) \in Nat
    BY IntakeAssumption DEF Block
  <2>2. /\ DOMAIN t = DOMAIN IdleTask /\ t.pc = pc /\ t.block = block /\ t.txIndex = 0
        /\ t.work = EmptyWork /\ t.unwritten = {}
    BY DEF IdleTask
  <2>3. TaskOK(t)
    <3> HIDE DEF t
    <3> QED
      BY <2>1, <2>2, EmptyWorkOK DEF TaskOK, IsTask, PC
  <2>4. /\ DOMAIN task' = Handler /\ task'[h] = t
        /\ \A g \in Handler : g # h => task'[g] = task[g]
    BY <1>3 DEF AInv
  <2> HIDE DEF t
  <2> QED
    BY <1>1, <2>3, <2>4, AFrame
<1> QED
  BY <1>1, <1>2, <1>3

LEMMA ReplayAInv ==
  ASSUME AInv, NEW h \in Handler, Replay(h)
  PROVE  AInv'
<1> DEFINE work == Transit(stateDB, codeDB, task[h].block)
<1>1. /\ TaskOK(task[h]) /\ DOMAIN task = Handler /\ AccountsOK(stateDB)
      /\ task[h].pc = "replay" /\ UNCHANGED <<stateDB, codeDB>>
  BY DEF AInv, Replay, At, stores
<1>2. CASE Finish(h)
  BY <1>1, <1>2, FinishAInv
<1>3. CASE task' = [task EXCEPT ![h].pc = "flushState", ![h].work = work,
                                ![h].unwritten = DOMAIN work.states]
  <2>1. BlockOK(task[h].block)
    BY <1>1, IntakeAssumption DEF TaskOK, IsTask, Block, BlockOK
  <2>2. WorkOK(work)
    BY <1>1, <2>1, TransitWellFormed
  <2> HIDE DEF work
  <2>3. /\ DOMAIN task' = Handler /\ \A g \in Handler : g # h => task'[g] = task[g]
        /\ DOMAIN task'[h] = DOMAIN task[h]
        /\ task'[h].pc = "flushState" /\ task'[h].block = task[h].block
        /\ task'[h].txIndex = task[h].txIndex
        /\ task'[h].work = work /\ task'[h].unwritten = DOMAIN work.states
    BY <1>1, <1>3 DEF TaskOK, IsTask, IdleTask
  <2>4. TaskOK(task'[h])
    BY <1>1, <2>2, <2>3 DEF TaskOK, IsTask, PC
  <2> QED
    BY <1>1, <2>3, <2>4, AFrame
<1> QED
  BY <1>2, <1>3 DEF Replay

LEMMA FlushStateAInv ==
  ASSUME AInv, NEW h \in Handler, FlushState(h)
  PROVE  AInv'
<1>1. /\ TaskOK(task[h]) /\ DOMAIN task = Handler /\ AccountsOK(stateDB)
      /\ task[h].pc = "flushState" /\ UNCHANGED codeDB
  BY DEF AInv, FlushState, At
<1>2. PICK a \in task[h].unwritten :
        /\ stateDB' = [stateDB EXCEPT ![a] = task[h].work.states[a]]
        /\ task' = [task EXCEPT ![h].pc = "flushCode", ![h].account = a,
                                ![h].unwritten = @ \ {a}]
  BY DEF FlushState
<1>3. a \in DOMAIN task[h].work.states /\ task[h].work.states[a] \in AccountState
  BY <1>1 DEF TaskOK, WorkOK
<1>4. AccountsOK(stateDB')
  BY <1>1, <1>2, <1>3 DEF AccountsOK
<1>5. /\ DOMAIN task' = Handler /\ \A g \in Handler : g # h => task'[g] = task[g]
      /\ DOMAIN task'[h] = DOMAIN task[h]
      /\ task'[h].pc = "flushCode" /\ task'[h].block = task[h].block
      /\ task'[h].txIndex = task[h].txIndex /\ task'[h].account = a
      /\ task'[h].work = task[h].work /\ task'[h].unwritten = task[h].unwritten \ {a}
  BY <1>1, <1>2 DEF TaskOK, IsTask, IdleTask
<1>6. TaskOK(task'[h])
  BY <1>1, <1>3, <1>5 DEF TaskOK, IsTask, PC
<1> QED
  BY <1>1, <1>4, <1>5, <1>6 DEF AInv, AccountsOK

LEMMA FlushCodeAInv ==
  ASSUME AInv, NEW h \in Handler, FlushCode(h)
  PROVE  AInv'
<1>1. /\ TaskOK(task[h]) /\ DOMAIN task = Handler
      /\ task[h].pc = "flushCode" /\ UNCHANGED stateDB
  BY DEF AInv, FlushCode, At
<1>2. FlushedCode(h) \in CodeHash
  BY <1>1 DEF TaskOK, WorkOK, FlushedCode, AccountState
<1>3. /\ codeDB' \subseteq CodeHash
      /\ \/ Finish(h)
         \/ \E pc \in {"flushState", "difficulty", "blockDB"} : Goto(h, pc)
  BY <1>2 DEF FlushCode, AfterFlush, AInv
<1>4. DOMAIN task' = Handler /\ \A g \in Handler : TaskOK(task'[g])
  <2>1. CASE Finish(h)
    BY <2>1, IdleTaskOK DEF Finish, AInv
  <2>2. ASSUME NEW pc \in {"flushState", "difficulty", "blockDB"}, Goto(h, pc)
        PROVE  DOMAIN task' = Handler /\ \A g \in Handler : TaskOK(task'[g])
    <3>1. /\ DOMAIN task' = Handler /\ \A g \in Handler : g # h => task'[g] = task[g]
          /\ task'[h] = [task[h] EXCEPT !.pc = pc]
      BY <1>1, <2>2 DEF Goto
    <3>2. TaskOK(task'[h])
      BY <1>1, <3>1 DEF TaskOK, IsTask, IdleTask, PC
    <3> QED
      BY <3>1, <3>2 DEF AInv
  <2> QED
    BY <1>3, <2>1, <2>2
<1> QED
  BY <1>1, <1>3, <1>4 DEF AInv, AccountsOK

LEMMA IndexAInv ==
  ASSUME AInv, NEW h \in Handler, task[h].pc # "idle", NEW written \in Nat,
         written <= Len(task[h].block.txs), AfterIndex(h, written),
         UNCHANGED <<stateDB, codeDB>>
  PROVE  AInv'
<1>1. TaskOK(task[h]) /\ DOMAIN task = Handler
  BY DEF AInv
<1>2. CASE written = Len(task[h].block.txs) /\ Goto(h, "clear")
  BY <1>2, GotoAInv DEF PC
<1>3. CASE /\ written # Len(task[h].block.txs)
           /\ task' = [task EXCEPT ![h].pc = "txhashDB", ![h].txIndex = written]
  <2>1. /\ DOMAIN task' = Handler /\ \A g \in Handler : g # h => task'[g] = task[g]
        /\ DOMAIN task'[h] = DOMAIN task[h]
        /\ task'[h].pc = "txhashDB" /\ task'[h].block = task[h].block
        /\ task'[h].txIndex = written
        /\ task'[h].work = task[h].work /\ task'[h].unwritten = task[h].unwritten
    BY <1>1, <1>3 DEF TaskOK, IsTask, IdleTask
  <2>2. Len(task[h].block.txs) \in Nat
    BY <1>1, IntakeAssumption DEF TaskOK, IsTask, Block
  <2>3. TaskOK(task'[h])
    BY <1>1, <1>3, <2>1, <2>2 DEF TaskOK, IsTask, PC
  <2> QED
    BY <2>1, <2>3, AFrame
<1> QED
  BY <1>2, <1>3 DEF AfterIndex

LEMMA StepAInv ==
  ASSUME AInv, NEW h \in Handler, Step(h)
  PROVE  AInv'
<1>1. TaskOK(task[h]) /\ DOMAIN task = Handler
  BY DEF AInv
<1>2. CASE CheckOrder(h)
  BY <1>2, FinishAInv, GotoAInv DEF CheckOrder, At, PC, stores
<1>3. CASE UpdateDifficulty(h) \/ PutBlock(h)
  <2>1. task[h].pc # "idle" /\ UNCHANGED <<stateDB, codeDB>>
        /\ \E pc \in {"blockDB", "bhashDB"} : Goto(h, pc)
    BY <1>3 DEF UpdateDifficulty, PutBlock, At, stores
  <2> QED
    BY <2>1, GotoAInv DEF PC
<1>4. CASE PutBhash(h)
  <2>1. Len(task[h].block.txs) \in Nat /\ task[h].pc # "idle"
    BY <1>1, <1>4, IntakeAssumption DEF TaskOK, IsTask, Block, PutBhash, At
  <2> QED
    BY <1>4, <2>1, IndexAInv DEF PutBhash
<1>5. CASE PutTxhash(h)
  <2>1. /\ task[h].txIndex + 1 \in Nat /\ task[h].pc # "idle"
        /\ task[h].txIndex + 1 <= Len(task[h].block.txs)
    <3>1. task[h].pc = "txhashDB" /\ Len(task[h].block.txs) \in Nat
      BY <1>1, <1>5, IntakeAssumption DEF TaskOK, IsTask, Block, PutTxhash, At
    <3> QED
      BY <1>1, <3>1 DEF TaskOK, IsTask
  <2>2. AfterIndex(h, task[h].txIndex + 1) /\ UNCHANGED <<stateDB, codeDB>>
    BY <1>5 DEF PutTxhash
  <2> QED
    BY <2>1, <2>2, IndexAInv
<1>6. CASE Relay(h)
  BY <1>6, FinishAInv DEF Relay, stores
<1> QED
  BY <1>2, <1>3, <1>4, <1>5, <1>6, ReplayAInv, FlushStateAInv, FlushCodeAInv DEF Step

LEMMA NextAInv ==
  ASSUME AInv, [Next]_vars
  PROVE  AInv'
<1>1. CASE \/ UNCHANGED vars
           \/ \E block \in PeerBlock : Discard(block)
           \/ LoadChain
  <2>1. UNCHANGED <<stateDB, codeDB, task>>
    BY <1>1 DEF vars, stores, Discard, LoadChain
  <2> QED
    BY <2>1 DEF AInv, AccountsOK
<1>2. CASE Restart
  <2>1. UNCHANGED <<stateDB, codeDB>> /\ task' = [h \in Handler |-> IdleTask]
    BY <1>2 DEF Restart, stores
  <2> QED
    BY <2>1, IdleTaskOK DEF AInv, AccountsOK
<1>3. CASE \E h \in Handler, block \in PeerBlock : Receive(h, block)
  BY <1>3, ReceiveAInv
<1>4. CASE \E h \in Handler : Step(h)
  BY <1>4, StepAInv
<1> QED
  BY <1>1, <1>2, <1>3, <1>4 DEF Next

\* Whatever blocks arrive, in whatever order and between whatever crashes, no
\* account is ever stored with a negative balance or nonce or with a code hash
\* nobody deployed, and no handler indexes past its block.
THEOREM AccountsStayWellFormed == Spec => []AccountsWellFormed
<1>1. Init => AInv
  BY InitAInv
<1>2. AInv /\ [Next]_vars => AInv'
  BY NextAInv
<1>3. AInv => AccountsWellFormed
  BY DEF AInv, TaskOK, WorkOK, AccountsOK, AccountsWellFormed
<1> QED
  BY <1>1, <1>2, <1>3, PTL DEF Spec

\* A block in progress or relayed has been checked off, and no two of them are
\* the same.
RelayInv ==
  /\ relayed \in Seq(PeerBlock)
  /\ \A i \in DOMAIN relayed : relayed[i].hash \in checkedBlock
  /\ \A i, j \in DOMAIN relayed : relayed[i].hash = relayed[j].hash => i = j
  /\ \A h \in Handler : ~At(h, "idle") =>
       /\ task[h].block.hash \in checkedBlock
       /\ \A i \in DOMAIN relayed : relayed[i].hash # task[h].block.hash
  /\ \A g, h \in Handler :
       ~At(g, "idle") /\ ~At(h, "idle") /\ task[g].block.hash = task[h].block.hash => g = h

LEMMA InitRelayInv == Init => RelayInv
<1> SUFFICES ASSUME Init PROVE RelayInv
  OBVIOUS
<1>1. relayed = << >> /\ relayed \in Seq(PeerBlock) /\ DOMAIN relayed = {}
  BY DEF Init
<1>2. \A h \in Handler : At(h, "idle")
  BY DEF Init, At, IdleTask
<1> QED
  BY <1>1, <1>2 DEF RelayInv

\* A step that relays nothing and starts no handler.
LEMMA RelayFrame ==
  ASSUME RelayInv, UNCHANGED relayed, checkedBlock \subseteq checkedBlock',
         \A h \in Handler : ~At(h, "idle")' =>
           ~At(h, "idle") /\ task'[h].block = task[h].block
  PROVE  RelayInv'
BY DEF RelayInv

LEMMA ReceiveRelayInv ==
  ASSUME AInv, RelayInv, NEW h \in Handler, NEW block \in PeerBlock, Receive(h, block)
  PROVE  RelayInv'
<1>1. /\ UNCHANGED relayed /\ checkedBlock' = checkedBlock \cup {block.hash}
      /\ block.hash \notin checkedBlock
      /\ \A g \in Handler : g # h => task'[g] = task[g]
      /\ \/ task' = task
         \/ task'[h].block = block
  BY DEF Receive, IsChecked, AInv, IdleTask
<1>2. CASE task' = task
  BY <1>1, <1>2, RelayFrame DEF At
<1>3. CASE task'[h].block = block
  <2>1. \A i \in DOMAIN relayed : relayed[i].hash # block.hash
    BY <1>1 DEF RelayInv
  <2>2. \A g \in Handler : g # h /\ ~At(g, "idle") => task[g].block.hash # block.hash
    BY <1>1 DEF RelayInv
  <2> QED
    BY <1>1, <1>3, <2>1, <2>2 DEF RelayInv, At
<1> QED
  BY <1>1, <1>2, <1>3

LEMMA RelayRelayInv ==
  ASSUME AInv, RelayInv, NEW h \in Handler, Relay(h)
  PROVE  RelayInv'
<1> DEFINE block == task[h].block
<1>1. /\ relayed' = Append(relayed, block) /\ UNCHANGED checkedBlock
      /\ ~At(h, "idle") /\ At(h, "idle")'
      /\ \A g \in Handler : g # h => task'[g] = task[g]
  BY DEF Relay, Finish, At, AInv, IdleTask, chainInfo
<1>2. block \in PeerBlock
  BY <1>1 DEF AInv, TaskOK, IsTask, At
<1>3. relayed \in Seq(PeerBlock) /\ Len(relayed) \in Nat /\ DOMAIN relayed = 1..Len(relayed)
  BY DEF RelayInv
<1>4. /\ relayed' \in Seq(PeerBlock) /\ DOMAIN relayed' = 1..(Len(relayed) + 1)
      /\ relayed'[Len(relayed) + 1] = block
      /\ \A i \in 1..Len(relayed) : relayed'[i] = relayed[i]
  BY <1>1, <1>2, <1>3
<1>5. /\ block.hash \in checkedBlock
      /\ \A i \in 1..Len(relayed) : relayed[i].hash # block.hash
      /\ \A g \in Handler : g # h /\ ~At(g, "idle") => task[g].block.hash # block.hash
  BY <1>1, <1>3 DEF RelayInv
<1>6. \A i \in DOMAIN relayed' : relayed'[i].hash \in checkedBlock
  BY <1>3, <1>4, <1>5 DEF RelayInv
<1>7. \A i, j \in DOMAIN relayed' : relayed'[i].hash = relayed'[j].hash => i = j
  <2> SUFFICES ASSUME NEW i \in 1..(Len(relayed) + 1), NEW j \in 1..(Len(relayed) + 1),
                      relayed'[i].hash = relayed'[j].hash
               PROVE  i = j
    BY <1>4
  <2>1. CASE i \in 1..Len(relayed) /\ j \in 1..Len(relayed)
    BY <1>3, <1>4, <2>1 DEF RelayInv
  <2>2. CASE i = Len(relayed) + 1 \/ j = Len(relayed) + 1
    BY <1>3, <1>4, <1>5, <2>2
  <2> QED
    BY <1>3, <2>1, <2>2
<1>8. \A g \in Handler : ~At(g, "idle")' =>
        /\ g # h /\ ~At(g, "idle") /\ task'[g].block = task[g].block
  BY <1>1 DEF At
<1>9. \A g \in Handler : ~At(g, "idle")' =>
        /\ task'[g].block.hash \in checkedBlock
        /\ \A i \in DOMAIN relayed' : relayed'[i].hash # task'[g].block.hash
  <2> SUFFICES ASSUME NEW g \in Handler, ~At(g, "idle")', NEW i \in 1..(Len(relayed) + 1)
               PROVE  /\ task'[g].block.hash \in checkedBlock
                      /\ relayed'[i].hash # task'[g].block.hash
    BY <1>3, <1>4
  <2>1. CASE i \in 1..Len(relayed)
    BY <1>3, <1>4, <1>8, <2>1 DEF RelayInv
  <2>2. CASE i = Len(relayed) + 1
    BY <1>4, <1>5, <1>8, <2>2 DEF RelayInv
  <2> QED
    BY <1>3, <2>1, <2>2
<1>10. \A f, g \in Handler :
         ~At(f, "idle")' /\ ~At(g, "idle")' /\ task'[f].block.hash = task'[g].block.hash => f = g
  BY <1>8 DEF RelayInv
<1> QED
  BY <1>1, <1>4, <1>6, <1>7, <1>9, <1>10 DEF RelayInv

\* What the steps of a handler leave alone.
LEMMA StepFrame ==
  ASSUME AInv, NEW h \in Handler, Step(h)
  PROVE  /\ UNCHANGED <<checkedBlock, booted, restarts>>
         /\ ~At(h, "idle")
         /\ \A g \in Handler : g # h => task'[g] = task[g]
         /\ \/ At(h, "idle")'
            \/ task'[h].block = task[h].block
         /\ ~At(h, "clear") => UNCHANGED relayed
<1>1. TaskOK(task[h]) /\ DOMAIN task = Handler
  BY DEF AInv
<1> USE DEF At
<1>2. CASE CheckOrder(h)
  BY <1>1, <1>2 DEF CheckOrder, Goto, Finish, IdleTask, TaskOK, IsTask, stores, chainInfo, process
<1>3. CASE Replay(h)
  BY <1>1, <1>3 DEF Replay, Finish, IdleTask, TaskOK, IsTask, stores, chainInfo, process
<1>4. CASE FlushState(h)
  BY <1>1, <1>4 DEF FlushState, IdleTask, TaskOK, IsTask, chainInfo, process
<1>5. CASE FlushCode(h)
  <2>1. /\ UNCHANGED <<checkedBlock, booted, restarts, relayed>> /\ ~At(h, "idle")
        /\ Finish(h) \/ \E pc \in PC : Goto(h, pc)
    BY <1>5 DEF FlushCode, AfterFlush, PC, chainInfo, process
  <2> QED
    BY <1>1, <2>1 DEF Goto, Finish, IdleTask, TaskOK, IsTask
<1>6. CASE UpdateDifficulty(h) \/ PutBlock(h)
  BY <1>1, <1>6
     DEF UpdateDifficulty, PutBlock, Goto, IdleTask, TaskOK, IsTask, stores, chainInfo, process
<1>7. CASE PutBhash(h) \/ PutTxhash(h)
  BY <1>1, <1>7
     DEF PutBhash, PutTxhash, AfterIndex, Goto, IdleTask, TaskOK, IsTask, process
<1>8. CASE Relay(h)
  BY <1>1, <1>8 DEF Relay, Finish, IdleTask, chainInfo, process
<1> QED
  BY <1>2, <1>3, <1>4, <1>5, <1>6, <1>7, <1>8 DEF Step

LEMMA NextRelayInv ==
  ASSUME AInv, RelayInv, [Next]_vars
  PROVE  RelayInv'
<1>1. CASE \/ UNCHANGED vars
           \/ \E block \in PeerBlock : Discard(block)
           \/ LoadChain
  BY <1>1, RelayFrame DEF vars, chainInfo, Discard, LoadChain, At
<1>2. CASE Restart
  <2>1. relayed' = << >> /\ relayed' \in Seq(PeerBlock) /\ DOMAIN relayed' = {}
        /\ \A h \in Handler : At(h, "idle")'
    BY <1>2 DEF Restart, At, IdleTask
  <2> QED
    BY <2>1 DEF RelayInv
<1>3. CASE \E h \in Handler, block \in PeerBlock : Receive(h, block)
  BY <1>3, ReceiveRelayInv
<1>4. ASSUME NEW h \in Handler, Step(h)
      PROVE  RelayInv'
  <2>1. CASE At(h, "clear")
    <3>1. Relay(h)
      BY <1>4, <2>1 DEF Step, CheckOrder, Replay, FlushState, FlushCode, UpdateDifficulty,
                        PutBlock, PutBhash, PutTxhash, At
    <3> QED
      BY <3>1, RelayRelayInv
  <2>2. CASE ~At(h, "clear")
    <3>1. \A g \in Handler : ~At(g, "idle")' =>
            ~At(g, "idle") /\ task'[g].block = task[g].block
      BY <1>4, <2>2, StepFrame DEF At
    <3> QED
      BY <1>4, <2>2, <3>1, StepFrame, RelayFrame
  <2> QED
    BY <2>1, <2>2
<1> QED
  BY <1>1, <1>2, <1>3, <1>4 DEF Next

\* Between two restarts a node sends a block on at most once, however often and
\* from however many peers it receives it, also while the block is in progress.
THEOREM RelaysEachBlockOnce == Spec => []RelayedOnce
<1>1. Init => AInv /\ RelayInv
  BY InitAInv, InitRelayInv
<1>2. AInv /\ RelayInv /\ [Next]_vars => AInv' /\ RelayInv'
  BY NextAInv, NextRelayInv
<1>3. RelayInv => RelayedOnce
  BY DEF RelayInv, RelayedOnce, IsInjective
<1> QED
  BY <1>1, <1>2, <1>3, PTL DEF Spec

-----------------------------------------------------------------------------
(* Children.  verifyBlock compares the header of a block with the latest    *)
(* block before its awaits and the latest block is replaced after them.    *)

\* A handler that may still adopt its block when a block with the same
\* parent becomes the latest: it has verified its own, or it still waits for
\* the order of the transactions of one with a greater number, which
\* verifyBlock will then take for the next.
SiblingUnderWay(g) ==
  /\ task[g].block.parentHash = latestBlock.parentHash
  /\ \/ Verified(g)
     \/ At(g, "order") /\ task[g].block.rootOk
        /\ task[g].block.blockNumber > latestBlock.blockNumber

\* The only event that is excluded: a block becomes the latest while a
\* sibling of it is under way.
OvertakesNoSibling ==
  booted /\ booted' /\ latestBlock' # latestBlock => \A g \in Handler : ~SiblingUnderWay(g)'

StoreTypes ==
  /\ latestBlock \in Block
  /\ DOMAIN blockDB # {} /\ \E n \in Nat : DOMAIN blockDB \subseteq 0..n
  /\ \A n \in DOMAIN blockDB : blockDB[n] \in Block

\* The block of a handler past the header check is a child of the latest
\* block, or it will be refused.
Followed(h) ==
  /\ task[h].block.parentHash = latestBlock.hash
  /\ Verified(h) => task[h].block.blockNumber = latestBlock.blockNumber + 1

Refused(h) ==
  At(h, "order") /\ (task[h].block.rootOk => task[h].block.blockNumber <= latestBlock.blockNumber)

HandInv ==
  /\ AInv /\ StoreTypes /\ BootInv
  /\ \A h \in Handler : task[h].pc \notin {"idle", "clear"} => Followed(h) \/ Refused(h)

LEMMA HasGreatest ==
  ASSUME NEW db, DOMAIN db # {}, NEW n \in Nat, DOMAIN db \subseteq 0..n
  PROVE  Highest(db) \in DOMAIN db
<1> DEFINE S == {k \in Nat : \A T \in SUBSET (0..k) : T # {} => \E m \in T : \A l \in T : l <= m}
<1>1. 0 \in S
  <2>1. ASSUME NEW T \in SUBSET (0..0), T # {}
        PROVE  \E m \in T : \A l \in T : l <= m
    <3>1. PICK m : m \in T
      BY <2>1
    <3>2. m = 0 /\ \A l \in T : l = 0
      BY <3>1
    <3>3. \A l \in T : l <= m
      BY <3>2
    <3> QED
      BY <3>1, <3>3
  <2> QED
    BY <2>1
<1>2. ASSUME NEW k \in Nat, k \in S PROVE k + 1 \in S
  <2> SUFFICES ASSUME NEW T \in SUBSET (0..(k + 1)), T # {}
               PROVE  \E m \in T : \A l \in T : l <= m
    OBVIOUS
  <2>1. CASE k + 1 \in T
    BY <2>1
  <2>2. CASE k + 1 \notin T
    <3>1. T \in SUBSET (0..k)
      BY <2>2
    <3> QED
      BY <1>2, <3>1
  <2> QED
    BY <2>1, <2>2
<1>3. Nat \subseteq S
  <2> HIDE DEF S
  <2> QED
    BY <1>1, <1>2, SettleFold!Induction
<1>4. \E m \in DOMAIN db : \A l \in DOMAIN db : l <= m
  BY <1>3
<1> QED
  BY <1>4 DEF Highest

\* What a step of a handler does to the handlers.
LEMMA StepHands ==
  ASSUME NEW h \in Handler, DOMAIN task = Handler, IsTask(task[h]), Step(h)
  PROVE  /\ DOMAIN task' = Handler /\ \A g \in Handler : g # h => task'[g] = task[g]
         /\ task[h].pc # "idle" /\ UNCHANGED booted
         /\ \/ /\ Indexing(h) /\ latestBlock' = task[h].block /\ task'[h].pc = "clear"
               /\ task'[h].block = task[h].block
            \/ /\ UNCHANGED latestBlock
               /\ \/ task'[h].pc \in {"idle", "clear"}
                  \/ /\ task'[h].block = task[h].block /\ task'[h].pc # "order"
                     /\ \/ Verified(h)
                        \/ At(h, "order") /\ \E now \in Clock : BodyFits(task[h].block, now)
<1> USE DEF IsTask, IdleTask, At, Verified, Accepted, Indexing, Finish, Goto, chainInfo, process
<1>2. CASE CheckOrder(h)
  BY <1>2 DEF CheckOrder
<1>3. CASE Replay(h)
  BY <1>3 DEF Replay
<1>4. CASE FlushState(h)
  BY <1>4 DEF FlushState
<1>5. CASE FlushCode(h)
  BY <1>5 DEF FlushCode, AfterFlush
<1>6. CASE UpdateDifficulty(h) \/ PutBlock(h)
  BY <1>6 DEF UpdateDifficulty, PutBlock
<1>7. CASE PutBhash(h) \/ PutTxhash(h)
  BY <1>7 DEF PutBhash, PutTxhash, AfterIndex
<1>8. CASE Relay(h)
  BY <1>8 DEF Relay
<1> QED
  BY <1>2, <1>3, <1>4, <1>5, <1>6, <1>7, <1>8 DEF Step

LEMMA StepStoreTypes ==
  ASSUME AInv, StoreTypes, NEW h \in Handler, Step(h)
  PROVE  StoreTypes'
<1>1. /\ DOMAIN task = Handler /\ IsTask(task[h])
  BY DEF AInv, TaskOK
<1>2. latestBlock' \in Block
  BY <1>1, StepHands DEF StoreTypes, IsTask, Block, Indexing, At
<1>3. CASE PutBlock(h)
  <2>1. task[h].block \in Block /\ task[h].block.blockNumber \in Nat
    BY <1>1, <1>3, IntakeAssumption DEF PutBlock, At, IsTask, Block
  <2>2. /\ DOMAIN blockDB' = DOMAIN blockDB \cup {task[h].block.blockNumber}
        /\ \A n \in DOMAIN blockDB' : blockDB'[n] \in {task[h].block, blockDB[n]}
        /\ \A n \in DOMAIN blockDB' : n \in DOMAIN blockDB \/ blockDB'[n] = task[h].block
    BY <1>3 DEF PutBlock, Put
  <2>3. PICK n \in Nat : DOMAIN blockDB \subseteq 0..n
    BY DEF StoreTypes
  <2>4. n + task[h].block.blockNumber \in Nat
        /\ DOMAIN blockDB' \subseteq 0..(n + task[h].block.blockNumber)
    BY <2>1, <2>2, <2>3
  <2>5. \A m \in DOMAIN blockDB' : blockDB'[m] \in Block
    BY <2>1, <2>2 DEF StoreTypes
  <2> QED
    BY <1>2, <2>2, <2>4, <2>5 DEF StoreTypes
<1>4. CASE ~PutBlock(h)
  <2>1. UNCHANGED blockDB
    <3>1. CheckOrder(h) \/ Replay(h) \/ UpdateDifficulty(h) \/ Relay(h) => UNCHANGED stores
      BY DEF CheckOrder, Replay, UpdateDifficulty, Relay
    <3>2. FlushState(h) \/ FlushCode(h) => UNCHANGED blockDB
      BY DEF FlushState, FlushCode
    <3>3. PutBhash(h) \/ PutTxhash(h) => UNCHANGED blockDB
      BY DEF PutBhash, PutTxhash
    <3> QED
      BY <1>4, <3>1, <3>2, <3>3 DEF Step, stores
  <2> QED
    BY <1>2, <2>1 DEF StoreTypes
<1> QED
  BY <1>3, <1>4

LEMMA StepHandInv ==
  ASSUME HandInv, OvertakesNoSibling, NEW h \in Handler, Step(h)
  PROVE  /\ HandInv'
         /\ latestBlock' # latestBlock => latestBlock'.parentHash = latestBlock.hash
<1>1. AInv' /\ StoreTypes'
  BY StepAInv, StepStoreTypes DEF HandInv
<1>2. \A g \in Handler : IsTask(task[g])
  BY DEF HandInv, AInv, TaskOK
<1> DOMAIN task = Handler
  BY DEF HandInv, AInv
<1>3. task[h].pc # "idle" /\ booted /\ booted'
  BY <1>2, StepHands DEF HandInv, BootInv, Quiet, At
<1>4. CASE Indexing(h) /\ latestBlock' = task[h].block /\ task'[h].pc = "clear"
  <2>1. Followed(h) /\ latestBlock'.blockNumber = latestBlock.blockNumber + 1
    BY <1>4 DEF HandInv, Followed, Refused, Indexing, Verified, Accepted, At
  <2>2. latestBlock'.parentHash = latestBlock.hash
    BY <1>4, <2>1 DEF Followed
  <2>3. latestBlock.blockNumber \in Nat /\ latestBlock' # latestBlock
    BY <2>1, IntakeAssumption DEF HandInv, StoreTypes
  <2>4. ASSUME NEW g \in Handler, task'[g].pc \notin {"idle", "clear"}
        PROVE  Refused(g)'
    <3>1. g # h /\ task'[g] = task[g] /\ ~SiblingUnderWay(g)' /\ task[g].block.blockNumber \in Nat
      BY <1>2, <1>3, <1>4, <2>3, <2>4, StepHands, IntakeAssumption
         DEF HandInv, OvertakesNoSibling, IsTask, Block
    <3>2. CASE Followed(g)
      <4>1. ~Verified(g) /\ At(g, "order")
        BY <1>2, <2>2, <2>4, <3>1, <3>2
           DEF Followed, SiblingUnderWay, Verified, Accepted, At, IsTask, PC
      <4> QED
        BY <2>1, <2>2, <2>3, <3>1, <3>2, <4>1 DEF Followed, SiblingUnderWay, Refused, At
    <3>3. CASE Refused(g)
      BY <2>1, <2>3, <3>1, <3>3 DEF Refused, At
    <3> QED
      BY <2>4, <3>1, <3>2, <3>3 DEF HandInv
  <2> QED
    BY <1>1, <1>3, <2>2, <2>4 DEF HandInv, BootInv
<1>5. CASE UNCHANGED latestBlock
  <2>1. ASSUME NEW g \in Handler, task'[g].pc \notin {"idle", "clear"}
        PROVE  Followed(g)' \/ Refused(g)'
    <3>1. CASE g # h
      BY <1>2, <1>5, <2>1, <3>1, StepHands DEF HandInv, Followed, Refused, Verified, Accepted, At
    <3>2. CASE g = h /\ Indexing(h) /\ task'[h].pc = "clear"
      BY <2>1, <3>2
    <3>3. CASE /\ g = h /\ task'[h].block = task[h].block /\ task'[h].pc # "order"
               /\ \/ Verified(h)
                  \/ At(h, "order") /\ \E now \in Clock : BodyFits(task[h].block, now)
      <4>1. Followed(h) /\ task[h].block.blockNumber = latestBlock.blockNumber + 1
        <5>1. latestBlock.blockNumber \in Nat
          BY IntakeAssumption DEF HandInv, StoreTypes
        <5> QED
          BY <3>3, <5>1 DEF HandInv, Followed, Refused, BodyFits, Verified, Accepted, At
      <4> QED
        BY <1>5, <3>3, <4>1 DEF Followed
    <3> QED
      BY <1>2, <2>1, <3>1, <3>2, <3>3, StepHands DEF HandInv
  <2> QED
    BY <1>1, <1>3, <1>5, <2>1 DEF HandInv, BootInv
<1> QED
  BY <1>2, <1>4, <1>5, StepHands

LEMMA ReceiveHandInv ==
  ASSUME HandInv, NEW h \in Handler, NEW block \in PeerBlock, Receive(h, block)
  PROVE  HandInv' /\ UNCHANGED latestBlock
<1>1. /\ AInv' /\ UNCHANGED <<latestBlock, blockDB, booted>> /\ DOMAIN task = Handler
      /\ block.parentHash = latestBlock.hash
  <2>1. AInv' /\ DOMAIN task = Handler
    BY ReceiveAInv DEF HandInv, AInv
  <2>2. UNCHANGED <<latestBlock, blockDB, booted>> /\ block.parentHash = latestBlock.hash
    BY DEF Receive, HeaderFits, stores, process
  <2> QED
    BY <2>1, <2>2
<1>2. booted
  BY <1>1, BootBlockAssumption DEF HandInv, BootInv
<1>3. ASSUME NEW g \in Handler, task'[g].pc \notin {"idle", "clear"}
      PROVE  Followed(g)' \/ Refused(g)'
  <2>1. CASE task'[g] = task[g]
    BY <1>1, <1>3, <2>1 DEF HandInv, Followed, Refused, Verified, Accepted, At
  <2>2. CASE /\ task'[g].block = block
             /\ \/ task'[g].pc = "order"
                \/ \E now \in Clock : BodyFits(block, now)
    BY <1>1, <2>2 DEF Followed, BodyFits, Verified, Accepted, At
  <2> QED
    BY <1>1, <2>1, <2>2 DEF Receive, IdleTask
<1> QED
  BY <1>1, <1>2, <1>3 DEF HandInv, StoreTypes, BootInv

LEMMA NextHandInv ==
  ASSUME HandInv, [Next]_vars, [OvertakesNoSibling]_vars
  PROVE  /\ HandInv'
         /\ booted /\ booted' /\ latestBlock' # latestBlock
              => latestBlock'.parentHash = latestBlock.hash
<1>1. AInv'
  BY NextAInv DEF HandInv
<1>2. CASE UNCHANGED vars \/ \E block \in PeerBlock : Discard(block)
  <2>1. UNCHANGED <<latestBlock, blockDB, booted, task>>
    BY <1>2 DEF vars, stores, chainInfo, process, Discard
  <2> QED
    BY <1>1, <2>1 DEF HandInv, StoreTypes, BootInv, Quiet, Followed, Refused, Verified, Accepted, At
<1>3. CASE \E h \in Handler, block \in PeerBlock : Receive(h, block)
  BY <1>3, ReceiveHandInv
<1>4. CASE OvertakesNoSibling /\ \E h \in Handler : Step(h)
  BY <1>4, StepHandInv
<1>5. CASE Restart
  <2>1. \A h \in Handler : task'[h].pc = "idle"
    BY <1>5 DEF Restart, IdleTask
  <2>2. /\ UNCHANGED blockDB /\ booted' = FALSE
        /\ latestBlock' = BootBlock /\ BootBlock \in Block
    BY <1>5 DEF Restart, stores, Block
  <2> QED
    BY <1>1, <2>1, <2>2 DEF HandInv, StoreTypes, BootInv, Quiet, At
<1>6. CASE LoadChain
  <2>1. /\ ~booted /\ booted' /\ UNCHANGED <<blockDB, task>>
        /\ latestBlock' = blockDB[Highest(blockDB)]
    BY <1>6 DEF LoadChain, stores
  <2>2. \A h \in Handler : task'[h].pc = "idle"
    BY <2>1 DEF HandInv, BootInv, Quiet, At
  <2>3. latestBlock' \in Block
    BY <2>1, HasGreatest DEF HandInv, StoreTypes
  <2> QED
    BY <1>1, <2>1, <2>2, <2>3 DEF HandInv, StoreTypes, BootInv
<1> QED
  BY <1>2, <1>3, <1>4, <1>5, <1>6 DEF Next

LEMMA InitHandInv == Init => HandInv
<1> SUFFICES ASSUME Init PROVE HandInv
  OBVIOUS
<1>1. AInv
  BY InitAInv
<1>2. StoreTypes
  <2>1. DOMAIN blockDB = {1} /\ blockDB[1] = Genesis /\ latestBlock = Genesis
    BY DEF Init
  <2>2. {1} \subseteq 0..1 /\ 1 \in Nat
    OBVIOUS
  <2> QED
    BY <2>1, <2>2 DEF StoreTypes, Block
<1> QED
  BY <1>1, <1>2 DEF Init, HandInv, BootInv, IdleTask

\* A running node replaces its latest block by a child of it, whatever blocks
\* arrive, in however many handlers and through crashes, until a block
\* becomes the latest while a sibling of it is under way: that is the one
\* event that breaks it.
THEOREM OnlyAdoptsChildren == Spec /\ [][OvertakesNoSibling]_vars => AdoptsChild
<1>1. Init => HandInv
  BY InitHandInv
<1>2. HandInv /\ [Next]_vars /\ [OvertakesNoSibling]_vars =>
        /\ HandInv'
        /\ [booted /\ booted' /\ latestBlock' # latestBlock
              => latestBlock'.parentHash = latestBlock.hash]_vars
  BY NextHandInv
<1> QED
  BY <1>1, <1>2, PTL DEF AdoptsChild, Spec

\* Where honest mining has produced no siblings the event does not happen.
THEOREM NothingToOvertake ==
  ASSUME NoSiblings
  PROVE  Spec => [][OvertakesNoSibling]_vars
<1>1. IInv /\ IInv' /\ [Next]_vars => [OvertakesNoSibling]_vars
  <2> SUFFICES ASSUME IInv, IInv', Next, booted, booted', latestBlock' # latestBlock,
                      NEW g \in Handler, SiblingUnderWay(g)'
               PROVE  FALSE
    BY DEF OvertakesNoSibling
  <2>1. PICK h \in Handler :
          /\ Indexing(h) /\ task'[h].pc = "clear"
          /\ \A f \in Handler : f # h => task'[f] = task[f]
    <3>1. PICK h \in Handler : Step(h)
      <4>1. UNCHANGED vars => UNCHANGED latestBlock
        BY DEF vars, chainInfo
      <4> QED
        BY <4>1 DEF Next, Discard, Receive, Restart, LoadChain
    <3>2. DOMAIN task = Handler /\ IsTask(task[h])
      BY DEF IInv, TypeOK
    <3> QED
      BY <3>1, <3>2, StepHands
  <2>2. g # h /\ Live(g)
    BY <2>1 DEF SiblingUnderWay, Verified, Accepted, Live, At, IInv, TaskInv
  <2>3. Live(h)
    BY <2>1 DEF IInv, TaskInv, Live, Verified, Accepted, Indexing, At
  <2> QED
    BY <2>2, <2>3 DEF IInv, Unique
<1> QED
  BY <1>1, Invariance, PTL DEF Spec

-----------------------------------------------------------------------------
(* Difficulty and the index of a node that does not crash.                 *)

\* A handler past the retarget.
Targeted(h) == task[h].pc \in {"blockDB", "bhashDB", "txhashDB"}

\* A block was mined for the difficulty its handler found; after the retarget
\* the difficulty is the one that follows the block.
DInv ==
  /\ booted
  /\ \A h \in Handler :
       /\ Live(h) /\ ~Targeted(h) => task[h].block.difficulty = difficulty
       /\ Targeted(h) => difficulty = NextDifficulty(blockDB, task[h].block)
  /\ (\A h \in Handler : ~Targeted(h)) => difficulty = NextDifficulty(blockDB, latestBlock)

\* The process has not crashed.
NoCrash == restarts = 0

LEMMA NoRestart ==
  ASSUME IInv, NoCrash'
  PROVE  ~Restart
BY DEF IInv, TypeOK, Restart, NoCrash

LEMMA NotAtEpoch ==
  ASSUME NEW db, NEW last, last.blockNumber % Epoch # 0
  PROVE  NextDifficulty(db, last) = last.difficulty
BY DEF NextDifficulty

LEMMA InitDInv == Init => DInv
<1> SUFFICES ASSUME Init PROVE DInv
  OBVIOUS
<1>1. 1 % Epoch # 0
  BY IntakeAssumption
<1>2. latestBlock = Genesis /\ difficulty = Genesis.difficulty /\ booted
      /\ \A h \in Handler : task[h].pc = "idle"
  BY DEF Init, IdleTask
<1>3. difficulty = NextDifficulty(blockDB, latestBlock)
  BY <1>1, <1>2, NotAtEpoch, IntakeAssumption
<1> QED
  BY <1>2, <1>3 DEF DInv, Live, Targeted

\* At most one handler is live, so at most one is past the retarget.
LEMMA OnlyOneTargeted ==
  ASSUME IInv, NEW h \in Handler, Verified(h)
  PROVE  Live(h) /\ \A g \in Handler : g # h => ~Live(g) /\ ~Targeted(g)
BY DEF IInv, Unique, TaskInv, Live, Verified, Accepted, Targeted, At

\* A step that leaves the chain and the difficulty alone.
LEMMA DFrame ==
  ASSUME DInv, UNCHANGED <<blockDB, latestBlock, difficulty, booted>>,
         \A h \in Handler :
           /\ Targeted(h)' <=> Targeted(h)
           /\ Targeted(h) => task'[h].block = task[h].block
           /\ Live(h)' /\ ~Targeted(h)' =>
                \/ Live(h) /\ task'[h].block = task[h].block
                \/ task'[h].block.difficulty = difficulty
  PROVE  DInv'
BY DEF DInv

LEMMA ReceiveDInv ==
  ASSUME IInv, DInv, NEW h \in Handler, NEW block \in PeerBlock, Receive(h, block)
  PROVE  DInv'
<1>1. /\ UNCHANGED <<blockDB, latestBlock, difficulty, booted>>
      /\ At(h, "idle") /\ block.difficulty = difficulty
      /\ \/ task' = task
         \/ \E pc \in {"order", "replay"} :
              task' = [task EXCEPT ![h] = [IdleTask EXCEPT !.pc = pc, !.block = block]]
  BY DEF Receive, HeaderFits, stores, process
<1>2. /\ \A g \in Handler : g # h => task'[g] = task[g]
      /\ task'[h] = task[h] \/ (task'[h].pc \in {"order", "replay"} /\ task'[h].block = block)
  BY <1>1 DEF IInv, TypeOK, IdleTask
<1> QED
  BY <1>1, <1>2, DFrame DEF Targeted, Live, At

\* The steps of a handler before the retarget.
LEMMA EarlyDInv ==
  ASSUME IInv, AInv, DInv, NEW h \in Handler,
         CheckOrder(h) \/ Replay(h) \/ FlushState(h) \/ Relay(h)
  PROVE  DInv'
<1>1. /\ UNCHANGED <<blockDB, latestBlock, difficulty, booted>>
      /\ task[h].pc \in {"order", "replay", "flushState", "clear"}
      /\ \/ task'[h].pc = "idle"
         \/ ~At(h, "clear") /\ task'[h].pc \in {"replay", "flushState", "flushCode"}
  <2> USE DEF At
  <2>1. CASE CheckOrder(h)
    BY <2>1 DEF CheckOrder, Goto, Finish, IdleTask, IInv, TypeOK, IsTask, stores, chainInfo, process
  <2>2. CASE Replay(h)
    BY <2>2 DEF Replay, Finish, IdleTask, IInv, TypeOK, IsTask, stores, chainInfo, process
  <2>3. CASE FlushState(h)
    <3>1. DOMAIN task = Handler /\ IsTask(task[h])
      BY DEF IInv, TypeOK
    <3>2. PICK a \in task[h].unwritten :
            task' = [task EXCEPT ![h].pc = "flushCode", ![h].account = a,
                                 ![h].unwritten = @ \ {a}]
      BY <2>3 DEF FlushState
    <3>3. task'[h].pc = "flushCode"
      BY <3>1, <3>2 DEF IsTask
    <3> QED
      BY <2>3, <3>3 DEF FlushState, chainInfo, process
  <2>4. CASE Relay(h)
    BY <2>4 DEF Relay, Finish, IdleTask, IInv, TypeOK, stores, chainInfo, process
  <2> QED
    BY <2>1, <2>2, <2>3, <2>4
<1>2. /\ \A g \in Handler : g # h => task'[g] = task[g]
      /\ task'[h].pc = "idle" \/ task'[h].block = task[h].block
  BY StepFrame DEF Step, At
<1>3. /\ ~Targeted(h) /\ ~Targeted(h)'
      /\ Live(h)' => Live(h) /\ task'[h].block = task[h].block
  BY <1>1, <1>2 DEF Targeted, Live, At
<1>4. \A g \in Handler : g # h => (Targeted(g)' <=> Targeted(g)) /\ (Live(g)' => Live(g))
  BY <1>2 DEF Targeted, Live
<1> QED
  BY <1>1, <1>2, <1>3, <1>4, DFrame

LEMMA FlushCodeDInv ==
  ASSUME IInv, AInv, DInv, NEW h \in Handler, FlushCode(h)
  PROVE  DInv'
<1>1. /\ UNCHANGED <<blockDB, latestBlock, difficulty, booted>> /\ At(h, "flushCode")
      /\ Verified(h)
  BY DEF FlushCode, chainInfo, process, Verified, Accepted, At
<1>2. /\ Live(h) /\ ~Targeted(h)
      /\ \A g \in Handler : g # h => ~Live(g) /\ ~Targeted(g) /\ task'[g] = task[g]
  BY <1>1, OnlyOneTargeted, StepFrame DEF Step, Targeted, At
<1>3. /\ task[h].block.difficulty = difficulty
      /\ difficulty = NextDifficulty(blockDB, latestBlock)
  BY <1>2 DEF DInv
<1>4. \/ task'[h].pc = "idle"
      \/ task'[h].block = task[h].block /\ task'[h].pc \in {"flushState", "difficulty"}
      \/ /\ task'[h].block = task[h].block /\ task'[h].pc = "blockDB"
         /\ task[h].block.blockNumber % Epoch # 0
  BY DEF FlushCode, Goto, Finish, AfterFlush, IdleTask, IInv, TypeOK, IsTask
<1>5. task'[h].pc = "blockDB" => difficulty = NextDifficulty(blockDB, task'[h].block)
  BY <1>3, <1>4, NotAtEpoch
<1> QED
  BY <1>1, <1>2, <1>3, <1>4, <1>5 DEF DInv, Targeted, Live

LEMMA UpdateDifficultyDInv ==
  ASSUME IInv, AInv, DInv, NEW h \in Handler, UpdateDifficulty(h)
  PROVE  DInv'
<1> DEFINE block == task[h].block
<1>1. /\ UNCHANGED <<blockDB, latestBlock, booted>> /\ Verified(h) /\ ~Targeted(h)
      /\ task'[h].pc = "blockDB" /\ task'[h].block = block
      /\ block.blockNumber % Epoch = 0
  BY DEF UpdateDifficulty, Goto, stores, process, Verified, Accepted, Targeted, At,
         IInv, TypeOK, IsTask, IdleTask, TaskInv
<1>2. /\ Live(h)
      /\ \A g \in Handler : g # h => ~Live(g) /\ ~Targeted(g) /\ task'[g] = task[g]
  BY <1>1, OnlyOneTargeted, StepFrame DEF Step
<1>3. block.difficulty = difficulty
  BY <1>1, <1>2 DEF DInv
<1>4. difficulty' = NextDifficulty(blockDB, block)
  BY <1>1, <1>3 DEF UpdateDifficulty, NextDifficulty
<1> HIDE DEF block
<1> QED
  BY <1>1, <1>2, <1>4 DEF DInv, Targeted, Live

\* The retarget looks at blocks below the one that is written.
LEMMA PutBlockDInv ==
  ASSUME IInv, AInv, DInv, NEW h \in Handler, PutBlock(h)
  PROVE  DInv'
<1> DEFINE block == task[h].block
           old == block.blockNumber - (Epoch - 1)
<1>1. /\ UNCHANGED <<latestBlock, difficulty, booted>> /\ Verified(h) /\ Targeted(h) /\ At(h, "blockDB")
      /\ task'[h].pc = "bhashDB" /\ task'[h].block = block
      /\ blockDB' = Put(blockDB, block.blockNumber, block)
  BY DEF PutBlock, Goto, chainInfo, process, Verified, Accepted, Targeted, At,
         IInv, TypeOK, IsTask, IdleTask
<1>2. /\ Live(h)
      /\ \A g \in Handler : g # h => ~Live(g) /\ ~Targeted(g) /\ task'[g] = task[g]
  BY <1>1, OnlyOneTargeted, StepFrame DEF Step
<1>3. difficulty = NextDifficulty(blockDB, block)
  BY <1>1 DEF DInv
<1>4. /\ latestBlock.blockNumber \in DOMAIN blockDB /\ latestBlock.blockNumber \in Nat
      /\ block.blockNumber = latestBlock.blockNumber + 1
      /\ Epoch \in Nat \ {0, 1}
  BY <1>1, IntakeAssumption DEF IInv, TypeOK, TipInv, TaskInv, DInv
<1>5. block.blockNumber % Epoch = 0 => old \in DOMAIN blockDB /\ old # block.blockNumber
  <2> SUFFICES ASSUME block.blockNumber % Epoch = 0
               PROVE  old \in DOMAIN blockDB /\ old # block.blockNumber
    OBVIOUS
  <2>1. block.blockNumber \in Nat \ {0}
    BY <1>4
  <2>2. block.blockNumber >= Epoch
    BY <2>1, EpochReached
  <2>3. old >= 1 /\ old <= latestBlock.blockNumber /\ old \in Nat
    BY <1>4, <2>2
  <2> QED
    BY <1>4, <2>3 DEF IInv, ChainInv, Dense
<1>6. block.blockNumber % Epoch = 0 => blockDB'[old] = blockDB[old]
  BY <1>1, <1>5 DEF Put
<1>7. NextDifficulty(blockDB', block) = NextDifficulty(blockDB, block)
  BY <1>6 DEF NextDifficulty
<1> HIDE DEF block
<1> QED
  BY <1>1, <1>2, <1>3, <1>7 DEF DInv, Targeted, Live

LEMMA IndexDInv ==
  ASSUME IInv, AInv, DInv, NEW h \in Handler, PutBhash(h) \/ PutTxhash(h)
  PROVE  DInv'
<1>1. /\ UNCHANGED <<blockDB, difficulty, booted>> /\ Verified(h) /\ Targeted(h)
      /\ task'[h].block = task[h].block
      /\ \/ task'[h].pc = "txhashDB" /\ UNCHANGED latestBlock
         \/ task'[h].pc = "clear" /\ latestBlock' = task[h].block
  BY DEF PutBhash, PutTxhash, AfterIndex, Goto, process, Verified, Accepted, Targeted, At,
         IInv, TypeOK, IsTask, IdleTask
<1>2. /\ Live(h)
      /\ \A g \in Handler : g # h => ~Live(g) /\ ~Targeted(g) /\ task'[g] = task[g]
  BY <1>1, OnlyOneTargeted, StepFrame DEF Step
<1>3. difficulty = NextDifficulty(blockDB, task[h].block)
  BY <1>1 DEF DInv
<1> QED
  BY <1>1, <1>2, <1>3 DEF DInv, Targeted, Live

LEMMA NextDInv ==
  ASSUME NoCrash', IInv, AInv, DInv, [Next]_vars
  PROVE  DInv'
<1>1. CASE UNCHANGED vars \/ \E block \in PeerBlock : Discard(block)
  <2>1. UNCHANGED <<task, blockDB, latestBlock, difficulty, booted>>
    BY <1>1 DEF vars, stores, chainInfo, process, Discard
  <2> QED
    BY <2>1, DFrame DEF Targeted, Live
<1>2. CASE \E h \in Handler, block \in PeerBlock : Receive(h, block)
  BY <1>2, ReceiveDInv
<1>3. CASE \E h \in Handler : Step(h)
  BY <1>3, EarlyDInv, FlushCodeDInv, UpdateDifficultyDInv, PutBlockDInv, IndexDInv DEF Step
<1>4. ~LoadChain
  BY DEF LoadChain, DInv
<1> QED
  BY <1>1, <1>2, <1>3, <1>4, NoRestart DEF Next

\* Whatever its handlers interleave, a node that does not crash asks of the
\* next block the difficulty that its stored chain determines.
THEOREM DifficultyIsOfChain ==
  ASSUME NoSiblings
  PROVE  Spec /\ []NoCrash => []DifficultyFollowsChain
<1>1. Init => AInv /\ DInv
  BY InitAInv, InitDInv
<1>2. NoCrash' /\ IInv /\ AInv /\ DInv /\ [Next]_vars => AInv' /\ DInv'
  BY NextAInv, NextDInv
<1>3. DInv => DifficultyFollowsChain
  BY DEF DInv, DifficultyFollowsChain, Accepted, Targeted
<1> QED
  BY <1>1, <1>2, <1>3, Invariance, PTL DEF Spec

\* Hashes name blocks.
DistinctHashes == \A a, b \in Block : a.hash = b.hash => a = b

\* The blocks that have been entered in the index of hashes.
Entered(n) ==
  \/ n <= latestBlock.blockNumber
  \/ \E h \in Handler : At(h, "txhashDB") /\ blockDB[n] = task[h].block

HashInv ==
  /\ booted
  /\ \A n \in DOMAIN blockDB : Entered(n) =>
       blockDB[n].hash \in DOMAIN bhashDB /\ bhashDB[blockDB[n].hash] = n

LEMMA InitHashInv == Init => HashInv
<1> SUFFICES ASSUME Init PROVE HashInv
  OBVIOUS
<1>1. /\ booted /\ DOMAIN blockDB = {1} /\ blockDB[1] = Genesis
      /\ bhashDB = [hash \in {Genesis.hash} |-> 1]
  BY DEF Init
<1> QED
  BY <1>1 DEF HashInv

\* A step that leaves the index of hashes alone and enters no block.
LEMMA HashFrame ==
  ASSUME HashInv, UNCHANGED <<blockDB, bhashDB, booted>>,
         \A n \in DOMAIN blockDB : Entered(n)' => Entered(n)
  PROVE  HashInv'
BY DEF HashInv

LEMMA PutBlockHashInv ==
  ASSUME IInv, AInv, HashInv, NEW h \in Handler, PutBlock(h)
  PROVE  HashInv'
<1> DEFINE block == task[h].block
           last == latestBlock.blockNumber
<1>1. /\ UNCHANGED <<bhashDB, latestBlock, booted>> /\ Verified(h) /\ At(h, "blockDB")
      /\ task'[h].pc = "bhashDB"
      /\ blockDB' = Put(blockDB, block.blockNumber, block)
  BY DEF PutBlock, Goto, chainInfo, process, Verified, Accepted, At, IInv, TypeOK, IsTask, IdleTask
<1>2. \A g \in Handler : g # h => ~Indexing(g) /\ task'[g] = task[g]
  BY <1>1, OnlyOneTargeted, StepFrame DEF Step, Indexing, Targeted, At
<1>3. \A n \in DOMAIN blockDB' : Entered(n)' => n <= last
  BY <1>1, <1>2 DEF Entered, At, Indexing
<1>4. /\ last \in Nat /\ last \in DOMAIN blockDB /\ block.blockNumber = last + 1
  BY <1>1, IntakeAssumption DEF IInv, TypeOK, TipInv, TaskInv, HashInv
<1>5. ASSUME NEW n \in DOMAIN blockDB', n <= last
      PROVE  n \in DOMAIN blockDB /\ blockDB'[n] = blockDB[n] /\ Entered(n)
  <2>1. n # block.blockNumber
    BY <1>4, <1>5
  <2> QED
    BY <1>1, <1>5, <2>1 DEF Put, Entered
<1> QED
  BY <1>1, <1>3, <1>5 DEF HashInv

LEMMA PutBhashHashInv ==
  ASSUME DistinctHashes, IInv, AInv, HashInv, NEW h \in Handler, PutBhash(h)
  PROVE  HashInv'
<1> DEFINE block == task[h].block
<1>1. /\ UNCHANGED <<blockDB, booted>> /\ Verified(h) /\ Indexing(h)
      /\ bhashDB' = Put(bhashDB, block.hash, block.blockNumber)
      /\ task'[h].block = block
      /\ \/ task'[h].pc = "txhashDB" /\ UNCHANGED latestBlock
         \/ task'[h].pc = "clear" /\ latestBlock' = block
  BY DEF PutBhash, AfterIndex, Goto, process, Verified, Accepted, Indexing, At,
         IInv, TypeOK, IsTask, IdleTask
<1>2. \A g \in Handler : g # h => ~At(g, "txhashDB") /\ task'[g] = task[g]
  BY <1>1, OnlyOneTargeted, StepFrame DEF Step, Targeted, At
<1>3. /\ block.blockNumber = latestBlock.blockNumber + 1
      /\ block.blockNumber \in DOMAIN blockDB /\ blockDB[block.blockNumber] = block
      /\ latestBlock.blockNumber \in Nat
      /\ \A n \in DOMAIN blockDB : n \in Nat /\ blockDB[n] \in Block /\ blockDB[n].blockNumber = n
  BY <1>1, IntakeAssumption DEF IInv, TypeOK, ChainInv, TaskInv
<1>4. ASSUME NEW n \in DOMAIN blockDB, Entered(n)'
      PROVE  n = block.blockNumber \/ Entered(n)
  <2>1. CASE n <= latestBlock'.blockNumber
    <3>1. latestBlock' = block => n <= latestBlock.blockNumber + 1
      BY <1>3, <2>1
    <3>2. latestBlock' = latestBlock => n <= latestBlock.blockNumber
      BY <2>1
    <3> QED
      BY <1>1, <1>3, <3>1, <3>2 DEF Entered
  <2>2. ASSUME NEW g \in Handler, At(g, "txhashDB")', blockDB'[n] = task'[g].block
        PROVE  n = block.blockNumber
    <3>1. g = h
      BY <1>2, <2>2 DEF At
    <3> QED
      BY <1>1, <1>3, <2>2, <3>1
  <2> QED
    BY <1>4, <2>1, <2>2 DEF Entered
<1>5. ASSUME NEW n \in DOMAIN blockDB, n = block.blockNumber \/ Entered(n)
      PROVE  blockDB[n].hash \in DOMAIN bhashDB' /\ bhashDB'[blockDB[n].hash] = n
  <2>1. block \in Block
    BY <1>3
  <2>2. CASE n = block.blockNumber
    BY <1>1, <1>3, <2>2 DEF Put
  <2>3. CASE n # block.blockNumber
    <3>1. blockDB[n].hash # block.hash
      BY <1>3, <2>1, <2>3 DEF DistinctHashes
    <3> QED
      BY <1>1, <1>5, <2>3, <3>1 DEF Put, HashInv
  <2> QED
    BY <2>2, <2>3
<1> QED
  BY <1>1, <1>4, <1>5 DEF HashInv

LEMMA PutTxhashHashInv ==
  ASSUME IInv, AInv, HashInv, NEW h \in Handler, PutTxhash(h)
  PROVE  HashInv'
<1> DEFINE block == task[h].block
<1>1. /\ UNCHANGED <<blockDB, bhashDB, booted>> /\ Verified(h) /\ Indexing(h) /\ At(h, "txhashDB")
      /\ task'[h].block = block
      /\ latestBlock' = latestBlock \/ latestBlock' = block
  BY DEF PutTxhash, AfterIndex, Goto, process, Verified, Accepted, Indexing, At,
         IInv, TypeOK, IsTask, IdleTask
<1>2. \A g \in Handler : g # h => ~At(g, "txhashDB") /\ task'[g] = task[g]
  BY <1>1, OnlyOneTargeted, StepFrame DEF Step, Targeted, At
<1>3. /\ block.blockNumber = latestBlock.blockNumber + 1
      /\ blockDB[block.blockNumber] = block
      /\ latestBlock.blockNumber \in Nat
      /\ \A n \in DOMAIN blockDB : n \in Nat
  BY <1>1, IntakeAssumption DEF IInv, TypeOK, TaskInv
<1>4. ASSUME NEW n \in DOMAIN blockDB, Entered(n)'
      PROVE  Entered(n)
  <2>1. CASE n <= latestBlock'.blockNumber
    <3>1. n <= latestBlock.blockNumber \/ n = block.blockNumber
      <4>1. latestBlock' = block => n <= latestBlock.blockNumber + 1
        BY <1>3, <2>1
      <4>2. latestBlock' = latestBlock => n <= latestBlock.blockNumber
        BY <2>1
      <4> QED
        BY <1>1, <1>3, <4>1, <4>2
    <3> QED
      BY <1>1, <1>3, <3>1 DEF Entered
  <2>2. ASSUME NEW g \in Handler, At(g, "txhashDB")', blockDB'[n] = task'[g].block
        PROVE  Entered(n)
    <3>1. g = h
      BY <1>2, <2>2 DEF At
    <3> QED
      BY <1>1, <2>2, <3>1 DEF Entered
  <2> QED
    BY <1>4, <2>1, <2>2 DEF Entered
<1> QED
  BY <1>1, <1>4, HashFrame

LEMMA NextHashInv ==
  ASSUME DistinctHashes, NoCrash', IInv, AInv, HashInv, [Next]_vars
  PROVE  HashInv'
<1>1. CASE UNCHANGED vars \/ \E block \in PeerBlock : Discard(block)
  <2>1. UNCHANGED <<task, blockDB, bhashDB, latestBlock, booted>>
    BY <1>1 DEF vars, stores, chainInfo, process, Discard
  <2> QED
    BY <2>1, HashFrame DEF Entered, At
<1>2. ASSUME NEW h \in Handler, NEW block \in PeerBlock, Receive(h, block)
      PROVE  HashInv'
  <2>1. /\ UNCHANGED <<blockDB, bhashDB, latestBlock, booted>>
        /\ \A g \in Handler : At(g, "txhashDB")' => task'[g] = task[g]
    BY <1>2 DEF Receive, At, IdleTask, IInv, TypeOK, stores, process
  <2> QED
    BY <2>1, HashFrame DEF Entered, At
<1>3. ASSUME NEW h \in Handler,
             \/ CheckOrder(h) \/ Replay(h) \/ FlushState(h) \/ FlushCode(h)
             \/ UpdateDifficulty(h) \/ Relay(h)
      PROVE  HashInv'
  <2>1. UNCHANGED <<blockDB, bhashDB, latestBlock>> /\ task'[h].pc # "txhashDB"
    <3> USE DEF IInv, TypeOK, IsTask, IdleTask
    <3>1. CASE CheckOrder(h) \/ Replay(h)
      BY <3>1 DEF CheckOrder, Replay, Goto, Finish, stores, chainInfo
    <3>2. CASE FlushState(h)
      BY <3>2 DEF FlushState, chainInfo
    <3>4. CASE FlushCode(h)
      <4>1. /\ UNCHANGED <<blockDB, bhashDB, latestBlock>>
            /\ Finish(h) \/ \E pc \in {"flushState", "difficulty", "blockDB"} : Goto(h, pc)
        BY <3>4 DEF FlushCode, AfterFlush, chainInfo
      <4> QED
        BY <4>1 DEF Goto, Finish
    <3>3. CASE UpdateDifficulty(h) \/ Relay(h)
      BY <3>3 DEF UpdateDifficulty, Relay, Goto, Finish, stores, chainInfo
    <3> QED
      BY <1>3, <3>1, <3>2, <3>3, <3>4
  <2>2. /\ UNCHANGED booted /\ \A g \in Handler : g # h => task'[g] = task[g]
    BY <1>3, StepFrame DEF Step
  <2> QED
    BY <2>1, <2>2, HashFrame DEF Entered, At
<1>4. ~LoadChain
  BY DEF LoadChain, HashInv
<1> QED
  BY <1>1, <1>2, <1>3, <1>4, NoRestart, PutBlockHashInv, PutBhashHashInv, PutTxhashHashInv
     DEF Next, Step

\* On a node that does not crash, every block of the chain is found by its hash
\* from the moment it is the latest one.
THEOREM BlocksFoundByHash ==
  ASSUME NoSiblings, DistinctHashes
  PROVE  Spec /\ []NoCrash => []BlockFoundByHash
<1>1. Init => AInv /\ HashInv
  BY InitAInv, InitHashInv
<1>2. NoCrash' /\ IInv /\ AInv /\ HashInv /\ [Next]_vars => AInv' /\ HashInv'
  BY NextAInv, NextHashInv
<1>3. IInv /\ HashInv => BlockFoundByHash
  <2> SUFFICES ASSUME IInv, HashInv, NEW n \in 1..latestBlock.blockNumber
               PROVE  blockDB[n].hash \in DOMAIN bhashDB /\ bhashDB[blockDB[n].hash] = n
    BY DEF BlockFoundByHash
  <2>1. latestBlock.blockNumber \in DOMAIN blockDB
    BY DEF HashInv, IInv, TipInv
  <2>2. n \in DOMAIN blockDB /\ n <= latestBlock.blockNumber
    BY <2>1 DEF IInv, ChainInv, Dense
  <2> QED
    BY <2>2 DEF HashInv, Entered
<1> QED
  BY <1>1, <1>2, <1>3, Invariance, PTL DEF Spec

-----------------------------------------------------------------------------
(* The implementation of LedgerLog.                                        *)

\* The code of every account that a handler is going to write has been loaded,
\* so its flush does not throw.  A contract that pays another breaks this.
CodeIsLoaded ==
  \A h \in Handler : Accepted(h) => CodeOf(task[h].work.states) \subseteq task[h].work.code

\* What a handler still has to write, and what it has written.
FlushInv(h) ==
  LET t == task[h]
  IN  /\ CodeOf(t.work.states) \subseteq t.work.code
      /\ t.unwritten \subseteq DOMAIN t.work.states
      /\ t.pc # "flushState" /\ t.pc # "flushCode" => t.unwritten = {}
      /\ t.pc = "flushCode" => t.account \in DOMAIN t.work.states
      /\ \A a \in DOMAIN t.work.states \ t.unwritten :
           /\ a \in DOMAIN stateDB => stateDB[a] = t.work.states[a]
           /\ \/ t.work.states[a].codeHash \in codeDB
              \/ t.pc = "flushCode" /\ a = t.account

RInv ==
  /\ booted
  /\ stateDB = [a \in DOMAIN stateDB |-> stateDB[a]]
  /\ blockDB = [n \in DOMAIN blockDB |-> blockDB[n]]
  /\ \A h \in Handler :
       /\ At(h, "replay") => HasValidTxOrder(stateDB, task[h].block.txs)
       /\ Accepted(h) => FlushInv(h)

LEMMA InitRInv == Init => RInv
<1> SUFFICES ASSUME Init PROVE RInv
  OBVIOUS
<1>1. stateDB = [a \in DOMAIN stateDB |-> stateDB[a]]
  BY IntakeAssumption DEF Init
<1>2. blockDB = [n \in DOMAIN blockDB |-> blockDB[n]]
  BY DEF Init
<1>3. booted /\ \A h \in Handler : ~At(h, "replay") /\ ~Accepted(h)
  BY DEF Init, At, Accepted, IdleTask
<1> QED
  BY <1>1, <1>2, <1>3 DEF RInv

\* A step that leaves the state and the accepted handlers alone.
LEMMA RFrame ==
  ASSUME RInv, UNCHANGED <<stateDB, codeDB, booted>>,
         blockDB' = [n \in DOMAIN blockDB' |-> blockDB'[n]],
         \A h \in Handler :
           /\ At(h, "replay")' => HasValidTxOrder(stateDB, task'[h].block.txs)
           /\ Accepted(h)' => \/ FlushInv(h)'
                              \/ Accepted(h) /\ task'[h] = task[h]
  PROVE  RInv'
<1>1. \A h \in Handler : Accepted(h)' => FlushInv(h)'
  BY DEF RInv, FlushInv
<1> QED
  BY <1>1 DEF RInv

LEMMA EmptyOrder ==
  ASSUME NEW db, NEW txs, txs = << >>
  PROVE  HasValidTxOrder(db, txs)
BY DEF HasValidTxOrder

\* A handler that has not been accepted, and so has no writes of its own.
LEMMA ArrivalRInv ==
  ASSUME IInv, RInv, NEW h \in Handler,
         \/ \E block \in PeerBlock : Receive(h, block)
         \/ CheckOrder(h)
         \/ Relay(h)
  PROVE  RInv'
<1>1. /\ \A g \in Handler : g # h => task'[g] = task[g]
      /\ \/ task'[h] = task[h]
         \/ /\ ~Accepted(h)'
            /\ At(h, "replay")' => HasValidTxOrder(stateDB, task'[h].block.txs)
      /\ UNCHANGED <<stateDB, codeDB, blockDB, booted>>
  <2>1. CASE \E block \in PeerBlock : Receive(h, block)
    <3>1. PICK block \in PeerBlock : Receive(h, block)
      BY <2>1
    <3>2. UNCHANGED <<stateDB, codeDB, blockDB, booted>>
      BY <3>1 DEF Receive, stores, process
    <3>3. \/ task' = [task EXCEPT ![h] = [IdleTask EXCEPT !.pc = "order", !.block = block]]
          \/ /\ block.txs = << >>
             /\ task' = [task EXCEPT ![h] = [IdleTask EXCEPT !.pc = "replay", !.block = block]]
          \/ task' = task
      BY <3>1 DEF Receive
    <3>4. DOMAIN task = Handler
      BY DEF IInv, TypeOK
    <3> QED
      BY <3>2, <3>3, <3>4, EmptyOrder DEF At, Accepted, IdleTask
  <2>2. CASE CheckOrder(h)
    BY <2>2 DEF CheckOrder, Goto, Finish, At, Accepted, IdleTask, IInv, TypeOK, IsTask, stores, process
  <2>3. CASE Relay(h)
    BY <2>3 DEF Relay, Finish, At, Accepted, IdleTask, IInv, TypeOK, stores, process
  <2> QED
    BY <2>1, <2>2, <2>3
<1>2. blockDB' = [n \in DOMAIN blockDB' |-> blockDB'[n]]
  BY <1>1 DEF RInv
<1>3. \A g \in Handler : task'[g] = task[g] =>
        /\ At(g, "replay")' => HasValidTxOrder(stateDB, task'[g].block.txs)
        /\ Accepted(g)' => Accepted(g)
  BY <1>1 DEF RInv, At, Accepted
<1> QED
  BY <1>1, <1>2, <1>3, RFrame

LEMMA DiscardRInv ==
  ASSUME IInv, RInv, NEW block \in PeerBlock, Discard(block)
  PROVE  RInv'
<1>1. UNCHANGED <<task, stateDB, codeDB, blockDB, booted>>
  BY DEF Discard, stores, process
<1> QED
  BY <1>1, RFrame DEF RInv, At, Accepted

LEMMA ReplayRInv ==
  ASSUME CodeIsLoaded', IInv, RInv, NEW h \in Handler, Replay(h)
  PROVE  RInv'
<1> DEFINE work == Transit(stateDB, codeDB, task[h].block)
<1>1. /\ UNCHANGED <<stateDB, codeDB, blockDB, booted>>
      /\ \A g \in Handler : g # h => task'[g] = task[g]
      /\ \/ work.status = "ok" /\ task'[h].pc = "flushState" /\ task'[h].work = work
            /\ task'[h].unwritten = DOMAIN work.states
         \/ task'[h].pc = "idle"
  BY DEF Replay, Finish, IInv, TypeOK, IsTask, IdleTask, stores, process
<1>2. task[h].block \in PeerBlock
  BY DEF Replay, At, IInv, TypeOK, IsTask
<1>3. Accepted(h)' => FlushInv(h)'
  BY <1>1, <1>2 DEF CodeIsLoaded, FlushInv, Accepted
<1>4. \A g \in Handler : g # h =>
        /\ At(g, "replay")' => HasValidTxOrder(stateDB, task'[g].block.txs)
        /\ Accepted(g)' => Accepted(g)
  BY <1>1 DEF RInv, At, Accepted
<1>5. ~At(h, "replay")'
  BY <1>1 DEF At
<1> QED
  BY <1>1, <1>3, <1>4, <1>5, RFrame DEF RInv

\* Only one handler at a time writes, so no other one sees a state half written.
LEMMA OnlyOneAccepted ==
  ASSUME IInv, NEW h \in Handler, Accepted(h)
  PROVE  \A g \in Handler : g # h => ~Accepted(g) /\ ~At(g, "replay")
BY DEF IInv, Unique, TaskInv, Live, Verified, Accepted, At

LEMMA FlushStateRInv ==
  ASSUME IInv, RInv, NEW h \in Handler, FlushState(h)
  PROVE  RInv'
<1> DEFINE t == task[h]
<1>1. PICK a \in t.unwritten :
        /\ stateDB' = [stateDB EXCEPT ![a] = t.work.states[a]]
        /\ task' = [task EXCEPT ![h].pc = "flushCode", ![h].account = a,
                                ![h].unwritten = @ \ {a}]
  BY DEF FlushState
<1>2. Accepted(h) /\ At(h, "flushState") /\ UNCHANGED <<codeDB, blockDB, booted>>
  BY DEF FlushState, Accepted, At, process
<1>3. /\ \A g \in Handler : g # h => task'[g] = task[g]
      /\ task'[h].pc = "flushCode" /\ task'[h].account = a
      /\ task'[h].unwritten = t.unwritten \ {a} /\ task'[h].work = t.work
  BY <1>1 DEF IInv, TypeOK, IsTask, IdleTask
<1>4. FlushInv(h)
  BY <1>2 DEF RInv
<1>5. FlushInv(h)'
  <2>1. \A b \in DOMAIN t.work.states \ (t.unwritten \ {a}) :
          /\ b \in DOMAIN stateDB' => stateDB'[b] = t.work.states[b]
          /\ t.work.states[b].codeHash \in codeDB \/ b = a
    BY <1>1, <1>2, <1>4 DEF FlushInv, At
  <2>2. a \in DOMAIN t.work.states /\ CodeOf(t.work.states) \subseteq t.work.code
        /\ t.unwritten \subseteq DOMAIN t.work.states
    BY <1>4 DEF FlushInv
  <2>3. codeDB' = codeDB
    BY <1>2
  <2> QED
    BY <1>3, <2>1, <2>2, <2>3 DEF FlushInv
<1>6. stateDB' = [b \in DOMAIN stateDB' |-> stateDB'[b]]
  BY <1>1 DEF RInv
<1>7. \A g \in Handler : g # h => ~Accepted(g)' /\ ~At(g, "replay")'
  BY <1>2, <1>3, OnlyOneAccepted DEF Accepted, At
<1>8. ~At(h, "replay")'
  BY <1>3 DEF At
<1> QED
  BY <1>2, <1>5, <1>6, <1>7, <1>8 DEF RInv

LEMMA FlushCodeRInv ==
  ASSUME IInv, RInv, NEW h \in Handler, FlushCode(h)
  PROVE  RInv'
<1> DEFINE t == task[h]
<1>1. Accepted(h) /\ At(h, "flushCode") /\ UNCHANGED <<stateDB, blockDB, booted>>
  BY DEF FlushCode, Accepted, At, process
<1>2. FlushInv(h)
  BY <1>1 DEF RInv
<1>3. FlushedCode(h) \in t.work.code
  BY <1>1, <1>2 DEF FlushInv, FlushedCode, CodeOf, At
<1>4. /\ codeDB' = codeDB \cup {FlushedCode(h)}
      /\ \A g \in Handler : g # h => task'[g] = task[g]
      /\ task'[h].unwritten = t.unwritten /\ task'[h].work = t.work
      /\ task'[h].pc # "replay" /\ task'[h].pc # "flushCode"
      /\ task'[h].pc # "flushState" => t.unwritten = {}
  BY <1>3 DEF FlushCode, Goto, AfterFlush, IInv, TypeOK, IsTask, IdleTask
<1>5. FlushInv(h)'
  BY <1>1, <1>2, <1>4 DEF FlushInv, FlushedCode, At
<1>6. \A g \in Handler : g # h => ~Accepted(g)' /\ ~At(g, "replay")'
  BY <1>1, <1>4, OnlyOneAccepted DEF Accepted, At
<1>7. ~At(h, "replay")'
  BY <1>4 DEF At
<1> QED
  BY <1>1, <1>5, <1>6, <1>7 DEF RInv

\* The steps after the flush, which no longer touch the state.
LEMMA StoreRInv ==
  ASSUME IInv, RInv, NEW h \in Handler,
         UpdateDifficulty(h) \/ PutBlock(h) \/ PutBhash(h) \/ PutTxhash(h)
  PROVE  RInv'
<1>1. /\ Accepted(h) /\ ~At(h, "flushState") /\ ~At(h, "flushCode")
      /\ UNCHANGED <<stateDB, codeDB, booted>>
  BY DEF UpdateDifficulty, PutBlock, PutBhash, PutTxhash, Accepted, At, stores, process
<1>2. /\ \A g \in Handler : g # h => task'[g] = task[g]
      /\ task'[h].unwritten = task[h].unwritten /\ task'[h].work = task[h].work
      /\ task'[h].pc \notin {"replay", "flushState", "flushCode"}
  BY DEF UpdateDifficulty, PutBlock, PutBhash, PutTxhash, AfterIndex, Goto, IInv, TypeOK, IsTask, IdleTask
<1>3. FlushInv(h)
  BY <1>1 DEF RInv
<1>4. FlushInv(h)'
  BY <1>1, <1>2, <1>3 DEF FlushInv, At
<1>5. blockDB' = [n \in DOMAIN blockDB' |-> blockDB'[n]]
  BY DEF UpdateDifficulty, PutBlock, PutBhash, PutTxhash, Put, RInv, stores
<1>6. \A g \in Handler : g # h => ~Accepted(g)' /\ ~At(g, "replay")'
  BY <1>1, <1>2, OnlyOneAccepted DEF Accepted, At
<1>7. ~At(h, "replay")'
  BY <1>2 DEF At
<1> QED
  BY <1>1, <1>4, <1>5, <1>6, <1>7 DEF RInv

LEMMA NextRInv ==
  ASSUME CodeIsLoaded', NoCrash', IInv, RInv, [Next]_vars
  PROVE  RInv'
<1>1. CASE UNCHANGED vars
  <2>1. UNCHANGED <<task, stateDB, codeDB, blockDB, booted>>
    BY <1>1 DEF vars, stores, process
  <2> QED
    BY <2>1, RFrame DEF RInv, At, Accepted
<1>2. CASE \E block \in PeerBlock : Discard(block)
  BY <1>2, DiscardRInv
<1>3. CASE \E h \in Handler, block \in PeerBlock : Receive(h, block)
  BY <1>3, ArrivalRInv
<1>4. ASSUME NEW h \in Handler, Step(h)
      PROVE  RInv'
  BY <1>4, ArrivalRInv, ReplayRInv, FlushStateRInv, FlushCodeRInv, StoreRInv DEF Step
<1>5. ~Restart
  BY NoRestart
<1>6. ~LoadChain
  BY DEF LoadChain, RInv
<1> QED
  BY <1>1, <1>2, <1>3, <1>4, <1>5, <1>6 DEF Next

-----------------------------------------------------------------------------
(* The refinement mapping, and what each step does to it.                  *)

logVars == <<LogChain, LogTip, LogLedger, LogCodes>>

LEMMA MapIdle ==
  ASSUME \A h \in Handler : ~Accepted(h)
  PROVE  /\ LogChain = blockDB /\ LogTip = latestBlock
         /\ LogLedger = stateDB /\ LogCodes = codeDB
BY DEF LogChain, LogTip, LogLedger, LogCodes, InFlight

LEMMA MapBusy ==
  ASSUME IInv, NEW h \in Handler, Accepted(h)
  PROVE  /\ LogChain = Put(blockDB, task[h].block.blockNumber, task[h].block)
         /\ LogTip = task[h].block
         /\ LogLedger = Overlay(stateDB, task[h].work.states)
         /\ LogCodes = codeDB \cup CodeOf(task[h].work.states)
<1>1. InFlight # {}
  BY DEF InFlight
<1>2. TheTask = task[h]
  BY OnlyOneAccepted DEF TheTask
<1> QED
  BY <1>1, <1>2 DEF LogChain, LogTip, LogLedger, LogCodes

\* MapBusy in the next state.
LEMMA MapBusyNext ==
  ASSUME IInv', NEW h \in Handler, Accepted(h)'
  PROVE  /\ LogChain' = Put(blockDB', task'[h].block.blockNumber, task'[h].block)
         /\ LogTip' = task'[h].block
         /\ LogLedger' = Overlay(stateDB', task'[h].work.states)
         /\ LogCodes' = codeDB' \cup CodeOf(task'[h].work.states)
<1>1. \A g \in Handler : g # h => ~Accepted(g)'
  BY DEF IInv, Unique, TaskInv, Live, Verified, Accepted, At
<1>2. InFlight' # {}
  BY DEF InFlight
<1>3. TheTask' = task'[h]
  BY <1>1 DEF TheTask
<1> QED
  BY <1>2, <1>3 DEF LogChain, LogTip, LogLedger, LogCodes

\* A step that leaves the stores, the latest block and every accepted handler
\* alone, and accepts no block.
LEMMA StutterFrame ==
  ASSUME IInv, IInv', UNCHANGED <<stateDB, codeDB, blockDB, latestBlock>>,
         \A h \in Handler : /\ Accepted(h)' <=> Accepted(h)
                            /\ Accepted(h) => task'[h] = task[h]
  PROVE  UNCHANGED logVars
<1>1. CASE \A h \in Handler : ~Accepted(h)
  BY <1>1, MapIdle DEF logVars, LogChain, LogTip, LogLedger, LogCodes, InFlight
<1>2. ASSUME NEW h \in Handler, Accepted(h)
      PROVE  UNCHANGED logVars
  BY <1>2, MapBusy, MapBusyNext DEF logVars
<1> QED
  BY <1>1, <1>2

\* The step of an accepted handler that leaves it accepted.
LEMMA WriteFrame ==
  ASSUME IInv, IInv', NEW h \in Handler, Accepted(h), Accepted(h)',
         task'[h].block = task[h].block, task'[h].work = task[h].work,
         Put(blockDB', task[h].block.blockNumber, task[h].block)
           = Put(blockDB, task[h].block.blockNumber, task[h].block),
         Overlay(stateDB', task[h].work.states) = Overlay(stateDB, task[h].work.states),
         codeDB' \cup CodeOf(task[h].work.states) = codeDB \cup CodeOf(task[h].work.states)
  PROVE  UNCHANGED logVars
BY MapBusy, MapBusyNext DEF logVars

LEMMA ArrivalStutters ==
  ASSUME IInv, IInv', NEW h \in Handler,
         \/ \E block \in PeerBlock : Receive(h, block)
         \/ CheckOrder(h)
         \/ Relay(h)
  PROVE  UNCHANGED logVars
<1>1. /\ \A g \in Handler : g # h => task'[g] = task[g]
      /\ ~Accepted(h) /\ ~Accepted(h)'
      /\ UNCHANGED <<stateDB, codeDB, blockDB, latestBlock>>
  <2> USE DEF Accepted, At, IdleTask
  <2>1. CASE \E block \in PeerBlock : Receive(h, block)
    <3>1. PICK block \in PeerBlock : Receive(h, block)
      BY <2>1
    <3>2. CASE block.txs # << >>
      BY <3>1, <3>2 DEF Receive, IInv, TypeOK, stores
    <3>3. CASE block.txs = << >>
      BY <3>1, <3>3 DEF Receive, IInv, TypeOK, stores
    <3> QED
      BY <3>2, <3>3
  <2>2. CASE CheckOrder(h)
    <3>1. At(h, "order") /\ (Goto(h, "replay") \/ Finish(h))
      BY <2>2 DEF CheckOrder
    <3>2. /\ \A g \in Handler : g # h => task'[g] = task[g]
          /\ task'[h].pc \in {"replay", "idle"}
      BY <3>1 DEF Goto, Finish, IInv, TypeOK, IsTask
    <3>3. UNCHANGED <<stateDB, codeDB, blockDB, latestBlock>>
      BY <2>2 DEF CheckOrder, stores, chainInfo
    <3> QED
      BY <3>1, <3>2, <3>3
  <2>3. CASE Relay(h)
    BY <2>3 DEF Relay, Finish, IInv, TypeOK, stores, chainInfo
  <2> QED
    BY <2>1, <2>2, <2>3
<1>2. \A g \in Handler : /\ Accepted(g)' <=> Accepted(g)
                         /\ Accepted(g) => task'[g] = task[g]
  BY <1>1 DEF Accepted
<1> QED
  BY <1>1, <1>2, StutterFrame

LEMMA DiscardStutters ==
  ASSUME IInv, IInv', NEW block \in PeerBlock, Discard(block)
  PROVE  UNCHANGED logVars
<1>1. UNCHANGED <<task, stateDB, codeDB, blockDB, latestBlock>>
  BY DEF Discard, stores
<1> QED
  BY <1>1, StutterFrame DEF Accepted

\* The verdict of verifyTxAndTransit is the moment the log grows.
LEMMA ReplayAppends ==
  ASSUME IInv, IInv', RInv, NEW h \in Handler, Replay(h)
  PROVE  Log!Next \/ UNCHANGED logVars
<1> DEFINE block == task[h].block
           work == Transit(stateDB, codeDB, block)
<1>1. /\ At(h, "replay") /\ UNCHANGED <<stateDB, codeDB, blockDB, latestBlock>>
      /\ \A g \in Handler : g # h => task'[g] = task[g]
      /\ ~Accepted(h)
  BY DEF Replay, Finish, stores, chainInfo, At, Accepted, IInv, TypeOK
<1>2. \A g \in Handler : ~Accepted(g)
  BY <1>1 DEF IInv, Unique, TaskInv, Live, Verified, Accepted, At
<1>3. CASE work.status = "ok"
  <2>1. /\ Accepted(h)' /\ task'[h].block = block /\ task'[h].work = work
    BY <1>3 DEF Replay, Accepted, IInv, TypeOK, IsTask, IdleTask
  <2>2. /\ LogChain = blockDB /\ LogTip = latestBlock
        /\ LogLedger = stateDB /\ LogCodes = codeDB
    BY <1>2, MapIdle
  <2>3. /\ LogChain' = Put(LogChain, block.blockNumber, block)
        /\ LogTip' = block
        /\ LogLedger' = Overlay(LogLedger, work.states)
        /\ LogCodes' = LogCodes \cup CodeOf(work.states)
    BY <1>1, <2>1, <2>2, MapBusyNext
  <2>4. /\ block.parentHash = latestBlock.hash
        /\ block.blockNumber = latestBlock.blockNumber + 1
        /\ block.timestamp > latestBlock.timestamp
        /\ block \in Block
    BY <1>1 DEF IInv, TaskInv, Live, Verified, At, TypeOK, IsTask, Block
  <2>5. HasValidTxOrder(stateDB, block.txs)
    BY <1>1 DEF RInv
  <2>6. Log!ExtendsTip(block)
    BY <2>2, <2>4 DEF Log!ExtendsTip
  <2>7. Transit(LogLedger, LogCodes, block) = work
    BY <2>2
  <2>8. HasValidTxOrder(LogLedger, block.txs)
    BY <2>2, <2>5
  <2>9. Log!AppendBlock(block)
    BY <1>3, <2>3, <2>6, <2>7, <2>8
    DEF Log!AppendBlock, Log!Extended, Log!Updated, Put, Overlay, CodeOf
  <2> QED
    BY <2>4, <2>9 DEF Log!Next
<1>4. CASE work.status # "ok"
  <2>1. ~Accepted(h)'
    BY <1>4 DEF Replay, Finish, Accepted, IdleTask, IInv, TypeOK
  <2>2. \A g \in Handler : /\ Accepted(g)' <=> Accepted(g)
                           /\ Accepted(g) => task'[g] = task[g]
    BY <1>1, <1>2, <2>1 DEF Accepted
  <2> QED
    BY <1>1, <2>2, StutterFrame
<1> QED
  BY <1>3, <1>4

LEMMA FlushStutters ==
  ASSUME IInv, IInv', RInv, NEW h \in Handler, FlushState(h) \/ FlushCode(h)
  PROVE  UNCHANGED logVars
<1> DEFINE t == task[h]
<1>1. Accepted(h) /\ FlushInv(h) /\ UNCHANGED blockDB
  BY DEF FlushState, FlushCode, Accepted, At, RInv
<1>2. CASE FlushState(h)
  <2>1. PICK a \in t.unwritten :
          /\ stateDB' = [stateDB EXCEPT ![a] = t.work.states[a]]
          /\ task' = [task EXCEPT ![h].pc = "flushCode", ![h].account = a,
                                  ![h].unwritten = @ \ {a}]
    BY <1>2 DEF FlushState
  <2>2. task'[h].pc = "flushCode" /\ task'[h].block = t.block /\ task'[h].work = t.work
    BY <2>1 DEF IInv, TypeOK, IsTask, IdleTask
  <2>3. a \in DOMAIN t.work.states
    BY <1>1 DEF FlushInv
  <2>4. Overlay(stateDB', t.work.states) = Overlay(stateDB, t.work.states)
    BY <2>1, <2>3 DEF Overlay
  <2>5. Accepted(h)' /\ codeDB' = codeDB
    BY <1>2, <2>2 DEF FlushState, Accepted
  <2> QED
    BY <1>1, <2>2, <2>4, <2>5, WriteFrame
<1>3. CASE FlushCode(h)
  <2>1. /\ FlushedCode(h) \in CodeOf(t.work.states)
        /\ FlushedCode(h) \in t.work.code
    BY <1>1, <1>3 DEF FlushCode, FlushInv, FlushedCode, CodeOf, At
  <2>2. codeDB' = codeDB \cup {FlushedCode(h)} /\ stateDB' = stateDB
    BY <1>3, <2>1 DEF FlushCode
  <2>3. PICK pc \in {"flushState", "difficulty", "blockDB"} : Goto(h, pc)
    BY <1>3, <2>1 DEF FlushCode, AfterFlush
  <2>4. Accepted(h)' /\ task'[h].block = t.block /\ task'[h].work = t.work
    BY <2>3 DEF Goto, Accepted, IInv, TypeOK, IsTask, IdleTask
  <2>5. codeDB' \cup CodeOf(t.work.states) = codeDB \cup CodeOf(t.work.states)
    BY <2>1, <2>2
  <2> QED
    BY <1>1, <2>2, <2>4, <2>5, WriteFrame
<1> QED
  BY <1>2, <1>3

LEMMA PutTwice ==
  ASSUME NEW db, NEW key, NEW value
  PROVE  Put(Put(db, key, value), key, value) = Put(db, key, value)
BY DEF Put

LEMMA PutPresent ==
  ASSUME NEW db, db = [k \in DOMAIN db |-> db[k]], NEW key \in DOMAIN db
  PROVE  Put(db, key, db[key]) = db
BY DEF Put

LEMMA OverlayDone ==
  ASSUME NEW db, NEW states, db = [a \in DOMAIN db |-> db[a]],
         \A a \in DOMAIN states : a \in DOMAIN db => db[a] = states[a]
  PROVE  Overlay(db, states) = db
BY DEF Overlay

LEMMA StoreStutters ==
  ASSUME IInv, IInv', RInv, NEW h \in Handler, UpdateDifficulty(h) \/ PutBlock(h)
  PROVE  UNCHANGED logVars
<1>1. Accepted(h) /\ UNCHANGED <<stateDB, codeDB>>
  BY DEF UpdateDifficulty, PutBlock, Accepted, At, stores
<1>2. Accepted(h)' /\ task'[h].block = task[h].block /\ task'[h].work = task[h].work
  BY DEF UpdateDifficulty, PutBlock, Goto, Accepted, IInv, TypeOK, IsTask, IdleTask
<1>3. \/ blockDB' = blockDB
      \/ blockDB' = Put(blockDB, task[h].block.blockNumber, task[h].block)
  BY DEF UpdateDifficulty, PutBlock, stores
<1>4. Put(blockDB', task[h].block.blockNumber, task[h].block)
        = Put(blockDB, task[h].block.blockNumber, task[h].block)
  BY <1>3, PutTwice
<1> QED
  BY <1>1, <1>2, <1>4, WriteFrame

\* Making the block the latest one, or writing another entry of the index:
\* all that the log knows of has been written.
LEMMA IndexStutters ==
  ASSUME IInv, IInv', RInv, NEW h \in Handler, PutBhash(h) \/ PutTxhash(h)
  PROVE  UNCHANGED logVars
<1> DEFINE t == task[h]
<1>1. /\ Accepted(h) /\ Indexing(h) /\ FlushInv(h)
      /\ UNCHANGED <<stateDB, codeDB, blockDB>>
      /\ \A g \in Handler : g # h => task'[g] = task[g]
      /\ \/ latestBlock' = t.block /\ task'[h].pc = "clear"
         \/ /\ task'[h].pc = "txhashDB" /\ task'[h].block = t.block
            /\ task'[h].work = t.work
  BY DEF PutBhash, PutTxhash, AfterIndex, Goto, Accepted, Indexing, At, RInv,
     IInv, TypeOK, IsTask, IdleTask
<1>2. CASE latestBlock' = t.block /\ task'[h].pc = "clear"
  <2>1. \A g \in Handler : ~Accepted(g)'
    BY <1>1, <1>2, OnlyOneAccepted DEF Accepted
  <2>2. InFlight' = {}
    BY <2>1 DEF InFlight
  <2>3. /\ LogChain' = blockDB' /\ LogTip' = latestBlock'
        /\ LogLedger' = stateDB' /\ LogCodes' = codeDB'
    BY <2>2 DEF LogChain, LogTip, LogLedger, LogCodes
  <2>4. Put(blockDB, t.block.blockNumber, t.block) = blockDB
    BY <1>1, PutPresent DEF IInv, TaskInv, RInv
  <2>5. Overlay(stateDB, t.work.states) = stateDB
    BY <1>1, OverlayDone DEF FlushInv, RInv, Indexing, At
  <2>6. codeDB \cup CodeOf(t.work.states) = codeDB
    BY <1>1 DEF FlushInv, CodeOf, Indexing, At
  <2> QED
    BY <1>1, <1>2, <2>3, <2>4, <2>5, <2>6, MapBusy DEF logVars
<1>3. CASE task'[h].pc = "txhashDB" /\ task'[h].block = t.block /\ task'[h].work = t.work
  <2>1. Accepted(h)'
    BY <1>3 DEF Accepted
  <2> QED
    BY <1>1, <1>3, <2>1, WriteFrame
<1> QED
  BY <1>1, <1>2, <1>3

-----------------------------------------------------------------------------
LEMMA InitMaps == Init => Log!Init
<1> SUFFICES ASSUME Init PROVE Log!Init
  OBVIOUS
<1>1. \A h \in Handler : ~Accepted(h)
  BY DEF Init, Accepted, IdleTask
<1>2. /\ LogChain = blockDB /\ LogTip = latestBlock
      /\ LogLedger = stateDB /\ LogCodes = codeDB
  BY <1>1, MapIdle
<1> QED
  BY <1>2, IntakeAssumption DEF Init, Log!Init

LEMMA NextMaps ==
  ASSUME IInv, IInv', RInv, NoCrash', [Next]_vars
  PROVE  [Log!Next]_(Log!vars)
<1>1. CASE UNCHANGED vars
  <2>1. UNCHANGED <<task, stateDB, codeDB, blockDB, latestBlock>>
    BY <1>1 DEF vars, stores, chainInfo
  <2> QED
    BY <2>1, StutterFrame DEF Accepted, logVars, Log!vars
<1>2. CASE \E block \in PeerBlock : Discard(block)
  BY <1>2, DiscardStutters DEF logVars, Log!vars
<1>3. CASE \E h \in Handler, block \in PeerBlock : Receive(h, block)
  BY <1>3, ArrivalStutters DEF logVars, Log!vars
<1>4. ASSUME NEW h \in Handler, Step(h)
      PROVE  Log!Next \/ UNCHANGED logVars
  BY <1>4, ArrivalStutters, ReplayAppends, FlushStutters, StoreStutters, IndexStutters DEF Step
<1>5. ~Restart
  BY NoRestart
<1>6. ~LoadChain
  BY DEF LoadChain, RInv
<1> QED
  BY <1>1, <1>2, <1>3, <1>4, <1>5, <1>6 DEF Next, logVars, Log!vars

\* A node that does not crash is a log of valid blocks, each verified against
\* the state its predecessors left and applied once, in every interleaving
\* of its handlers, as long as no flush throws.
THEOREM Refinement ==
  ASSUME NoSiblings
  PROVE  Spec /\ []NoCrash /\ []CodeIsLoaded => ImplementsLedgerLog
<1>1. Init => RInv /\ Log!Init
  BY InitRInv, InitMaps
<1>2. CodeIsLoaded' /\ NoCrash' /\ IInv /\ RInv /\ [Next]_vars => RInv'
  BY NextRInv
<1>3. NoCrash' /\ IInv /\ IInv' /\ RInv /\ [Next]_vars => [Log!Next]_(Log!vars)
  BY NextMaps
<1> QED
  BY <1>1, <1>2, <1>3, Invariance, PTL DEF Spec, ImplementsLedgerLog, Log!Spec

-----------------------------------------------------------------------------
(* What the ledger of the log holds.                                       *)

\* The ledger of the log is well formed, the code of its accounts is stored,
\* and it holds the initial supply and one reward for each block of the log.
SupplyInv ==
  /\ AccountsOK(LogLedger) /\ CodeIsStored(LogLedger, LogCodes)
  /\ LogTip.blockNumber \in Nat
  /\ Supply(LogLedger) = Supply(InitialLedger) + BLOCK_REWARD * (LogTip.blockNumber - 1)

LEMMA InitSupplyInv == Log!Init => SupplyInv
<1> SUFFICES ASSUME Log!Init PROVE SupplyInv
  OBVIOUS
<1>1. LogTip = Genesis /\ LogLedger = InitialLedger /\ LogCodes = {EMPTY_HASH}
  BY DEF Log!Init
<1>2. AccountsOK(InitialLedger) /\ CodeIsStored(InitialLedger, {EMPTY_HASH})
  BY IntakeAssumption, GenesisAssumption DEF AccountsOK, CodeIsStored
<1>3. Supply(InitialLedger) \in Int
  <2>1. << >> \in Seq(Transaction)
    OBVIOUS
  <2> QED
    BY <1>2, <2>1, FundsInit
<1>4. Genesis.blockNumber = 1 /\ BLOCK_REWARD \in Nat
  BY IntakeAssumption, LedgerAssumption
<1> QED
  BY <1>1, <1>2, <1>3, <1>4 DEF SupplyInv

\* A block of the log adds its reward.
LEMMA NextSupplyInv ==
  ASSUME SupplyInv, [Log!Next]_(Log!vars)
  PROVE  SupplyInv'
<1>1. CASE UNCHANGED Log!vars
  BY <1>1 DEF Log!vars, SupplyInv, AccountsOK, CodeIsStored
<1>2. CASE Log!Next
  <2>1. PICK block \in Block : Log!AppendBlock(block)
    BY <1>2 DEF Log!Next
  <2> DEFINE result == Transit(LogLedger, LogCodes, block)
  <2>2. /\ result.status = "ok"
        /\ block.blockNumber = LogTip.blockNumber + 1 /\ LogTip' = block
        /\ LogLedger' = Overlay(LogLedger, result.states)
        /\ LogCodes' = LogCodes \cup CodeOf(result.states)
    BY <2>1 DEF Log!AppendBlock, Log!ExtendsTip, Log!Updated, Overlay, CodeOf
  <2>3. BlockOK(block) /\ block.blockNumber \in Nat
    BY IntakeAssumption DEF BlockOK
  <2>4. /\ AccountsOK(LogLedger) /\ CodeIsStored(LogLedger, LogCodes)
        /\ LogTip.blockNumber \in Nat
        /\ Supply(LogLedger) = Supply(InitialLedger) + BLOCK_REWARD * (LogTip.blockNumber - 1)
    BY DEF SupplyInv
  <2>5. AccountsOK(Overlay(LogLedger, result.states))
    BY <2>3, <2>4, TransitWellFormed
  <2>6. CodeIsStored(Overlay(LogLedger, result.states), LogCodes \cup CodeOf(result.states))
    BY <2>3, <2>4, TransitStores
  <2>7. Supply(Overlay(LogLedger, result.states)) = Supply(LogLedger) + BLOCK_REWARD
    BY <2>2, <2>3, <2>4, TransitConserves
  <2>8. AccountsOK(InitialLedger) /\ Supply(InitialLedger) \in Int /\ BLOCK_REWARD \in Nat
    <3>1. AccountsOK(InitialLedger)
      BY IntakeAssumption DEF AccountsOK
    <3>2. << >> \in Seq(Transaction)
      OBVIOUS
    <3> QED
      BY <3>1, <3>2, FundsInit, LedgerAssumption
  <2> HIDE DEF result
  <2>9. Supply(LogLedger') = Supply(InitialLedger) + BLOCK_REWARD * (LogTip'.blockNumber - 1)
    <3>1. LogTip'.blockNumber - 1 = (LogTip.blockNumber - 1) + 1
      BY <2>2, <2>3, <2>4
    <3>2. BLOCK_REWARD * ((LogTip.blockNumber - 1) + 1)
            = BLOCK_REWARD * (LogTip.blockNumber - 1) + BLOCK_REWARD
      BY <2>4, <2>8
    <3> QED
      BY <2>2, <2>4, <2>7, <2>8, <3>1, <3>2
  <2> QED
    BY <2>2, <2>3, <2>5, <2>6, <2>9 DEF SupplyInv, AccountsOK, CodeIsStored
<1> QED
  BY <1>1, <1>2

-----------------------------------------------------------------------------
(* No transaction is executed twice.                                       *)

\* Every transaction of the log has been counted by its sender's nonce, and no
\* two of them have sender and nonce in common.
NonceInv ==
  /\ \A n \in DOMAIN LogChain : LogChain[n] \in Block
  /\ \A n \in DOMAIN LogChain : \A i \in DOMAIN LogChain[n].txs :
       LogChain[n].txs[i].nonce <= Cached(LogLedger, LogChain[n].txs[i].sender).nonce
  /\ \A m, n \in DOMAIN LogChain :
       \A i \in DOMAIN LogChain[m].txs : \A j \in DOMAIN LogChain[n].txs :
         /\ LogChain[m].txs[i].sender = LogChain[n].txs[j].sender
         /\ LogChain[m].txs[i].nonce = LogChain[n].txs[j].nonce
         => m = n /\ i = j

LEMMA InitNonceInv == Log!Init => NonceInv
<1> SUFFICES ASSUME Log!Init PROVE NonceInv
  OBVIOUS
<1>1. /\ DOMAIN LogChain = {Genesis.blockNumber} /\ LogChain[Genesis.blockNumber] = Genesis
      /\ DOMAIN Genesis.txs = {} /\ Genesis \in Block
  BY GenesisAssumption DEF Log!Init, Block
<1> QED
  BY <1>1 DEF NonceInv

LEMMA NextNonceInv ==
  ASSUME SupplyInv, NonceInv, [Log!Next]_(Log!vars)
  PROVE  NonceInv'
<1>1. CASE UNCHANGED Log!vars
  BY <1>1 DEF Log!vars, NonceInv, Cached
<1>2. CASE Log!Next
  <2>1. PICK block \in Block : Log!AppendBlock(block)
    BY <1>2 DEF Log!Next
  <2> DEFINE result == Transit(LogLedger, LogCodes, block)
             number == block.blockNumber
             txs == block.txs
  <2>2. /\ result.status = "ok" /\ HasValidTxOrder(LogLedger, txs)
        /\ LogLedger' = Overlay(LogLedger, result.states)
        /\ LogChain' = [n \in DOMAIN LogChain \cup {number} |->
                          IF n = number THEN block ELSE LogChain[n]]
    BY <2>1 DEF Log!AppendBlock, Log!Updated, Log!Extended, Overlay
  <2>3. BlockOK(block) /\ txs \in Seq(Transaction)
    BY IntakeAssumption DEF BlockOK
  <2>4. AccountsOK(LogLedger) /\ CodeIsStored(LogLedger, LogCodes)
    BY DEF SupplyInv
  <2>5. \A a \in Account : /\ Cached(LogLedger', a).nonce
                                = Cached(LogLedger, a).nonce + SentUpTo(txs, Len(txs), a)
                           /\ Cached(LogLedger, a).nonce \in Nat
                           /\ SentUpTo(txs, Len(txs), a) \in Nat
    <3>1. \A a \in Account : Cached(LogLedger', a).nonce
                             = Cached(LogLedger, a).nonce + SentUpTo(txs, Len(txs), a)
      BY <2>2, <2>3, <2>4, TransitConserves
    <3>2. \A a \in Account : Cached(LogLedger, a).nonce \in Nat
      BY <2>4, FreshOK DEF Cached, AccountsOK, AccountState
    <3>3. Len(txs) \in Nat
      BY <2>3
    <3> QED
      BY <3>1, <3>2, <3>3, SentSteps
  <2>6. ASSUME NEW i \in DOMAIN txs
        PROVE  /\ txs[i].nonce > Cached(LogLedger, txs[i].sender).nonce
               /\ txs[i].nonce <= Cached(LogLedger', txs[i].sender).nonce
               /\ \A j \in DOMAIN txs :
                    txs[j].sender = txs[i].sender /\ txs[j].nonce = txs[i].nonce => j = i
    <3>1. txs[i].sender \in Account
      <4>1. txs[i] \in Transaction
        BY <2>3
      <4> QED
        BY <4>1 DEF Transaction
    <3> HIDE DEF txs
    <3>2. /\ txs[i].nonce > Cached(LogLedger, txs[i].sender).nonce
          /\ txs[i].nonce <= Cached(LogLedger, txs[i].sender).nonce
                               + SentUpTo(txs, Len(txs), txs[i].sender)
          /\ \A j \in DOMAIN txs :
               txs[j].sender = txs[i].sender /\ txs[j].nonce = txs[i].nonce => j = i
      BY <2>2, <2>3, <2>4, OrderedNonces
    <3> QED
      BY <2>5, <3>1, <3>2
  <2>7. ASSUME NEW n \in DOMAIN LogChain, NEW i \in DOMAIN LogChain[n].txs
        PROVE  LET tx == LogChain[n].txs[i]
               IN  /\ tx.nonce \in Nat /\ tx.sender \in Account
                   /\ tx.nonce <= Cached(LogLedger, tx.sender).nonce
                   /\ tx.nonce <= Cached(LogLedger', tx.sender).nonce
                   /\ \A j \in DOMAIN txs :
                        ~(txs[j].sender = tx.sender /\ txs[j].nonce = tx.nonce)
    <3> DEFINE tx == LogChain[n].txs[i]
    <3>1. tx \in Transaction
      BY IntakeAssumption DEF NonceInv
    <3>2. tx.nonce \in Nat /\ tx.sender \in Account
      BY <3>1 DEF Transaction
    <3>3. tx.nonce <= Cached(LogLedger, tx.sender).nonce
      BY DEF NonceInv
    <3> HIDE DEF tx, txs
    <3>4. tx.nonce <= Cached(LogLedger', tx.sender).nonce
      BY <2>5, <3>2, <3>3
    <3>5. ASSUME NEW j \in DOMAIN txs, txs[j].sender = tx.sender
          PROVE  txs[j].nonce # tx.nonce
      <4>1. txs[j].nonce > Cached(LogLedger, tx.sender).nonce
        BY <2>6, <3>5
      <4>2. Cached(LogLedger, tx.sender).nonce \in Nat
        BY <2>5, <3>2
      <4> QED
        BY <3>2, <3>3, <4>1, <4>2
    <3> QED
      BY <3>2, <3>3, <3>4, <3>5 DEF tx
  <2> HIDE DEF result, number, txs
  <2>8. \A n \in DOMAIN LogChain' :
          \/ n = number /\ LogChain'[n] = block
          \/ n # number /\ n \in DOMAIN LogChain /\ LogChain'[n] = LogChain[n]
    BY <2>2
  <2>9. \A n \in DOMAIN LogChain' : LogChain'[n] \in Block
    BY <2>8 DEF NonceInv
  <2>10. ASSUME NEW n \in DOMAIN LogChain', NEW i \in DOMAIN LogChain'[n].txs
         PROVE  LogChain'[n].txs[i].nonce <= Cached(LogLedger', LogChain'[n].txs[i].sender).nonce
    <3>1. CASE n = number /\ LogChain'[n] = block
      BY <2>6, <2>10, <3>1 DEF txs
    <3>2. CASE n \in DOMAIN LogChain /\ LogChain'[n] = LogChain[n]
      BY <2>7, <2>10, <3>2
    <3> QED
      BY <2>8, <3>1, <3>2
  <2>11. ASSUME NEW m \in DOMAIN LogChain', NEW n \in DOMAIN LogChain',
                NEW i \in DOMAIN LogChain'[m].txs, NEW j \in DOMAIN LogChain'[n].txs,
                LogChain'[m].txs[i].sender = LogChain'[n].txs[j].sender,
                LogChain'[m].txs[i].nonce = LogChain'[n].txs[j].nonce
         PROVE  m = n /\ i = j
    <3>1. CASE m = number /\ n = number
      BY <2>6, <2>8, <2>11, <3>1 DEF txs
    <3>2. CASE m = number /\ n # number
      BY <2>7, <2>8, <2>11, <3>2 DEF txs
    <3>3. CASE m # number /\ n = number
      BY <2>7, <2>8, <2>11, <3>3 DEF txs
    <3>4. CASE m # number /\ n # number
      BY <2>8, <2>11, <3>4 DEF NonceInv
    <3> QED
      BY <3>1, <3>2, <3>3, <3>4
  <2> QED
    BY <2>9, <2>10, <2>11 DEF NonceInv
<1> QED
  BY <1>1, <1>2

LEMMA LogInvariance ==
  ASSUME NoSiblings
  PROVE  Spec /\ []NoCrash /\ []CodeIsLoaded => [](RInv /\ SupplyInv /\ NonceInv)
<1>1. Init => RInv /\ SupplyInv /\ NonceInv
  BY InitRInv, InitMaps, InitSupplyInv, InitNonceInv
<1>2. CodeIsLoaded' /\ NoCrash' /\ IInv /\ RInv /\ [Next]_vars => RInv'
  BY NextRInv
<1>3. NoCrash' /\ IInv /\ IInv' /\ RInv /\ [Next]_vars /\ SupplyInv /\ NonceInv => SupplyInv' /\ NonceInv'
  BY NextMaps, NextSupplyInv, NextNonceInv
<1> QED
  BY <1>1, <1>2, <1>3, Invariance, PTL DEF Spec

\* Between blocks the accounts hold the initial supply and one reward for each
\* block of the chain, in every interleaving of the handlers: no block is
\* applied twice, none is applied in part, and no fee or payment is lost.
THEOREM SupplyIsConserved ==
  ASSUME NoSiblings
  PROVE  Spec /\ []NoCrash /\ []CodeIsLoaded => []SupplyConserved
<1>1. SupplyInv => SupplyConserved
  <2>1. Quiet => LogLedger = stateDB /\ LogTip = latestBlock
    BY MapIdle DEF Quiet, At, Accepted
  <2> QED
    BY <2>1 DEF SupplyInv, SupplyConserved
<1> QED
  BY <1>1, LogInvariance, PTL

\* No two transactions of the chain have sender and nonce in common: a block, or
\* a transaction in another block, cannot be made to execute again, in any
\* interleaving of the handlers.
ExecutedOnce ==
  Quiet => \A m, n \in DOMAIN blockDB :
    \A i \in DOMAIN blockDB[m].txs : \A j \in DOMAIN blockDB[n].txs :
      /\ blockDB[m].txs[i].sender = blockDB[n].txs[j].sender
      /\ blockDB[m].txs[i].nonce = blockDB[n].txs[j].nonce
      => m = n /\ i = j

\* A node executes no transaction twice.
THEOREM NoReplay ==
  ASSUME NoSiblings
  PROVE  Spec /\ []NoCrash /\ []CodeIsLoaded => []ExecutedOnce
<1>1. NonceInv => ExecutedOnce
  <2>1. Quiet => LogChain = blockDB
    BY MapIdle DEF Quiet, At, Accepted
  <2> QED
    BY <2>1 DEF NonceInv, ExecutedOnce
<1> QED
  BY <1>1, LogInvariance, PTL

-----------------------------------------------------------------------------
(* The index of transactions.                                              *)

\* The hash of a transaction determines its sender, which it does not cover.
OneSigner ==
  \A a, b \in Block : \A i \in DOMAIN a.txs : \A j \in DOMAIN b.txs :
    TxHash(a.txs[i]) = TxHash(b.txs[j]) => a.txs[i].sender = b.txs[j].sender

LEMMA EntryOfSeq ==
  ASSUME NEW S, NEW s \in Seq(S), NEW i \in DOMAIN s
  PROVE  s[i] \in S
OBVIOUS

LEMMA HashHasNonce ==
  ASSUME NEW t \in Transaction, NEW u \in Transaction, TxHash(t) = TxHash(u)
  PROVE  t.nonce = u.nonce
<1>1. "nonce" \in (DOMAIN t) \ {"sender"} /\ "nonce" \in (DOMAIN u) \ {"sender"}
  BY DEF Transaction
<1>2. TxHash(t)["nonce"] = t.nonce /\ TxHash(u)["nonce"] = u.nonce
  BY <1>1 DEF TxHash
<1> QED
  BY <1>2

\* The transactions that have been entered in the index.
TxEntered(n, i) ==
  \/ n <= latestBlock.blockNumber
  \/ \E h \in Handler : At(h, "txhashDB") /\ blockDB[n] = task[h].block /\ i <= task[h].txIndex

TxInv ==
  \A n \in DOMAIN blockDB : \A i \in DOMAIN blockDB[n].txs : TxEntered(n, i) =>
    LET hash == TxHash(blockDB[n].txs[i])
    IN  hash \in DOMAIN txhashDB /\ txhashDB[hash] = <<n, i - 1>>

LEMMA InitTxInv == Init => TxInv
<1> SUFFICES ASSUME Init PROVE TxInv
  OBVIOUS
<1>1. DOMAIN blockDB = {1} /\ blockDB[1] = Genesis /\ DOMAIN Genesis.txs = {}
  BY GenesisAssumption DEF Init
<1> QED
  BY <1>1 DEF TxInv

\* A step that leaves the index alone and enters no transaction.
LEMMA TxFrame ==
  ASSUME TxInv, UNCHANGED <<blockDB, txhashDB>>,
         \A n \in DOMAIN blockDB : \A i \in DOMAIN blockDB[n].txs :
           TxEntered(n, i)' => TxEntered(n, i)
  PROVE  TxInv'
BY DEF TxInv

LEMMA PutBlockTxInv ==
  ASSUME IInv, AInv, RInv, TxInv, NEW h \in Handler, PutBlock(h)
  PROVE  TxInv'
<1> DEFINE block == task[h].block
           last == latestBlock.blockNumber
<1>1. /\ UNCHANGED <<txhashDB, latestBlock>> /\ Verified(h) /\ At(h, "blockDB")
      /\ task'[h].pc = "bhashDB"
      /\ blockDB' = Put(blockDB, block.blockNumber, block)
  BY DEF PutBlock, Goto, chainInfo, Verified, Accepted, At, IInv, TypeOK, IsTask, IdleTask
<1>2. \A g \in Handler : g # h => ~Indexing(g) /\ task'[g] = task[g]
  BY <1>1, OnlyOneTargeted, StepFrame DEF Step, Indexing, Targeted, At
<1>3. \A n, i : TxEntered(n, i)' => n <= last
  BY <1>1, <1>2 DEF TxEntered, At, Indexing
<1>4. /\ last \in Nat /\ block.blockNumber = last + 1
  BY <1>1, IntakeAssumption DEF IInv, TypeOK, TaskInv
<1>5. ASSUME NEW n \in DOMAIN blockDB', n <= last
      PROVE  n \in DOMAIN blockDB /\ blockDB'[n] = blockDB[n] /\ \A i : TxEntered(n, i)
  <2>1. n # block.blockNumber
    BY <1>4, <1>5
  <2> QED
    BY <1>1, <1>5, <2>1 DEF Put, TxEntered
<1> QED
  BY <1>1, <1>3, <1>5 DEF TxInv

LEMMA PutBhashTxInv ==
  ASSUME IInv, AInv, RInv, TxInv, NEW h \in Handler, PutBhash(h)
  PROVE  TxInv'
<1> DEFINE block == task[h].block
<1>1. /\ UNCHANGED <<blockDB, txhashDB>> /\ Verified(h) /\ Indexing(h)
      /\ \/ /\ UNCHANGED latestBlock
            /\ task'[h].pc = "txhashDB" /\ task'[h].block = block /\ task'[h].txIndex = 0
         \/ /\ latestBlock' = block /\ Len(block.txs) = 0
            /\ task'[h].pc = "clear"
  BY DEF PutBhash, AfterIndex, Goto, Verified, Accepted, Indexing, At, IInv, TypeOK, IsTask, IdleTask
<1>2. \A g \in Handler : g # h => task'[g] = task[g]
  BY StepFrame DEF Step
<1>3. /\ block.blockNumber = latestBlock.blockNumber + 1
      /\ blockDB[block.blockNumber] = block
      /\ latestBlock.blockNumber \in Nat
      /\ \A n \in DOMAIN blockDB : n \in Nat /\ blockDB[n] \in Block
  BY <1>1, IntakeAssumption DEF IInv, TypeOK, TaskInv
<1>4. ASSUME NEW n \in DOMAIN blockDB, NEW i \in DOMAIN blockDB[n].txs, TxEntered(n, i)'
      PROVE  TxEntered(n, i)
  <2>1. i \in 1..Len(blockDB[n].txs) /\ Len(blockDB[n].txs) \in Nat
    BY <1>3, IntakeAssumption
  <2>2. CASE n <= latestBlock'.blockNumber
    <3>1. latestBlock' = block => n <= latestBlock.blockNumber \/ blockDB[n] = block
      BY <1>3, <2>2
    <3> QED
      BY <1>1, <2>1, <2>2, <3>1 DEF TxEntered
  <2>3. ASSUME NEW g \in Handler, At(g, "txhashDB")', blockDB'[n] = task'[g].block,
               i <= task'[g].txIndex
        PROVE  TxEntered(n, i)
    <3>1. g # h
      BY <1>1, <2>1, <2>3 DEF At
    <3> QED
      BY <1>1, <1>2, <2>3, <3>1 DEF TxEntered, At
  <2> QED
    BY <1>4, <2>2, <2>3 DEF TxEntered
<1> QED
  BY <1>1, <1>4, TxFrame

LEMMA PutTxhashTxInv ==
  ASSUME OneSigner, IInv, AInv, RInv, NonceInv, TxInv, NEW h \in Handler, PutTxhash(h)
  PROVE  TxInv'
<1> DEFINE block == task[h].block
           number == block.blockNumber
           k == task[h].txIndex + 1
<1>1. /\ UNCHANGED blockDB /\ Verified(h) /\ Indexing(h) /\ Accepted(h) /\ At(h, "txhashDB")
      /\ txhashDB' = Put(txhashDB, TxHash(block.txs[k]), <<number, k - 1>>)
      /\ \/ /\ UNCHANGED latestBlock
            /\ task'[h].pc = "txhashDB" /\ task'[h].block = block /\ task'[h].txIndex = k
         \/ latestBlock' = block /\ k = Len(block.txs) /\ task'[h].pc = "clear"
  BY DEF PutTxhash, AfterIndex, Goto, Verified, Accepted, Indexing, At, IInv, TypeOK, IsTask, IdleTask
<1>2. \A g \in Handler : g # h => task'[g] = task[g]
  BY StepFrame DEF Step
<1>3. /\ number = latestBlock.blockNumber + 1
      /\ number \in DOMAIN blockDB /\ blockDB[number] = block
      /\ latestBlock.blockNumber \in Nat
      /\ \A n \in DOMAIN blockDB : n \in Nat /\ blockDB[n] \in Block /\ blockDB[n].blockNumber = n
  BY <1>1, IntakeAssumption DEF IInv, TypeOK, ChainInv, TaskInv
<1>4. k \in DOMAIN block.txs /\ k \in Nat /\ task[h].txIndex = k - 1
  <2>1. TaskOK(task[h]) /\ block.txs \in Seq(Transaction)
    BY <1>3, IntakeAssumption DEF AInv
  <2>2. task[h].txIndex \in Nat /\ task[h].txIndex < Len(block.txs) /\ Len(block.txs) \in Nat
    BY <1>1, <2>1 DEF TaskOK, IsTask, At
  <2> QED
    BY <2>1, <2>2
<1>5. LogChain = blockDB
  BY <1>1, <1>3, MapBusy, PutPresent DEF RInv
\* Another transaction that has been entered does not lose its entry.
<1>6. ASSUME NEW n \in DOMAIN blockDB, NEW i \in DOMAIN blockDB[n].txs,
             TxHash(blockDB[n].txs[i]) = TxHash(block.txs[k])
      PROVE  n = number /\ i = k
  <2>1. blockDB[n].txs[i] \in Transaction /\ block.txs[k] \in Transaction
    <3>1. blockDB[n].txs \in Seq(Transaction) /\ block.txs \in Seq(Transaction)
      BY <1>3, IntakeAssumption
    <3> QED
      BY <1>4, <1>6, <3>1, EntryOfSeq
  <2>2. blockDB[n].txs[i].nonce = block.txs[k].nonce
    BY <1>6, <2>1, HashHasNonce
  <2>3. blockDB[n].txs[i].sender = block.txs[k].sender
    BY <1>3, <1>4, <1>6 DEF OneSigner
  <2> QED
    BY <1>3, <1>4, <1>5, <2>2, <2>3 DEF NonceInv
<1>7. ASSUME NEW n \in DOMAIN blockDB, NEW i \in DOMAIN blockDB[n].txs, TxEntered(n, i)'
      PROVE  TxEntered(n, i) \/ (n = number /\ i = k)
  <2>1. i \in 1..Len(blockDB[n].txs) /\ Len(blockDB[n].txs) \in Nat
    BY <1>3, IntakeAssumption
  <2>2. blockDB[n] = block => n = number
    BY <1>3
  <2>3. blockDB[n] = block /\ i <= k => TxEntered(n, i) \/ (n = number /\ i = k)
    <3>1. i <= k /\ i # k => i <= task[h].txIndex
      BY <1>4, <2>1
    <3> QED
      BY <1>1, <2>2, <3>1 DEF TxEntered
  <2>4. CASE n <= latestBlock'.blockNumber
    <3>1. latestBlock' = block => n <= latestBlock.blockNumber \/ (blockDB[n] = block /\ n = number)
      BY <1>3, <2>4
    <3>2. blockDB[n] = block /\ k = Len(block.txs) => i <= k
      BY <2>1
    <3> QED
      BY <1>1, <2>3, <2>4, <3>1, <3>2 DEF TxEntered
  <2>5. ASSUME NEW g \in Handler, At(g, "txhashDB")', blockDB'[n] = task'[g].block,
               i <= task'[g].txIndex
        PROVE  TxEntered(n, i) \/ (n = number /\ i = k)
    <3>1. CASE g = h
      BY <1>1, <2>3, <2>5, <3>1 DEF At
    <3>2. CASE g # h
      BY <1>1, <1>2, <2>5, <3>2 DEF TxEntered, At
    <3> QED
      BY <3>1, <3>2
  <2> QED
    BY <1>7, <2>4, <2>5 DEF TxEntered
<1>8. ASSUME NEW n \in DOMAIN blockDB, NEW i \in DOMAIN blockDB[n].txs, TxEntered(n, i)'
      PROVE  LET hash == TxHash(blockDB[n].txs[i])
             IN  hash \in DOMAIN txhashDB' /\ txhashDB'[hash] = <<n, i - 1>>
  <2> DEFINE hash == TxHash(blockDB[n].txs[i])
  <2>1. CASE n = number /\ i = k
    BY <1>1, <1>3, <2>1 DEF Put
  <2>2. CASE ~(n = number /\ i = k)
    <3>1. hash \in DOMAIN txhashDB /\ txhashDB[hash] = <<n, i - 1>>
      BY <1>7, <1>8, <2>2 DEF TxInv
    <3>2. hash # TxHash(block.txs[k])
      BY <1>6, <2>2
    <3> HIDE DEF hash
    <3> QED
      BY <1>1, <3>1, <3>2 DEF Put, hash
  <2> QED
    BY <2>1, <2>2
<1> QED
  BY <1>1, <1>8 DEF TxInv

LEMMA NextTxInv ==
  ASSUME OneSigner, NoCrash', IInv, AInv, RInv, NonceInv, TxInv, [Next]_vars
  PROVE  TxInv'
<1>1. CASE UNCHANGED vars \/ \E block \in PeerBlock : Discard(block)
  <2>1. UNCHANGED <<task, blockDB, txhashDB, latestBlock>>
    BY <1>1 DEF vars, stores, chainInfo, Discard
  <2> QED
    BY <2>1, TxFrame DEF TxEntered, At
<1>2. ASSUME NEW h \in Handler, NEW block \in PeerBlock, Receive(h, block)
      PROVE  TxInv'
  <2>1. /\ UNCHANGED <<blockDB, txhashDB, latestBlock>>
        /\ \A g \in Handler : At(g, "txhashDB")' => task'[g] = task[g]
    BY <1>2 DEF Receive, At, IdleTask, IInv, TypeOK, stores
  <2> QED
    BY <2>1, TxFrame DEF TxEntered, At
<1>3. ASSUME NEW h \in Handler,
             \/ CheckOrder(h) \/ Replay(h) \/ FlushState(h) \/ FlushCode(h)
             \/ UpdateDifficulty(h) \/ Relay(h)
      PROVE  TxInv'
  <2>1. UNCHANGED <<blockDB, txhashDB, latestBlock>> /\ task'[h].pc # "txhashDB"
    <3> USE DEF IInv, TypeOK, IsTask, IdleTask
    <3>1. CASE CheckOrder(h) \/ Replay(h)
      BY <3>1 DEF CheckOrder, Replay, Goto, Finish, stores, chainInfo
    <3>2. CASE FlushState(h)
      BY <3>2 DEF FlushState, chainInfo
    <3>3. CASE FlushCode(h)
      <4>1. /\ UNCHANGED <<blockDB, txhashDB, latestBlock>>
            /\ Finish(h) \/ \E pc \in {"flushState", "difficulty", "blockDB"} : Goto(h, pc)
        BY <3>3 DEF FlushCode, AfterFlush, chainInfo
      <4> QED
        BY <4>1 DEF Goto, Finish
    <3>4. CASE UpdateDifficulty(h) \/ Relay(h)
      BY <3>4 DEF UpdateDifficulty, Relay, Goto, Finish, stores, chainInfo
    <3> QED
      BY <1>3, <3>1, <3>2, <3>3, <3>4
  <2>2. \A g \in Handler : g # h => task'[g] = task[g]
    BY <1>3, StepFrame DEF Step
  <2> QED
    BY <2>1, <2>2, TxFrame DEF TxEntered, At
<1>4. ~LoadChain
  BY DEF LoadChain, RInv
<1> QED
  BY <1>1, <1>2, <1>3, <1>4, NoRestart, PutBlockTxInv, PutBhashTxInv, PutTxhashTxInv DEF Next, Step

\* On a node that does not crash, every transaction of the chain is found by its
\* hash at its own position, as long as no two senders sign the same contents.
THEOREM TxsFoundByHash ==
  ASSUME NoSiblings, OneSigner
  PROVE  Spec /\ []NoCrash /\ []CodeIsLoaded => []TxFoundByHash
<1>1. Init => AInv /\ TxInv
  BY InitAInv, InitTxInv
<1>2. NoCrash' /\ IInv /\ AInv /\ RInv /\ NonceInv /\ TxInv /\ [Next]_vars => AInv' /\ TxInv'
  BY NextAInv, NextTxInv
<1>3. IInv /\ RInv /\ TxInv => TxFoundByHash
  <2> SUFFICES ASSUME IInv, RInv, TxInv, NEW n \in 1..latestBlock.blockNumber,
                      NEW i \in DOMAIN blockDB[n].txs
               PROVE  LET hash == TxHash(blockDB[n].txs[i])
                      IN  hash \in DOMAIN txhashDB /\ txhashDB[hash] = <<n, i - 1>>
    BY DEF TxFoundByHash
  <2>1. latestBlock.blockNumber \in DOMAIN blockDB
    BY DEF RInv, IInv, TipInv
  <2>2. n \in DOMAIN blockDB /\ n <= latestBlock.blockNumber
    BY <2>1 DEF IInv, ChainInv, Dense
  <2> QED
    BY <2>2 DEF TxInv, TxEntered
<1> QED
  BY <1>1, <1>2, <1>3, Invariance, LogInvariance, PTL DEF Spec

-----------------------------------------------------------------------------
(* When no flush throws.                                                   *)

\* No account that a contract pays becomes a contract in a block.
PayeesHoldNoCode == \A block \in PeerBlock : PayeesDeployNothing(block.txs)

LoadInv ==
  /\ PayeesArePlain(stateDB)
  /\ \A h \in Handler : Loaded(task[h].work)

LEMMA EmptyWorkLoads == Loaded(EmptyWork) /\ Loaded(IdleTask.work)
BY EmptyWorkOK DEF Loaded, IdleTask

\* A step of a handler that neither verifies a block nor writes an account.
LEMMA LoadFrame ==
  ASSUME AInv, LoadInv, NEW h \in Handler, UNCHANGED stateDB,
         \/ Finish(h) \/ UNCHANGED task
         \/ \E pc : Goto(h, pc)
         \/ \E pc, i : task' = [task EXCEPT ![h].pc = pc, ![h].txIndex = i]
         \/ \E pc, block : task' = [task EXCEPT ![h] = [IdleTask EXCEPT !.pc = pc, !.block = block]]
  PROVE  LoadInv'
<1>1. DOMAIN task = Handler /\ DOMAIN task[h] = DOMAIN IdleTask /\ Loaded(task[h].work)
  BY DEF AInv, TaskOK, IsTask, LoadInv
<1>2. Loaded(EmptyWork) /\ IdleTask.work = EmptyWork
  BY EmptyWorkLoads DEF IdleTask
<1>3. /\ \A g \in Handler \ {h} : task'[g] = task[g]
      /\ task'[h].work = task[h].work \/ task'[h].work = EmptyWork
  BY <1>1, <1>2 DEF Finish, Goto, IdleTask
<1> QED
  BY <1>1, <1>2, <1>3 DEF LoadInv, PayeesArePlain

LEMMA ReplayLoads ==
  ASSUME PayeesHoldNoCode, AInv, LoadInv, NEW h \in Handler, Replay(h)
  PROVE  LoadInv'
<1> DEFINE work == Transit(stateDB, codeDB, task[h].block)
<1>1. /\ TaskOK(task[h]) /\ DOMAIN task = Handler /\ AccountsOK(stateDB) /\ UNCHANGED stateDB
  BY DEF AInv, Replay, stores
<1>2. CASE Finish(h)
  BY <1>1, <1>2, LoadFrame
<1>3. CASE task' = [task EXCEPT ![h].pc = "flushState", ![h].work = work,
                                ![h].unwritten = DOMAIN work.states]
  <2>1. BlockOK(task[h].block) /\ PayeesDeployNothing(task[h].block.txs)
    <3>1. task[h].block \in PeerBlock
      BY <1>1 DEF TaskOK, IsTask, Replay, At
    <3>2. BlockOK(task[h].block)
      BY <3>1, IntakeAssumption DEF BlockOK, Block
    <3> QED
      BY <3>1, <3>2 DEF PayeesHoldNoCode
  <2>2. Loaded(work)
    BY <1>1, <2>1, TransitLoads DEF LoadInv
  <2> HIDE DEF work
  <2>3. /\ \A g \in Handler \ {h} : task'[g] = task[g]
        /\ task'[h].work = work
    BY <1>1, <1>3 DEF TaskOK, IsTask, IdleTask
  <2> QED
    BY <1>1, <2>2, <2>3 DEF LoadInv, PayeesArePlain
<1> QED
  BY <1>2, <1>3 DEF Replay

LEMMA FlushStateLoads ==
  ASSUME AInv, LoadInv, NEW h \in Handler, FlushState(h)
  PROVE  LoadInv'
<1>1. /\ TaskOK(task[h]) /\ DOMAIN task = Handler /\ AccountsOK(stateDB)
      /\ Loaded(task[h].work) /\ PayeesArePlain(stateDB)
  BY DEF AInv, LoadInv
<1>2. PICK a \in task[h].unwritten :
        /\ stateDB' = [stateDB EXCEPT ![a] = task[h].work.states[a]]
        /\ task' = [task EXCEPT ![h].pc = "flushCode", ![h].account = a,
                                ![h].unwritten = @ \ {a}]
  BY DEF FlushState
<1>3. a \in DOMAIN task[h].work.states
  BY <1>1 DEF TaskOK
<1>4. PayeesArePlain(stateDB')
  BY <1>1, <1>2, <1>3 DEF PayeesArePlain, Loaded, AccountsOK
<1>5. \A g \in Handler : task'[g].work = task[g].work
  BY <1>1, <1>2 DEF TaskOK, IsTask, IdleTask
<1> QED
  BY <1>4, <1>5 DEF LoadInv, PayeesArePlain

LEMMA NextLoads ==
  ASSUME PayeesHoldNoCode, AInv, LoadInv, [Next]_vars
  PROVE  LoadInv'
<1>1. CASE UNCHANGED vars
  BY <1>1 DEF vars, stores, LoadInv, PayeesArePlain
<1>2. ASSUME NEW block \in PeerBlock, Discard(block)
      PROVE  LoadInv'
  BY <1>2 DEF Discard, stores, LoadInv, PayeesArePlain
<1>3. ASSUME NEW h \in Handler, NEW block \in PeerBlock, Receive(h, block)
      PROVE  LoadInv'
  <2>1. /\ UNCHANGED stateDB
        /\ \/ task' = task
           \/ \E pc : task' = [task EXCEPT ![h] = [IdleTask EXCEPT !.pc = pc, !.block = block]]
    BY <1>3 DEF Receive, stores
  <2> QED
    BY <2>1, LoadFrame
<1>4. ASSUME NEW h \in Handler, Step(h)
      PROVE  LoadInv'
  <2>1. CASE CheckOrder(h)
    BY <2>1, LoadFrame DEF CheckOrder, stores
  <2>2. CASE Replay(h)
    BY <2>2, ReplayLoads
  <2>3. CASE FlushState(h)
    BY <2>3, FlushStateLoads
  <2>4. CASE FlushCode(h)
    BY <2>4, LoadFrame DEF FlushCode
  <2>5. CASE UpdateDifficulty(h) \/ PutBlock(h)
    BY <2>5, LoadFrame DEF UpdateDifficulty, PutBlock, stores
  <2>6. CASE PutBhash(h) \/ PutTxhash(h)
    <3>1. /\ UNCHANGED stateDB
          /\ \/ \E pc : Goto(h, pc)
             \/ \E pc, i : task' = [task EXCEPT ![h].pc = pc, ![h].txIndex = i]
      BY <2>6 DEF PutBhash, PutTxhash, AfterIndex
    <3> QED
      BY <3>1, LoadFrame
  <2>7. CASE Relay(h)
    BY <2>7, LoadFrame DEF Relay, stores
  <2> QED
    BY <1>4, <2>1, <2>2, <2>3, <2>4, <2>5, <2>6, <2>7 DEF Step
<1>5. CASE Restart
  <2>1. \A h \in Handler : task'[h] = IdleTask
    BY <1>5 DEF Restart
  <2> QED
    BY <1>5, <2>1, EmptyWorkLoads DEF Restart, stores, LoadInv, PayeesArePlain
<1>6. CASE LoadChain
  BY <1>6 DEF LoadChain, stores, LoadInv, PayeesArePlain
<1> QED
  BY <1>1, <1>2, <1>3, <1>4, <1>5, <1>6 DEF Next

\* Where contracts pay accounts without code only, the flush of a block never
\* throws, with crashes and competing blocks as well: what the theorems above
\* assume of the flushes holds.
THEOREM FlushesDoNotThrow ==
  ASSUME PayeesHoldNoCode
  PROVE  Spec => []CodeIsLoaded
<1>1. Init => AInv /\ LoadInv
  <2> SUFFICES ASSUME Init PROVE LoadInv
    BY InitAInv
  <2>1. stateDB = InitialLedger /\ \A h \in Handler : task[h] = IdleTask
    BY DEF Init
  <2> QED
    BY <2>1, EmptyWorkLoads, GenesisAssumption DEF LoadInv, PayeesArePlain
<1>2. AInv /\ LoadInv /\ [Next]_vars => AInv' /\ LoadInv'
  BY NextAInv, NextLoads
<1>3. LoadInv => CodeIsLoaded
  BY DEF LoadInv, CodeIsLoaded, Loaded, CodeOf
<1> QED
  BY <1>1, <1>2, <1>3, PTL DEF Spec

\* Taken together, with hypotheses on the constants alone: while the process
\* lives, its chain is a log of valid blocks and its accounts are their sum.
THEOREM LedgerOfTheChain ==
  ASSUME NoSiblings, PayeesHoldNoCode, MaxRestarts = 0
  PROVE  Spec => ImplementsLedgerLog /\ []SupplyConserved /\ []ExecutedOnce
<1>1. Init => NoCrash
  BY DEF Init, NoCrash
<1>2. NoCrash /\ [Next]_vars => NoCrash'
  <2> SUFFICES ASSUME NoCrash, [Next]_vars PROVE NoCrash'
    OBVIOUS
  <2>1. ~Restart
    BY DEF NoCrash, Restart
  <2>2. UNCHANGED restarts
    <3>1. \A h \in Handler : Step(h) => UNCHANGED restarts
      BY DEF Step, CheckOrder, Replay, FlushState, FlushCode, UpdateDifficulty, PutBlock,
             PutBhash, PutTxhash, Relay, process
    <3> QED
      BY <2>1, <3>1 DEF Next, vars, process, Discard, Receive, LoadChain
  <2> QED
    BY <2>2 DEF NoCrash
<1>3. Spec => []NoCrash
  BY <1>1, <1>2, PTL DEF Spec
<1> QED
  BY <1>3, FlushesDoNotThrow, Refinement, SupplyIsConserved, NoReplay, PTL

=============================================================================
