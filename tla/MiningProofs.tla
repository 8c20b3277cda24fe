----------------------------- MODULE MiningProofs -----------------------------
(***************************************************************************)
(* Proofs about a mining node, for any transactions, any blocks of other   *)
(* miners, any number of jobs and any interleaving: events may arrive in   *)
(* the middle of every await (Overlap is arbitrary).                       *)
(*                                                                         *)
(* The code checks less than its properties need, so each theorem names    *)
(* the events that break its property, as a condition on single steps or   *)
(* states, and shows that nothing else does.                               *)
(*                                                                         *)
(* The first part is about the race for a block.  The second is about the  *)
(* ledger: what mine() selects and writes is what verifyBlock accepts and  *)
(* writes, a sweep leaves a pool from which that can be selected, and the  *)
(* accounts are the replay of the chain, whoever mined it.                 *)
(***************************************************************************)
EXTENDS Mining, LedgerProofs

JobFields == {"pc", "block", "result", "work", "unwritten"}
BlockFields == {"hash", "parentHash", "blockNumber", "txs", "coinbase"}

Current == Len(workers)

\* A job waits for an answer of a worker; a worker has a block to hash or has
\* sent one.
Waits(w, j) == j \in Range(workers[w].listeners) /\ jobs[j].pc = "hash"
Active(w) == workers[w].queue # << >> \/ workers[w].outbox # << >>

\* A job that has asked the current worker for a block, or is about to, and one
\* whose block may still be added.
Asks(j) == jobs[j].pc = "select" \/ Waits(Current, j)
Pending(j) == jobs[j].pc = "select" \/ \E w \in DOMAIN workers : Waits(w, j) /\ Active(w)

\* Both looks of the code at a new block: its parent's hash and its number.
IsChild(block) ==
  block.parentHash = latestBlock.hash /\ block.blockNumber = latestBlock.blockNumber + 1

\* A block that is not yet the latest but will be.
Unadded(j) == jobs[j].pc \in {"blockDB", "index"}
RivalWrites == rival.pc \in {"flush", "blockDB", "index"}

-----------------------------------------------------------------------------
(* The events the code does not guard against.                             *)

\* loopMine starts a job while another has yet to be answered by the worker
\* both will listen to.
TimerWaits == Tick => \A j \in DOMAIN jobs : ~Asks(j)

\* A block becomes the latest while another is being written, or while a job is
\* under way with another and mined is not set.
OvertakesNone ==
  latestBlock' # latestBlock =>
    /\ ~RivalWrites' /\ \A j \in DOMAIN jobs : ~Unadded(j)'
    /\ mined \/ \A j \in DOMAIN jobs : ~Pending(j)

\* The job that clears mined is not the last one whose block is overtaken.
ForgetsNone ==
  mined /\ ~mined' => \A j \in DOMAIN jobs : Pending(j)' => IsChild(jobs[j].block)

\* A block becomes the latest between the writes of another job and its message
\* to the peers, which sends the latest block.
KeepsLatest ==
  latestBlock' # latestBlock => \A j \in DOMAIN jobs : jobs[j].pc \notin {"reward", "flush", "sweep"}

\* codeDB.put throws between the chain and the message.
NoFlushThrows ==
  \A j \in DOMAIN jobs : jobs[j].pc = "flush" =>
    CodeOf(jobs[j].work.states) \subseteq jobs[j].work.code

\* Two handlers write at once.
Writes(j) == jobs[j].pc \in {"blockDB", "index", "reward", "flush"}

OneWrites ==
  /\ \A j, k \in DOMAIN jobs : Writes(j) /\ Writes(k) => j = k
  /\ RivalWrites => \A j \in DOMAIN jobs : ~Writes(j)

\* A job selects while the accounts of the latest block are being written, or
\* from a pool with a gap.
FullyWritten == ~RivalWrites /\ \A j \in DOMAIN jobs : jobs[j].pc \notin {"reward", "flush"}

SelectsInOrder ==
  \A j \in DOMAIN jobs : Collect(j) => FullyWritten /\ HasValidTxOrder(stateDB, transactionPool)

-----------------------------------------------------------------------------
(* What holds between them.                                                *)

\* A sequence, and the records the steps update.
IsSeq(s) == Len(s) \in Nat /\ DOMAIN s = 1..Len(s) /\ s = [i \in 1..Len(s) |-> s[i]]

IsJobs(js) ==
  /\ IsSeq(js)
  /\ \A j \in DOMAIN js : DOMAIN js[j] = JobFields /\ DOMAIN js[j].block = BlockFields

IsWorkers(ws) ==
  /\ IsSeq(ws) /\ Len(ws) # 0
  /\ \A w \in DOMAIN ws : DOMAIN ws[w] = DOMAIN FreshWorker /\ ws[w].listeners \in Seq(Nat)

Shapes ==
  /\ IsJobs(jobs) /\ IsWorkers(workers) /\ DOMAIN rival = DOMAIN IdleRival
  /\ \A w \in DOMAIN workers : Range(workers[w].listeners) \subseteq DOMAIN jobs

\* A job listens to one worker, after its selection.
ListensOnce ==
  \A w \in DOMAIN workers : \A j \in Range(workers[w].listeners) :
    /\ jobs[j].pc # "select"
    /\ \A x \in DOMAIN workers : j \in Range(workers[x].listeners) => x = w

\* What a worker has to hash or has sent is the block of the only job which
\* waits for it, and only the current worker still hashes.
OneOnItsWay ==
  /\ \A w \in DOMAIN workers : w # Current => workers[w].queue = << >>
  /\ \A w \in DOMAIN workers : \A j, k \in DOMAIN jobs : Waits(w, j) /\ Waits(w, k) => j = k
  /\ \A w \in DOMAIN workers : Active(w) =>
       \E j \in DOMAIN jobs :
         /\ Waits(w, j)
         /\ \/ workers[w].queue = <<j>> /\ workers[w].outbox = << >>
            \/ workers[w].queue = << >> /\ workers[w].outbox = <<jobs[j].block>>

OneAsks == \A j, k \in DOMAIN jobs : Asks(j) /\ Asks(k) => j = k

WorkerInv == Shapes /\ ListensOnce /\ OneOnItsWay /\ OneAsks /\ TakesOwnResult

\* What is being written will be a child of the latest block, and so will what
\* is mined, unless mined is set.
ChildInv ==
  /\ RivalWrites => IsChild(rival.block)
  /\ \A j \in DOMAIN jobs : Unadded(j) => IsChild(jobs[j].result)
  /\ mined \/ \A j \in DOMAIN jobs : Pending(j) => IsChild(jobs[j].block)

\* Every block but those being added has been announced.
AnnounceInv ==
  /\ \A j \in DOMAIN jobs : jobs[j].pc = "flush" => jobs[j].unwritten \subseteq DOMAIN jobs[j].work.states
  /\ \A j \in DOMAIN jobs : jobs[j].pc \in {"reward", "flush", "sweep"} => jobs[j].result = latestBlock
  /\ \A n \in DOMAIN blockDB \ {1} :
       \/ blockDB[n] \in announced
       \/ \E j \in DOMAIN jobs :
            jobs[j].pc \in {"index", "reward", "flush", "sweep"} /\ blockDB[n] = jobs[j].result
       \/ rival.pc \in {"index", "sweep"} /\ blockDB[n] = rival.block


-----------------------------------------------------------------------------
(* Sequences and workers.                                                  *)

LEMMA SeqShape ==
  ASSUME NEW n \in Nat, NEW s, s = [i \in 1..n |-> s[i]]
  PROVE  IsSeq(s) /\ Len(s) = n /\ s \in Seq({s[i] : i \in 1..n})
<1>1. s \in [1..n -> {s[i] : i \in 1..n}]
  OBVIOUS
<1>2. s \in Seq({s[i] : i \in 1..n})
  BY <1>1
<1>3. Len(s) = n
  BY <1>1, <1>2
<1> QED
  BY <1>2, <1>3 DEF IsSeq

LEMMA Appended ==
  ASSUME NEW s, IsSeq(s), NEW x
  PROVE  /\ IsSeq(Append(s, x)) /\ Len(Append(s, x)) = Len(s) + 1
         /\ DOMAIN Append(s, x) = 1..(Len(s) + 1)
         /\ \A i \in 1..Len(s) : Append(s, x)[i] = s[i]
         /\ Append(s, x)[Len(s) + 1] = x
<1> DEFINE S == {s[i] : i \in 1..Len(s)} \cup {x}
<1>1. s \in Seq(S)
  <2>1. s \in Seq({s[i] : i \in 1..Len(s)})
    BY SeqShape DEF IsSeq
  <2> QED
    BY <2>1
<1>2. Append(s, x) \in Seq(S)
  BY <1>1
<1> HIDE DEF S
<1>3. Len(s) \in Nat /\ Len(Append(s, x)) = Len(s) + 1
  BY <1>1
<1>4. DOMAIN Append(s, x) = 1..(Len(s) + 1)
  BY <1>2, <1>3
<1>5. Append(s, x) = [i \in 1..(Len(s) + 1) |-> Append(s, x)[i]]
  <2>1. \A t \in Seq(S) : t = [i \in 1..Len(t) |-> t[i]]
    OBVIOUS
  <2> QED
    BY <2>1, <1>2, <1>3
<1>6. \A i \in 1..Len(s) : Append(s, x)[i] = s[i]
  BY <1>1
<1>7. Append(s, x)[Len(s) + 1] = x
  BY <1>1
<1> QED
  BY <1>3, <1>4, <1>5, <1>6, <1>7 DEF IsSeq

LEMMA ReforkIs ==
  ASSUME NEW ws, IsWorkers(ws)
  PROVE  /\ IsWorkers(Refork(ws)) /\ Len(Refork(ws)) = Len(ws) + 1
         /\ DOMAIN Refork(ws) = DOMAIN ws \cup {Len(ws) + 1}
         /\ Refork(ws)[Len(ws) + 1] = FreshWorker
         /\ \A w \in DOMAIN ws :
              /\ Refork(ws)[w].listeners = ws[w].listeners
              /\ Refork(ws)[w].outbox = ws[w].outbox
              /\ w = Len(ws) => Refork(ws)[w].queue = << >>
              /\ w # Len(ws) => Refork(ws)[w].queue = ws[w].queue
<1> DEFINE killed == [ws EXCEPT ![Len(ws)].queue = << >>]
<1>1. /\ Len(ws) \in Nat \ {0} /\ DOMAIN ws = 1..Len(ws)
      /\ \A w \in DOMAIN ws : DOMAIN ws[w] = {"queue", "listeners", "outbox"}
      /\ \A w \in DOMAIN ws : ws[w].listeners \in Seq(Nat)
  BY DEF IsWorkers, IsSeq, FreshWorker
<1>2. killed = [w \in 1..Len(ws) |-> killed[w]]
  BY <1>1
<1>3. \A w \in DOMAIN ws :
        /\ DOMAIN killed[w] = {"queue", "listeners", "outbox"}
        /\ killed[w].listeners = ws[w].listeners
        /\ killed[w].outbox = ws[w].outbox
        /\ killed[w].queue = IF w = Len(ws) THEN << >> ELSE ws[w].queue
  BY <1>1
<1>4. IsSeq(killed) /\ Len(killed) = Len(ws)
  <2> HIDE DEF killed
  <2> QED
    BY <1>1, <1>2, SeqShape
<1>5. Refork(ws) = Append(killed, FreshWorker)
  BY DEF Refork
<1>6. << >> \in Seq(Nat) /\ FreshWorker.listeners = << >>
      /\ DOMAIN FreshWorker = {"queue", "listeners", "outbox"}
  BY DEF FreshWorker
<1> HIDE DEF killed
<1>7. /\ IsSeq(Refork(ws)) /\ Len(Refork(ws)) = Len(ws) + 1
      /\ DOMAIN Refork(ws) = 1..(Len(ws) + 1)
      /\ \A w \in DOMAIN ws : Refork(ws)[w] = killed[w]
      /\ Refork(ws)[Len(ws) + 1] = FreshWorker
  BY <1>1, <1>4, <1>5, Appended
<1>8. \A w \in 1..(Len(ws) + 1) : w \in DOMAIN ws \/ w = Len(ws) + 1
  BY <1>1
<1>9. IsWorkers(Refork(ws))
  <2> SUFFICES ASSUME NEW w \in DOMAIN Refork(ws)
               PROVE  /\ DOMAIN Refork(ws)[w] = {"queue", "listeners", "outbox"}
                      /\ Refork(ws)[w].listeners \in Seq(Nat)
    BY <1>1, <1>6, <1>7 DEF IsWorkers
  <2>1. CASE w \in DOMAIN ws
    BY <1>1, <1>3, <1>7, <2>1
  <2>2. CASE w = Len(ws) + 1
    BY <1>6, <1>7, <2>2
  <2> QED
    BY <1>7, <1>8, <2>1, <2>2
<1>10. DOMAIN Refork(ws) = DOMAIN ws \cup {Len(ws) + 1}
  BY <1>1, <1>7, <1>8
<1> QED
  BY <1>3, <1>7, <1>9, <1>10

LEMMA SameLength ==
  ASSUME NEW s, IsSeq(s), NEW t, t = [i \in DOMAIN s |-> t[i]]
  PROVE  IsSeq(t) /\ Len(t) = Len(s) /\ DOMAIN t = DOMAIN s
<1>1. DOMAIN s = 1..Len(s) /\ Len(s) \in Nat
  BY DEF IsSeq
<1> QED
  BY <1>1, SeqShape

\* An entry of a sequence is replaced or a new last one added.
LEMMA PutIs ==
  ASSUME NEW s, IsSeq(s), NEW j \in 1..(Len(s) + 1), NEW x
  PROVE  /\ IsSeq(Put(s, j, x)) /\ DOMAIN Put(s, j, x) = DOMAIN s \cup {j}
         /\ Put(s, j, x)[j] = x
         /\ \A k \in DOMAIN s \ {j} : Put(s, j, x)[k] = s[k]
<1> DEFINE t == Put(s, j, x)
           n == IF j = Len(s) + 1 THEN j ELSE Len(s)
<1>1. DOMAIN s = 1..Len(s) /\ Len(s) \in Nat
  BY DEF IsSeq
<1>2. n \in Nat /\ DOMAIN s \cup {j} = 1..n
  BY <1>1
<1>3. t = [i \in DOMAIN s \cup {j} |-> IF i = j THEN x ELSE s[i]]
  BY DEF Put
<1> HIDE DEF t, n
<1>4. t = [i \in 1..n |-> t[i]]
  BY <1>2, <1>3
<1>5. IsSeq(t)
  BY <1>2, <1>4, SeqShape
<1> QED
  BY <1>3, <1>5 DEF t

\* The job listens to the current worker and is the last it has to hash.
LEMMA SendIs ==
  ASSUME Shapes, NEW j \in 1..(Len(jobs) + 1),
         NEW job, DOMAIN job = JobFields, DOMAIN job.block = BlockFields, SendToWorker(j, job)
  PROVE  /\ IsJobs(jobs') /\ DOMAIN jobs' = DOMAIN jobs \cup {j}
         /\ jobs'[j].pc = "hash" /\ jobs'[j].block = job.block
         /\ \A k \in DOMAIN jobs \ {j} : jobs'[k] = jobs[k]
         /\ IsWorkers(workers') /\ Len(workers') = Len(workers) /\ DOMAIN workers' = DOMAIN workers
         /\ ~Active(Current) => workers'[Current].queue = <<j>> /\ workers'[Current].outbox = << >>
         /\ Range(workers'[Current].listeners) = Range(workers[Current].listeners) \cup {j}
         /\ \A w \in DOMAIN workers \ {Current} : workers'[w] = workers[w]
<1> DEFINE sent == [job EXCEPT !.pc = "hash"]
           heard == workers[Current].listeners
<1>1. /\ Len(workers) \in Nat \ {0} /\ DOMAIN workers = 1..Len(workers)
      /\ Current \in DOMAIN workers /\ heard \in Seq(Nat) /\ j \in Nat
      /\ \A w \in DOMAIN workers : DOMAIN workers[w] = {"queue", "listeners", "outbox"}
      /\ IsSeq(workers) /\ IsSeq(jobs) /\ Len(jobs) \in Nat
  BY DEF Shapes, IsWorkers, IsSeq, IsJobs, FreshWorker, Current
<1>2. /\ DOMAIN sent = JobFields /\ sent.pc = "hash" /\ sent.block = job.block
  BY DEF JobFields
<1>3. jobs' = Put(jobs, j, sent)
  BY DEF SendToWorker
<1> HIDE DEF sent
<1>4. /\ IsJobs(jobs') /\ DOMAIN jobs' = DOMAIN jobs \cup {j} /\ jobs'[j] = sent
      /\ \A k \in DOMAIN jobs \ {j} : jobs'[k] = jobs[k]
  <2>1. /\ IsSeq(jobs') /\ DOMAIN jobs' = DOMAIN jobs \cup {j} /\ jobs'[j] = sent
        /\ \A k \in DOMAIN jobs \ {j} : jobs'[k] = jobs[k]
    <3>1. IsSeq(Put(jobs, j, sent)) /\ DOMAIN Put(jobs, j, sent) = DOMAIN jobs \cup {j}
      BY <1>1, PutIs
    <3>2. jobs' = [k \in DOMAIN jobs \cup {j} |-> IF k = j THEN sent ELSE jobs[k]]
      BY <1>3 DEF Put
    <3> QED
      BY <1>3, <3>1, <3>2
  <2> QED
    BY <1>2, <2>1 DEF IsJobs, Shapes
<1>5. workers' = [workers EXCEPT ![Current].queue = Append(@, j), ![Current].listeners = Append(@, j)]
  BY DEF SendToWorker, Current
<1>6. ~Active(Current) => workers[Current].queue = << >> /\ workers[Current].outbox = << >>
  BY DEF Active
<1>7. /\ workers' = [w \in DOMAIN workers |-> workers'[w]]
      /\ \A w \in DOMAIN workers \ {Current} : workers'[w] = workers[w]
      /\ DOMAIN workers'[Current] = {"queue", "listeners", "outbox"}
      /\ workers'[Current].queue = Append(workers[Current].queue, j)
      /\ workers'[Current].outbox = workers[Current].outbox
      /\ workers'[Current].listeners = Append(heard, j)
  BY <1>1, <1>5
<1>8. IsSeq(workers') /\ Len(workers') = Len(workers) /\ DOMAIN workers' = DOMAIN workers
  BY <1>1, <1>7, SameLength
<1>9. Append(heard, j) \in Seq(Nat) /\ Range(Append(heard, j)) = Range(heard) \cup {j}
  <2>1. /\ Append(heard, j) \in Seq(Nat) /\ Len(heard) \in Nat
        /\ DOMAIN heard = 1..Len(heard) /\ DOMAIN Append(heard, j) = 1..(Len(heard) + 1)
        /\ \A i \in 1..Len(heard) : Append(heard, j)[i] = heard[i]
        /\ Append(heard, j)[Len(heard) + 1] = j
    BY <1>1
  <2> HIDE DEF heard
  <2>2. \A i \in 1..(Len(heard) + 1) : i \in 1..Len(heard) \/ i = Len(heard) + 1
    BY <2>1
  <2> QED
    BY <2>1, <2>2 DEF Range
<1>10. IsWorkers(workers')
  BY <1>1, <1>7, <1>8, <1>9 DEF IsWorkers, Shapes, FreshWorker
<1>11. Append(<< >>, j) = <<j>>
  OBVIOUS
<1> QED
  BY <1>2, <1>4, <1>6, <1>7, <1>8, <1>9, <1>10, <1>11

LEMMA MinIs ==
  ASSUME NEW S, S \subseteq Nat, S # {}
  PROVE  Min(S) \in S
<1> DEFINE Bounds == {n \in Nat : \A y \in S : n <= y}
<1>1. \E x \in S : \A y \in S : x <= y
  <2> SUFFICES ASSUME \A x \in S : \E y \in S : ~(x <= y)
               PROVE  FALSE
    OBVIOUS
  <2>1. 0 \in Bounds
    OBVIOUS
  <2>2. ASSUME NEW n \in Nat, n \in Bounds
        PROVE  n + 1 \in Bounds
    <3>1. n \notin S
      BY <2>2
    <3>2. \A y \in S : n <= y /\ y # n /\ y \in Nat
      BY <2>2, <3>1
    <3> QED
      BY <3>2
  <2>3. Nat \subseteq Bounds
    <3> HIDE DEF Bounds
    <3> QED
      BY <2>1, <2>2, SettleFold!Induction
  <2>4. PICK x \in S : TRUE
    OBVIOUS
  <2>5. x + 1 \in Bounds
    BY <2>3, <2>4
  <2> QED
    BY <2>4, <2>5
<1> QED
  BY <1>1 DEF Min

-----------------------------------------------------------------------------
(* Jobs and workers, one step at a time.                                   *)

LEMMA FreshIs ==
  /\ FreshWorker.queue = << >> /\ FreshWorker.outbox = << >>
  /\ FreshWorker.listeners = << >> /\ Range(FreshWorker.listeners) = {}
BY DEF FreshWorker, Range

LEMMA WorkersAre ==
  ASSUME WorkerInv
  PROVE  /\ Len(workers) \in DOMAIN workers /\ Len(workers) \in Nat /\ Len(workers) + 1 \notin DOMAIN workers
         /\ \A w \in DOMAIN workers : Range(workers[w].listeners) \subseteq DOMAIN jobs
<1>1. /\ IsSeq(workers) /\ Len(workers) # 0
      /\ \A w \in DOMAIN workers : Range(workers[w].listeners) \subseteq DOMAIN jobs
  BY DEF WorkerInv, Shapes, IsWorkers
<1> QED
  BY <1>1 DEF IsSeq

\* Nothing new is on its way and nobody new asks.
LEMMA NothingNew ==
  ASSUME WorkerInv, IsJobs(jobs'), DOMAIN jobs' = DOMAIN jobs, DOMAIN rival' = DOMAIN IdleRival,
         \A k \in DOMAIN jobs :
           /\ jobs'[k].pc = "hash" => jobs[k].pc = "hash"
           /\ jobs'[k].pc = "select" => jobs[k].pc = "select"
           /\ jobs'[k].pc \in Writing => jobs'[k].result = jobs'[k].block,
         IsWorkers(workers'), DOMAIN workers' = DOMAIN workers \cup {Len(workers')},
         \/ Len(workers') = Len(workers)
         \/ Len(workers') = Len(workers) + 1 /\ workers'[Len(workers')] = FreshWorker,
         \A w \in DOMAIN workers :
           /\ workers'[w].listeners = workers[w].listeners
           /\ w # Len(workers') => workers'[w].queue = << >>
           /\ Active(w)' =>
                \E j \in DOMAIN jobs :
                  /\ Waits(w, j)'
                  /\ \/ workers'[w].queue = <<j>> /\ workers'[w].outbox = << >>
                     \/ workers'[w].queue = << >> /\ workers'[w].outbox = <<jobs'[j].block>>
  PROVE  WorkerInv'
<1>1. /\ FreshWorker.queue = << >> /\ FreshWorker.outbox = << >> /\ Range(FreshWorker.listeners) = {}
      /\ Len(workers) \in DOMAIN workers /\ Len(workers) \in Nat /\ Len(workers) + 1 \notin DOMAIN workers
      /\ \A w \in DOMAIN workers : Range(workers[w].listeners) \subseteq DOMAIN jobs
  BY FreshIs, WorkersAre
<1>2. \A w \in DOMAIN workers' : w \in DOMAIN workers \/ (w = Len(workers') /\ workers'[w] = FreshWorker)
  BY <1>1
<1>3. \A w \in DOMAIN workers' : \A j \in Range(workers'[w].listeners) :
        w \in DOMAIN workers /\ j \in Range(workers[w].listeners) /\ j \in DOMAIN jobs
  BY <1>1, <1>2
<1>4. \A w \in DOMAIN workers' : \A j \in DOMAIN jobs :
        Waits(w, j)' => w \in DOMAIN workers /\ Waits(w, j)
  BY <1>3 DEF Waits
<1>5. Shapes'
  BY <1>3 DEF Shapes
<1>6. ListensOnce'
  BY <1>1, <1>3 DEF WorkerInv, ListensOnce
<1>7. OneOnItsWay'
  <2>1. \A w \in DOMAIN workers' : w # Len(workers') => workers'[w].queue = << >>
    BY <1>2
  <2>2. \A w \in DOMAIN workers' : \A j, k \in DOMAIN jobs : Waits(w, j)' /\ Waits(w, k)' => j = k
    BY <1>4 DEF WorkerInv, OneOnItsWay
  <2>3. \A w \in DOMAIN workers' : Active(w)' => w \in DOMAIN workers
    BY <1>1, <1>2 DEF Active
  <2> QED
    BY <2>1, <2>2, <2>3 DEF OneOnItsWay, Current
<1>8. OneAsks'
  <2>1. \A j \in DOMAIN jobs : Asks(j)' => Asks(j)
    <3> SUFFICES ASSUME NEW j \in DOMAIN jobs, Asks(j)', jobs'[j].pc # "select"
                 PROVE  Asks(j)
      BY DEF Asks
    <3>1. j \in Range(workers'[Len(workers')].listeners) /\ jobs'[j].pc = "hash"
      BY DEF Asks, Current, Waits
    <3>2. Len(workers') \in DOMAIN workers /\ j \in Range(workers[Len(workers')].listeners)
      BY <1>3, <3>1
    <3> QED
      BY <1>1, <3>1, <3>2 DEF Asks, Current, Waits
  <2> QED
    BY <2>1 DEF WorkerInv, OneAsks
<1>9. TakesOwnResult'
  BY DEF TakesOwnResult
<1> QED
  BY <1>5, <1>6, <1>7, <1>8, <1>9 DEF WorkerInv

\* The jobs keep what they asked for, and the current worker may be replaced.
LEMMA JobsGoOn ==
  ASSUME WorkerInv, IsJobs(jobs'), DOMAIN jobs' = DOMAIN jobs, DOMAIN rival' = DOMAIN IdleRival,
         \A k \in DOMAIN jobs :
           /\ jobs'[k].block = jobs[k].block
           /\ jobs'[k].pc = "hash" <=> jobs[k].pc = "hash"
           /\ jobs'[k].pc = "select" => jobs[k].pc = "select"
           /\ jobs'[k].pc \in Writing => jobs'[k].result = jobs'[k].block,
         workers' = workers \/ workers' = Refork(workers)
  PROVE  WorkerInv'
<1>1. /\ IsWorkers(workers) /\ Len(workers) \in DOMAIN workers /\ Len(workers) \in Nat
      /\ \A w \in DOMAIN workers : w \in 1..Len(workers)
      /\ \A w \in DOMAIN workers : w # Len(workers) => workers[w].queue = << >>
      /\ \A w \in DOMAIN workers : Active(w) =>
           \E j \in DOMAIN jobs :
             /\ Waits(w, j)
             /\ \/ workers[w].queue = <<j>> /\ workers[w].outbox = << >>
                \/ workers[w].queue = << >> /\ workers[w].outbox = <<jobs[j].block>>
  BY DEF WorkerInv, Shapes, OneOnItsWay, IsWorkers, IsSeq, Current
<1>2. CASE workers' = workers
  <2>1. \A w \in DOMAIN workers : Active(w)' => Active(w)
    BY <1>2 DEF Active
  <2>2. \A w \in DOMAIN workers, j \in DOMAIN jobs : Waits(w, j) => Waits(w, j)'
    BY <1>2 DEF Waits
  <2>3. \A w \in DOMAIN workers : Active(w)' =>
          \E j \in DOMAIN jobs :
            /\ Waits(w, j)'
            /\ \/ workers'[w].queue = <<j>> /\ workers'[w].outbox = << >>
               \/ workers'[w].queue = << >> /\ workers'[w].outbox = <<jobs'[j].block>>
    BY <1>1, <1>2, <2>1, <2>2
  <2>4. /\ IsWorkers(workers') /\ Len(workers') = Len(workers)
        /\ DOMAIN workers' = DOMAIN workers \cup {Len(workers')}
        /\ \A w \in DOMAIN workers : workers'[w].listeners = workers[w].listeners
        /\ \A w \in DOMAIN workers : w # Len(workers') => workers'[w].queue = << >>
    BY <1>1, <1>2
  <2> QED
    BY <2>3, <2>4, NothingNew
<1>3. CASE workers' = Refork(workers)
  <2>1. /\ IsWorkers(workers') /\ Len(workers') = Len(workers) + 1
        /\ DOMAIN workers' = DOMAIN workers \cup {Len(workers')}
        /\ workers'[Len(workers')] = FreshWorker
        /\ \A w \in DOMAIN workers : /\ workers'[w].listeners = workers[w].listeners
                                     /\ workers'[w].outbox = workers[w].outbox
    BY <1>1, <1>3, ReforkIs
  <2>2. ASSUME NEW w \in DOMAIN workers
        PROVE  workers'[w].queue = << >>
    <3>1. w = Len(workers) => workers'[w].queue = << >>
      BY <1>1, <1>3, ReforkIs
    <3>2. w # Len(workers) => workers'[w].queue = workers[w].queue
      BY <1>1, <1>3, ReforkIs
    <3> QED
      BY <1>1, <3>1, <3>2
  <2>3. \A w \in DOMAIN workers, j \in DOMAIN jobs : Waits(w, j) => Waits(w, j)'
    BY <2>1 DEF Waits
  <2>4. ASSUME NEW w \in DOMAIN workers, Active(w)'
        PROVE  \E j \in DOMAIN jobs :
                 /\ Waits(w, j)'
                 /\ \/ workers'[w].queue = <<j>> /\ workers'[w].outbox = << >>
                    \/ workers'[w].queue = << >> /\ workers'[w].outbox = <<jobs'[j].block>>
    <3>1. workers'[w].outbox # << >> /\ workers[w].outbox # << >>
      BY <2>1, <2>2, <2>4 DEF Active
    <3>2. PICK j \in DOMAIN jobs : Waits(w, j) /\ workers[w].outbox = <<jobs[j].block>>
      BY <1>1, <3>1 DEF Active
    <3> QED
      BY <2>1, <2>2, <2>3, <3>2
  <2> QED
    BY <2>1, <2>2, <2>4, NothingNew
<1> QED
  BY <1>2, <1>3

LEMMA WorkerFrame ==
  ASSUME WorkerInv, UNCHANGED jobs, DOMAIN rival' = DOMAIN IdleRival,
         workers' = workers \/ workers' = Refork(workers)
  PROVE  WorkerInv'
<1>1. IsJobs(jobs') /\ \A k \in DOMAIN jobs : jobs'[k].pc \in Writing => jobs'[k].result = jobs'[k].block
  BY DEF WorkerInv, Shapes, TakesOwnResult
<1> QED
  BY <1>1, JobsGoOn

\* One job goes on.
LEMMA JobGoesOn ==
  ASSUME WorkerInv, NEW j \in DOMAIN jobs, UNCHANGED rival, jobs' = [jobs EXCEPT ![j] = jobs'[j]],
         DOMAIN jobs'[j] = JobFields, jobs'[j].block = jobs[j].block,
         jobs[j].pc # "hash", jobs'[j].pc \notin {"hash", "select"},
         jobs'[j].pc \in Writing => jobs[j].pc \in Writing /\ jobs'[j].result = jobs[j].result,
         workers' = workers \/ workers' = Refork(workers)
  PROVE  WorkerInv'
<1>1. /\ IsSeq(jobs) /\ IsJobs(jobs) /\ DOMAIN rival = DOMAIN IdleRival
      /\ \A k \in DOMAIN jobs : jobs[k].pc \in Writing => jobs[k].result = jobs[k].block
  BY DEF WorkerInv, Shapes, IsJobs, TakesOwnResult
<1>2. DOMAIN jobs' = DOMAIN jobs /\ \A k \in DOMAIN jobs \ {j} : jobs'[k] = jobs[k]
  OBVIOUS
<1>3. IsJobs(jobs')
  <2>1. jobs' = [k \in DOMAIN jobs |-> jobs'[k]]
    BY <1>2
  <2>2. IsSeq(jobs')
    BY <1>1, <2>1, SameLength
  <2> QED
    BY <1>1, <1>2, <2>2 DEF IsJobs
<1>4. \A k \in DOMAIN jobs :
        /\ jobs'[k].block = jobs[k].block
        /\ jobs'[k].pc = "hash" <=> jobs[k].pc = "hash"
        /\ jobs'[k].pc = "select" => jobs[k].pc = "select"
        /\ jobs'[k].pc \in Writing => jobs'[k].result = jobs'[k].block
  BY <1>1, <1>2
<1> QED
  BY <1>1, <1>2, <1>3, <1>4, JobsGoOn

\* A job that selects, or a new one, sends its block to the current worker.
LEMMA SendKeeps ==
  ASSUME WorkerInv, NEW j \in 1..(Len(jobs) + 1), NEW job, DOMAIN job = JobFields,
         DOMAIN job.block = BlockFields, SendToWorker(j, job), UNCHANGED rival,
         j \in DOMAIN jobs => jobs[j].pc = "select",
         \A k \in DOMAIN jobs : Asks(k) => k = j
  PROVE  WorkerInv'
<1>1. /\ Shapes /\ Current \in DOMAIN workers /\ IsWorkers(workers)
      /\ \A w \in DOMAIN workers : Range(workers[w].listeners) \subseteq DOMAIN jobs
      /\ \A w \in DOMAIN workers : j \notin Range(workers[w].listeners)
  BY DEF WorkerInv, Shapes, IsWorkers, IsSeq, Current, ListensOnce
<1>2. ~Active(Current)
  <2>1. \A k \in DOMAIN jobs : ~Waits(Current, k)
    BY DEF Asks, Waits
  <2> QED
    BY <1>1, <2>1 DEF WorkerInv, OneOnItsWay
<1>3. /\ IsJobs(jobs') /\ DOMAIN jobs' = DOMAIN jobs \cup {j}
      /\ jobs'[j].pc = "hash" /\ jobs'[j].block = job.block
      /\ \A k \in DOMAIN jobs \ {j} : jobs'[k] = jobs[k]
      /\ IsWorkers(workers') /\ Len(workers') = Len(workers) /\ DOMAIN workers' = DOMAIN workers
      /\ workers'[Current].queue = <<j>> /\ workers'[Current].outbox = << >>
      /\ Range(workers'[Current].listeners) = Range(workers[Current].listeners) \cup {j}
      /\ \A w \in DOMAIN workers \ {Current} : workers'[w] = workers[w]
  BY <1>1, <1>2, SendIs
<1>4. Shapes'
  BY <1>1, <1>3 DEF WorkerInv, Shapes
<1>5. \A w \in DOMAIN workers : \A k \in Range(workers'[w].listeners) :
        (k = j /\ w = Current) \/ (k # j /\ k \in DOMAIN jobs /\ k \in Range(workers[w].listeners))
  BY <1>1, <1>3
<1>6. ListensOnce'
  BY <1>3, <1>5 DEF WorkerInv, ListensOnce
<1>7. \A w \in DOMAIN workers, k \in DOMAIN jobs' :
        /\ Waits(w, k)' => (k = j /\ w = Current) \/ (k # j /\ k \in DOMAIN jobs /\ Waits(w, k))
        /\ k # j /\ Waits(w, k) => Waits(w, k)'
  BY <1>3, <1>5 DEF Waits
<1>8. \A k \in DOMAIN jobs : ~Waits(Current, k)
  BY DEF Asks, Waits
<1>9. OneOnItsWay'
  <2>1. \A w \in DOMAIN workers : w # Current => workers'[w].queue = << >>
    BY <1>3 DEF WorkerInv, OneOnItsWay
  <2>2. \A w \in DOMAIN workers : \A k, l \in DOMAIN jobs' : Waits(w, k)' /\ Waits(w, l)' => k = l
    BY <1>7, <1>8 DEF WorkerInv, OneOnItsWay
  <2>3. j \in Range(workers'[Current].listeners) /\ jobs'[j].pc = "hash"
    BY <1>3
  <2>4. ASSUME NEW w \in DOMAIN workers, w # Current, Active(w)'
        PROVE  \E k \in DOMAIN jobs' :
                 /\ Waits(w, k)'
                 /\ \/ workers'[w].queue = <<k>> /\ workers'[w].outbox = << >>
                    \/ workers'[w].queue = << >> /\ workers'[w].outbox = <<jobs'[k].block>>
    <3>1. Active(w) /\ workers'[w] = workers[w]
      BY <1>3, <2>4 DEF Active
    <3>2. PICK k \in DOMAIN jobs :
            /\ Waits(w, k)
            /\ \/ workers[w].queue = <<k>> /\ workers[w].outbox = << >>
               \/ workers[w].queue = << >> /\ workers[w].outbox = <<jobs[k].block>>
      BY <3>1 DEF WorkerInv, OneOnItsWay
    <3>3. k # j
      BY <1>1, <3>2 DEF Waits
    <3> QED
      BY <1>3, <1>7, <3>1, <3>2, <3>3
  <2>5. Current' = Current
    BY <1>3 DEF Current
  <2>6. \A w \in DOMAIN workers' : w # Current' => workers'[w].queue = << >>
    BY <1>3, <2>1, <2>5
  <2>7. \A w \in DOMAIN workers' : Active(w)' =>
          \E k \in DOMAIN jobs' :
            /\ Waits(w, k)'
            /\ \/ workers'[w].queue = <<k>> /\ workers'[w].outbox = << >>
               \/ workers'[w].queue = << >> /\ workers'[w].outbox = <<jobs'[k].block>>
    <3> SUFFICES ASSUME NEW w \in DOMAIN workers', Active(w)', w = Current
                 PROVE  \E k \in DOMAIN jobs' :
                          Waits(w, k)' /\ workers'[w].queue = <<k>> /\ workers'[w].outbox = << >>
      BY <1>3, <2>4
    <3>1. Waits(w, j)'
      BY <2>3 DEF Waits
    <3> QED
      BY <1>3, <3>1
  <2> QED
    BY <1>3, <2>2, <2>6, <2>7 DEF OneOnItsWay
<1>10. OneAsks'
  <2>1. \A k \in DOMAIN jobs' : Asks(k)' => k = j
    <3> SUFFICES ASSUME NEW k \in DOMAIN jobs', Asks(k)', k # j
                 PROVE  FALSE
      OBVIOUS
    <3>1. k \in DOMAIN jobs /\ jobs'[k] = jobs[k] /\ ~Asks(k)
      BY <1>3
    <3>2. Waits(Current, k)'
      BY <1>3, <3>1 DEF Asks, Current, Waits
    <3> QED
      BY <1>1, <1>3, <1>7, <1>8, <3>1, <3>2 DEF Waits, Current
  <2> QED
    BY <2>1 DEF OneAsks
<1>11. TakesOwnResult'
  BY <1>3 DEF WorkerInv, TakesOwnResult, Writing
<1> QED
  BY <1>4, <1>6, <1>9, <1>10, <1>11 DEF WorkerInv

LEMMA NewJobIs ==
  ASSUME NEW j
  PROVE  /\ NewJob(j).pc = "select" /\ DOMAIN NewJob(j) = JobFields
         /\ DOMAIN NewJob(j).block = BlockFields
         /\ IsChild(NewJob(j).block)
BY DEF NewJob, NewBlock, JobFields, BlockFields, IsChild

\* A call of mine() begins.
LEMMA TickIs ==
  ASSUME Shapes, Tick
  PROVE  \E j : /\ j = Len(jobs) + 1 /\ j \in 1..(Len(jobs) + 1) /\ j \notin DOMAIN jobs
                /\ \/ SendToWorker(j, NewJob(j))
                   \/ /\ workers' = workers /\ IsJobs(jobs') /\ DOMAIN jobs' = DOMAIN jobs \cup {j}
                      /\ jobs'[j] = NewJob(j) /\ \A k \in DOMAIN jobs : jobs'[k] = jobs[k]
<1>1. PICK j : j = Len(jobs) + 1
  OBVIOUS
<1>2. /\ IsSeq(jobs) /\ IsJobs(jobs) /\ Len(jobs) \in Nat /\ DOMAIN jobs = 1..Len(jobs)
      /\ j \in 1..(Len(jobs) + 1) /\ j \notin DOMAIN jobs
      /\ 1..(Len(jobs) + 1) = DOMAIN jobs \cup {j}
  BY <1>1 DEF Shapes, IsJobs, IsSeq
<1>3. SendToWorker(j, NewJob(j)) \/ (jobs' = Append(jobs, NewJob(j)) /\ workers' = workers)
  BY <1>1 DEF Tick
<1>4. ASSUME jobs' = Append(jobs, NewJob(j))
      PROVE  /\ IsJobs(jobs') /\ DOMAIN jobs' = DOMAIN jobs \cup {j}
             /\ jobs'[j] = NewJob(j) /\ \A k \in DOMAIN jobs : jobs'[k] = jobs[k]
  <2>1. /\ IsSeq(jobs') /\ DOMAIN jobs' = DOMAIN jobs \cup {j}
        /\ jobs'[j] = NewJob(j) /\ \A k \in DOMAIN jobs : jobs'[k] = jobs[k]
    BY <1>1, <1>2, <1>4, Appended
  <2> QED
    BY <1>2, <2>1, NewJobIs DEF IsJobs
<1> QED
  BY <1>1, <1>2, <1>3, <1>4

LEMMA TickKeeps ==
  ASSUME WorkerInv, TimerWaits, Tick
  PROVE  WorkerInv'
<1>1. PICK j : /\ j = Len(jobs) + 1 /\ j \in 1..(Len(jobs) + 1) /\ j \notin DOMAIN jobs
               /\ \/ SendToWorker(j, NewJob(j))
                  \/ /\ workers' = workers /\ IsJobs(jobs') /\ DOMAIN jobs' = DOMAIN jobs \cup {j}
                     /\ jobs'[j] = NewJob(j) /\ \A k \in DOMAIN jobs : jobs'[k] = jobs[k]
  BY TickIs DEF WorkerInv
<1>2. UNCHANGED rival /\ \A k \in DOMAIN jobs : ~Asks(k)
  BY DEF Tick, TimerWaits
<1>3. CASE SendToWorker(j, NewJob(j))
  BY <1>1, <1>2, <1>3, NewJobIs, SendKeeps
<1>4. CASE /\ workers' = workers /\ IsJobs(jobs') /\ DOMAIN jobs' = DOMAIN jobs \cup {j}
           /\ jobs'[j] = NewJob(j) /\ \A k \in DOMAIN jobs : jobs'[k] = jobs[k]
  <2>1. /\ jobs'[j].pc = "select" /\ IsWorkers(workers)
        /\ \A w \in DOMAIN workers : Range(workers[w].listeners) \subseteq DOMAIN jobs
    BY <1>4, NewJobIs DEF WorkerInv, Shapes
  <2>2. \A w \in DOMAIN workers, k \in DOMAIN jobs' : Waits(w, k)' <=> k \in DOMAIN jobs /\ Waits(w, k)
    BY <1>1, <1>4, <2>1 DEF Waits
  <2>3. Shapes'
    BY <1>2, <1>4 DEF WorkerInv, Shapes
  <2>4. ListensOnce'
    BY <1>1, <1>4, <2>1 DEF WorkerInv, ListensOnce
  <2>5. OneOnItsWay'
    <3>1. \A w \in DOMAIN workers : Active(w)' => Active(w)
      BY <1>4 DEF Active
    <3>2. ASSUME NEW w \in DOMAIN workers, Active(w)'
          PROVE  \E k \in DOMAIN jobs' :
                   /\ Waits(w, k)'
                   /\ \/ workers'[w].queue = <<k>> /\ workers'[w].outbox = << >>
                      \/ workers'[w].queue = << >> /\ workers'[w].outbox = <<jobs'[k].block>>
      <4>1. PICK k \in DOMAIN jobs :
              /\ Waits(w, k)
              /\ \/ workers[w].queue = <<k>> /\ workers[w].outbox = << >>
                 \/ workers[w].queue = << >> /\ workers[w].outbox = <<jobs[k].block>>
        BY <3>1, <3>2 DEF WorkerInv, OneOnItsWay
      <4> QED
        BY <1>4, <2>2, <4>1
    <3>3. /\ \A w \in DOMAIN workers' : w # Current' => workers'[w].queue = << >>
          /\ \A w \in DOMAIN workers' : \A k, l \in DOMAIN jobs' : Waits(w, k)' /\ Waits(w, l)' => k = l
      BY <1>4, <2>2 DEF WorkerInv, OneOnItsWay, Current
    <3> QED
      BY <1>4, <3>2, <3>3 DEF OneOnItsWay
  <2>6. OneAsks'
    <3>1. \A k \in DOMAIN jobs' : Asks(k)' => k = j
      <4> SUFFICES ASSUME NEW k \in DOMAIN jobs', Asks(k)', k # j
                   PROVE  FALSE
        OBVIOUS
      <4>1. k \in DOMAIN jobs /\ jobs'[k] = jobs[k] /\ ~Asks(k)
        BY <1>2, <1>4
      <4> QED
        BY <1>4, <4>1 DEF Asks, Waits, Current
    <3> QED
      BY <3>1 DEF OneAsks
  <2>7. TakesOwnResult'
    BY <1>4, <2>1 DEF WorkerInv, TakesOwnResult, Writing
  <2> QED
    BY <2>3, <2>4, <2>5, <2>6, <2>7 DEF WorkerInv
<1> QED
  BY <1>1, <1>3, <1>4

\* The selection ends.
LEMMA CollectIs ==
  ASSUME Shapes, NEW j \in DOMAIN jobs, Collect(j)
  PROVE  /\ jobs[j].pc = "select" /\ j \in 1..(Len(jobs) + 1)
         /\ \/ \E job : /\ SendToWorker(j, job)
                        /\ DOMAIN job = JobFields /\ DOMAIN job.block = BlockFields
                        /\ job.block.parentHash = jobs[j].block.parentHash
                        /\ job.block.blockNumber = jobs[j].block.blockNumber
                        /\ job.block.coinbase = jobs[j].block.coinbase
                        /\ job.work = Select(stateDB, codeDB, transactionPool)
                        /\ job.block.txs = job.work.txs /\ job.work.status = "ok"
            \/ /\ workers' = workers /\ jobs' = [jobs EXCEPT ![j] = jobs'[j]]
               /\ DOMAIN jobs'[j] = JobFields /\ jobs'[j].pc = "dead" /\ jobs'[j].block = jobs[j].block
<1> DEFINE work == Select(stateDB, codeDB, transactionPool)
           job == [jobs[j] EXCEPT !.work = work, !.block.txs = work.txs]
<1>1. /\ jobs[j].pc = "select"
      /\ \/ work.status = "ok" /\ SendToWorker(j, job)
         \/ jobs' = [jobs EXCEPT ![j].pc = "dead"] /\ workers' = workers
  BY DEF Collect
<1>2. /\ IsSeq(jobs) /\ Len(jobs) \in Nat /\ DOMAIN jobs = 1..Len(jobs) /\ j \in 1..(Len(jobs) + 1)
      /\ DOMAIN jobs[j] = JobFields /\ DOMAIN jobs[j].block = BlockFields
  BY DEF Shapes, IsJobs, IsSeq
<1> HIDE DEF work
<1>3. /\ DOMAIN job = JobFields /\ DOMAIN job.block = BlockFields
      /\ job.block.parentHash = jobs[j].block.parentHash
      /\ job.block.blockNumber = jobs[j].block.blockNumber
      /\ job.block.coinbase = jobs[j].block.coinbase
      /\ job.work = work /\ job.block.txs = work.txs
  BY <1>2 DEF JobFields, BlockFields
<1> HIDE DEF job
<1>4. CASE work.status = "ok" /\ SendToWorker(j, job)
  BY <1>1, <1>2, <1>3, <1>4 DEF work
<1>5. CASE jobs' = [jobs EXCEPT ![j].pc = "dead"] /\ workers' = workers
  <2>1. /\ jobs' = [jobs EXCEPT ![j] = jobs'[j]] /\ DOMAIN jobs'[j] = JobFields
        /\ jobs'[j].block = jobs[j].block /\ jobs'[j].pc = "dead"
    BY <1>2, <1>5 DEF JobFields
  <2> QED
    BY <1>1, <1>2, <1>5, <2>1
<1> QED
  BY <1>1, <1>4, <1>5

LEMMA CollectKeeps ==
  ASSUME WorkerInv, NEW j \in DOMAIN jobs, Collect(j)
  PROVE  WorkerInv'
<1>1. UNCHANGED rival /\ jobs[j].pc = "select" /\ j \in 1..(Len(jobs) + 1)
  BY CollectIs DEF Collect, WorkerInv
<1>2. ASSUME NEW job, SendToWorker(j, job), DOMAIN job = JobFields, DOMAIN job.block = BlockFields
      PROVE  WorkerInv'
  <2>1. \A k \in DOMAIN jobs : Asks(k) => k = j
    BY <1>1 DEF WorkerInv, OneAsks, Asks
  <2> QED
    BY <1>1, <1>2, <2>1, SendKeeps
<1>3. ASSUME workers' = workers, jobs' = [jobs EXCEPT ![j] = jobs'[j]],
             DOMAIN jobs'[j] = JobFields, jobs'[j].pc = "dead", jobs'[j].block = jobs[j].block
      PROVE  WorkerInv'
  <2>1. jobs'[j].pc \notin Writing
    BY <1>3 DEF Writing
  <2> QED
    BY <1>1, <1>3, <2>1, JobGoesOn
<1> QED
  BY <1>2, <1>3, CollectIs DEF WorkerInv

\* What the worker had to hash is on its way back.
LEMMA SolveKeeps ==
  ASSUME WorkerInv, Solve
  PROVE  WorkerInv'
<1>1. PICK v : v = Len(workers)
  OBVIOUS
<1>2. /\ workers[v].queue # << >> /\ UNCHANGED <<jobs, rival>>
      /\ workers' = [workers EXCEPT ![v].queue = Tail(@),
                       ![v].outbox = Append(@, jobs[Head(workers[v].queue)].block)]
  BY <1>1 DEF Solve
<1>3. /\ IsSeq(workers) /\ IsWorkers(workers) /\ v \in DOMAIN workers /\ IsJobs(jobs)
      /\ DOMAIN rival = DOMAIN IdleRival
      /\ \A w \in DOMAIN workers : DOMAIN workers[w] = {"queue", "listeners", "outbox"}
      /\ \A w \in DOMAIN workers : w # v => workers[w].queue = << >>
  BY <1>1 DEF WorkerInv, Shapes, IsWorkers, IsSeq, FreshWorker, OneOnItsWay, Current
<1>4. PICK j \in DOMAIN jobs : Waits(v, j) /\ workers[v].queue = <<j>> /\ workers[v].outbox = << >>
  BY <1>2, <1>3 DEF WorkerInv, OneOnItsWay, Active
<1>5. /\ Tail(workers[v].queue) = << >> /\ Head(workers[v].queue) = j
      /\ Append(workers[v].outbox, jobs[j].block) = <<jobs[j].block>>
  BY <1>4
<1>6. /\ DOMAIN workers' = DOMAIN workers /\ workers' = [w \in DOMAIN workers |-> workers'[w]]
      /\ \A w \in DOMAIN workers \ {v} : workers'[w] = workers[w]
      /\ DOMAIN workers'[v] = {"queue", "listeners", "outbox"}
      /\ workers'[v].queue = << >> /\ workers'[v].outbox = <<jobs[j].block>>
      /\ workers'[v].listeners = workers[v].listeners
  BY <1>2, <1>3, <1>5
<1>7. IsWorkers(workers') /\ Len(workers') = Len(workers)
  <2>1. IsSeq(workers') /\ Len(workers') = Len(workers)
    BY <1>3, <1>6, SameLength
  <2> QED
    BY <1>3, <1>6, <2>1 DEF IsWorkers, FreshWorker
<1>8. \A w \in DOMAIN workers, k \in DOMAIN jobs : Waits(w, k) => Waits(w, k)'
  BY <1>2, <1>6 DEF Waits
<1>9. ASSUME NEW w \in DOMAIN workers, Active(w)'
      PROVE  \E k \in DOMAIN jobs :
               /\ Waits(w, k)'
               /\ \/ workers'[w].queue = <<k>> /\ workers'[w].outbox = << >>
                  \/ workers'[w].queue = << >> /\ workers'[w].outbox = <<jobs'[k].block>>
  <2>1. CASE w = v
    BY <1>2, <1>4, <1>6, <1>8, <2>1
  <2>2. CASE w # v
    <3>1. Active(w) /\ workers'[w] = workers[w]
      BY <1>6, <1>9, <2>2 DEF Active
    <3>2. PICK k \in DOMAIN jobs :
            /\ Waits(w, k)
            /\ \/ workers[w].queue = <<k>> /\ workers[w].outbox = << >>
               \/ workers[w].queue = << >> /\ workers[w].outbox = <<jobs[k].block>>
      BY <3>1 DEF WorkerInv, OneOnItsWay
    <3> QED
      BY <1>2, <1>8, <3>1, <3>2
  <2> QED
    BY <2>1, <2>2
<1>10. /\ \A w \in DOMAIN workers : workers'[w].listeners = workers[w].listeners
       /\ \A w \in DOMAIN workers : w # Len(workers') => workers'[w].queue = << >>
       /\ DOMAIN workers' = DOMAIN workers \cup {Len(workers')}
       /\ \A k \in DOMAIN jobs : jobs[k].pc \in Writing => jobs[k].result = jobs[k].block
  <2>1. \A w \in DOMAIN workers : workers'[w].listeners = workers[w].listeners
    BY <1>6
  <2> QED
    BY <1>1, <1>3, <1>6, <1>7, <2>1 DEF WorkerInv, TakesOwnResult
<1> QED
  BY <1>2, <1>3, <1>7, <1>9, <1>10, NothingNew

\* The outbox of a worker is emptied.
LEMMA DrainedIs ==
  ASSUME NEW ws, IsWorkers(ws), NEW v \in DOMAIN ws
  PROVE  LET drained == [ws EXCEPT ![v].outbox = << >>]
         IN  /\ IsWorkers(drained) /\ Len(drained) = Len(ws) /\ DOMAIN drained = DOMAIN ws
             /\ \A w \in DOMAIN ws \ {v} : drained[w] = ws[w]
             /\ drained[v].outbox = << >> /\ drained[v].queue = ws[v].queue
             /\ drained[v].listeners = ws[v].listeners
<1> DEFINE drained == [ws EXCEPT ![v].outbox = << >>]
<1>1. /\ IsSeq(ws) /\ \A w \in DOMAIN ws : DOMAIN ws[w] = {"queue", "listeners", "outbox"}
  BY DEF IsWorkers, FreshWorker
<1>2. /\ DOMAIN drained = DOMAIN ws /\ drained = [w \in DOMAIN ws |-> drained[w]]
      /\ \A w \in DOMAIN ws \ {v} : drained[w] = ws[w]
      /\ DOMAIN drained[v] = {"queue", "listeners", "outbox"}
      /\ drained[v].outbox = << >> /\ drained[v].queue = ws[v].queue
      /\ drained[v].listeners = ws[v].listeners
  BY <1>1
<1> HIDE DEF drained
<1>3. IsSeq(drained) /\ Len(drained) = Len(ws)
  BY <1>1, <1>2, SameLength
<1>4. IsWorkers(drained)
  BY <1>1, <1>2, <1>3 DEF IsWorkers, FreshWorker
<1> QED
  BY <1>2, <1>3, <1>4 DEF drained

LEMMA LoseKeeps ==
  ASSUME WorkerInv, NEW v \in DOMAIN workers, Lose(v)
  PROVE  WorkerInv'
<1>1. v # Len(workers) /\ UNCHANGED <<jobs, rival>> /\ workers' = [workers EXCEPT ![v].outbox = << >>]
  BY DEF Lose
<1>2. /\ IsWorkers(workers) /\ Len(workers) \in DOMAIN workers /\ IsJobs(jobs)
      /\ DOMAIN rival = DOMAIN IdleRival
      /\ \A w \in DOMAIN workers : w # Len(workers) => workers[w].queue = << >>
      /\ \A k \in DOMAIN jobs : jobs[k].pc \in Writing => jobs[k].result = jobs[k].block
  BY DEF WorkerInv, Shapes, IsWorkers, IsSeq, OneOnItsWay, Current, TakesOwnResult
<1>3. /\ IsWorkers(workers') /\ Len(workers') = Len(workers) /\ DOMAIN workers' = DOMAIN workers
      /\ \A w \in DOMAIN workers \ {v} : workers'[w] = workers[w]
      /\ workers'[v].outbox = << >> /\ workers'[v].queue = workers[v].queue
      /\ workers'[v].listeners = workers[v].listeners
  BY <1>1, <1>2, DrainedIs
<1>4. \A w \in DOMAIN workers, k \in DOMAIN jobs : Waits(w, k) => Waits(w, k)'
  BY <1>1, <1>3 DEF Waits
<1>5. ASSUME NEW w \in DOMAIN workers, Active(w)'
      PROVE  \E k \in DOMAIN jobs :
               /\ Waits(w, k)'
               /\ \/ workers'[w].queue = <<k>> /\ workers'[w].outbox = << >>
                  \/ workers'[w].queue = << >> /\ workers'[w].outbox = <<jobs'[k].block>>
  <2>1. Active(w) /\ workers'[w] = workers[w]
    BY <1>1, <1>2, <1>3, <1>5 DEF Active
  <2>2. PICK k \in DOMAIN jobs :
          /\ Waits(w, k)
          /\ \/ workers[w].queue = <<k>> /\ workers[w].outbox = << >>
             \/ workers[w].queue = << >> /\ workers[w].outbox = <<jobs[k].block>>
    BY <2>1 DEF WorkerInv, OneOnItsWay
  <2> QED
    BY <1>1, <1>4, <2>1, <2>2
<1>6. /\ \A w \in DOMAIN workers : workers'[w].listeners = workers[w].listeners
      /\ \A w \in DOMAIN workers : w # Len(workers') => workers'[w].queue = << >>
      /\ DOMAIN workers' = DOMAIN workers \cup {Len(workers')}
  BY <1>1, <1>2, <1>3
<1> QED
  BY <1>1, <1>2, <1>3, <1>5, <1>6, NothingNew

\* An answer arrives: only one job waits for it.
LEMMA DeliverIs ==
  ASSUME WorkerInv, NEW v \in DOMAIN workers, Deliver(v)
  PROVE  \E j \in DOMAIN jobs :
           /\ Waits(v, j) /\ workers[v].outbox = <<jobs[j].block>> /\ workers[v].queue = << >>
           /\ jobs' = [jobs EXCEPT ![j] = jobs'[j]]
           /\ DOMAIN jobs'[j] = JobFields
           /\ jobs'[j].block = jobs[j].block /\ jobs'[j].work = jobs[j].work
           /\ \/ /\ mined /\ mined' = FALSE /\ jobs'[j].pc = "done"
                 /\ workers' = Refork([workers EXCEPT ![v].outbox = << >>])
              \/ /\ ~mined /\ mined' = FALSE /\ jobs'[j].pc = "blockDB" /\ jobs'[j].result = jobs[j].block
                 /\ workers' = [workers EXCEPT ![v].outbox = << >>]
<1> DEFINE heard == workers[v].listeners
           turns == {i \in DOMAIN heard : jobs[heard[i]].pc = "hash"}
           dropped == IF Interrupted /\ turns # {} THEN {heard[Min(turns)]} ELSE {}
           added == {heard[i] : i \in turns} \ dropped
<1>1. workers[v].outbox # << >> /\ Active(v) /\ heard \in Seq(Nat) /\ Range(heard) \subseteq DOMAIN jobs
  BY DEF Deliver, Active, WorkerInv, Shapes, IsWorkers
<1>2. PICK j \in DOMAIN jobs :
        /\ \A k \in DOMAIN jobs : Waits(v, k) <=> k = j
        /\ workers[v].queue = << >> /\ workers[v].outbox = <<jobs[j].block>>
  BY <1>1 DEF WorkerInv, OneOnItsWay
<1>3. turns # {} /\ \A i \in turns : heard[i] = j
  BY <1>1, <1>2 DEF Waits, Range
<1>4. Min(turns) \in turns
  <2>1. DOMAIN heard \subseteq Nat
    BY <1>1
  <2> QED
    BY <1>3, <2>1, MinIs
<1>5. {heard[i] : i \in turns} = {j} /\ heard[Min(turns)] = j
  <2> HIDE DEF turns
  <2> QED
    BY <1>3, <1>4
<1>6. dropped = (IF mined THEN {j} ELSE {}) /\ added = (IF mined THEN {} ELSE {j})
  <2> HIDE DEF turns
  <2> QED
    BY <1>3, <1>5 DEF Interrupted
<1>7. Tail(workers[v].outbox) = << >> /\ Head(workers[v].outbox) = jobs[j].block
  BY <1>2
<1>8. /\ jobs' = [k \in DOMAIN jobs |->
                    IF k \in dropped THEN [jobs[k] EXCEPT !.pc = "done"]
                    ELSE IF k \in added
                    THEN [jobs[k] EXCEPT !.pc = "blockDB", !.result = Head(workers[v].outbox)]
                    ELSE jobs[k]]
      /\ mined' = (mined /\ dropped = {})
      /\ workers' = IF dropped # {} THEN Refork([workers EXCEPT ![v].outbox = Tail(@)])
                                    ELSE [workers EXCEPT ![v].outbox = Tail(@)]
  BY DEF Deliver
<1>9. [workers EXCEPT ![v].outbox = Tail(@)] = [workers EXCEPT ![v].outbox = << >>]
  BY <1>7
<1>10. DOMAIN jobs[j] = JobFields /\ jobs = [k \in DOMAIN jobs |-> jobs[k]]
  BY DEF WorkerInv, Shapes, IsJobs, IsSeq
<1> HIDE DEF heard, turns, dropped, added
<1>11. CASE mined
  <2>1. jobs' = [jobs EXCEPT ![j] = [jobs[j] EXCEPT !.pc = "done"]]
    BY <1>6, <1>8, <1>10, <1>11
  <2>2. /\ jobs'[j] = [jobs[j] EXCEPT !.pc = "done"] /\ DOMAIN jobs'[j] = JobFields
        /\ jobs'[j].block = jobs[j].block /\ jobs'[j].pc = "done" /\ jobs'[j].work = jobs[j].work
    BY <1>10, <2>1 DEF JobFields
  <2>3. mined' = FALSE /\ workers' = Refork([workers EXCEPT ![v].outbox = << >>])
    BY <1>6, <1>8, <1>9, <1>11
  <2> QED
    BY <1>2, <1>11, <2>1, <2>2, <2>3
<1>12. CASE ~mined
  <2>1. jobs' = [jobs EXCEPT ![j] = [jobs[j] EXCEPT !.pc = "blockDB", !.result = jobs[j].block]]
    BY <1>6, <1>7, <1>8, <1>10, <1>12
  <2>2. /\ jobs'[j] = [jobs[j] EXCEPT !.pc = "blockDB", !.result = jobs[j].block]
        /\ DOMAIN jobs'[j] = JobFields /\ jobs'[j].block = jobs[j].block
        /\ jobs'[j].work = jobs[j].work /\ jobs'[j].pc = "blockDB" /\ jobs'[j].result = jobs[j].block
    BY <1>10, <2>1 DEF JobFields
  <2>3. mined' = FALSE /\ workers' = [workers EXCEPT ![v].outbox = << >>]
    BY <1>6, <1>8, <1>9, <1>12
  <2> QED
    BY <1>2, <1>12, <2>1, <2>2, <2>3
<1> QED
  BY <1>11, <1>12

LEMMA DeliverKeeps ==
  ASSUME WorkerInv, NEW v \in DOMAIN workers, Deliver(v)
  PROVE  WorkerInv'
<1> DEFINE drained == [workers EXCEPT ![v].outbox = << >>]
<1>1. PICK j \in DOMAIN jobs :
        /\ Waits(v, j) /\ workers[v].outbox = <<jobs[j].block>> /\ workers[v].queue = << >>
        /\ jobs' = [jobs EXCEPT ![j] = jobs'[j]]
        /\ DOMAIN jobs'[j] = JobFields /\ jobs'[j].block = jobs[j].block
        /\ \/ jobs'[j].pc = "done" /\ workers' = Refork(drained)
           \/ jobs'[j].pc = "blockDB" /\ jobs'[j].result = jobs[j].block /\ workers' = drained
  BY DeliverIs
<1>2. UNCHANGED rival
  BY DEF Deliver
<1>3. /\ IsWorkers(workers) /\ Len(workers) \in DOMAIN workers /\ Len(workers) \in Nat
      /\ IsSeq(jobs) /\ IsJobs(jobs) /\ DOMAIN rival = DOMAIN IdleRival
      /\ \A w \in DOMAIN workers : w # Len(workers) => workers[w].queue = << >>
      /\ \A k \in DOMAIN jobs : jobs[k].pc \in Writing => jobs[k].result = jobs[k].block
  BY DEF WorkerInv, Shapes, IsJobs, IsWorkers, IsSeq, OneOnItsWay, Current, TakesOwnResult
<1>4. DOMAIN jobs' = DOMAIN jobs /\ \A k \in DOMAIN jobs \ {j} : jobs'[k] = jobs[k]
  BY <1>1
<1>5. IsJobs(jobs')
  <2>1. jobs' = [k \in DOMAIN jobs |-> jobs'[k]]
    BY <1>1, <1>4
  <2>2. IsSeq(jobs')
    BY <1>3, <2>1, SameLength
  <2> QED
    BY <1>1, <1>3, <1>4, <2>2 DEF IsJobs
<1>6. /\ IsWorkers(drained) /\ Len(drained) = Len(workers) /\ DOMAIN drained = DOMAIN workers
      /\ \A w \in DOMAIN workers \ {v} : drained[w] = workers[w]
      /\ drained[v].outbox = << >> /\ drained[v].queue = workers[v].queue
      /\ drained[v].listeners = workers[v].listeners
  BY <1>3, DrainedIs
<1> HIDE DEF drained
<1>7. /\ IsWorkers(workers') /\ DOMAIN workers' = DOMAIN workers \cup {Len(workers')}
      /\ \/ Len(workers') = Len(workers)
         \/ Len(workers') = Len(workers) + 1 /\ workers'[Len(workers')] = FreshWorker
      /\ \A w \in DOMAIN workers : /\ workers'[w].listeners = workers[w].listeners
                                   /\ workers'[w].outbox = drained[w].outbox
                                   /\ workers'[w].queue = << >> \/ workers'[w].queue = drained[w].queue
                                   /\ w # Len(workers') => workers'[w].queue = << >>
  <2>1. \A w \in DOMAIN workers : /\ drained[w].listeners = workers[w].listeners
                                  /\ w # Len(workers) => drained[w].queue = << >>
    BY <1>3, <1>6
  <2>2. CASE workers' = drained
    BY <1>3, <1>6, <2>1, <2>2
  <2>3. CASE workers' = Refork(drained)
    <3>1. /\ IsWorkers(workers') /\ Len(workers') = Len(drained) + 1
          /\ DOMAIN workers' = DOMAIN drained \cup {Len(drained) + 1}
          /\ workers'[Len(drained) + 1] = FreshWorker
          /\ \A w \in DOMAIN drained : /\ workers'[w].listeners = drained[w].listeners
                                       /\ workers'[w].outbox = drained[w].outbox
      BY <1>6, <2>3, ReforkIs
    <3>2. ASSUME NEW w \in DOMAIN drained
          PROVE  workers'[w].queue = << >>
      <4>1. w = Len(drained) => workers'[w].queue = << >>
        BY <1>6, <2>3, ReforkIs
      <4>2. w # Len(drained) => workers'[w].queue = drained[w].queue
        BY <1>6, <2>3, ReforkIs
      <4> QED
        BY <1>6, <2>1, <4>1, <4>2
    <3> QED
      BY <1>6, <2>1, <3>1, <3>2
  <2> QED
    BY <1>1, <2>2, <2>3
<1>8. ASSUME NEW w \in DOMAIN workers, Active(w)'
      PROVE  \E k \in DOMAIN jobs :
               /\ Waits(w, k)'
               /\ \/ workers'[w].queue = <<k>> /\ workers'[w].outbox = << >>
                  \/ workers'[w].queue = << >> /\ workers'[w].outbox = <<jobs'[k].block>>
  <2>1. w # v
    BY <1>1, <1>6, <1>7, <1>8 DEF Active
  <2>2. drained[w] = workers[w] /\ workers'[w].outbox = workers[w].outbox
    BY <1>6, <1>7, <2>1
  <2>3. Active(w)
    BY <1>7, <1>8, <2>2 DEF Active
  <2>4. PICK k \in DOMAIN jobs :
          /\ Waits(w, k)
          /\ \/ workers[w].queue = <<k>> /\ workers[w].outbox = << >>
             \/ workers[w].queue = << >> /\ workers[w].outbox = <<jobs[k].block>>
    BY <2>3 DEF WorkerInv, OneOnItsWay
  <2>5. k # j
    BY <1>1, <2>1, <2>4 DEF WorkerInv, ListensOnce, Waits
  <2>6. jobs'[k] = jobs[k] /\ Waits(w, k)'
    BY <1>4, <1>7, <2>4, <2>5 DEF Waits
  <2>7. workers'[w].queue = << >> \/ workers'[w].queue = workers[w].queue
    BY <1>7, <2>2
  <2>8. workers'[w].queue # << >> \/ workers'[w].outbox # << >>
    BY <1>8 DEF Active
  <2> QED
    BY <2>2, <2>4, <2>6, <2>7, <2>8
<1>9. \A k \in DOMAIN jobs :
        /\ jobs'[k].pc = "hash" => jobs[k].pc = "hash"
        /\ jobs'[k].pc = "select" => jobs[k].pc = "select"
        /\ jobs'[k].pc \in Writing => jobs'[k].result = jobs'[k].block
  BY <1>1, <1>3, <1>4 DEF Writing
<1> QED
  BY <1>2, <1>3, <1>4, <1>5, <1>7, <1>8, <1>9, NothingNew

\* The steps that write what was mined.
LEMMA WriteIs ==
  ASSUME Shapes, NEW j \in DOMAIN jobs,
         PutBlock(j) \/ Index(j) \/ Reward(j) \/ FlushAccount(j) \/ Complete(j)
  PROVE  /\ jobs' = [jobs EXCEPT ![j] = jobs'[j]] /\ DOMAIN jobs'[j] = JobFields
         /\ jobs'[j].block = jobs[j].block /\ jobs'[j].result = jobs[j].result
         /\ jobs[j].pc \in Writing
         /\ jobs'[j].pc \in {"index", "reward", "flush", "sweep", "dead", "done"}
         /\ jobs'[j].pc = "index" => jobs[j].pc = "blockDB"
         /\ workers' = workers \/ workers' = Refork(workers)
         /\ UNCHANGED <<mined, rival>>
<1>1. DOMAIN jobs[j] = JobFields /\ jobs = [k \in DOMAIN jobs |-> jobs[k]]
  BY DEF Shapes, IsJobs, IsSeq
<1>2. CASE PutBlock(j)
  BY <1>1, <1>2 DEF PutBlock, JobFields, Writing
<1>3. CASE Index(j)
  BY <1>1, <1>3 DEF Index, JobFields, Writing
<1>4. CASE Reward(j)
  <2> DEFINE work == PayCoinbase(stateDB, codeDB, jobs[j].work, jobs[j].block)
  <2>1. /\ jobs' = [jobs EXCEPT ![j].pc = "flush", ![j].work = work, ![j].unwritten = DOMAIN work.states]
        /\ jobs[j].pc = "reward" /\ UNCHANGED <<mined, rival, workers>>
    BY <1>4 DEF Reward
  <2> HIDE DEF work
  <2> QED
    BY <1>1, <2>1 DEF JobFields, Writing
<1>5. CASE FlushAccount(j)
  <2>1. PICK a \in jobs[j].unwritten :
          LET loaded == jobs[j].work.states[a].codeHash \in jobs[j].work.code
          IN  jobs' = [jobs EXCEPT ![j].unwritten = @ \ {a},
                         ![j].pc = IF ~loaded THEN "dead"
                                   ELSE IF jobs[j].unwritten = {a} THEN "sweep" ELSE "flush"]
    BY <1>5 DEF FlushAccount
  <2>2. jobs[j].pc = "flush" /\ UNCHANGED <<mined, rival, workers>>
    BY <1>5 DEF FlushAccount
  <2>3. PICK pc \in {"dead", "sweep", "flush"} :
          jobs' = [jobs EXCEPT ![j].unwritten = @ \ {a}, ![j].pc = pc]
    BY <2>1
  <2> QED
    BY <1>1, <2>2, <2>3 DEF JobFields, Writing
<1>6. CASE Complete(j)
  BY <1>1, <1>6 DEF Complete, JobFields, Writing
<1> QED
  BY <1>2, <1>3, <1>4, <1>5, <1>6

LEMMA WriteKeeps ==
  ASSUME WorkerInv, NEW j \in DOMAIN jobs,
         PutBlock(j) \/ Index(j) \/ Reward(j) \/ FlushAccount(j) \/ Complete(j)
  PROVE  WorkerInv'
<1>1. /\ jobs' = [jobs EXCEPT ![j] = jobs'[j]] /\ DOMAIN jobs'[j] = JobFields
      /\ jobs'[j].block = jobs[j].block /\ jobs'[j].result = jobs[j].result
      /\ jobs[j].pc \in Writing
      /\ jobs'[j].pc \in {"index", "reward", "flush", "sweep", "dead", "done"}
      /\ workers' = workers \/ workers' = Refork(workers)
      /\ UNCHANGED <<mined, rival>>
  BY WriteIs DEF WorkerInv
<1>2. jobs[j].pc # "hash" /\ jobs'[j].pc \notin {"hash", "select"}
  BY <1>1 DEF Writing
<1> QED
  BY <1>1, <1>2, JobGoesOn

\* The steps of the handler of another miner's block, and a submission.
LEMMA RivalIs ==
  ASSUME Shapes,
         \/ UNCHANGED vars
         \/ RivalStep
         \/ \E block \in PeerBlock : Receive(block)
         \/ \E tx \in PoolTx : Submit(tx)
  PROVE  /\ UNCHANGED jobs /\ DOMAIN rival' = DOMAIN IdleRival
         /\ workers' = workers \/ workers' = Refork(workers)
<1>1. DOMAIN rival = {"pc", "block", "work", "unwritten"}
      /\ DOMAIN IdleRival = {"pc", "block", "work", "unwritten"}
  BY DEF Shapes, IdleRival
<1>2. CASE RivalStep
  <2>1. CASE RivalFlush
    <3>1. UNCHANGED jobs /\ (workers' = workers \/ workers' = Refork(workers))
      BY <2>1 DEF RivalFlush
    <3>2. PICK a, pc : \/ rival' = IdleRival
                       \/ rival' = [rival EXCEPT !.unwritten = @ \ {a}, !.pc = pc]
      BY <2>1 DEF RivalFlush
    <3> QED
      BY <1>1, <3>1, <3>2
  <2>2. CASE RivalPutBlock \/ RivalIndex \/ RivalComplete
    BY <1>1, <2>2 DEF RivalPutBlock, RivalIndex, RivalComplete, miner
  <2> QED
    BY <1>2, <2>1, <2>2 DEF RivalStep
<1>3. CASE \/ UNCHANGED vars
           \/ \E tx \in PoolTx : Submit(tx)
  BY <1>1, <1>3 DEF vars, miner, Submit
<1>4. ASSUME NEW block \in PeerBlock, Receive(block)
      PROVE  UNCHANGED jobs /\ workers' = workers /\ DOMAIN rival' = DOMAIN IdleRival
  <2>1. /\ UNCHANGED <<jobs, workers>>
        /\ \E work : rival' = [pc |-> "flush", block |-> block, work |-> work,
                               unwritten |-> DOMAIN work.states]
    BY <1>4 DEF Receive, miner
  <2> QED
    BY <1>1, <2>1
<1> QED
  BY <1>2, <1>3, <1>4

LEMMA NextKeeps ==
  ASSUME WorkerInv, [TimerWaits]_vars, [Next]_vars
  PROVE  WorkerInv'
<1>1. CASE \/ UNCHANGED vars
           \/ RivalStep
           \/ \E block \in PeerBlock : Receive(block)
           \/ \E tx \in PoolTx : Submit(tx)
  BY <1>1, RivalIs, WorkerFrame DEF WorkerInv
<1>2. CASE Tick /\ ~UNCHANGED vars
  BY <1>2, TickKeeps
<1>3. ASSUME NEW j \in DOMAIN jobs, JobStep(j)
      PROVE  WorkerInv'
  BY <1>3, CollectKeeps, WriteKeeps DEF JobStep
<1>4. ASSUME NEW w \in DOMAIN workers, Deliver(w) \/ Lose(w)
      PROVE  WorkerInv'
  BY <1>4, DeliverKeeps, LoseKeeps
<1>5. CASE Solve
  BY <1>5, SolveKeeps
<1> QED
  BY <1>1, <1>2, <1>3, <1>4, <1>5 DEF Next

LEMMA InitWorkers == Init => WorkerInv
<1> SUFFICES ASSUME Init PROVE WorkerInv
  OBVIOUS
<1>1. jobs = << >> /\ DOMAIN jobs = {} /\ workers = <<FreshWorker>> /\ DOMAIN workers = {1}
      /\ workers[1] = FreshWorker /\ rival = IdleRival /\ Current = 1
  BY DEF Init, Current
<1>2. IsSeq(jobs) /\ IsSeq(workers) /\ Len(workers) = 1
  BY <1>1 DEF IsSeq
<1>3. ~Active(1) /\ Range(FreshWorker.listeners) = {} /\ FreshWorker.listeners \in Seq(Nat)
  BY <1>1 DEF Active, FreshWorker, Range
<1>4. Shapes
  BY <1>1, <1>2, <1>3 DEF Shapes, IsJobs, IsWorkers
<1>5. ListensOnce /\ OneOnItsWay /\ OneAsks /\ TakesOwnResult
  BY <1>1, <1>3 DEF ListensOnce, OneOnItsWay, OneAsks, TakesOwnResult
<1> QED
  BY <1>4, <1>5 DEF WorkerInv

LEMMA WorkerInvariance == Spec /\ [][TimerWaits]_vars => []WorkerInv
<1>1. WorkerInv /\ [TimerWaits]_vars /\ [Next]_vars => WorkerInv'
  BY NextKeeps
<1> QED
  BY <1>1, InitWorkers, PTL DEF Spec

\* Until loopMine starts a job before the worker has answered the one before,
\* a job adds to the chain the block it sent to be mined, whichever workers
\* were killed, however late or often they answer and whatever arrives in the
\* middle of an await.
THEOREM AddsWhatItMined == Spec /\ [][TimerWaits]_vars => []TakesOwnResult
<1>1. WorkerInv => TakesOwnResult
  BY DEF WorkerInv
<1> QED
  BY <1>1, WorkerInvariance, PTL

-----------------------------------------------------------------------------
(* The chain.                                                              *)

\* No worker has got anything to do.
Calmer ==
  \A w \in DOMAIN workers' :
    \/ w \in DOMAIN workers /\ workers'[w].listeners = workers[w].listeners /\ (Active(w)' => Active(w))
    \/ workers'[w] = FreshWorker

LEMMA ReforkCalms ==
  ASSUME WorkerInv, workers' = workers \/ workers' = Refork(workers)
  PROVE  Calmer
<1>1. IsWorkers(workers)
  BY DEF WorkerInv, Shapes
<1>2. CASE workers' = workers
  BY <1>2 DEF Calmer, Active
<1>3. CASE workers' = Refork(workers)
  <2>1. /\ DOMAIN workers' = DOMAIN workers \cup {Len(workers) + 1}
        /\ workers'[Len(workers) + 1] = FreshWorker
        /\ \A w \in DOMAIN workers : /\ workers'[w].listeners = workers[w].listeners
                                     /\ workers'[w].outbox = workers[w].outbox
    BY <1>1, <1>3, ReforkIs
  <2>2. ASSUME NEW w \in DOMAIN workers
        PROVE  workers'[w].queue = << >> \/ workers'[w].queue = workers[w].queue
    <3>1. w = Len(workers) => workers'[w].queue = << >>
      BY <1>1, <1>3, ReforkIs
    <3>2. w # Len(workers) => workers'[w].queue = workers[w].queue
      BY <1>1, <1>3, ReforkIs
    <3> QED
      BY <3>1, <3>2
  <2> QED
    BY <2>1, <2>2 DEF Calmer, Active
<1> QED
  BY <1>2, <1>3

LEMMA AnswersCalm ==
  ASSUME WorkerInv, NEW v \in DOMAIN workers, Solve \/ Lose(v) \/ Deliver(v)
  PROVE  Calmer
<1>1. /\ IsWorkers(workers) /\ Len(workers) \in DOMAIN workers
      /\ \A w \in DOMAIN workers : DOMAIN workers[w] = {"queue", "listeners", "outbox"}
  BY DEF WorkerInv, Shapes, IsWorkers, IsSeq, FreshWorker
<1>2. CASE Solve
  <2> DEFINE solved(x, q, o) == [workers EXCEPT ![x].queue = q, ![x].outbox = o]
  <2>1. PICK x \in DOMAIN workers : workers[x].queue # << >> /\ \E q, o : workers' = solved(x, q, o)
    <3>1. PICK x : x = Len(workers)
      OBVIOUS
    <3> QED
      BY <1>1, <1>2, <3>1 DEF Solve
  <2>2. PICK q, o : workers' = solved(x, q, o)
    BY <2>1
  <2>3. /\ DOMAIN workers' = DOMAIN workers /\ Active(x)
        /\ \A w \in DOMAIN workers : workers'[w].listeners = workers[w].listeners
        /\ \A w \in DOMAIN workers \ {x} : workers'[w] = workers[w]
    BY <1>1, <2>1, <2>2 DEF Active
  <2> QED
    BY <2>3 DEF Calmer, Active
<1> DEFINE drained == [workers EXCEPT ![v].outbox = << >>]
<1>3. /\ IsWorkers(drained) /\ Len(drained) = Len(workers) /\ DOMAIN drained = DOMAIN workers
      /\ \A w \in DOMAIN workers \ {v} : drained[w] = workers[w]
      /\ drained[v].outbox = << >> /\ drained[v].queue = workers[v].queue
      /\ drained[v].listeners = workers[v].listeners
  BY <1>1, DrainedIs
<1>4. Lose(v) \/ Deliver(v) => workers' = drained \/ workers' = Refork(drained)
  <2>1. Deliver(v) => workers' = drained \/ workers' = Refork(drained)
    BY DeliverIs
  <2> QED
    BY <2>1 DEF Lose
<1> HIDE DEF drained
<1>5. CASE workers' = drained
  BY <1>3, <1>5 DEF Calmer, Active
<1>6. CASE workers' = Refork(drained)
  <2>1. /\ DOMAIN workers' = DOMAIN workers \cup {Len(workers) + 1}
        /\ workers'[Len(workers) + 1] = FreshWorker
        /\ \A w \in DOMAIN workers : /\ workers'[w].listeners = workers[w].listeners
                                     /\ workers'[w].outbox = drained[w].outbox
    <3>1. \A w \in DOMAIN drained : drained[w].listeners = workers[w].listeners
      BY <1>3
    <3>2. /\ DOMAIN workers' = DOMAIN drained \cup {Len(drained) + 1}
          /\ workers'[Len(drained) + 1] = FreshWorker
          /\ \A w \in DOMAIN drained : /\ workers'[w].listeners = drained[w].listeners
                                       /\ workers'[w].outbox = drained[w].outbox
      BY <1>3, <1>6, ReforkIs
    <3> QED
      BY <1>3, <3>1, <3>2
  <2>2. ASSUME NEW w \in DOMAIN workers
        PROVE  workers'[w].queue = << >> \/ workers'[w].queue = workers[w].queue
    <3>1. w = Len(drained) => workers'[w].queue = << >>
      BY <1>3, <1>6, ReforkIs
    <3>2. w # Len(drained) => workers'[w].queue = drained[w].queue
      BY <1>3, <1>6, ReforkIs
    <3> QED
      BY <1>3, <3>1, <3>2
  <2>3. \A w \in DOMAIN workers : workers'[w].outbox = << >> \/ workers'[w].outbox = workers[w].outbox
    BY <1>3, <2>1
  <2> QED
    BY <2>1, <2>2, <2>3 DEF Calmer, Active
<1> QED
  BY <1>2, <1>4, <1>5, <1>6

LEMMA CalmPending ==
  ASSUME Calmer, NEW k, Pending(k)', jobs'[k].pc = "hash" => jobs[k].pc = "hash",
         jobs'[k].pc = "select" => jobs[k].pc = "select"
  PROVE  Pending(k)
<1>1. CASE jobs'[k].pc = "select"
  BY <1>1 DEF Pending
<1>2. CASE jobs'[k].pc # "select"
  <2>1. PICK w \in DOMAIN workers' : k \in Range(workers'[w].listeners) /\ jobs'[k].pc = "hash" /\ Active(w)'
    BY <1>2 DEF Pending, Waits
  <2>2. workers'[w] # FreshWorker
    BY <2>1, FreshIs
  <2> QED
    BY <2>1, <2>2 DEF Calmer, Pending, Waits
<1> QED
  BY <1>1, <1>2

LEMMA SentWork ==
  ASSUME NEW j, NEW job, DOMAIN job = JobFields, SendToWorker(j, job)
  PROVE  jobs'[j].work = job.work
<1> DEFINE sent == [job EXCEPT !.pc = "hash"]
<1>1. sent.work = job.work
  BY DEF JobFields
<1>2. jobs' = Put(jobs, j, sent)
  BY DEF SendToWorker
<1> HIDE DEF sent
<1>3. jobs'[j] = sent
  BY <1>2 DEF Put
<1> QED
  BY <1>1, <1>3

\* Nobody but the job that sends its block gets anything to wait for.
LEMMA SentIs ==
  ASSUME WorkerInv, NEW j \in 1..(Len(jobs) + 1), NEW job, DOMAIN job = JobFields,
         DOMAIN job.block = BlockFields, SendToWorker(j, job),
         j \in DOMAIN jobs => jobs[j].pc = "select",
         \A k \in DOMAIN jobs : Asks(k) => k = j
  PROVE  /\ DOMAIN jobs' = DOMAIN jobs \cup {j} /\ jobs'[j].pc = "hash"
         /\ jobs'[j].block = job.block /\ jobs'[j].work = job.work
         /\ \A k \in DOMAIN jobs \ {j} : jobs'[k] = jobs[k]
         /\ \A k \in DOMAIN jobs \ {j} : Pending(k)' => Pending(k)
<1>1. /\ Shapes /\ Current \in DOMAIN workers
  BY DEF WorkerInv, Shapes, IsWorkers, IsSeq, Current
<1>2. \A k \in DOMAIN jobs : ~Waits(Current, k)
  BY DEF Asks, Waits
<1>3. ~Active(Current)
  BY <1>1, <1>2 DEF WorkerInv, OneOnItsWay
<1>4. /\ DOMAIN jobs' = DOMAIN jobs \cup {j}
      /\ jobs'[j].pc = "hash" /\ jobs'[j].block = job.block
      /\ \A k \in DOMAIN jobs \ {j} : jobs'[k] = jobs[k]
      /\ DOMAIN workers' = DOMAIN workers
      /\ Range(workers'[Current].listeners) = Range(workers[Current].listeners) \cup {j}
      /\ \A w \in DOMAIN workers \ {Current} : workers'[w] = workers[w]
  BY <1>1, <1>3, SendIs
<1>5. jobs'[j].work = job.work
  BY SentWork
<1>6. ASSUME NEW k \in DOMAIN jobs \ {j}, Pending(k)'
      PROVE  Pending(k)
  <2>1. CASE jobs'[k].pc = "select"
    BY <1>4, <2>1 DEF Pending
  <2>2. CASE jobs'[k].pc # "select"
    <3>1. PICK w \in DOMAIN workers : k \in Range(workers'[w].listeners) /\ jobs'[k].pc = "hash" /\ Active(w)'
      BY <1>4, <1>6, <2>2 DEF Pending, Waits
    <3>2. w # Current
      BY <1>2, <1>4, <3>1 DEF Waits
    <3> QED
      BY <1>4, <3>1, <3>2 DEF Pending, Waits, Active
  <2> QED
    BY <2>1, <2>2
<1> QED
  BY <1>4, <1>5, <1>6

LEMMA ChildFrame ==
  ASSUME ChildInv, latestBlock' = latestBlock, mined => mined',
         RivalWrites' => IsChild(rival'.block),
         \A k \in DOMAIN jobs' : Unadded(k)' => IsChild(jobs'[k].result),
         \A k \in DOMAIN jobs' : Pending(k)' =>
           \/ IsChild(jobs'[k].block)
           \/ k \in DOMAIN jobs /\ Pending(k) /\ (IsChild(jobs[k].block) => IsChild(jobs'[k].block))
  PROVE  ChildInv'
<1>1. \A b : IsChild(b)' <=> IsChild(b)
  BY DEF IsChild
<1>2. (RivalWrites => IsChild(rival.block))'
  BY DEF IsChild
<1>3. (\A j \in DOMAIN jobs : Unadded(j) => IsChild(jobs[j].result))'
  BY DEF IsChild
<1>4. (mined \/ \A j \in DOMAIN jobs : Pending(j) => IsChild(jobs[j].block))'
  <2> SUFFICES ASSUME ~mined', NEW j \in DOMAIN jobs', Pending(j)'
               PROVE  IsChild(jobs'[j].block)
    BY DEF IsChild
  <2> QED
    BY DEF ChildInv
<1> QED
  BY <1>2, <1>3, <1>4 DEF ChildInv

\* A block becomes the latest.
LEMMA LatestChild ==
  ASSUME WorkerInv, ChildInv, OvertakesNone, latestBlock' # latestBlock, UNCHANGED mined, Calmer,
         DOMAIN jobs' = DOMAIN jobs,
         \A k \in DOMAIN jobs : /\ jobs'[k].pc = "hash" => jobs[k].pc = "hash"
                                /\ jobs'[k].pc = "select" => jobs[k].pc = "select"
  PROVE  ChildInv'
<1>1. /\ ~RivalWrites' /\ \A j \in DOMAIN jobs : ~Unadded(j)'
      /\ mined \/ \A j \in DOMAIN jobs : ~Pending(j)
  BY DEF OvertakesNone
<1>2. \A j \in DOMAIN jobs : Pending(j)' => Pending(j)
  BY CalmPending
<1> QED
  BY <1>1, <1>2 DEF ChildInv

LEMMA WriteChild ==
  ASSUME WorkerInv, ChildInv, OvertakesNone, NEW j \in DOMAIN jobs,
         PutBlock(j) \/ Index(j) \/ Reward(j) \/ FlushAccount(j) \/ Complete(j)
  PROVE  ChildInv'
<1>1. /\ jobs' = [jobs EXCEPT ![j] = jobs'[j]]
      /\ jobs'[j].block = jobs[j].block /\ jobs'[j].result = jobs[j].result
      /\ jobs'[j].pc \in {"index", "reward", "flush", "sweep", "dead", "done"}
      /\ jobs'[j].pc = "index" => jobs[j].pc = "blockDB"
      /\ workers' = workers \/ workers' = Refork(workers)
      /\ UNCHANGED <<mined, rival>>
  BY WriteIs DEF WorkerInv
<1>2. /\ DOMAIN jobs' = DOMAIN jobs /\ Calmer
      /\ \A k \in DOMAIN jobs \ {j} : jobs'[k] = jobs[k]
  BY <1>1, ReforkCalms
<1>3. \A k \in DOMAIN jobs : /\ jobs'[k].pc = "hash" => jobs[k].pc = "hash"
                             /\ jobs'[k].pc = "select" => jobs[k].pc = "select"
                             /\ Unadded(k)' => Unadded(k)
                             /\ jobs'[k].block = jobs[k].block /\ jobs'[k].result = jobs[k].result
  BY <1>1, <1>2 DEF Unadded
<1>4. CASE latestBlock' # latestBlock
  BY <1>1, <1>2, <1>3, <1>4, LatestChild
<1>5. CASE latestBlock' = latestBlock
  <2>1. \A k \in DOMAIN jobs' : Pending(k)' => Pending(k)
    BY <1>2, <1>3, CalmPending
  <2>2. RivalWrites' => IsChild(rival'.block)
    BY <1>1 DEF ChildInv, RivalWrites
  <2> QED
    BY <1>1, <1>2, <1>3, <1>5, <2>1, <2>2, ChildFrame DEF ChildInv
<1> QED
  BY <1>4, <1>5

LEMMA RivalChild ==
  ASSUME WorkerInv, ChildInv, OvertakesNone, RivalStep
  PROVE  ChildInv'
<1>1. UNCHANGED jobs /\ (workers' = workers \/ workers' = Refork(workers))
  BY RivalIs DEF WorkerInv
<1>2. Calmer /\ \A k \in DOMAIN jobs' : Pending(k)' => Pending(k)
  BY <1>1, ReforkCalms, CalmPending
<1>3. DOMAIN rival = {"pc", "block", "work", "unwritten"} /\ ~(IdleRival.pc \in {"flush", "blockDB", "index"})
  BY DEF WorkerInv, Shapes, IdleRival
<1>4. CASE RivalIndex /\ latestBlock' # latestBlock
  BY <1>1, <1>2, <1>4, LatestChild DEF RivalIndex, miner
<1>5. ASSUME latestBlock' = latestBlock, mined => mined',
             RivalWrites' => RivalWrites /\ rival'.block = rival.block
      PROVE  ChildInv'
  <2>1. \A k \in DOMAIN jobs' : Unadded(k)' => IsChild(jobs'[k].result)
    BY <1>1 DEF ChildInv, Unadded
  <2> QED
    BY <1>1, <1>2, <1>5, <2>1, ChildFrame DEF ChildInv
<1>6. CASE RivalFlush
  <2>1. latestBlock' = latestBlock /\ (mined => mined') /\ rival.pc = "flush"
    BY <1>6 DEF RivalFlush, chain
  <2>2. PICK a, pc : \/ rival' = IdleRival
                     \/ rival' = [rival EXCEPT !.unwritten = @ \ {a}, !.pc = pc]
    BY <1>6 DEF RivalFlush
  <2>3. RivalWrites' => RivalWrites /\ rival'.block = rival.block
    BY <1>3, <2>1, <2>2 DEF RivalWrites
  <2> QED
    BY <1>5, <2>1, <2>3
<1>7. CASE RivalPutBlock
  <2>1. latestBlock' = latestBlock /\ (mined => mined') /\ (RivalWrites' => RivalWrites /\ rival'.block = rival.block)
    BY <1>3, <1>7 DEF RivalPutBlock, miner, RivalWrites
  <2> QED
    BY <1>5, <2>1
<1>8. CASE RivalIndex /\ latestBlock' = latestBlock
  <2>1. (mined => mined') /\ (RivalWrites' => RivalWrites /\ rival'.block = rival.block)
    BY <1>3, <1>8 DEF RivalIndex, miner, RivalWrites
  <2> QED
    BY <1>5, <1>8, <2>1
<1>9. CASE RivalComplete
  <2>1. latestBlock' = latestBlock /\ (mined => mined') /\ (RivalWrites' => RivalWrites /\ rival'.block = rival.block)
    BY <1>3, <1>9 DEF RivalComplete, miner, RivalWrites, chain
  <2> QED
    BY <1>5, <2>1
<1> QED
  BY <1>4, <1>6, <1>7, <1>8, <1>9 DEF RivalStep

\* A new job, a selection that ends and an answer.
LEMMA TickChild ==
  ASSUME WorkerInv, ChildInv, TimerWaits, Tick
  PROVE  ChildInv'
<1>1. PICK j : /\ j = Len(jobs) + 1 /\ j \in 1..(Len(jobs) + 1) /\ j \notin DOMAIN jobs
               /\ \/ SendToWorker(j, NewJob(j))
                  \/ /\ workers' = workers /\ IsJobs(jobs') /\ DOMAIN jobs' = DOMAIN jobs \cup {j}
                     /\ jobs'[j] = NewJob(j) /\ \A k \in DOMAIN jobs : jobs'[k] = jobs[k]
  BY TickIs DEF WorkerInv
<1>2. /\ UNCHANGED <<latestBlock, mined, rival>> /\ \A k \in DOMAIN jobs : ~Asks(k)
  BY DEF Tick, TimerWaits, chain
<1>3. /\ DOMAIN jobs' = DOMAIN jobs \cup {j} /\ jobs'[j].pc \in {"hash", "select"}
      /\ IsChild(jobs'[j].block)
      /\ \A k \in DOMAIN jobs : jobs'[k] = jobs[k]
      /\ \A k \in DOMAIN jobs : Pending(k)' => Pending(k)
  <2>1. CASE SendToWorker(j, NewJob(j))
    BY <1>1, <1>2, <2>1, NewJobIs, SentIs
  <2>2. CASE /\ workers' = workers /\ IsJobs(jobs') /\ DOMAIN jobs' = DOMAIN jobs \cup {j}
             /\ jobs'[j] = NewJob(j) /\ \A k \in DOMAIN jobs : jobs'[k] = jobs[k]
    BY <2>2, NewJobIs, ReforkCalms, CalmPending
  <2> QED
    BY <1>1, <2>1, <2>2
<1>4. \A k \in DOMAIN jobs' : Unadded(k)' => IsChild(jobs'[k].result)
  BY <1>3 DEF ChildInv, Unadded
<1>5. \A k \in DOMAIN jobs' : Pending(k)' => \/ IsChild(jobs'[k].block)
                                             \/ k \in DOMAIN jobs /\ Pending(k) /\ jobs'[k] = jobs[k]
  BY <1>3
<1>6. RivalWrites' => IsChild(rival'.block)
  BY <1>2 DEF ChildInv, RivalWrites
<1> QED
  BY <1>2, <1>4, <1>5, <1>6, ChildFrame

LEMMA CollectChild ==
  ASSUME WorkerInv, ChildInv, NEW j \in DOMAIN jobs, Collect(j)
  PROVE  ChildInv'
<1>1. UNCHANGED <<latestBlock, mined, rival>> /\ jobs[j].pc = "select" /\ Pending(j)
  BY CollectIs DEF Collect, chain, Pending, WorkerInv
<1>2. /\ DOMAIN jobs' = DOMAIN jobs /\ ~Unadded(j)'
      /\ IsChild(jobs[j].block) => IsChild(jobs'[j].block)
      /\ \A k \in DOMAIN jobs \ {j} : jobs'[k] = jobs[k]
      /\ \A k \in DOMAIN jobs \ {j} : Pending(k)' => Pending(k)
  <2>1. ASSUME NEW job, SendToWorker(j, job), DOMAIN job = JobFields, DOMAIN job.block = BlockFields,
               job.block.parentHash = jobs[j].block.parentHash,
               job.block.blockNumber = jobs[j].block.blockNumber
        PROVE  /\ DOMAIN jobs' = DOMAIN jobs /\ ~Unadded(j)'
               /\ IsChild(jobs[j].block) => IsChild(jobs'[j].block)
               /\ \A k \in DOMAIN jobs \ {j} : jobs'[k] = jobs[k]
               /\ \A k \in DOMAIN jobs \ {j} : Pending(k)' => Pending(k)
    <3>1. \A k \in DOMAIN jobs : Asks(k) => k = j
      BY <1>1 DEF WorkerInv, OneAsks, Asks
    <3>2. j \in 1..(Len(jobs) + 1)
      BY CollectIs DEF WorkerInv
    <3>3. /\ DOMAIN jobs' = DOMAIN jobs \cup {j} /\ jobs'[j].pc = "hash"
          /\ jobs'[j].block = job.block
          /\ \A k \in DOMAIN jobs \ {j} : jobs'[k] = jobs[k]
          /\ \A k \in DOMAIN jobs \ {j} : Pending(k)' => Pending(k)
      BY <1>1, <2>1, <3>1, <3>2, SentIs
    <3> QED
      BY <2>1, <3>3 DEF IsChild, Unadded
  <2>2. ASSUME workers' = workers, jobs' = [jobs EXCEPT ![j] = jobs'[j]],
               jobs'[j].pc = "dead", jobs'[j].block = jobs[j].block
        PROVE  /\ DOMAIN jobs' = DOMAIN jobs /\ ~Unadded(j)'
               /\ IsChild(jobs[j].block) => IsChild(jobs'[j].block)
               /\ \A k \in DOMAIN jobs \ {j} : jobs'[k] = jobs[k]
               /\ \A k \in DOMAIN jobs \ {j} : Pending(k)' => Pending(k)
    <3>1. DOMAIN jobs' = DOMAIN jobs /\ \A k \in DOMAIN jobs \ {j} : jobs'[k] = jobs[k]
      BY <2>2
    <3> QED
      BY <2>2, <3>1, ReforkCalms, CalmPending DEF Unadded
  <2> QED
    BY <2>1, <2>2, CollectIs DEF WorkerInv
<1>3. \A k \in DOMAIN jobs' : Unadded(k)' => IsChild(jobs'[k].result)
  BY <1>2 DEF ChildInv, Unadded
<1>4. \A k \in DOMAIN jobs' : Pending(k)' =>
        k \in DOMAIN jobs /\ Pending(k) /\ (IsChild(jobs[k].block) => IsChild(jobs'[k].block))
  BY <1>1, <1>2
<1>5. RivalWrites' => IsChild(rival'.block)
  BY <1>1 DEF ChildInv, RivalWrites
<1> QED
  BY <1>1, <1>3, <1>4, <1>5, ChildFrame

LEMMA AnswerChild ==
  ASSUME WorkerInv, ChildInv, ForgetsNone, NEW v \in DOMAIN workers, Solve \/ Lose(v) \/ Deliver(v)
  PROVE  ChildInv'
<1>1. Calmer
  BY AnswersCalm
<1>2. UNCHANGED <<latestBlock, rival>>
  BY DEF Solve, Lose, Deliver, chain
<1>3. RivalWrites' => IsChild(rival'.block)
  BY <1>2 DEF ChildInv, RivalWrites
<1>4. CASE Solve \/ Lose(v)
  <2>1. UNCHANGED <<jobs, mined>>
    BY <1>4 DEF Solve, Lose
  <2>2. /\ \A k \in DOMAIN jobs' : Unadded(k)' => IsChild(jobs'[k].result)
        /\ \A k \in DOMAIN jobs' : Pending(k)' => Pending(k)
    BY <1>1, <2>1, CalmPending DEF ChildInv, Unadded
  <2> QED
    BY <1>2, <1>3, <2>1, <2>2, ChildFrame
<1>5. CASE Deliver(v)
  <2>1. PICK j \in DOMAIN jobs :
          /\ Waits(v, j) /\ workers[v].outbox = <<jobs[j].block>>
          /\ jobs' = [jobs EXCEPT ![j] = jobs'[j]] /\ jobs'[j].block = jobs[j].block
          /\ \/ mined /\ mined' = FALSE /\ jobs'[j].pc = "done"
             \/ ~mined /\ mined' = FALSE /\ jobs'[j].pc = "blockDB" /\ jobs'[j].result = jobs[j].block
    BY <1>5, DeliverIs
  <2>2. DOMAIN jobs' = DOMAIN jobs /\ \A k \in DOMAIN jobs \ {j} : jobs'[k] = jobs[k]
    BY <2>1
  <2>3. \A k \in DOMAIN jobs' : Pending(k)' => k # j /\ Pending(k) /\ jobs'[k] = jobs[k]
    <3>1. \A k \in DOMAIN jobs : Pending(k)' => k # j
      BY <2>1 DEF Pending, Waits
    <3> QED
      BY <1>1, <2>2, <3>1, CalmPending
  <2>4. \A b : IsChild(b)' <=> IsChild(b)
    BY <1>2 DEF IsChild
  <2>5. CASE mined
    <3>1. mined' = FALSE /\ jobs'[j].pc = "done"
      BY <2>1, <2>5
    <3>2. \A k \in DOMAIN jobs' : Pending(k)' => IsChild(jobs'[k].block)
      BY <2>2, <2>3, <2>5, <3>1 DEF ForgetsNone
    <3>3. \A k \in DOMAIN jobs' : Unadded(k)' => IsChild(jobs'[k].result)
      BY <2>2, <3>1 DEF ChildInv, Unadded
    <3> QED
      BY <1>2, <1>3, <3>2, <3>3 DEF ChildInv, IsChild
  <2>6. CASE ~mined
    <3>1. /\ ~mined' /\ jobs'[j].pc = "blockDB" /\ jobs'[j].result = jobs[j].block
      BY <2>1, <2>6
    <3>2. IsChild(jobs[j].block)
      <4>1. Active(v)
        BY <2>1 DEF Active
      <4> QED
        BY <2>1, <2>6, <4>1 DEF ChildInv, Pending
    <3>3. \A k \in DOMAIN jobs' : Unadded(k)' => IsChild(jobs'[k].result)
      BY <2>2, <3>1, <3>2 DEF ChildInv, Unadded
    <3> QED
      BY <1>2, <1>3, <2>2, <2>3, <2>6, <3>3, ChildFrame
  <2> QED
    BY <2>5, <2>6
<1> QED
  BY <1>4, <1>5

LEMMA NextChild ==
  ASSUME WorkerInv, ChildInv, [TimerWaits /\ OvertakesNone /\ ForgetsNone]_vars, [Next]_vars
  PROVE  ChildInv'
<1>1. CASE UNCHANGED vars
  BY <1>1 DEF vars, chain, miner, ChildInv, RivalWrites, Unadded, Pending, Waits, Active, IsChild
<1> SUFFICES ASSUME TimerWaits, OvertakesNone, ForgetsNone, Next
             PROVE  ChildInv'
  BY <1>1
<1>2. ASSUME NEW block \in PeerBlock, Receive(block)
      PROVE  ChildInv'
  <2>1. /\ UNCHANGED <<latestBlock, mined, jobs, workers>> /\ IsChild(block)
        /\ \E work : rival' = [pc |-> "flush", block |-> block, work |-> work,
                               unwritten |-> DOMAIN work.states]
    BY <1>2 DEF Receive, miner, chain, IsChild
  <2>2. RivalWrites' => IsChild(rival'.block)
    BY <2>1
  <2>3. /\ \A k \in DOMAIN jobs' : Unadded(k)' => IsChild(jobs'[k].result)
        /\ \A k \in DOMAIN jobs' : Pending(k)' => Pending(k)
    BY <2>1, ReforkCalms, CalmPending DEF ChildInv, Unadded
  <2> QED
    BY <2>1, <2>2, <2>3, ChildFrame
<1>3. ASSUME NEW tx \in PoolTx, Submit(tx)
      PROVE  ChildInv'
  BY <1>3 DEF Submit, chain, miner, ChildInv, RivalWrites, Unadded, Pending, Waits, Active, IsChild
<1>4. ASSUME NEW j \in DOMAIN jobs, JobStep(j)
      PROVE  ChildInv'
  BY <1>4, CollectChild, WriteChild DEF JobStep
<1>5. ASSUME NEW w \in DOMAIN workers, Deliver(w) \/ Lose(w)
      PROVE  ChildInv'
  BY <1>5, AnswerChild
<1>6. CASE Solve
  <2>1. PICK w \in DOMAIN workers : TRUE
    BY WorkersAre
  <2> QED
    BY <1>6, AnswerChild
<1> QED
  BY <1>2, <1>3, <1>4, <1>5, <1>6, TickChild, RivalChild DEF Next

LEMMA ChildInvariance ==
  Spec /\ [][TimerWaits /\ OvertakesNone /\ ForgetsNone]_vars => [](WorkerInv /\ ChildInv)
<1>1. Init => ChildInv
  <2> SUFFICES ASSUME Init PROVE ChildInv
    OBVIOUS
  <2>1. DOMAIN jobs = {} /\ rival.pc = "idle"
    BY DEF Init, IdleRival
  <2> QED
    BY <2>1 DEF ChildInv, RivalWrites
<1>2. WorkerInv /\ ChildInv /\ [TimerWaits /\ OvertakesNone /\ ForgetsNone]_vars /\ [Next]_vars => ChildInv'
  BY NextChild
<1>3. [TimerWaits /\ OvertakesNone /\ ForgetsNone]_vars => [TimerWaits]_vars
  OBVIOUS
<1> QED
  BY <1>1, <1>2, <1>3, WorkerInvariance, PTL DEF Spec

\* A mining node replaces its latest block by a child of it only, its own or
\* another miner's: the check of a received block, mined, and the worker that
\* is killed are enough until loopMine starts a job too early, a block becomes
\* the latest while another is being written or is under way unnoticed, or one
\* dropped result clears mined although a second overtaken block is under way.
THEOREM MinesOnTheTip ==
  Spec /\ [][TimerWaits /\ OvertakesNone /\ ForgetsNone]_vars => AdoptsChild
<1>1. WorkerInv /\ ChildInv /\ [Next]_vars
        => [latestBlock' # latestBlock => latestBlock'.parentHash = latestBlock.hash]_vars
  <2> SUFFICES ASSUME WorkerInv, ChildInv, Next, latestBlock' # latestBlock
               PROVE  latestBlock'.parentHash = latestBlock.hash
    BY DEF vars, chain
  <2>1. \/ \E j \in DOMAIN jobs : Index(j)
        \/ RivalIndex
    BY DEF Next, Tick, Solve, Deliver, Lose, JobStep, Collect, PutBlock, Reward, FlushAccount, Complete,
           Receive, RivalStep, RivalFlush, RivalPutBlock, RivalComplete, Submit, chain
  <2> QED
    BY <2>1 DEF Index, RivalIndex, ChildInv, Unadded, RivalWrites, IsChild
<1> QED
  BY <1>1, ChildInvariance, PTL DEF Spec, AdoptsChild

-----------------------------------------------------------------------------
(* Announcements.  The shapes of the state need none of these conditions.   *)

LEMMA ReforkShapes ==
  ASSUME IsJobs(jobs'), IsWorkers(workers), DOMAIN jobs \subseteq DOMAIN jobs', DOMAIN rival' = DOMAIN IdleRival,
         \A w \in DOMAIN workers : Range(workers[w].listeners) \subseteq DOMAIN jobs,
         workers' = workers \/ workers' = Refork(workers)
  PROVE  Shapes'
<1>1. CASE workers' = workers
  BY <1>1 DEF Shapes
<1>2. CASE workers' = Refork(workers)
  <2>1. /\ IsWorkers(workers') /\ DOMAIN workers' = DOMAIN workers \cup {Len(workers) + 1}
        /\ workers'[Len(workers) + 1] = FreshWorker
        /\ \A w \in DOMAIN workers : workers'[w].listeners = workers[w].listeners
    BY <1>2, ReforkIs
  <2> QED
    BY <2>1, FreshIs DEF Shapes
<1> QED
  BY <1>1, <1>2

\* A worker has more or less to do.
LEMMA EditShapes ==
  ASSUME NEW ws, IsWorkers(ws), NEW v \in DOMAIN ws, NEW e, DOMAIN e = DOMAIN FreshWorker,
         e.listeners = ws[v].listeners
  PROVE  /\ IsWorkers([ws EXCEPT ![v] = e]) /\ DOMAIN [ws EXCEPT ![v] = e] = DOMAIN ws
         /\ \A w \in DOMAIN ws : [ws EXCEPT ![v] = e][w].listeners = ws[w].listeners
<1> DEFINE edited == [ws EXCEPT ![v] = e]
<1>1. IsSeq(ws) /\ \A w \in DOMAIN ws : DOMAIN ws[w] = DOMAIN FreshWorker
  BY DEF IsWorkers
<1>2. /\ DOMAIN edited = DOMAIN ws /\ edited = [w \in DOMAIN ws |-> edited[w]]
      /\ \A w \in DOMAIN ws : /\ edited[w].listeners = ws[w].listeners
                              /\ DOMAIN edited[w] = DOMAIN FreshWorker
  BY <1>1
<1> HIDE DEF edited
<1>3. IsSeq(edited) /\ Len(edited) = Len(ws)
  BY <1>1, <1>2, SameLength
<1>4. IsWorkers(edited)
  BY <1>2, <1>3 DEF IsWorkers
<1> QED
  BY <1>2, <1>4 DEF edited

\* What an answer does to the jobs, however many wait for it.
LEMMA AnswersAre ==
  ASSUME Shapes, NEW v \in DOMAIN workers, Deliver(v)
  PROVE  /\ IsJobs(jobs') /\ DOMAIN jobs' = DOMAIN jobs
         /\ \A k \in DOMAIN jobs :
              \/ jobs'[k] = jobs[k]
              \/ jobs[k].pc = "hash" /\ jobs'[k].pc \in {"done", "blockDB"}
<1> DEFINE heard == workers[v].listeners
           turns == {i \in DOMAIN heard : jobs[heard[i]].pc = "hash"}
           dropped == IF Interrupted /\ turns # {} THEN {heard[Min(turns)]} ELSE {}
           added == {heard[i] : i \in turns} \ dropped
           result == Head(workers[v].outbox)
<1>1. /\ heard \in Seq(Nat) /\ IsSeq(jobs)
      /\ \A k \in DOMAIN jobs : DOMAIN jobs[k] = JobFields /\ DOMAIN jobs[k].block = BlockFields
  BY DEF Shapes, IsJobs, IsWorkers
<1>2. \A k \in dropped \cup added : jobs[k].pc = "hash"
  <2>1. turns \subseteq Nat
    BY <1>1
  <2>2. turns # {} => Min(turns) \in turns
    BY <2>1, MinIs
  <2>3. \A i \in turns : jobs[heard[i]].pc = "hash"
    OBVIOUS
  <2> HIDE DEF turns
  <2> QED
    BY <2>2, <2>3
<1>3. jobs' = [k \in DOMAIN jobs |->
                 IF k \in dropped THEN [jobs[k] EXCEPT !.pc = "done"]
                 ELSE IF k \in added THEN [jobs[k] EXCEPT !.pc = "blockDB", !.result = result]
                 ELSE jobs[k]]
  BY DEF Deliver
<1> HIDE DEF dropped, added, result
<1>4. \A k \in DOMAIN jobs :
        /\ DOMAIN jobs'[k] = JobFields /\ jobs'[k].block = jobs[k].block
        /\ \/ jobs'[k] = jobs[k]
           \/ jobs[k].pc = "hash" /\ jobs'[k].pc \in {"done", "blockDB"}
  BY <1>1, <1>2, <1>3 DEF JobFields
<1>5. jobs' = [k \in DOMAIN jobs |-> jobs'[k]] /\ DOMAIN jobs' = DOMAIN jobs
  BY <1>3
<1>6. IsSeq(jobs')
  BY <1>1, <1>5, SameLength
<1>7. IsJobs(jobs')
  BY <1>1, <1>4, <1>5, <1>6 DEF IsJobs
<1> QED
  BY <1>4, <1>5, <1>7

\* What a job does, and the timer that starts one.
LEMMA OneJobIs ==
  ASSUME IsJobs(jobs), NEW j \in DOMAIN jobs, jobs' = [jobs EXCEPT ![j] = jobs'[j]],
         DOMAIN jobs'[j] = JobFields, jobs'[j].block = jobs[j].block
  PROVE  /\ IsJobs(jobs') /\ DOMAIN jobs' = DOMAIN jobs
         /\ \A k \in DOMAIN jobs \ {j} : jobs'[k] = jobs[k]
<1>1. DOMAIN jobs' = DOMAIN jobs /\ \A k \in DOMAIN jobs \ {j} : jobs'[k] = jobs[k]
  OBVIOUS
<1>2. jobs' = [k \in DOMAIN jobs |-> jobs'[k]]
  BY <1>1
<1>3. IsSeq(jobs')
  BY <1>2, SameLength DEF IsJobs
<1> QED
  BY <1>1, <1>3 DEF IsJobs

LEMMA JobStepIs ==
  ASSUME Shapes, NEW j \in DOMAIN jobs, JobStep(j)
  PROVE  /\ IsJobs(jobs') /\ DOMAIN jobs' = DOMAIN jobs
         /\ \A k \in DOMAIN jobs \ {j} : jobs'[k] = jobs[k]
         /\ \/ Collect(j) /\ jobs[j].pc = "select" /\ jobs'[j].pc \in {"hash", "dead"}
            \/ PutBlock(j) \/ Index(j) \/ Reward(j) \/ FlushAccount(j) \/ Complete(j)
<1>1. CASE Collect(j)
  <2>1. ASSUME NEW job, SendToWorker(j, job), DOMAIN job = JobFields, DOMAIN job.block = BlockFields
        PROVE  /\ IsJobs(jobs') /\ DOMAIN jobs' = DOMAIN jobs /\ jobs'[j].pc = "hash"
               /\ \A k \in DOMAIN jobs \ {j} : jobs'[k] = jobs[k]
    <3>1. j \in 1..(Len(jobs) + 1)
      BY <1>1, CollectIs
    <3>2. /\ IsJobs(jobs') /\ DOMAIN jobs' = DOMAIN jobs \cup {j} /\ jobs'[j].pc = "hash"
          /\ \A k \in DOMAIN jobs \ {j} : jobs'[k] = jobs[k]
      BY <2>1, <3>1, SendIs
    <3> QED
      BY <3>2
  <2>2. CASE /\ jobs' = [jobs EXCEPT ![j] = jobs'[j]] /\ DOMAIN jobs'[j] = JobFields
             /\ jobs'[j].pc = "dead" /\ jobs'[j].block = jobs[j].block
    <3>1. /\ IsJobs(jobs') /\ DOMAIN jobs' = DOMAIN jobs
          /\ \A k \in DOMAIN jobs \ {j} : jobs'[k] = jobs[k]
      BY <2>2, OneJobIs DEF Shapes
    <3> QED
      BY <1>1, <2>2, <3>1, CollectIs
  <2> QED
    BY <1>1, <2>1, <2>2, CollectIs
<1>2. CASE PutBlock(j) \/ Index(j) \/ Reward(j) \/ FlushAccount(j) \/ Complete(j)
  <2>1. jobs' = [jobs EXCEPT ![j] = jobs'[j]] /\ DOMAIN jobs'[j] = JobFields /\ jobs'[j].block = jobs[j].block
    BY <1>2, WriteIs
  <2> QED
    BY <1>2, <2>1, OneJobIs DEF Shapes
<1> QED
  BY <1>1, <1>2 DEF JobStep

LEMMA TimerIs ==
  ASSUME Shapes, Tick
  PROVE  \E j : /\ j \notin DOMAIN jobs /\ IsJobs(jobs') /\ DOMAIN jobs' = DOMAIN jobs \cup {j}
                /\ jobs'[j].pc \in {"hash", "select"}
                /\ \A k \in DOMAIN jobs : jobs'[k] = jobs[k]
<1>1. PICK j : /\ j = Len(jobs) + 1 /\ j \in 1..(Len(jobs) + 1) /\ j \notin DOMAIN jobs
               /\ \/ SendToWorker(j, NewJob(j))
                  \/ /\ workers' = workers /\ IsJobs(jobs') /\ DOMAIN jobs' = DOMAIN jobs \cup {j}
                     /\ jobs'[j] = NewJob(j) /\ \A k \in DOMAIN jobs : jobs'[k] = jobs[k]
  BY TickIs
<1>2. CASE SendToWorker(j, NewJob(j))
  <2>1. /\ IsJobs(jobs') /\ DOMAIN jobs' = DOMAIN jobs \cup {j} /\ jobs'[j].pc = "hash"
        /\ \A k \in DOMAIN jobs \ {j} : jobs'[k] = jobs[k]
    BY <1>1, <1>2, NewJobIs, SendIs
  <2> QED
    BY <1>1, <2>1
<1>3. CASE /\ IsJobs(jobs') /\ DOMAIN jobs' = DOMAIN jobs \cup {j}
           /\ jobs'[j] = NewJob(j) /\ \A k \in DOMAIN jobs : jobs'[k] = jobs[k]
  BY <1>1, <1>3, NewJobIs
<1> QED
  BY <1>1, <1>2, <1>3

LEMMA SentShapes ==
  ASSUME Shapes, NEW j \in 1..(Len(jobs) + 1), NEW job, DOMAIN job = JobFields,
         DOMAIN job.block = BlockFields, SendToWorker(j, job), UNCHANGED rival
  PROVE  Shapes'
<1>1. /\ IsJobs(jobs') /\ DOMAIN jobs' = DOMAIN jobs \cup {j}
      /\ IsWorkers(workers') /\ DOMAIN workers' = DOMAIN workers
      /\ Range(workers'[Current].listeners) = Range(workers[Current].listeners) \cup {j}
      /\ \A w \in DOMAIN workers \ {Current} : workers'[w] = workers[w]
  BY SendIs
<1>2. \A w \in DOMAIN workers : Range(workers'[w].listeners) \subseteq DOMAIN jobs \cup {j}
  BY <1>1 DEF Shapes
<1> QED
  BY <1>1, <1>2 DEF Shapes

LEMMA ShapesKept == Shapes /\ [Next]_vars => Shapes'
<1> SUFFICES ASSUME Shapes, [Next]_vars
             PROVE  Shapes'
  OBVIOUS
<1>1. /\ IsJobs(jobs) /\ IsWorkers(workers) /\ DOMAIN rival = DOMAIN IdleRival
      /\ Len(workers) \in DOMAIN workers
      /\ \A w \in DOMAIN workers : Range(workers[w].listeners) \subseteq DOMAIN jobs
  BY DEF Shapes, IsWorkers, IsSeq
<1>2. CASE \/ UNCHANGED vars
           \/ RivalStep
           \/ \E block \in PeerBlock : Receive(block)
           \/ \E tx \in PoolTx : Submit(tx)
  BY <1>1, <1>2, RivalIs, ReforkShapes
<1>3. CASE Tick
  <2>1. PICK j : /\ j = Len(jobs) + 1 /\ j \in 1..(Len(jobs) + 1)
                 /\ \/ SendToWorker(j, NewJob(j))
                    \/ /\ workers' = workers /\ IsJobs(jobs') /\ DOMAIN jobs' = DOMAIN jobs \cup {j}
    BY <1>3, TickIs
  <2>2. UNCHANGED rival
    BY <1>3 DEF Tick
  <2> QED
    BY <1>1, <2>1, <2>2, NewJobIs, SentShapes, ReforkShapes
<1>4. ASSUME NEW j \in DOMAIN jobs, JobStep(j)
      PROVE  Shapes'
  <2>1. IsJobs(jobs') /\ DOMAIN jobs' = DOMAIN jobs
    BY <1>4, JobStepIs
  <2>2. CASE Collect(j)
    <3>1. UNCHANGED rival /\ j \in 1..(Len(jobs) + 1)
      BY <2>2, CollectIs DEF Collect
    <3>2. \/ workers' = workers
          \/ \E job : DOMAIN job = JobFields /\ DOMAIN job.block = BlockFields /\ SendToWorker(j, job)
      BY <2>2, CollectIs
    <3> QED
      BY <1>1, <2>1, <3>1, <3>2, SentShapes, ReforkShapes
  <2>3. CASE PutBlock(j) \/ Index(j) \/ Reward(j) \/ FlushAccount(j) \/ Complete(j)
    <3>1. UNCHANGED rival /\ (workers' = workers \/ workers' = Refork(workers))
      BY <2>3, WriteIs
    <3> QED
      BY <1>1, <2>1, <3>1, ReforkShapes
  <2> QED
    BY <1>4, <2>2, <2>3 DEF JobStep
<1>5. ASSUME NEW v \in DOMAIN workers, NEW e, DOMAIN e = DOMAIN FreshWorker,
             e.listeners = workers[v].listeners,
             \/ workers' = [workers EXCEPT ![v] = e]
             \/ workers' = Refork([workers EXCEPT ![v] = e]),
             IsJobs(jobs'), DOMAIN jobs' = DOMAIN jobs, UNCHANGED rival
      PROVE  Shapes'
  <2> DEFINE edited == [workers EXCEPT ![v] = e]
  <2>1. /\ IsWorkers(edited) /\ DOMAIN edited = DOMAIN workers
        /\ \A w \in DOMAIN workers : edited[w].listeners = workers[w].listeners
    BY <1>1, <1>5, EditShapes
  <2> HIDE DEF edited
  <2>2. CASE workers' = edited
    BY <1>1, <1>5, <2>1, <2>2 DEF Shapes
  <2>3. CASE workers' = Refork(edited)
    <3>1. /\ IsWorkers(workers') /\ DOMAIN workers' = DOMAIN workers \cup {Len(edited) + 1}
          /\ workers'[Len(edited) + 1] = FreshWorker
          /\ \A w \in DOMAIN workers : workers'[w].listeners = edited[w].listeners
      BY <2>1, <2>3, ReforkIs
    <3>2. \A w \in DOMAIN workers' : Range(workers'[w].listeners) \subseteq DOMAIN jobs'
      BY <1>1, <1>5, <2>1, <3>1, FreshIs
    <3> QED
      BY <1>1, <1>5, <3>1, <3>2 DEF Shapes
  <2> QED
    BY <1>5, <2>2, <2>3 DEF edited
<1>6. \A w \in DOMAIN workers : DOMAIN workers[w] = DOMAIN FreshWorker
  BY <1>1 DEF IsWorkers
<1>7. CASE Solve
  <2>1. PICK v : v = Len(workers)
    OBVIOUS
  <2>2. UNCHANGED <<jobs, rival>> /\ \E q, o : workers' = [workers EXCEPT ![v].queue = q, ![v].outbox = o]
    BY <1>1, <1>7, <2>1 DEF Solve
  <2>3. PICK q, o : workers' = [workers EXCEPT ![v].queue = q, ![v].outbox = o]
    BY <2>2
  <2>4. PICK e : e = [workers[v] EXCEPT !.queue = q, !.outbox = o]
    OBVIOUS
  <2>5. /\ workers' = [workers EXCEPT ![v] = e] /\ DOMAIN e = DOMAIN FreshWorker
        /\ e.listeners = workers[v].listeners
    <3>1. DOMAIN workers[v] = {"queue", "listeners", "outbox"} /\ DOMAIN FreshWorker = {"queue", "listeners", "outbox"}
      BY <1>1, <1>6, <2>1 DEF FreshWorker
    <3>2. DOMAIN e = {"queue", "listeners", "outbox"} /\ e.listeners = workers[v].listeners
      BY <2>4, <3>1
    <3>3. [workers EXCEPT ![v].queue = q, ![v].outbox = o] = [workers EXCEPT ![v] = e]
      BY <1>1, <2>1, <2>4
    <3> QED
      BY <2>3, <3>1, <3>2, <3>3
  <2> QED
    BY <1>1, <1>5, <2>1, <2>2, <2>5
<1>8. ASSUME NEW v \in DOMAIN workers, Deliver(v) \/ Lose(v)
      PROVE  Shapes'
  <2>1. /\ IsJobs(jobs') /\ DOMAIN jobs' = DOMAIN jobs /\ UNCHANGED rival
    BY <1>1, <1>8, AnswersAre DEF Deliver, Lose
  <2>2. PICK o : \/ workers' = [workers EXCEPT ![v].outbox = o]
                 \/ workers' = Refork([workers EXCEPT ![v].outbox = o])
    BY <1>8 DEF Deliver, Lose
  <2>3. PICK e : e = [workers[v] EXCEPT !.outbox = o]
    OBVIOUS
  <2>4. /\ [workers EXCEPT ![v].outbox = o] = [workers EXCEPT ![v] = e]
        /\ DOMAIN e = DOMAIN FreshWorker /\ e.listeners = workers[v].listeners
    BY <1>6, <2>3 DEF FreshWorker
  <2> QED
    BY <1>5, <2>1, <2>2, <2>4
<1> QED
  BY <1>2, <1>3, <1>4, <1>7, <1>8 DEF Next

LEMMA ShapesHold == Spec => []Shapes
<1>1. Init => Shapes
  BY InitWorkers DEF WorkerInv
<1> QED
  BY <1>1, ShapesKept, PTL DEF Spec

\* A step that adds no block and whose jobs go on adding what they were.
LEMMA AnnounceFrame ==
  ASSUME AnnounceInv, KeepsLatest, UNCHANGED <<blockDB, announced>>, DOMAIN jobs \subseteq DOMAIN jobs',
         \A k \in DOMAIN jobs' : jobs'[k].pc = "flush" =>
           jobs'[k].unwritten \subseteq DOMAIN jobs'[k].work.states,
         \A k \in DOMAIN jobs' : jobs'[k].pc \in {"reward", "flush", "sweep"} =>
           \/ jobs'[k].result = latestBlock'
           \/ /\ k \in DOMAIN jobs /\ jobs[k].pc \in {"reward", "flush", "sweep"}
              /\ jobs'[k].result = jobs[k].result,
         \A k \in DOMAIN jobs : jobs[k].pc \in {"index", "reward", "flush", "sweep"} =>
           /\ jobs'[k].pc \in {"index", "reward", "flush", "sweep"}
           /\ jobs'[k].result = jobs[k].result,
         rival.pc \in {"index", "sweep"} =>
           rival'.pc \in {"index", "sweep"} /\ rival'.block = rival.block
  PROVE  AnnounceInv'
<1>1. ASSUME NEW k \in DOMAIN jobs', jobs'[k].pc \in {"reward", "flush", "sweep"}
      PROVE  jobs'[k].result = latestBlock'
  BY <1>1 DEF AnnounceInv, KeepsLatest
<1>2. \A n \in DOMAIN blockDB \ {1} :
        \/ blockDB[n] \in announced
        \/ \E j \in DOMAIN jobs' :
             jobs'[j].pc \in {"index", "reward", "flush", "sweep"} /\ blockDB[n] = jobs'[j].result
        \/ rival'.pc \in {"index", "sweep"} /\ blockDB[n] = rival'.block
  BY DEF AnnounceInv
<1> QED
  BY <1>1, <1>2 DEF AnnounceInv

\* What the step of a job that is adding its block does.
LEMMA AddIs ==
  ASSUME Shapes, AnnounceInv, NoFlushThrows, NEW j \in DOMAIN jobs,
         Index(j) \/ Reward(j) \/ FlushAccount(j)
  PROVE  /\ jobs' = [jobs EXCEPT ![j] = jobs'[j]]
         /\ jobs'[j].pc \in {"reward", "flush", "sweep"} /\ jobs'[j].result = jobs[j].result
         /\ jobs'[j].pc = "flush" => jobs'[j].unwritten \subseteq DOMAIN jobs'[j].work.states
         /\ \/ latestBlock' = jobs[j].result
            \/ latestBlock' = latestBlock /\ jobs[j].pc \in {"reward", "flush", "sweep"}
         /\ UNCHANGED <<blockDB, announced, rival>>
<1>1. DOMAIN jobs[j] = JobFields /\ jobs = [k \in DOMAIN jobs |-> jobs[k]]
  BY DEF Shapes, IsJobs, IsSeq
<1>2. CASE Index(j)
  BY <1>1, <1>2 DEF Index, JobFields
<1>3. CASE Reward(j)
  <2> DEFINE work == PayCoinbase(stateDB, codeDB, jobs[j].work, jobs[j].block)
  <2>1. /\ jobs' = [jobs EXCEPT ![j].pc = "flush", ![j].work = work, ![j].unwritten = DOMAIN work.states]
        /\ jobs[j].pc = "reward" /\ latestBlock' = latestBlock /\ UNCHANGED <<blockDB, announced, rival>>
    BY <1>3 DEF Reward, chain
  <2> HIDE DEF work
  <2> QED
    BY <1>1, <2>1 DEF JobFields
<1>4. CASE FlushAccount(j)
  <2>1. PICK a \in jobs[j].unwritten :
          LET loaded == jobs[j].work.states[a].codeHash \in jobs[j].work.code
          IN  jobs' = [jobs EXCEPT ![j].unwritten = @ \ {a},
                         ![j].pc = IF ~loaded THEN "dead"
                                   ELSE IF jobs[j].unwritten = {a} THEN "sweep" ELSE "flush"]
    BY <1>4 DEF FlushAccount
  <2>2. jobs[j].pc = "flush" /\ latestBlock' = latestBlock /\ UNCHANGED <<blockDB, announced, rival>>
    BY <1>4 DEF FlushAccount, chain
  <2>3. jobs[j].unwritten \subseteq DOMAIN jobs[j].work.states
    BY <2>2 DEF AnnounceInv
  <2>4. jobs[j].work.states[a].codeHash \in jobs[j].work.code
    BY <2>2, <2>3 DEF NoFlushThrows, CodeOf
  <2>5. PICK pc \in {"sweep", "flush"} :
          jobs' = [jobs EXCEPT ![j].unwritten = @ \ {a}, ![j].pc = pc]
    BY <2>1, <2>4
  <2> QED
    BY <1>1, <2>2, <2>3, <2>5 DEF JobFields
<1> QED
  BY <1>2, <1>3, <1>4

LEMMA JobAnnounces ==
  ASSUME Shapes, AnnounceInv, KeepsLatest, NoFlushThrows, NEW j \in DOMAIN jobs, JobStep(j)
  PROVE  AnnounceInv'
<1>1. /\ DOMAIN jobs[j] = JobFields /\ jobs = [k \in DOMAIN jobs |-> jobs[k]]
      /\ DOMAIN jobs' = DOMAIN jobs /\ \A k \in DOMAIN jobs \ {j} : jobs'[k] = jobs[k]
  BY JobStepIs DEF Shapes, IsJobs, IsSeq
<1>2. CASE Collect(j)
  <2>1. UNCHANGED <<blockDB, latestBlock, announced, rival>> /\ jobs[j].pc = "select"
    BY <1>2 DEF Collect, chain
  <2>2. jobs'[j].pc \in {"hash", "dead"}
    BY <2>1, JobStepIs DEF PutBlock, Index, Reward, FlushAccount, Complete
  <2> QED
    BY <1>1, <2>1, <2>2, AnnounceFrame DEF AnnounceInv
<1>3. CASE PutBlock(j)
  <2>1. /\ jobs[j].pc = "blockDB" /\ jobs'[j].pc = "index" /\ jobs'[j].result = jobs[j].result
        /\ DOMAIN blockDB' = DOMAIN blockDB \cup {jobs[j].result.blockNumber}
        /\ \A n \in DOMAIN blockDB' :
             blockDB'[n] = IF n = jobs[j].result.blockNumber THEN jobs[j].result ELSE blockDB[n]
        /\ UNCHANGED <<announced, rival, latestBlock>>
    BY <1>1, <1>3 DEF PutBlock, Put, JobFields
  <2>2. ASSUME NEW n \in DOMAIN blockDB' \ {1}
        PROVE  \/ blockDB'[n] \in announced
               \/ \E k \in DOMAIN jobs : jobs'[k].pc \in {"index", "reward", "flush", "sweep"}
                                         /\ blockDB'[n] = jobs'[k].result
               \/ rival.pc \in {"index", "sweep"} /\ blockDB'[n] = rival.block
    <3>1. CASE n = jobs[j].result.blockNumber
      BY <2>1, <3>1
    <3>2. CASE n # jobs[j].result.blockNumber
      <4>1. n \in DOMAIN blockDB \ {1} /\ blockDB'[n] = blockDB[n]
        BY <2>1, <2>2, <3>2
      <4>2. \A k \in DOMAIN jobs : jobs[k].pc \in {"index", "reward", "flush", "sweep"} => jobs'[k] = jobs[k]
        BY <1>1, <2>1
      <4> QED
        BY <4>1, <4>2 DEF AnnounceInv
    <3> QED
      BY <3>1, <3>2
  <2>3. \A k \in DOMAIN jobs : jobs'[k].pc \in {"reward", "flush", "sweep"} => jobs'[k] = jobs[k]
    BY <1>1, <2>1
  <2>4. \A k \in DOMAIN jobs' : /\ jobs'[k].pc = "flush" => jobs'[k].unwritten \subseteq DOMAIN jobs'[k].work.states
                                /\ jobs'[k].pc \in {"reward", "flush", "sweep"} => jobs'[k].result = latestBlock'
    BY <1>1, <2>1, <2>3 DEF AnnounceInv
  <2> QED
    BY <1>1, <2>1, <2>2, <2>4 DEF AnnounceInv
<1>4. CASE Index(j) \/ Reward(j) \/ FlushAccount(j)
  <2>1. /\ jobs'[j].pc \in {"reward", "flush", "sweep"} /\ jobs'[j].result = jobs[j].result
        /\ jobs'[j].pc = "flush" => jobs'[j].unwritten \subseteq DOMAIN jobs'[j].work.states
        /\ \/ latestBlock' = jobs[j].result
           \/ latestBlock' = latestBlock /\ jobs[j].pc \in {"reward", "flush", "sweep"}
        /\ UNCHANGED <<blockDB, announced, rival>>
    BY <1>4, AddIs
  <2> QED
    BY <1>1, <2>1, AnnounceFrame DEF AnnounceInv
<1>5. CASE Complete(j)
  <2>1. /\ jobs[j].pc = "sweep" /\ jobs'[j].pc = "done"
        /\ announced' = announced \cup {latestBlock} /\ UNCHANGED <<blockDB, rival, latestBlock>>
    BY <1>1, <1>5 DEF Complete, JobFields, chain
  <2>2. latestBlock = jobs[j].result
    BY <2>1 DEF AnnounceInv
  <2> QED
    BY <1>1, <2>1, <2>2 DEF AnnounceInv
<1> QED
  BY <1>2, <1>3, <1>4, <1>5 DEF JobStep

LEMMA RivalAnnounces ==
  ASSUME Shapes, AnnounceInv, KeepsLatest, RivalStep
  PROVE  AnnounceInv'
<1>1. /\ UNCHANGED jobs /\ DOMAIN rival = {"pc", "block", "work", "unwritten"} /\ IdleRival.pc = "idle"
  BY RivalIs DEF Shapes, IdleRival
<1>2. ASSUME UNCHANGED <<blockDB, announced>>,
             rival.pc \in {"index", "sweep"} =>
               rival'.pc \in {"index", "sweep"} /\ rival'.block = rival.block
      PROVE  AnnounceInv'
  BY <1>1, <1>2, AnnounceFrame DEF AnnounceInv
<1>3. CASE RivalFlush
  BY <1>2, <1>3 DEF RivalFlush, chain
<1>4. CASE RivalPutBlock
  <2>1. /\ rival.pc = "blockDB" /\ rival'.pc = "index" /\ rival'.block = rival.block
        /\ DOMAIN blockDB' = DOMAIN blockDB \cup {rival.block.blockNumber}
        /\ \A n \in DOMAIN blockDB' :
             blockDB'[n] = IF n = rival.block.blockNumber THEN rival.block ELSE blockDB[n]
        /\ UNCHANGED <<announced, latestBlock>>
    BY <1>1, <1>4 DEF RivalPutBlock, Put
  <2> QED
    BY <1>1, <2>1 DEF AnnounceInv
<1>5. CASE RivalIndex
  BY <1>1, <1>2, <1>5 DEF RivalIndex
<1>6. CASE RivalComplete
  <2>1. announced' = announced \cup {rival.block} /\ UNCHANGED <<blockDB, latestBlock>>
    BY <1>6 DEF RivalComplete, chain
  <2> QED
    BY <1>1, <2>1 DEF AnnounceInv
<1> QED
  BY <1>3, <1>4, <1>5, <1>6 DEF RivalStep

LEMMA NextAnnounces ==
  ASSUME Shapes, AnnounceInv, [KeepsLatest]_vars, NoFlushThrows, [Next]_vars
  PROVE  AnnounceInv'
<1>1. CASE UNCHANGED vars
  BY <1>1 DEF vars, chain, miner, AnnounceInv
<1> SUFFICES ASSUME KeepsLatest, Next
             PROVE  AnnounceInv'
  BY <1>1
<1>2. CASE \/ Solve
           \/ \E w \in DOMAIN workers : Lose(w)
           \/ \E tx \in PoolTx : Submit(tx)
  <2>1. UNCHANGED <<blockDB, announced, jobs, rival>>
    BY <1>2 DEF chain, miner, Solve, Lose, Submit
  <2> QED
    BY <2>1, AnnounceFrame DEF AnnounceInv
<1>3. ASSUME NEW block \in PeerBlock, Receive(block)
      PROVE  AnnounceInv'
  <2>1. UNCHANGED <<blockDB, announced, jobs>> /\ rival.pc = "idle"
    BY <1>3 DEF Receive, chain, miner
  <2> QED
    BY <2>1, AnnounceFrame DEF AnnounceInv
<1>4. ASSUME NEW w \in DOMAIN workers, Deliver(w)
      PROVE  AnnounceInv'
  <2>1. /\ DOMAIN jobs' = DOMAIN jobs
        /\ \A k \in DOMAIN jobs : \/ jobs'[k] = jobs[k]
                                  \/ jobs[k].pc = "hash" /\ jobs'[k].pc \in {"done", "blockDB"}
    BY <1>4, AnswersAre
  <2>2. UNCHANGED <<blockDB, announced, rival>>
    BY <1>4 DEF Deliver, chain
  <2> QED
    BY <2>1, <2>2, AnnounceFrame DEF AnnounceInv
<1>5. CASE Tick
  <2>1. UNCHANGED <<blockDB, announced, rival>>
    BY <1>5 DEF Tick, chain
  <2>2. PICK j : /\ j \notin DOMAIN jobs /\ DOMAIN jobs' = DOMAIN jobs \cup {j}
                 /\ jobs'[j].pc \in {"hash", "select"}
                 /\ \A k \in DOMAIN jobs : jobs'[k] = jobs[k]
    BY <1>5, TimerIs
  <2> QED
    BY <2>1, <2>2, AnnounceFrame DEF AnnounceInv
<1> QED
  BY <1>2, <1>3, <1>4, <1>5, JobAnnounces, RivalAnnounces DEF Next

\* Peers are sent every block that is added, mined or received, until another
\* becomes the latest between the writes of an own block and its message, or
\* the flush of its accounts throws there.
THEOREM AnnouncesEveryBlock ==
  Spec /\ [][KeepsLatest]_vars /\ []NoFlushThrows => []OwnBlocksAnnounced
<1>1. Init => AnnounceInv
  <2> SUFFICES ASSUME Init PROVE AnnounceInv
    OBVIOUS
  <2>1. DOMAIN blockDB = {1} /\ DOMAIN jobs = {}
    BY DEF Init
  <2> QED
    BY <2>1 DEF AnnounceInv
<1>2. Shapes /\ AnnounceInv /\ NoFlushThrows /\ [KeepsLatest]_vars /\ [Next]_vars => AnnounceInv'
  BY NextAnnounces
<1>3. AnnounceInv => OwnBlocksAnnounced
  BY DEF AnnounceInv, OwnBlocksAnnounced, NobodyWaits, Writing
<1> QED
  BY <1>1, <1>2, <1>3, ShapesHold, PTL DEF Spec
-----------------------------------------------------------------------------
(* A selection and the verification of what it selected.  The first has in  *)
(* its working set the senders it passed over as well, as they are stored.  *)

\* Whatever is in both is the same, and what is in the first alone is stored.
Covers(db, f, g) ==
  /\ DOMAIN g \subseteq DOMAIN f
  /\ \A a \in DOMAIN g : f[a] = g[a]
  /\ \A a \in DOMAIN f \ DOMAIN g : db[a] # Absent /\ f[a] = db[a]

\* An account that is plain now was plain before.
Steady(db, states) ==
  \A a \in DOMAIN states : states[a].codeHash = EMPTY_HASH => Cached(db, a).codeHash = EMPTY_HASH

Twins(db, w, v) ==
  /\ WorkOK(w) /\ WorkOK(v) /\ Loaded(w) /\ Loaded(v) /\ w.status = v.status
  /\ Covers(db, w.states, v.states) /\ Steady(db, v.states)

\* The working sets after a step have what they had, and its code.
Grow(w, v, next, then) ==
  /\ DOMAIN v.states \subseteq DOMAIN then.states
  /\ w.code \subseteq next.code /\ v.code \subseteq then.code

LEMMA ReplaceTwins ==
  ASSUME NEW db, NEW w, NEW v, Twins(db, w, v), NEW a \in DOMAIN v.states, NEW s,
         s.codeHash = EMPTY_HASH => v.states[a].codeHash = EMPTY_HASH,
         NEW next, WorkOK(next), Loaded(next), next.states = [w.states EXCEPT ![a] = s],
         NEW then, WorkOK(then), Loaded(then), then.states = [v.states EXCEPT ![a] = s],
         next.status = then.status
  PROVE  Twins(db, next, then) /\ DOMAIN then.states = DOMAIN v.states
<1>1. /\ Covers(db, w.states, v.states) /\ Steady(db, v.states)
      /\ DOMAIN next.states = DOMAIN w.states /\ DOMAIN then.states = DOMAIN v.states
      /\ a \in DOMAIN w.states
  BY DEF Twins, Covers
<1>2. Covers(db, next.states, then.states)
  BY <1>1 DEF Covers
<1>3. Steady(db, then.states)
  BY <1>1 DEF Steady
<1> QED
  BY <1>1, <1>2, <1>3 DEF Twins

LEMMA CreditTwins ==
  ASSUME NEW db, NEW w, NEW v, Twins(db, w, v), NEW a \in DOMAIN v.states, NEW amount \in Nat
  PROVE  /\ Twins(db, Credit(w, a, amount), Credit(v, a, amount))
         /\ Grow(w, v, Credit(w, a, amount), Credit(v, a, amount))
<1> DEFINE s == [v.states[a] EXCEPT !.balance = @ + amount]
           next == Credit(w, a, amount)
           then == Credit(v, a, amount)
<1>1. /\ WorkOK(w) /\ WorkOK(v) /\ Loaded(w) /\ Loaded(v) /\ w.status = v.status
      /\ a \in DOMAIN w.states /\ w.states[a] = v.states[a]
  BY DEF Twins, Covers
<1>2. v.states[a] \in AccountState
  BY <1>1 DEF WorkOK
<1>3. s.codeHash = v.states[a].codeHash
  BY <1>2 DEF AccountState
<1>4. /\ next.states = [w.states EXCEPT ![a] = s] /\ then.states = [v.states EXCEPT ![a] = s]
  BY <1>1 DEF Credit, WorkOK
<1> HIDE DEF s
<1>5. /\ WorkOK(next) /\ next.status = w.status /\ Loaded(next) /\ next.code = w.code
      /\ WorkOK(then) /\ then.status = v.status /\ Loaded(then) /\ then.code = v.code
  BY <1>1, CreditOK, CreditLoads
<1> HIDE DEF next, then
<1>6. Twins(db, next, then) /\ DOMAIN then.states = DOMAIN v.states
  BY <1>1, <1>3, <1>4, <1>5, ReplaceTwins
<1> QED
  BY <1>5, <1>6 DEF Grow, next, then

LEMMA DebitTwins ==
  ASSUME NEW db, NEW w, NEW v, Twins(db, w, v), NEW a \in DOMAIN v.states, NEW amount \in Nat,
         amount <= v.states[a].balance
  PROVE  /\ Twins(db, Debit(w, a, amount), Debit(v, a, amount))
         /\ Grow(w, v, Debit(w, a, amount), Debit(v, a, amount))
<1> DEFINE s == [v.states[a] EXCEPT !.balance = @ - amount]
           next == Debit(w, a, amount)
           then == Debit(v, a, amount)
<1>1. /\ WorkOK(w) /\ WorkOK(v) /\ Loaded(w) /\ Loaded(v) /\ w.status = v.status
      /\ a \in DOMAIN w.states /\ w.states[a] = v.states[a]
  BY DEF Twins, Covers
<1>2. v.states[a] \in AccountState
  BY <1>1 DEF WorkOK
<1>3. s.codeHash = v.states[a].codeHash
  BY <1>2 DEF AccountState
<1>4. /\ next.states = [w.states EXCEPT ![a] = s] /\ then.states = [v.states EXCEPT ![a] = s]
  BY <1>1 DEF Debit, WorkOK
<1> HIDE DEF s
<1>5. /\ WorkOK(next) /\ next.status = w.status /\ Loaded(next) /\ next.code = w.code
      /\ WorkOK(then) /\ then.status = v.status /\ Loaded(then) /\ then.code = v.code
  BY <1>1, DebitOK, DebitLoads
<1> HIDE DEF next, then
<1>6. Twins(db, next, then) /\ DOMAIN then.states = DOMAIN v.states
  BY <1>1, <1>3, <1>4, <1>5, ReplaceTwins
<1> QED
  BY <1>5, <1>6 DEF Grow, next, then

LEMMA CountTwins ==
  ASSUME NEW db, NEW w, NEW v, Twins(db, w, v), NEW tx, tx.sender \in DOMAIN v.states
  PROVE  /\ Twins(db, CountTx(w, tx), CountTx(v, tx))
         /\ Grow(w, v, CountTx(w, tx), CountTx(v, tx))
<1> DEFINE a == tx.sender
           s == [v.states[a] EXCEPT !.nonce = @ + 1]
           next == CountTx(w, tx)
           then == CountTx(v, tx)
<1>1. /\ WorkOK(w) /\ WorkOK(v) /\ Loaded(w) /\ Loaded(v) /\ w.status = v.status
      /\ a \in DOMAIN v.states /\ a \in DOMAIN w.states /\ w.states[a] = v.states[a]
  BY DEF Twins, Covers
<1>2. v.states[a] \in AccountState
  BY <1>1 DEF WorkOK
<1>3. s.codeHash = v.states[a].codeHash /\ s \in AccountState
  BY <1>2 DEF AccountState
<1>4. /\ next.states = [w.states EXCEPT ![a] = s] /\ next.status = w.status
      /\ then.states = [v.states EXCEPT ![a] = s] /\ then.status = v.status
  BY <1>1 DEF CountTx, WorkOK
<1>5. next = [w EXCEPT !.states[a] = s] /\ then = [v EXCEPT !.states[a] = s]
  BY <1>1 DEF CountTx
<1> HIDE DEF s
<1>6. /\ WorkOK(next) /\ WorkOK(then)
      /\ Loaded(next) /\ next.code = w.code /\ Loaded(then) /\ then.code = v.code
  BY <1>1, <1>3, <1>5, ReplaceOK, CountLoads
<1>7. s.codeHash = EMPTY_HASH => v.states[a].codeHash = EMPTY_HASH
  BY <1>3
<1> HIDE DEF next, then, a
<1>8. Twins(db, next, then) /\ DOMAIN then.states = DOMAIN v.states
  BY <1>1, <1>4, <1>6, <1>7, ReplaceTwins
<1> QED
  BY <1>6, <1>8 DEF Grow, next, then

LEMMA DeployTwins ==
  ASSUME NEW db, NEW w, NEW v, Twins(db, w, v), NEW tx \in Transaction,
         tx.sender \in DOMAIN v.states, tx.scBody # EMPTY_HASH => ~IsPayee(tx.sender)
  PROVE  /\ Twins(db, Deploy(w, tx), Deploy(v, tx))
         /\ Grow(w, v, Deploy(w, tx), Deploy(v, tx))
<1> DEFINE a == tx.sender
           s == [v.states[a] EXCEPT !.codeHash = tx.scBody]
           next == Deploy(w, tx)
           then == Deploy(v, tx)
<1>1. CASE tx.scBody = EMPTY_HASH
  BY <1>1 DEF Deploy, Grow
<1>2. CASE tx.scBody # EMPTY_HASH
  <2>1. /\ WorkOK(w) /\ WorkOK(v) /\ Loaded(w) /\ Loaded(v) /\ w.status = v.status
        /\ a \in DOMAIN v.states /\ a \in DOMAIN w.states /\ w.states[a] = v.states[a]
    BY DEF Twins, Covers
  <2>2. v.states[a] \in AccountState /\ tx.scBody \in CodeHash
    BY <2>1 DEF WorkOK, Transaction
  <2>3. s.codeHash = tx.scBody /\ s \in AccountState
    BY <2>2 DEF AccountState
  <2>4. /\ next = [w EXCEPT !.states[a] = s, !.code = @ \cup {tx.scBody}]
        /\ then = [v EXCEPT !.states[a] = s, !.code = @ \cup {tx.scBody}]
    BY <1>2, <2>1 DEF Deploy
  <2> HIDE DEF s, next, then
  <2>5. /\ next.states = [w.states EXCEPT ![a] = s] /\ next.status = w.status
        /\ then.states = [v.states EXCEPT ![a] = s] /\ then.status = v.status
        /\ next.code = w.code \cup {tx.scBody} /\ then.code = v.code \cup {tx.scBody}
        /\ DOMAIN next = DOMAIN w /\ DOMAIN then = DOMAIN v
    BY <2>1, <2>4 DEF WorkOK
  <2>6. WorkOK(next) /\ WorkOK(then)
    BY <2>1, <2>2, <2>3, <2>5 DEF WorkOK
  <2>7. Loaded(next) /\ Loaded(then)
    BY <2>1, DeployLoads DEF next, then
  <2>8. Twins(db, next, then) /\ DOMAIN then.states = DOMAIN v.states
    BY <1>2, <2>1, <2>3, <2>5, <2>6, <2>7, ReplaceTwins
  <2> QED
    BY <2>5, <2>8 DEF Grow, next, then
<1> QED
  BY <1>1, <1>2

\* An account is cached, by both or by the selection alone.
LEMMA CacheTwins ==
  ASSUME NEW db, AccountsOK(db), PayeesArePlain(db), NEW codes, CodeIsStored(db, codes),
         NEW w, NEW v, Twins(db, w, v), NEW a \in Account
  PROVE  LET next == CacheAccount(db, codes, w, a)
             then == CacheAccount(db, codes, v, a)
         IN  /\ Twins(db, next, then) /\ Grow(w, v, next, then) /\ a \in DOMAIN then.states
             /\ db[a] # Absent => Twins(db, next, v)
<1> DEFINE next == CacheAccount(db, codes, w, a)
           then == CacheAccount(db, codes, v, a)
<1>1. /\ WorkOK(w) /\ WorkOK(v) /\ Loaded(w) /\ Loaded(v) /\ w.status = v.status
      /\ Covers(db, w.states, v.states) /\ Steady(db, v.states)
  BY DEF Twins
<1>2. /\ WorkOK(next) /\ next.status = w.status /\ DOMAIN next.states = DOMAIN w.states \cup {a}
      /\ \A b \in DOMAIN w.states : next.states[b] = w.states[b]
      /\ a \notin DOMAIN w.states => next.states[a] = Cached(db, a)
  BY <1>1, CacheOK
<1>3. /\ WorkOK(then) /\ then.status = v.status /\ DOMAIN then.states = DOMAIN v.states \cup {a}
      /\ \A b \in DOMAIN v.states : then.states[b] = v.states[b]
      /\ a \notin DOMAIN v.states => then.states[a] = Cached(db, a)
  BY <1>1, CacheOK
<1>4. Loaded(next) /\ w.code \subseteq next.code /\ Loaded(then) /\ v.code \subseteq then.code
  BY <1>1, CacheLoads
<1>5. db[a] # Absent => Cached(db, a) = db[a]
  BY DEF Cached
<1> HIDE DEF next, then
<1>6. Covers(db, next.states, then.states)
  BY <1>1, <1>2, <1>3, <1>5 DEF Covers
<1>7. Steady(db, then.states)
  BY <1>1, <1>3 DEF Steady
<1>8. db[a] # Absent => Covers(db, next.states, v.states)
  BY <1>1, <1>2, <1>5 DEF Covers
<1>9. Twins(db, next, then)
  BY <1>1, <1>2, <1>3, <1>4, <1>6, <1>7 DEF Twins
<1>10. db[a] # Absent => Twins(db, next, v)
  BY <1>1, <1>2, <1>4, <1>8 DEF Twins
<1> QED
  BY <1>3, <1>4, <1>9, <1>10 DEF Grow, next, then

\* The payee of a contract is cached without its code.
PayeeCached(db, work, payee) ==
  IF payee \in DOMAIN work.states THEN work
  ELSE [work EXCEPT !.states = Put(@, payee, Cached(db, payee))]

LEMMA PayeeIs ==
  ASSUME NEW db, AccountsOK(db), PayeesArePlain(db), NEW work, WorkOK(work), Loaded(work),
         EMPTY_HASH \in work.code, NEW payee \in Account, IsPayee(payee)
  PROVE  LET next == PayeeCached(db, work, payee)
         IN  /\ WorkOK(next) /\ Loaded(next) /\ next.status = work.status /\ next.code = work.code
             /\ DOMAIN next.states = DOMAIN work.states \cup {payee}
             /\ \A b \in DOMAIN work.states : next.states[b] = work.states[b]
             /\ payee \notin DOMAIN work.states => next.states[payee] = Cached(db, payee)
<1> DEFINE next == PayeeCached(db, work, payee)
<1>1. CASE payee \in DOMAIN work.states
  BY <1>1 DEF PayeeCached
<1>2. CASE payee \notin DOMAIN work.states
  <2>1. Cached(db, payee) \in AccountState /\ Cached(db, payee).codeHash = EMPTY_HASH
    BY FreshOK DEF Cached, AccountsOK, PayeesArePlain, Fresh
  <2>2. next = [work EXCEPT !.states = Put(@, payee, Cached(db, payee))]
    BY <1>2 DEF PayeeCached
  <2> HIDE DEF next
  <2>3. /\ DOMAIN next = DOMAIN work /\ next.code = work.code /\ next.status = work.status
        /\ next.states = Put(work.states, payee, Cached(db, payee))
    BY <2>2 DEF WorkOK
  <2>4. /\ DOMAIN next.states = DOMAIN work.states \cup {payee}
        /\ next.states[payee] = Cached(db, payee)
        /\ \A b \in DOMAIN work.states : next.states[b] = work.states[b]
    BY <1>2, <2>3 DEF Put
  <2>5. WorkOK(next)
    BY <2>1, <2>3, <2>4 DEF WorkOK
  <2>6. Loaded(next)
    BY <2>1, <2>3, <2>4 DEF Loaded
  <2> QED
    BY <2>3, <2>4, <2>5, <2>6 DEF next
<1> QED
  BY <1>1, <1>2

LEMMA SendTwins ==
  ASSUME NEW db, AccountsOK(db), PayeesArePlain(db), NEW w, NEW v, Twins(db, w, v),
         EMPTY_HASH \in w.code, EMPTY_HASH \in v.code, NEW contract \in DOMAIN v.states,
         NEW payee \in Account, IsPayee(payee), NEW amount \in Nat
  PROVE  Twins(db, Send(db, w, contract, payee, amount), Send(db, v, contract, payee, amount))
<1> DEFINE near == PayeeCached(db, w, payee)
           far  == PayeeCached(db, v, payee)
           next == Credit(near, payee, amount)
           then == Credit(far, payee, amount)
<1>1. /\ WorkOK(w) /\ WorkOK(v) /\ Loaded(w) /\ Loaded(v) /\ w.status = v.status
      /\ Covers(db, w.states, v.states) /\ Steady(db, v.states)
      /\ contract \in DOMAIN w.states /\ w.states[contract] = v.states[contract]
  BY DEF Twins, Covers
<1>2. CASE v.states[contract].balance < amount
  BY <1>1, <1>2 DEF Send
<1>3. CASE ~(v.states[contract].balance < amount)
  <2>1. /\ Send(db, w, contract, payee, amount) = Debit(next, contract, amount)
        /\ Send(db, v, contract, payee, amount) = Debit(then, contract, amount)
    BY <1>1, <1>3 DEF Send, PayeeCached, Cached
  <2>2. /\ WorkOK(near) /\ Loaded(near) /\ near.status = w.status
        /\ DOMAIN near.states = DOMAIN w.states \cup {payee}
        /\ \A b \in DOMAIN w.states : near.states[b] = w.states[b]
        /\ payee \notin DOMAIN w.states => near.states[payee] = Cached(db, payee)
    BY <1>1, PayeeIs
  <2>3. /\ WorkOK(far) /\ Loaded(far) /\ far.status = v.status
        /\ DOMAIN far.states = DOMAIN v.states \cup {payee}
        /\ \A b \in DOMAIN v.states : far.states[b] = v.states[b]
        /\ payee \notin DOMAIN v.states => far.states[payee] = Cached(db, payee)
    BY <1>1, PayeeIs
  <2>4. db[payee] # Absent => Cached(db, payee) = db[payee]
    BY DEF Cached
  <2> HIDE DEF near, far
  <2>5. Covers(db, near.states, far.states)
    BY <1>1, <2>2, <2>3, <2>4 DEF Covers
  <2>6. Steady(db, far.states)
    BY <1>1, <2>3 DEF Steady
  <2>7. Twins(db, near, far)
    BY <1>1, <2>2, <2>3, <2>5, <2>6 DEF Twins
  <2>8. payee \in DOMAIN far.states /\ contract \in DOMAIN far.states
        /\ far.states[contract] = v.states[contract]
    BY <2>3
  <2>9. Twins(db, next, then) /\ DOMAIN far.states \subseteq DOMAIN then.states
    BY <2>7, <2>8, CreditTwins DEF Grow
  <2>10. amount <= then.states[contract].balance
    <3>1. v.states[contract].balance \in Nat
      BY <1>1 DEF WorkOK, AccountState
    <3>2. /\ then.states[payee].balance = far.states[payee].balance + amount
          /\ \A b \in DOMAIN far.states \ {payee} : then.states[b] = far.states[b]
      BY <2>3, <2>8, CreditOK
    <3> HIDE DEF then
    <3>3. CASE contract = payee
      BY <2>8, <3>1, <3>2, <3>3
    <3>4. CASE contract # payee
      BY <1>3, <2>8, <3>1, <3>2, <3>4
    <3> QED
      BY <3>3, <3>4
  <2> HIDE DEF next, then
  <2> QED
    BY <2>1, <2>8, <2>9, <2>10, DebitTwins
<1> QED
  BY <1>2, <1>3

LEMMA RunTwins ==
  ASSUME NEW db, AccountsOK(db), PayeesArePlain(db), NEW w, NEW v, Twins(db, w, v),
         EMPTY_HASH \in w.code, EMPTY_HASH \in v.code, NEW tx \in Transaction,
         tx.recipient \in DOMAIN v.states
  PROVE  Twins(db, RunContract(db, w, tx), RunContract(db, v, tx))
<1> DEFINE hash == v.states[tx.recipient].codeHash
           program == Program[hash]
<1>1. /\ WorkOK(w) /\ WorkOK(v) /\ Loaded(w) /\ Loaded(v) /\ w.status = v.status
      /\ Covers(db, w.states, v.states) /\ Steady(db, v.states)
      /\ tx.recipient \in DOMAIN w.states /\ w.states[tx.recipient] = v.states[tx.recipient]
  BY DEF Twins, Covers
<1>2. hash \in w.code /\ hash \in v.code /\ hash \in CodeHash
  BY <1>1 DEF Loaded, WorkOK
<1>3. CASE hash = EMPTY_HASH
  BY <1>1, <1>3 DEF RunContract
<1>4. CASE hash # EMPTY_HASH /\ (program.revert \/ tx.contractGas < program.steps * STEP_GAS)
  <2>1. /\ RunContract(db, w, tx) = Fail(w, "throws") /\ RunContract(db, v, tx) = Fail(v, "throws")
    BY <1>1, <1>4 DEF RunContract
  <2>2. /\ WorkOK(Fail(w, "throws")) /\ WorkOK(Fail(v, "throws"))
        /\ Fail(w, "throws").states = w.states /\ Fail(v, "throws").states = v.states
        /\ Fail(w, "throws").status = Fail(v, "throws").status
        /\ Fail(w, "throws").code = w.code /\ Fail(v, "throws").code = v.code
    BY <1>1, FailOK DEF Fail, WorkOK
  <2>3. Loaded(Fail(w, "throws")) /\ Loaded(Fail(v, "throws"))
    BY <1>1, <2>2 DEF Loaded
  <2> QED
    BY <1>1, <2>1, <2>2, <2>3 DEF Twins
<1>5. CASE hash # EMPTY_HASH /\ ~(program.revert \/ tx.contractGas < program.steps * STEP_GAS)
  <2>1. /\ RunContract(db, w, tx) = Send(db, w, tx.recipient, program.payee, program.amount)
        /\ RunContract(db, v, tx) = Send(db, v, tx.recipient, program.payee, program.amount)
    BY <1>1, <1>2, <1>5 DEF RunContract
  <2>2. program.payee \in Account /\ program.amount \in Nat /\ IsPayee(program.payee)
    BY <1>2, <1>5, LedgerAssumption DEF CodeHash, IsPayee
  <2> HIDE DEF program
  <2> QED
    BY <2>1, <2>2, SendTwins
<1> QED
  BY <1>3, <1>4, <1>5

LEMMA ExecuteTwins ==
  ASSUME NEW db, AccountsOK(db), PayeesArePlain(db), NEW codes, CodeIsStored(db, codes),
         NEW w, NEW v, Twins(db, w, v), NEW tx \in Transaction, tx.sender \in DOMAIN v.states,
         CanPay(v, tx), tx.scBody # EMPTY_HASH => ~IsPayee(tx.sender)
  PROVE  Twins(db, Execute(db, codes, w, tx), Execute(db, codes, v, tx))
<1> DEFINE total == TotalAmountToPay(tx)
           w1 == Debit(w, tx.sender, total)
           v1 == Debit(v, tx.sender, total)
           w2 == CacheAccount(db, codes, w1, tx.recipient)
           v2 == CacheAccount(db, codes, v1, tx.recipient)
           w3 == Credit(w2, tx.recipient, tx.amount)
           v3 == Credit(v2, tx.recipient, tx.amount)
           w4 == Deploy(w3, tx)
           v4 == Deploy(v3, tx)
           w5 == CountTx(w4, tx)
           v5 == CountTx(v4, tx)
<1>1. /\ tx.amount \in Nat /\ tx.recipient \in Account /\ total \in Nat
  BY DEF Transaction, TotalAmountToPay
<1>2. /\ Execute(db, codes, w, tx) = RunContract(db, w5, tx)
      /\ Execute(db, codes, v, tx) = RunContract(db, v5, tx)
  BY DEF Execute, CountTx
<1>3. /\ total <= v.states[tx.sender].balance /\ EMPTY_HASH \in v.code /\ EMPTY_HASH \in w.code
  <2>1. v.states[tx.sender].balance \in Nat
    BY DEF Twins, WorkOK, AccountState
  <2>2. /\ v.states[tx.sender].codeHash = EMPTY_HASH
        /\ v.states[tx.sender].balance >= total
    BY DEF CanPay
  <2>3. v.states[tx.sender].codeHash \in v.code /\ w.states[tx.sender].codeHash \in w.code
        /\ w.states[tx.sender] = v.states[tx.sender]
    BY DEF Twins, Covers, Loaded
  <2> HIDE DEF total
  <2> QED
    BY <1>1, <2>1, <2>2, <2>3
<1> HIDE DEF total
<1>4. Twins(db, w1, v1) /\ Grow(w, v, w1, v1)
  BY <1>1, <1>3, DebitTwins
<1> HIDE DEF w1, v1
<1>5. Twins(db, w2, v2) /\ Grow(w1, v1, w2, v2) /\ tx.recipient \in DOMAIN v2.states
  BY <1>1, <1>4, CacheTwins
<1> HIDE DEF w2, v2
<1>6. Twins(db, w3, v3) /\ Grow(w2, v2, w3, v3)
  BY <1>1, <1>5, CreditTwins
<1> HIDE DEF w3, v3
<1>7. tx.sender \in DOMAIN v3.states
  BY <1>4, <1>5, <1>6 DEF Grow
<1>8. Twins(db, w4, v4) /\ Grow(w3, v3, w4, v4)
  BY <1>6, <1>7, DeployTwins
<1> HIDE DEF w4, v4
<1>9. tx.sender \in DOMAIN v4.states
  BY <1>7, <1>8 DEF Grow
<1>10. Twins(db, w5, v5) /\ Grow(w4, v4, w5, v5)
  BY <1>8, <1>9, CountTwins
<1> HIDE DEF w5, v5
<1>11. EMPTY_HASH \in w5.code /\ EMPTY_HASH \in v5.code /\ tx.recipient \in DOMAIN v5.states
  BY <1>3, <1>4, <1>5, <1>6, <1>8, <1>10 DEF Grow
<1> QED
  BY <1>2, <1>10, <1>11, RunTwins

-----------------------------------------------------------------------------
(* The loop of mine() that selects.                                        *)

SelectNext(env, selection, tx) == Consider(env[1], env[2], selection, tx)

SelectFold == INSTANCE FoldTheorems WITH Step <- SelectNext

\* The selection after the first i transactions of the pool.
Chosen(db, codes, pool, i) == SelectFold!Prefix(<<db, codes>>, EmptySelection, pool, i)

LEMMA ChosenSteps ==
  ASSUME NEW db, NEW codes, NEW pool \in Seq(Transaction)
  PROVE  /\ Chosen(db, codes, pool, 0) = EmptySelection
         /\ \A i \in 1..Len(pool) :
              Chosen(db, codes, pool, i) = Consider(db, codes, Chosen(db, codes, pool, i - 1), pool[i])
         /\ Select(db, codes, pool) = Chosen(db, codes, pool, Len(pool))
<1>1. SelectFold!IsSequence(pool)
  BY DEF SelectFold!IsSequence
<1>2. Select(db, codes, pool) = SelectFold!Folded(<<db, codes>>, EmptySelection, pool)
  BY DEF Select, SelectNext, FoldLeft, MapThenFoldSet, Max,
         SelectFold!Folded, SelectFold!FoldLeft, SelectFold!MapThenFoldSet, SelectFold!Max
<1>3. SelectFold!Prefix(<<db, codes>>, EmptySelection, pool, 0) = EmptySelection
  BY <1>1, SelectFold!PrefixBase
<1>4. ASSUME NEW i \in 1..Len(pool)
      PROVE  Chosen(db, codes, pool, i) = Consider(db, codes, Chosen(db, codes, pool, i - 1), pool[i])
  <2>1. Chosen(db, codes, pool, i) = SelectNext(<<db, codes>>, Chosen(db, codes, pool, i - 1), pool[i])
    BY <1>1, SelectFold!PrefixStep DEF Chosen
  <2> QED
    BY <2>1 DEF SelectNext
<1>5. SelectFold!Folded(<<db, codes>>, EmptySelection, pool) = Chosen(db, codes, pool, Len(pool))
  BY <1>1, SelectFold!FoldedIsPrefix DEF Chosen
<1> QED
  BY <1>2, <1>3, <1>4, <1>5 DEF Chosen

\* One more transaction.
LEMMA LongerIs ==
  ASSUME NEW txs \in Seq(Transaction), NEW tx \in Transaction
  PROVE  /\ Append(txs, tx) \in Seq(Transaction) /\ Len(Append(txs, tx)) = Len(txs) + 1
         /\ Len(txs) \in Nat /\ DOMAIN Append(txs, tx) = 1..(Len(txs) + 1)
         /\ \A k \in 1..Len(txs) : Append(txs, tx)[k] = txs[k]
         /\ Append(txs, tx)[Len(txs) + 1] = tx
OBVIOUS

LEMMA SettleLonger ==
  ASSUME NEW db, NEW codes, NEW txs \in Seq(Transaction), NEW tx \in Transaction
  PROVE  Settle(db, codes, Append(txs, tx)) = SettleTx(db, codes, Settle(db, codes, txs), tx)
<1> DEFINE more == Append(txs, tx)
           n == Len(txs)
<1>1. /\ more \in Seq(Transaction) /\ Len(more) = n + 1 /\ n \in Nat
      /\ \A k \in 1..n : more[k] = txs[k]
      /\ more[n + 1] = tx
  BY LongerIs
<1> HIDE DEF more
<1>2. SettleFold!IsSequence(txs) /\ SettleFold!IsSequence(more)
  BY <1>1 DEF SettleFold!IsSequence
<1>3. Settled(db, codes, more, n) = Settled(db, codes, txs, n)
  BY <1>1, <1>2, SettleFold!PrefixAgrees DEF Settled
<1>4. n + 1 \in 1..Len(more) /\ (n + 1) - 1 = n
  BY <1>1
<1>5. Settled(db, codes, more, n + 1) = SettleTx(db, codes, Settled(db, codes, more, (n + 1) - 1), more[n + 1])
  BY <1>1, <1>4, SettledSteps
<1>6. /\ Settle(db, codes, more) = Settled(db, codes, more, n + 1)
      /\ Settle(db, codes, txs) = Settled(db, codes, txs, n)
  BY <1>1, SettledSteps
<1> QED
  BY <1>1, <1>3, <1>4, <1>5, <1>6 DEF more

LEMMA SentLonger ==
  ASSUME NEW txs \in Seq(Transaction), NEW tx \in Transaction, NEW a
  PROVE  /\ \A i \in 0..Len(txs) : SentUpTo(Append(txs, tx), i, a) = SentUpTo(txs, i, a)
         /\ SentUpTo(Append(txs, tx), Len(txs) + 1, a)
              = SentUpTo(txs, Len(txs), a) + (IF tx.sender = a THEN 1 ELSE 0)
<1> DEFINE more == Append(txs, tx)
<1>1. /\ Len(txs) \in Nat
      /\ \A k \in 1..Len(txs) : more[k] = txs[k]
      /\ more[Len(txs) + 1] = tx
  BY LongerIs
<1> HIDE DEF more
<1>2. \A i \in 0..Len(txs) : SentUpTo(more, i, a) = SentUpTo(txs, i, a)
  <2> TAKE i \in 0..Len(txs)
  <2>1. \A k \in 1..i : more[k] = txs[k]
    BY <1>1
  <2>2. {k \in 1..i : more[k].sender = a} = {k \in 1..i : txs[k].sender = a}
    BY <2>1
  <2> QED
    BY <2>2 DEF SentUpTo
<1>3. SentUpTo(more, Len(txs) + 1, a) = SentUpTo(more, Len(txs), a) + (IF tx.sender = a THEN 1 ELSE 0)
  BY <1>1, SentSteps
<1> QED
  BY <1>1, <1>2, <1>3 DEF more

LEMMA SentNext ==
  ASSUME NEW txs, NEW n \in Nat, NEW a
  PROVE  SentUpTo(txs, n + 1, a) = SentUpTo(txs, n, a) + (IF txs[n + 1].sender = a THEN 1 ELSE 0)
BY SentSteps

LEMMA SentBeforeIs ==
  ASSUME NEW txs, NEW i
  PROVE  SentBefore(txs, i) = SentUpTo(txs, i - 1, txs[i].sender)
BY DEF SentBefore, SentUpTo

\* One transaction of a valid order.
LEMMA OrderAt ==
  ASSUME NEW db, NEW txs, HasValidTxOrder(db, txs), NEW i \in DOMAIN txs
  PROVE  /\ db[txs[i].sender] # Absent
         /\ txs[i].nonce = db[txs[i].sender].nonce + SentUpTo(txs, i - 1, txs[i].sender) + 1
BY SentBeforeIs DEF HasValidTxOrder

LEMMA OrderLonger ==
  ASSUME NEW db, NEW txs \in Seq(Transaction), HasValidTxOrder(db, txs), NEW tx \in Transaction,
         db[tx.sender] # Absent,
         tx.nonce = db[tx.sender].nonce + SentUpTo(txs, Len(txs), tx.sender) + 1
  PROVE  HasValidTxOrder(db, Append(txs, tx))
<1> DEFINE more == Append(txs, tx)
           m == Len(txs)
<1>1. /\ m \in Nat /\ DOMAIN more = 1..(m + 1) /\ DOMAIN txs = 1..m
      /\ (\A k \in 1..m : more[k] = txs[k]) /\ more[m + 1] = tx
  BY LongerIs
<1>2. \A a : \A i \in 0..m : SentUpTo(more, i, a) = SentUpTo(txs, i, a)
  BY SentLonger
<1> HIDE DEF more, m
<1> SUFFICES ASSUME NEW k \in 1..(m + 1)
             PROVE  /\ db[more[k].sender] # Absent
                    /\ more[k].nonce = db[more[k].sender].nonce + SentBefore(more, k) + 1
  BY <1>1 DEF HasValidTxOrder, more
<1>3. k - 1 \in 0..m
  BY <1>1
<1>4. SentBefore(more, k) = SentUpTo(txs, k - 1, more[k].sender)
  BY <1>2, <1>3, SentBeforeIs
<1>5. CASE k = m + 1
  <2>1. k - 1 = m
    BY <1>1, <1>5
  <2> QED
    BY <1>1, <1>4, <1>5, <2>1 DEF m
<1>6. CASE k # m + 1
  <2>1. k \in DOMAIN txs /\ more[k] = txs[k]
    BY <1>1, <1>6
  <2> QED
    BY <1>4, <2>1, OrderAt
<1> QED
  BY <1>5, <1>6

-----------------------------------------------------------------------------
(* What has been selected is a valid body, and its verification gives what *)
(* the selection has.                                                      *)

\* sel is the selection after the first i transactions of the pool.
SelectionOK(db, codes, pool, i, sel) ==
  /\ DOMAIN sel = DOMAIN EmptySelection
  /\ sel.txs \in Seq(Transaction) /\ PayeesDeployNothing(sel.txs)
  /\ sel.gas \in Nat
  /\ Twins(db, sel, Settle(db, codes, sel.txs))
  /\ \A k \in DOMAIN sel.txs : IsValid(db, sel.txs[k])
  /\ HasValidTxOrder(db, sel.txs)
  /\ ~sel.full => \A a \in Account \ sel.skipped :
                    SentUpTo(sel.txs, Len(sel.txs), a) = SentUpTo(pool, i, a)

\* The ledger a selection is made on.
LedgerOK(db, codes) == AccountsOK(db) /\ CodeIsStored(db, codes) /\ PayeesArePlain(db)

LEMMA NothingSettled ==
  ASSUME NEW db, NEW codes, NEW txs \in Seq(Transaction), Len(txs) = 0
  PROVE  Settle(db, codes, txs) = EmptyWork
<1>1. Settle(db, codes, txs) = Settled(db, codes, txs, Len(txs)) /\ Settled(db, codes, txs, 0) = EmptyWork
  BY SettledSteps
<1> QED
  BY <1>1

LEMMA SelectionStarts ==
  ASSUME NEW db, NEW codes, NEW pool \in Seq(Transaction)
  PROVE  SelectionOK(db, codes, pool, 0, EmptySelection)
<1> DEFINE sel == EmptySelection
<1>1. /\ sel.status = "ok" /\ sel.gas = 0 /\ sel.code = {} /\ sel.full = FALSE
      /\ sel.txs = << >> /\ DOMAIN sel.states = {}
      /\ {"status", "states", "code"} \subseteq DOMAIN sel
  BY DEF EmptySelection
<1>2. /\ sel.txs \in Seq(Transaction) /\ Len(sel.txs) = 0 /\ DOMAIN sel.txs = {}
  BY <1>1
<1>3. DOMAIN EmptyWork.states = {} /\ EmptyWork.status = "ok" /\ WorkOK(EmptyWork)
  BY EmptyWorkOK DEF EmptyWork
<1> HIDE DEF sel
<1>4. Twins(db, sel, EmptyWork)
  <2>1. WorkOK(sel)
    BY <1>1 DEF WorkOK
  <2>2. Loaded(sel) /\ Loaded(EmptyWork)
    BY <1>1, <1>3 DEF Loaded
  <2>3. Covers(db, sel.states, EmptyWork.states) /\ Steady(db, EmptyWork.states)
    BY <1>1, <1>3 DEF Covers, Steady
  <2> QED
    BY <1>1, <1>3, <2>1, <2>2, <2>3 DEF Twins
<1>5. Settle(db, codes, sel.txs) = EmptyWork
  BY <1>2, NothingSettled
<1>6. \A a \in Account : SentUpTo(sel.txs, Len(sel.txs), a) = SentUpTo(pool, 0, a)
  <2> TAKE a \in Account
  <2>1. SentUpTo(sel.txs, 0, a) = 0 /\ SentUpTo(pool, 0, a) = 0
    BY SentSteps
  <2> QED
    BY <1>2, <2>1
<1>7. PayeesDeployNothing(sel.txs) /\ HasValidTxOrder(db, sel.txs)
  BY <1>2 DEF PayeesDeployNothing, HasValidTxOrder
<1>8. DOMAIN sel = DOMAIN EmptySelection
  BY DEF sel
<1>9. SelectionOK(db, codes, pool, 0, sel)
  BY <1>1, <1>2, <1>4, <1>5, <1>6, <1>7, <1>8 DEF SelectionOK
<1> QED
  BY <1>9 DEF sel

\* A transaction is selected.
LEMMA SelectionGrows ==
  ASSUME NEW db, NEW codes, LedgerOK(db, codes), NEW pool \in Seq(Transaction),
         PayeesDeployNothing(pool), HasValidTxOrder(db, pool),
         NEW n \in Nat, n + 1 \in DOMAIN pool, NEW tx, tx = pool[n + 1],
         NEW sel, SelectionOK(db, codes, pool, n, sel), ~sel.full,
         tx.contractGas < BLOCK_GAS_LIMIT, tx.sender \notin sel.skipped,
         NEW cached, cached = CacheAccount(db, codes, sel, tx.sender), CanPay(cached, tx),
         NEW run, run = Execute(db, codes, cached, tx), sel.status = "ok",
         NEW next, DOMAIN next = DOMAIN EmptySelection, next.status = run.status,
         next.states = run.states, next.code = run.code, next.txs = Append(sel.txs, tx),
         next.gas = sel.gas + tx.gas + tx.contractGas, next.skipped = sel.skipped
  PROVE  SelectionOK(db, codes, pool, n + 1, next)
<1> DEFINE txs == sel.txs
           m == Len(txs)
           more == Append(txs, tx)
           settled == Settle(db, codes, txs)
           far == CacheAccount(db, codes, settled, tx.sender)
           then == Execute(db, codes, far, tx)
<1>1. /\ txs \in Seq(Transaction) /\ PayeesDeployNothing(txs) /\ sel.gas \in Nat
      /\ Twins(db, sel, settled) /\ (\A k \in DOMAIN txs : IsValid(db, txs[k]))
      /\ HasValidTxOrder(db, txs)
      /\ \A a \in Account \ sel.skipped : SentUpTo(txs, m, a) = SentUpTo(pool, n, a)
  BY DEF SelectionOK
<1>2. /\ tx \in Transaction /\ tx.scBody # EMPTY_HASH => ~IsPayee(tx.sender)
      /\ tx.sender \in Account /\ tx.gas \in Nat /\ tx.contractGas \in Nat
  <2>1. tx \in Transaction /\ (tx.scBody # EMPTY_HASH => ~IsPayee(tx.sender))
    BY DEF PayeesDeployNothing
  <2> QED
    BY <2>1 DEF Transaction
<1>3. /\ db[tx.sender] # Absent
      /\ tx.nonce = db[tx.sender].nonce + SentUpTo(pool, n, tx.sender) + 1
  <2>1. (n + 1) - 1 = n
    OBVIOUS
  <2> QED
    BY <2>1, OrderAt
<1>4. SentUpTo(txs, m, tx.sender) = SentUpTo(pool, n, tx.sender)
  BY <1>1, <1>2
<1>5. /\ more \in Seq(Transaction) /\ Len(more) = m + 1 /\ m \in Nat /\ DOMAIN more = 1..(m + 1)
      /\ (\A k \in 1..m : more[k] = txs[k]) /\ more[m + 1] = tx /\ DOMAIN txs = 1..m
  BY <1>1, <1>2, LongerIs
<1>6. Twins(db, cached, far) /\ tx.sender \in DOMAIN far.states
  BY <1>1, <1>2, CacheTwins DEF LedgerOK
<1>7. cached.states[tx.sender] = far.states[tx.sender] /\ Steady(db, far.states)
  BY <1>6 DEF Twins, Covers
<1>8. CanPay(far, tx) /\ Cached(db, tx.sender).codeHash = EMPTY_HASH
  BY <1>6, <1>7 DEF CanPay, Steady
<1>9. SettleTx(db, codes, settled, tx) = then
  <2>1. settled.status = "ok"
    BY <1>1 DEF Twins
  <2>2. ~(tx.contractGas >= BLOCK_GAS_LIMIT)
    BY <1>2, LedgerAssumption
  <2> HIDE DEF settled
  <2> QED
    BY <1>8, <2>1, <2>2 DEF SettleTx
<1>10. Settle(db, codes, more) = then
  BY <1>1, <1>2, <1>9, SettleLonger
<1> HIDE DEF far
<1>11. Twins(db, run, then)
  BY <1>2, <1>6, <1>8, ExecuteTwins DEF LedgerOK
<1> HIDE DEF then, settled, more, m, txs
<1>12. Twins(db, next, then)
  <2>1. WorkOK(next)
    BY <1>11 DEF Twins, WorkOK, EmptySelection
  <2>2. Loaded(next)
    BY <1>11 DEF Twins, Loaded
  <2> QED
    BY <1>11, <2>1, <2>2 DEF Twins
<1>13. PayeesDeployNothing(more)
  <2> SUFFICES ASSUME NEW k \in 1..(m + 1)
               PROVE  more[k].scBody # EMPTY_HASH => ~IsPayee(more[k].sender)
    BY <1>5 DEF PayeesDeployNothing
  <2>1. k = m + 1 \/ (k \in 1..m /\ k \in DOMAIN txs)
    BY <1>5
  <2> QED
    BY <1>1, <1>2, <1>5, <2>1 DEF PayeesDeployNothing
<1>14. \A k \in DOMAIN more : IsValid(db, more[k])
  <2>1. IsValid(db, tx)
    BY <1>3, <1>8 DEF IsValid, IsPlainAccount, Cached
  <2> SUFFICES ASSUME NEW k \in 1..(m + 1)
               PROVE  IsValid(db, more[k])
    BY <1>5
  <2>2. k = m + 1 \/ (k \in 1..m /\ k \in DOMAIN txs)
    BY <1>5
  <2> QED
    BY <1>1, <1>5, <2>1, <2>2
<1>15. HasValidTxOrder(db, more)
  BY <1>1, <1>2, <1>3, <1>4, OrderLonger DEF more, m
<1>16. \A a \in Account \ next.skipped : SentUpTo(more, Len(more), a) = SentUpTo(pool, n + 1, a)
  <2> TAKE a \in Account \ next.skipped
  <2>1. SentUpTo(more, m + 1, a) = SentUpTo(txs, m, a) + (IF tx.sender = a THEN 1 ELSE 0)
    BY <1>1, <1>2, SentLonger DEF more, m
  <2>2. SentUpTo(pool, n + 1, a) = SentUpTo(pool, n, a) + (IF pool[n + 1].sender = a THEN 1 ELSE 0)
    BY SentNext
  <2>3. SentUpTo(txs, m, a) = SentUpTo(pool, n, a) /\ pool[n + 1] = tx
    BY <1>1
  <2> QED
    BY <1>5, <2>1, <2>2, <2>3
<1>17. next.gas \in Nat
  BY <1>1, <1>2
<1>18. next.txs = more
  BY DEF more, txs
<1> QED
  BY <1>5, <1>10, <1>12, <1>13, <1>14, <1>15, <1>16, <1>17, <1>18 DEF SelectionOK

-----------------------------------------------------------------------------
(* What an execution leaves alone of a selection.                          *)

Books == {"txs", "gas", "skipped", "full"}

SameBooks(next, w) ==
  /\ DOMAIN next = DOMAIN w
  /\ next.txs = w.txs /\ next.gas = w.gas /\ next.skipped = w.skipped /\ next.full = w.full

LEMMA BooksMove ==
  ASSUME NEW w, Books \cup {"status", "states", "code"} \subseteq DOMAIN w
  PROVE  /\ \A a, amount : SameBooks(Credit(w, a, amount), w) /\ SameBooks(Debit(w, a, amount), w)
         /\ \A db, codes, a : SameBooks(CacheAccount(db, codes, w, a), w)
         /\ \A tx : SameBooks(Deploy(w, tx), w) /\ SameBooks(CountTx(w, tx), w)
         /\ \A status : SameBooks(Fail(w, status), w)
<1>1. \A a, amount : SameBooks(Credit(w, a, amount), w) /\ SameBooks(Debit(w, a, amount), w)
  BY DEF SameBooks, Credit, Debit, Books
<1>2. ASSUME NEW db, NEW codes, NEW a
      PROVE  SameBooks(CacheAccount(db, codes, w, a), w)
  <2>1. CASE a \in DOMAIN w.states
    BY <2>1 DEF SameBooks, CacheAccount
  <2>2. CASE a \notin DOMAIN w.states
    <3> DEFINE state == IF db[a] # Absent /\ db[a].codeHash \in codes THEN db[a] ELSE Fresh
    <3>1. CacheAccount(db, codes, w, a) =
            [w EXCEPT !.states = Put(@, a, state), !.code = @ \cup {state.codeHash}]
      BY <2>2 DEF CacheAccount
    <3> HIDE DEF state
    <3> QED
      BY <3>1 DEF SameBooks, Books
  <2> QED
    BY <2>1, <2>2
<1>3. \A tx : SameBooks(Deploy(w, tx), w) /\ SameBooks(CountTx(w, tx), w)
  <2>1. ASSUME NEW tx
        PROVE  SameBooks(Deploy(w, tx), w)
    <3>1. CASE tx.scBody = EMPTY_HASH
      BY <3>1 DEF SameBooks, Deploy
    <3>2. CASE tx.scBody # EMPTY_HASH
      <4>1. Deploy(w, tx) = [w EXCEPT !.states[tx.sender].codeHash = tx.scBody,
                                      !.code = @ \cup {tx.scBody}]
        BY <3>2 DEF Deploy
      <4> QED
        BY <4>1 DEF SameBooks, Books
    <3> QED
      BY <3>1, <3>2
  <2>2. \A tx : SameBooks(CountTx(w, tx), w)
    BY DEF SameBooks, CountTx, Books
  <2> QED
    BY <2>1, <2>2
<1>4. \A status : SameBooks(Fail(w, status), w)
  BY DEF SameBooks, Fail, Books
<1> QED
  BY <1>1, <1>2, <1>3, <1>4

LEMMA SendBooks ==
  ASSUME NEW w, Books \cup {"status", "states", "code"} \subseteq DOMAIN w,
         NEW db, NEW contract, NEW payee, NEW amount
  PROVE  SameBooks(Send(db, w, contract, payee, amount), w)
<1> DEFINE near == PayeeCached(db, w, payee)
<1>1. CASE w.states[contract].balance < amount
  BY <1>1 DEF Send, SameBooks
<1>2. CASE ~(w.states[contract].balance < amount)
  <2>1. Send(db, w, contract, payee, amount) = Debit(Credit(near, payee, amount), contract, amount)
    BY <1>2 DEF Send, PayeeCached, Cached
  <2>2. SameBooks(near, w)
    <3>1. CASE payee \in DOMAIN w.states
      BY <3>1 DEF PayeeCached, SameBooks
    <3>2. CASE payee \notin DOMAIN w.states
      <4>1. near = [w EXCEPT !.states = Put(@, payee, Cached(db, payee))]
        BY <3>2 DEF PayeeCached
      <4> HIDE DEF near
      <4> QED
        BY <4>1 DEF SameBooks, Books
    <3> QED
      BY <3>1, <3>2
  <2> HIDE DEF near
  <2>3. Books \cup {"status", "states", "code"} \subseteq DOMAIN near
    BY <2>2 DEF SameBooks
  <2>4. SameBooks(Credit(near, payee, amount), near)
    BY <2>3, BooksMove
  <2>5. Books \cup {"status", "states", "code"} \subseteq DOMAIN Credit(near, payee, amount)
    BY <2>3, <2>4 DEF SameBooks
  <2>6. SameBooks(Debit(Credit(near, payee, amount), contract, amount), Credit(near, payee, amount))
    BY <2>5, BooksMove
  <2> QED
    BY <2>1, <2>2, <2>4, <2>6 DEF SameBooks
<1> QED
  BY <1>1, <1>2

LEMMA RunBooks ==
  ASSUME NEW w, Books \cup {"status", "states", "code"} \subseteq DOMAIN w, NEW db, NEW tx
  PROVE  SameBooks(RunContract(db, w, tx), w)
<1> DEFINE program == Program[w.states[tx.recipient].codeHash]
<1>1. \/ RunContract(db, w, tx) = w
      \/ RunContract(db, w, tx) = Fail(w, "throws")
      \/ RunContract(db, w, tx) = Send(db, w, tx.recipient, program.payee, program.amount)
  BY DEF RunContract
<1> HIDE DEF program
<1>2. SameBooks(w, w) /\ SameBooks(Fail(w, "throws"), w)
  BY BooksMove DEF SameBooks
<1> QED
  BY <1>1, <1>2, SendBooks

LEMMA ExecuteBooks ==
  ASSUME NEW w, Books \cup {"status", "states", "code"} \subseteq DOMAIN w,
         NEW db, NEW codes, NEW tx
  PROVE  SameBooks(Execute(db, codes, w, tx), w)
<1> DEFINE Whole(x) == Books \cup {"status", "states", "code"} \subseteq DOMAIN x
           w1 == Debit(w, tx.sender, TotalAmountToPay(tx))
           w2 == CacheAccount(db, codes, w1, tx.recipient)
           w3 == Credit(w2, tx.recipient, tx.amount)
           w4 == Deploy(w3, tx)
           w5 == CountTx(w4, tx)
<1>1. \A x, y : Whole(x) /\ SameBooks(y, x) => Whole(y)
  BY DEF SameBooks
<1>2. Execute(db, codes, w, tx) = RunContract(db, w5, tx)
  BY DEF Execute, CountTx
<1>3. SameBooks(w1, w) /\ Whole(w1)
  BY <1>1, BooksMove
<1> HIDE DEF w1
<1>4. SameBooks(w2, w1) /\ Whole(w2)
  BY <1>1, <1>3, BooksMove
<1> HIDE DEF w2
<1>5. SameBooks(w3, w2) /\ Whole(w3)
  BY <1>1, <1>4, BooksMove
<1> HIDE DEF w3
<1>6. SameBooks(w4, w3) /\ Whole(w4)
  BY <1>1, <1>5, BooksMove
<1> HIDE DEF w4
<1>7. SameBooks(w5, w4) /\ Whole(w5)
  BY <1>1, <1>6, BooksMove
<1> HIDE DEF w5
<1>8. SameBooks(RunContract(db, w5, tx), w5)
  BY <1>7, RunBooks
<1> QED
  BY <1>2, <1>3, <1>4, <1>5, <1>6, <1>7, <1>8 DEF SameBooks

-----------------------------------------------------------------------------
(* One round of the selection.                                             *)

LEMMA SelectionStep ==
  ASSUME NEW db, NEW codes, LedgerOK(db, codes), NEW pool \in Seq(Transaction),
         PayeesDeployNothing(pool), HasValidTxOrder(db, pool),
         NEW n \in Nat, n + 1 \in DOMAIN pool, NEW tx, tx = pool[n + 1],
         NEW sel, SelectionOK(db, codes, pool, n, sel), sel.status = "ok",
         NEW next, next = Consider(db, codes, sel, tx)
  PROVE  SelectionOK(db, codes, pool, n + 1, next)
<1> DEFINE cached == CacheAccount(db, codes, sel, tx.sender)
           run == Execute(db, codes, cached, tx)
           Counts(s) == \A a \in Account \ s.skipped :
             SentUpTo(s.txs, Len(s.txs), a) = SentUpTo(pool, n + 1, a)
<1>1. tx \in Transaction /\ tx.sender \in Account /\ tx.gas \in Nat /\ tx.contractGas \in Nat
  <2>1. tx \in Transaction
    OBVIOUS
  <2> QED
    BY <2>1 DEF Transaction
<1>2. /\ DOMAIN sel = DOMAIN EmptySelection /\ sel.gas \in Nat
      /\ Twins(db, sel, Settle(db, codes, sel.txs))
      /\ ~sel.full => \A a \in Account \ sel.skipped :
           SentUpTo(sel.txs, Len(sel.txs), a) = SentUpTo(pool, n, a)
  BY DEF SelectionOK
<1>3. \A a : SentUpTo(pool, n + 1, a) = SentUpTo(pool, n, a) + (IF tx.sender = a THEN 1 ELSE 0)
  BY SentNext
<1>4. \A a : SentUpTo(pool, n, a) \in Nat
  BY SentSteps
<1>5. DOMAIN EmptySelection = Books \cup {"status", "states", "code"}
  BY DEF EmptySelection, Books
<1>6. ASSUME NEW s, SameBooks(s, sel), Twins(db, s, Settle(db, codes, sel.txs)),
             NEW other, DOMAIN other = DOMAIN s, other.status = s.status,
             other.states = s.states, other.code = s.code, other.txs = s.txs, other.gas = s.gas,
             ~other.full => Counts(other)
      PROVE  SelectionOK(db, codes, pool, n + 1, other)
  <2>1. /\ DOMAIN other = DOMAIN EmptySelection /\ other.txs = sel.txs /\ other.gas = sel.gas
    BY <1>2, <1>6 DEF SameBooks
  <2>2. Twins(db, other, Settle(db, codes, sel.txs))
    <3>1. WorkOK(other) /\ Loaded(other)
      BY <1>6 DEF Twins, WorkOK, Loaded
    <3> QED
      BY <1>6, <3>1 DEF Twins
  <2> QED
    BY <1>6, <2>1, <2>2 DEF SelectionOK
<1>7. SameBooks(sel, sel)
  BY DEF SameBooks
<1>8. CASE sel.full
  <2>1. next = sel
    BY <1>8 DEF Consider
  <2> QED
    BY <1>2, <1>6, <1>7, <1>8, <2>1
<1>9. CASE ~sel.full /\ sel.gas + tx.contractGas >= BLOCK_GAS_LIMIT
  <2>1. next = [sel EXCEPT !.full = TRUE]
    BY <1>9 DEF Consider
  <2>2. /\ DOMAIN next = DOMAIN sel /\ next.status = sel.status /\ next.states = sel.states
        /\ next.code = sel.code /\ next.txs = sel.txs /\ next.gas = sel.gas /\ next.full = TRUE
    BY <1>2, <2>1 DEF EmptySelection
  <2> QED
    BY <1>2, <1>6, <1>7, <2>2
<1>10. CASE ~sel.full /\ ~(sel.gas + tx.contractGas >= BLOCK_GAS_LIMIT) /\ IsSkipped(sel, tx)
  <2>1. next = sel
    BY <1>10 DEF Consider
  <2>2. Counts(sel)
    BY <1>2, <1>3, <1>4, <1>10 DEF IsSkipped
  <2> QED
    BY <1>2, <1>6, <1>7, <2>1, <2>2
<1>11. SameBooks(cached, sel)
  BY <1>2, <1>5, BooksMove
<1>12. CASE /\ ~sel.full /\ ~(sel.gas + tx.contractGas >= BLOCK_GAS_LIMIT) /\ ~IsSkipped(sel, tx)
            /\ ~CanPay(cached, tx)
  <2>1. next = [cached EXCEPT !.skipped = @ \cup {tx.sender}]
    BY <1>12 DEF Consider
  <2>2. db[tx.sender] # Absent
    BY OrderAt
  <2>3. Twins(db, cached, Settle(db, codes, sel.txs))
    BY <1>1, <1>2, <2>2, CacheTwins DEF LedgerOK
  <2> HIDE DEF cached
  <2>4. /\ DOMAIN next = DOMAIN cached /\ next.status = cached.status /\ next.states = cached.states
        /\ next.code = cached.code /\ next.txs = cached.txs /\ next.gas = cached.gas
        /\ next.skipped = sel.skipped \cup {tx.sender}
    BY <1>2, <1>11, <2>1 DEF EmptySelection, SameBooks
  <2>5. next.txs = sel.txs
    BY <1>11, <2>4 DEF SameBooks
  <2>6. Counts(next)
    BY <1>2, <1>3, <1>4, <1>12, <2>4, <2>5
  <2> QED
    BY <1>6, <1>11, <2>3, <2>4, <2>6
<1>13. CASE /\ ~sel.full /\ ~(sel.gas + tx.contractGas >= BLOCK_GAS_LIMIT) /\ ~IsSkipped(sel, tx)
            /\ CanPay(cached, tx)
  <2>1. next = [run EXCEPT !.txs = Append(@, tx), !.gas = @ + tx.gas + tx.contractGas]
    BY <1>13 DEF Consider
  <2>2. SameBooks(run, cached)
    <3>1. Books \cup {"status", "states", "code"} \subseteq DOMAIN cached
      BY <1>2, <1>5, <1>11 DEF SameBooks
    <3> HIDE DEF cached
    <3> QED
      BY <3>1, ExecuteBooks
  <2>3. SameBooks(run, sel)
    BY <1>11, <2>2 DEF SameBooks
  <2> HIDE DEF run
  <2>4. /\ DOMAIN next = DOMAIN run /\ next.status = run.status /\ next.states = run.states
        /\ next.code = run.code /\ next.skipped = run.skipped
        /\ next.txs = Append(run.txs, tx) /\ next.gas = run.gas + tx.gas + tx.contractGas
    BY <1>2, <2>1, <2>3 DEF EmptySelection, SameBooks
  <2>5. /\ DOMAIN next = DOMAIN EmptySelection /\ next.skipped = sel.skipped
        /\ next.txs = Append(sel.txs, tx) /\ next.gas = sel.gas + tx.gas + tx.contractGas
    BY <1>2, <2>3, <2>4 DEF SameBooks
  <2>6. tx.contractGas < BLOCK_GAS_LIMIT
    BY <1>1, <1>2, <1>13, LedgerAssumption
  <2>7. tx.sender \notin sel.skipped /\ CanPay(cached, tx) /\ ~sel.full
    BY <1>13 DEF IsSkipped
  <2> HIDE DEF cached
  <2>8. cached = CacheAccount(db, codes, sel, tx.sender) /\ run = Execute(db, codes, cached, tx)
    BY DEF cached, run
  <2>9. next.status = run.status /\ next.states = run.states /\ next.code = run.code
    BY <2>4
  <2> HIDE DEF run, Counts
  <2> QED
    BY <2>5, <2>6, <2>7, <2>8, <2>9, SelectionGrows
<1> QED
  BY <1>8, <1>9, <1>10, <1>12, <1>13

\* What is selected without a throw, of a pool in order, is well selected.
\* What is selected from a pool in order is a valid body.
LEMMA SelectedOK ==
  ASSUME NEW db, NEW codes, LedgerOK(db, codes), NEW pool \in Seq(Transaction),
         PayeesDeployNothing(pool), HasValidTxOrder(db, pool),
         Select(db, codes, pool).status = "ok"
  PROVE  SelectionOK(db, codes, pool, Len(pool), Select(db, codes, pool))
<1> DEFINE Good(i) == LET sel == Chosen(db, codes, pool, i)
                      IN  sel.status = "ok" => SelectionOK(db, codes, pool, i, sel)
<1>1. Len(pool) \in Nat /\ DOMAIN pool = 1..Len(pool)
  OBVIOUS
<1>2. Good(0)
  BY ChosenSteps, SelectionStarts
<1>3. ASSUME NEW n \in Nat, n + 1 <= Len(pool), Good(n)
      PROVE  Good(n + 1)
  <2>1. n + 1 \in 1..Len(pool) /\ (n + 1) - 1 = n
    BY <1>1, <1>3
  <2>2. Chosen(db, codes, pool, n + 1) = Consider(db, codes, Chosen(db, codes, pool, n), pool[n + 1])
    BY <2>1, ChosenSteps
  <2> DEFINE sel == Chosen(db, codes, pool, n)
             next == Chosen(db, codes, pool, n + 1)
  <2>3. CASE sel.status # "ok"
    <3>1. next = sel
      BY <2>2, <2>3 DEF Consider
    <3> QED
      BY <2>3, <3>1
  <2>4. CASE sel.status = "ok"
    <3>1. SelectionOK(db, codes, pool, n, sel)
      BY <1>3, <2>4
    <3>2. next = Consider(db, codes, sel, pool[n + 1])
      BY <2>2
    <3> HIDE DEF sel, next
    <3>3. SelectionOK(db, codes, pool, n + 1, next)
      BY <1>1, <2>1, <2>4, <3>1, <3>2, SelectionStep
    <3> QED
      BY <3>3 DEF next
  <2> QED
    BY <2>3, <2>4
<1> DEFINE S == {i \in Nat : i <= Len(pool) => Good(i)}
<1> HIDE DEF Good
<1>4. 0 \in S
  BY <1>2
<1>5. ASSUME NEW n \in Nat, n \in S
      PROVE  n + 1 \in S
  <2> SUFFICES ASSUME n + 1 <= Len(pool)
               PROVE  Good(n + 1)
    OBVIOUS
  <2>1. Good(n)
    BY <1>1, <1>5
  <2> QED
    BY <1>3, <2>1
<1>6. Nat \subseteq S
  <2> HIDE DEF S
  <2> QED
    BY <1>4, <1>5, SelectFold!Induction
<1>7. Good(Len(pool))
  BY <1>1, <1>6
<1> QED
  BY <1>7, ChosenSteps DEF Good

-----------------------------------------------------------------------------
(* The ledger a node holds, writes, and reaches by its chain.              *)

\* What a replay of accepted blocks yields.
Result(db, codes) == [valid |-> TRUE, db |-> db, codes |-> codes]

\* The ledger once every account of the working set is written.
Written(db, codes, work) == Result(Overlay(db, work.states), codes \cup CodeOf(work.states))

LEMMA WrittenOK ==
  ASSUME NEW db, NEW codes, LedgerOK(db, codes), NEW work, WorkOK(work), Loaded(work)
  PROVE  LedgerOK(Overlay(db, work.states), codes \cup CodeOf(work.states))
<1> DEFINE after == Overlay(db, work.states)
<1>1. /\ DOMAIN after = Account
      /\ \A a \in Account : after[a] = IF a \in DOMAIN work.states THEN work.states[a] ELSE db[a]
  BY DEF Overlay, LedgerOK, AccountsOK
<1> HIDE DEF after
<1>2. AccountsOK(after)
  BY <1>1 DEF LedgerOK, AccountsOK, WorkOK
<1>3. CodeIsStored(after, codes \cup CodeOf(work.states))
  BY <1>1 DEF LedgerOK, CodeIsStored, CodeOf
<1>4. PayeesArePlain(after)
  BY <1>1 DEF LedgerOK, PayeesArePlain, Loaded
<1> QED
  BY <1>2, <1>3, <1>4 DEF LedgerOK, after

\* What a job would write is what a node that verifies its block writes.
Mineable(db, codes, job) ==
  LET paid == PayCoinbase(db, codes, job.work, job.block)
      work == Transit(db, codes, job.block)
  IN  /\ HasValidTxOrder(db, job.block.txs) /\ work.status = "ok"
      /\ WorkOK(paid) /\ Loaded(paid)
      /\ Written(db, codes, paid) = Written(db, codes, work)

LEMMA TwinsWriteAlike ==
  ASSUME NEW db, NEW codes, LedgerOK(db, codes), NEW w, NEW v, Twins(db, w, v)
  PROVE  Written(db, codes, w) = Written(db, codes, v)
<1>1. /\ DOMAIN db = Account /\ Covers(db, w.states, v.states)
      /\ DOMAIN w.states \subseteq Account
  BY DEF LedgerOK, AccountsOK, Twins, WorkOK
<1>2. Overlay(db, w.states) = Overlay(db, v.states)
  <2>1. \A a \in Account : (IF a \in DOMAIN w.states THEN w.states[a] ELSE db[a])
                           = (IF a \in DOMAIN v.states THEN v.states[a] ELSE db[a])
    BY <1>1 DEF Covers
  <2> QED
    BY <1>1, <2>1 DEF Overlay
<1>3. codes \cup CodeOf(w.states) = codes \cup CodeOf(v.states)
  <2>1. \A a \in DOMAIN w.states : \/ a \in DOMAIN v.states /\ w.states[a] = v.states[a]
                                   \/ w.states[a].codeHash \in codes
    BY <1>1 DEF Covers, LedgerOK, CodeIsStored
  <2>2. \A a \in DOMAIN v.states : a \in DOMAIN w.states /\ w.states[a] = v.states[a]
    BY <1>1 DEF Covers
  <2> QED
    BY <2>1, <2>2 DEF CodeOf
<1> QED
  BY <1>2, <1>3 DEF Written

\* A job that selected well has a block that can be mined.
LEMMA SelectionIsMineable ==
  ASSUME NEW db, NEW codes, LedgerOK(db, codes), NEW pool, NEW n, NEW sel,
         SelectionOK(db, codes, pool, n, sel), sel.status = "ok",
         NEW job, job.work = sel, job.block.txs = sel.txs, job.block.coinbase \in Account
  PROVE  Mineable(db, codes, job)
<1> DEFINE block == job.block
           settled == Settle(db, codes, block.txs)
           near == CacheAccount(db, codes, sel, block.coinbase)
           far == CacheAccount(db, codes, settled, block.coinbase)
           amount == BLOCK_REWARD + Fees(block.txs)
<1>1. /\ block.txs \in Seq(Transaction) /\ HasValidTxOrder(db, block.txs)
      /\ \A k \in DOMAIN block.txs : IsValid(db, block.txs[k])
      /\ Twins(db, sel, settled)
  BY DEF SelectionOK
<1>2. settled.status = "ok"
  BY <1>1 DEF Twins
<1>3. /\ Transit(db, codes, block) = Credit(far, block.coinbase, amount)
      /\ PayCoinbase(db, codes, job.work, block) = Credit(near, block.coinbase, amount)
  BY <1>1, <1>2 DEF Transit, PayCoinbase
<1>4. amount \in Nat
  <2>1. Fees(block.txs) \in Nat
    BY <1>1, FeesAreNat DEF LedgerOK
  <2> QED
    BY <2>1, LedgerAssumption
<1> HIDE DEF amount, settled
<1>5. Twins(db, near, far) /\ block.coinbase \in DOMAIN far.states
  BY <1>1, CacheTwins DEF LedgerOK
<1>6. far.status = "ok"
  BY <1>1, <1>2, CacheOK DEF Twins, LedgerOK
<1> HIDE DEF near, far
<1>7. Twins(db, Credit(near, block.coinbase, amount), Credit(far, block.coinbase, amount))
  BY <1>4, <1>5, CreditTwins
<1>8. Credit(far, block.coinbase, amount).status = "ok"
  BY <1>4, <1>5, <1>6, CreditOK DEF Twins
<1>9. /\ Twins(db, PayCoinbase(db, codes, job.work, job.block), Transit(db, codes, job.block))
      /\ Transit(db, codes, job.block).status = "ok"
  BY <1>3, <1>7, <1>8
<1>10. Written(db, codes, PayCoinbase(db, codes, job.work, job.block))
         = Written(db, codes, Transit(db, codes, job.block))
  BY <1>9, TwinsWriteAlike
<1>11. /\ WorkOK(PayCoinbase(db, codes, job.work, job.block))
       /\ Loaded(PayCoinbase(db, codes, job.work, job.block))
  BY <1>9 DEF Twins
<1> QED
  BY <1>1, <1>9, <1>10, <1>11 DEF Mineable

\* "Mine the block": from a pool in a valid order the miner selects a body
\* that every node which holds the same ledger accepts (hasValidTxOrder,
\* verifyTxAndTransit), and the accounts mine() writes for it are the accounts
\* they write, although mine() keeps the senders it passed over in its working
\* set and charges the transactions without looking at a nonce.
THEOREM SelectionIsAccepted ==
  ASSUME NEW db, NEW codes, LedgerOK(db, codes), NEW pool \in Seq(Transaction),
         PayeesDeployNothing(pool), HasValidTxOrder(db, pool),
         Select(db, codes, pool).status = "ok",
         NEW job, job.work = Select(db, codes, pool), job.block.txs = Select(db, codes, pool).txs,
         job.block.coinbase \in Account
  PROVE  Mineable(db, codes, job)
<1>1. SelectionOK(db, codes, pool, Len(pool), Select(db, codes, pool))
  BY SelectedOK
<1> QED
  BY <1>1, SelectionIsMineable

-----------------------------------------------------------------------------
(* Writing the accounts one after another.                                 *)

\* The accounts that are not yet written are missing in db, and nothing else.
Flushing(db, codes, ledger, work, unwritten) ==
  /\ WorkOK(work) /\ Loaded(work) /\ unwritten \subseteq DOMAIN work.states
  /\ \A a \in DOMAIN work.states \ unwritten :
       db[a] = work.states[a] /\ work.states[a].codeHash \in codes
  /\ ledger = Written(db, codes, work)

LEMMA FlushingStarts ==
  ASSUME NEW db, NEW codes, NEW work, WorkOK(work), Loaded(work)
  PROVE  Flushing(db, codes, Written(db, codes, work), work, DOMAIN work.states)
BY DEF Flushing

\* One account and its code are written.
AccountPut(db, work, a) == [db EXCEPT ![a] = work.states[a]]
CodePut(codes, work, a) == codes \cup {work.states[a].codeHash}

LEMMA FlushingGoesOn ==
  ASSUME NEW db, NEW codes, LedgerOK(db, codes), NEW ledger, NEW work, NEW unwritten,
         Flushing(db, codes, ledger, work, unwritten), NEW a \in unwritten
  PROVE  /\ LedgerOK(AccountPut(db, work, a), CodePut(codes, work, a))
         /\ work.states[a].codeHash \in work.code
         /\ Flushing(AccountPut(db, work, a), CodePut(codes, work, a), ledger, work, unwritten \ {a})
         /\ unwritten = {a} => ledger = Result(AccountPut(db, work, a), CodePut(codes, work, a))
<1> DEFINE after == AccountPut(db, work, a)
           stored == CodePut(codes, work, a)
<1>0. after = [db EXCEPT ![a] = work.states[a]] /\ stored = codes \cup {work.states[a].codeHash}
  BY DEF AccountPut, CodePut
<1> HIDE DEF after, stored
<1>1. /\ WorkOK(work) /\ Loaded(work) /\ unwritten \subseteq DOMAIN work.states
      /\ DOMAIN work.states \subseteq Account /\ a \in DOMAIN work.states
      /\ DOMAIN db = Account /\ work.states[a] \in AccountState
  BY DEF Flushing, WorkOK, LedgerOK, AccountsOK
<1>2. /\ DOMAIN after = Account /\ after[a] = work.states[a]
      /\ \A b \in Account \ {a} : after[b] = db[b]
  BY <1>0, <1>1
<1>3. LedgerOK(after, stored)
  <2>1. AccountsOK(after)
    BY <1>1, <1>2 DEF LedgerOK, AccountsOK
  <2>2. CodeIsStored(after, stored)
    BY <1>0, <1>1, <1>2 DEF LedgerOK, CodeIsStored
  <2>3. PayeesArePlain(after)
    BY <1>1, <1>2 DEF LedgerOK, PayeesArePlain, Loaded
  <2> QED
    BY <2>1, <2>2, <2>3 DEF LedgerOK
<1>4. Overlay(after, work.states) = Overlay(db, work.states)
  BY <1>1, <1>2 DEF Overlay
<1>5. stored \cup CodeOf(work.states) = codes \cup CodeOf(work.states)
  BY <1>0, <1>1 DEF CodeOf
<1>6. Written(after, stored, work) = Written(db, codes, work)
  BY <1>4, <1>5 DEF Written
<1>7. \A b \in DOMAIN work.states \ (unwritten \ {a}) :
        after[b] = work.states[b] /\ work.states[b].codeHash \in stored
  BY <1>0, <1>1, <1>2 DEF Flushing
<1>8. Flushing(after, stored, ledger, work, unwritten \ {a})
  BY <1>1, <1>6, <1>7 DEF Flushing
<1>9. ASSUME unwritten = {a}
      PROVE  ledger = Result(after, stored)
  <2>1. \A b \in DOMAIN work.states : after[b] = work.states[b] /\ work.states[b].codeHash \in stored
    BY <1>7, <1>9
  <2>2. DOMAIN after = Account /\ after = [b \in Account |-> after[b]]
    BY <1>0, <1>1
  <2>3. Overlay(after, work.states) = after
    BY <2>1, <2>2 DEF Overlay
  <2>4. stored \cup CodeOf(work.states) = stored
    BY <2>1 DEF CodeOf
  <2> QED
    BY <1>8, <2>3, <2>4 DEF Flushing, Written
<1> QED
  BY <1>1, <1>3, <1>8, <1>9 DEF Loaded, after, stored

-----------------------------------------------------------------------------
(* The replay of the stored chain, block by block.                         *)

ReplayNext(env, before, block) == ReplayBlock(before, block)

ReplayFold == INSTANCE FoldTheorems WITH Step <- ReplayNext

FirstLedger == Result(InitialLedger, {EMPTY_HASH})

\* The n - 1 blocks that follow the genesis block.
Blocks(db, n) == [i \in 1..(n - 1) |-> db[i + 1]]

LedgerAt(db, n) == ReplayFold!Prefix(0, FirstLedger, Blocks(db, n), n - 1)

LEMMA BlocksAre ==
  ASSUME NEW db, NEW n \in Nat \ {0}
  PROVE  /\ ReplayFold!IsSequence(Blocks(db, n)) /\ Len(Blocks(db, n)) = n - 1
         /\ DOMAIN Blocks(db, n) = 1..(n - 1)
         /\ \A i \in 1..(n - 1) : Blocks(db, n)[i] = db[i + 1]
<1>1. n - 1 \in Nat /\ Blocks(db, n) = [i \in 1..(n - 1) |-> Blocks(db, n)[i]]
  BY DEF Blocks
<1>2. Len(Blocks(db, n)) = n - 1 /\ DOMAIN Blocks(db, n) = 1..(n - 1)
  BY <1>1, SeqShape DEF IsSeq
<1> QED
  BY <1>2 DEF ReplayFold!IsSequence, Blocks

\* Replayed of Mining, as a prefix of that fold.
LEMMA ReplayedIs ==
  ASSUME latestBlock.blockNumber \in Nat \ {0}
  PROVE  Replayed = LedgerAt(blockDB, latestBlock.blockNumber)
<1> DEFINE n == latestBlock.blockNumber
           blocks == Blocks(blockDB, n)
<1>1. ReplayFold!IsSequence(blocks) /\ Len(blocks) = n - 1
  BY BlocksAre
<1>2. Replayed = ReplayFold!Folded(0, FirstLedger, blocks)
  BY DEF Replayed, FirstLedger, Result, Blocks, ReplayNext, FoldLeft, MapThenFoldSet, Max,
         ReplayFold!Folded, ReplayFold!FoldLeft, ReplayFold!MapThenFoldSet, ReplayFold!Max
<1> HIDE DEF blocks
<1>3. ReplayFold!Folded(0, FirstLedger, blocks) = ReplayFold!Prefix(0, FirstLedger, blocks, n - 1)
  BY <1>1, ReplayFold!FoldedIsPrefix
<1> QED
  BY <1>2, <1>3 DEF LedgerAt, blocks

LEMMA LedgerStarts ==
  ASSUME NEW db
  PROVE  LedgerAt(db, 1) = FirstLedger
<1>1. ReplayFold!IsSequence(Blocks(db, 1))
  BY BlocksAre
<1>2. 1 - 1 = 0
  OBVIOUS
<1> QED
  BY <1>1, <1>2, ReplayFold!PrefixBase DEF LedgerAt

LEMMA LedgerSame ==
  ASSUME NEW db, NEW other, NEW n \in Nat \ {0}, \A k \in 1..n : other[k] = db[k]
  PROVE  LedgerAt(other, n) = LedgerAt(db, n)
<1>1. \A i \in 1..(n - 1) : other[i + 1] = db[i + 1]
  OBVIOUS
<1>2. Blocks(other, n) = Blocks(db, n)
  BY <1>1 DEF Blocks
<1> QED
  BY <1>2 DEF LedgerAt

LEMMA LedgerMoves ==
  ASSUME NEW db, NEW n \in Nat \ {0}
  PROVE  LedgerAt(db, n + 1) = ReplayBlock(LedgerAt(db, n), db[n + 1])
<1> DEFINE long == Blocks(db, n + 1)
           short == Blocks(db, n)
<1>1. /\ ReplayFold!IsSequence(long) /\ Len(long) = n
      /\ ReplayFold!IsSequence(short) /\ Len(short) = n - 1
      /\ (\A i \in 1..(n - 1) : long[i] = short[i]) /\ long[n] = db[n + 1]
  <2>1. n + 1 \in Nat \ {0} /\ (n + 1) - 1 = n /\ n \in 1..n /\ \A i \in 1..(n - 1) : i \in 1..n
    OBVIOUS
  <2>2. /\ ReplayFold!IsSequence(long) /\ Len(long) = (n + 1) - 1
        /\ \A i \in 1..((n + 1) - 1) : long[i] = db[i + 1]
    BY <2>1, BlocksAre
  <2>3. /\ ReplayFold!IsSequence(short) /\ Len(short) = n - 1
        /\ \A i \in 1..(n - 1) : short[i] = db[i + 1]
    BY BlocksAre
  <2> HIDE DEF long, short
  <2> QED
    BY <2>1, <2>2, <2>3
<1> HIDE DEF long, short
<1>2. n \in 1..Len(long) /\ n - 1 \in Nat /\ n - 1 <= Len(long) /\ n - 1 <= Len(short)
  BY <1>1
<1>3. ReplayFold!Prefix(0, FirstLedger, long, n) =
        ReplayNext(0, ReplayFold!Prefix(0, FirstLedger, long, n - 1), long[n])
  BY <1>1, <1>2, ReplayFold!PrefixStep
<1>4. ReplayFold!Prefix(0, FirstLedger, long, n - 1) = ReplayFold!Prefix(0, FirstLedger, short, n - 1)
  BY <1>1, <1>2, ReplayFold!PrefixAgrees
<1>5. (n + 1) - 1 = n
  OBVIOUS
<1> QED
  BY <1>1, <1>3, <1>4, <1>5 DEF LedgerAt, ReplayNext, long, short

\* A block that the ledger accepts.
LEMMA ReplayAccepts ==
  ASSUME NEW db, NEW codes, NEW block, HasValidTxOrder(db, block.txs),
         Transit(db, codes, block).status = "ok",
         NEW before, before = Result(db, codes)
  PROVE  ReplayBlock(before, block) = Written(db, codes, Transit(db, codes, block))
<1> DEFINE work == Transit(db, codes, block)
           after == Overlay(db, work.states)
           stored == codes \cup CodeOf(work.states)
<1>1. before.valid = TRUE /\ before.db = db /\ before.codes = codes
  BY DEF Result
<1>2. ReplayBlock(before, block) =
        [before EXCEPT !.db = Overlay(before.db, work.states),
                       !.codes = before.codes \cup CodeOf(work.states)]
  BY <1>1 DEF ReplayBlock
<1>3. ReplayBlock(before, block) = [before EXCEPT !.db = after, !.codes = stored]
  BY <1>1, <1>2
<1> HIDE DEF after, stored
<1>4. ReplayBlock(before, block) = Result(after, stored)
  <2> DEFINE Old == [valid : {TRUE}, db : {db}, codes : {codes}]
             New == [valid : {TRUE}, db : {after}, codes : {stored}]
  <2>1. before \in Old
    BY DEF Result
  <2> HIDE DEF Old
  <2>2. ReplayBlock(before, block) \in New
    BY <1>3, <2>1 DEF Old
  <2>3. ASSUME NEW s \in New
        PROVE  s = [valid |-> TRUE, db |-> after, codes |-> stored]
    OBVIOUS
  <2> QED
    BY <2>2, <2>3 DEF Result
<1> QED
  BY <1>4 DEF Written, after, stored

-----------------------------------------------------------------------------
(* The invariant of the ledger.                                            *)

\* Nobody who deploys code is paid by a contract.
PayeesStayPlain ==
  /\ \A tx \in PoolTx : tx.scBody # EMPTY_HASH => ~IsPayee(tx.sender)
  /\ \A block \in PeerBlock : PayeesDeployNothing(block.txs)

\* The ledger that the stored chain yields, and whether this node holds it.
NodeLedger == LedgerAt(blockDB, latestBlock.blockNumber)
AtRest == NodeLedger = Result(stateDB, codeDB)

Fits(block) == block.blockNumber = latestBlock.blockNumber + 1
Stored(block) == block.blockNumber \in DOMAIN blockDB /\ blockDB[block.blockNumber] = block

\* How far a job has written its block, and the handler that of another miner.
JobPhase(job) ==
  /\ job.pc \in {"blockDB", "index"} => AtRest /\ Mineable(stateDB, codeDB, job)
  /\ job.pc = "index" => Stored(job.block)
  /\ job.pc = "reward" =>
       LET paid == PayCoinbase(stateDB, codeDB, job.work, job.block)
       IN  WorkOK(paid) /\ Loaded(paid) /\ NodeLedger = Written(stateDB, codeDB, paid)
  /\ job.pc = "flush" => Flushing(stateDB, codeDB, NodeLedger, job.work, job.unwritten)

RivalPhase ==
  /\ rival.pc = "flush" =>
       Flushing(stateDB, codeDB, ReplayBlock(NodeLedger, rival.block), rival.work, rival.unwritten)
  /\ rival.pc \in {"blockDB", "index"} =>
       ReplayBlock(NodeLedger, rival.block) = Result(stateDB, codeDB)
  /\ rival.pc = "index" => Stored(rival.block)

\* A block to be mined never runs ahead of the chain.  One that is mined and
\* still fits can be added, except while accounts are being written: those of
\* another miner's block, after which it no longer fits, or those of the block
\* before it, which its selection can only have missed if it is empty.
IsEmpty(job) == job.work = EmptySelection /\ job.block.txs = << >>

OnItsWay(job) ==
  /\ job.pc \in {"select", "hash"} =>
       /\ job.block.coinbase = Coinbase /\ job.block.blockNumber \in Nat
       /\ job.block.blockNumber <= latestBlock.blockNumber + 1
  /\ job.pc = "hash" /\ Fits(job.block) =>
       \/ FullyWritten /\ Mineable(stateDB, codeDB, job)
       \/ ~FullyWritten /\ (RivalWrites \/ IsEmpty(job))

ChainShape ==
  /\ latestBlock.blockNumber \in Nat \ {0}
  /\ 1..latestBlock.blockNumber \subseteq DOMAIN blockDB
  /\ LedgerOK(stateDB, codeDB)
  /\ transactionPool \in Seq(PoolTx)

LedgerInv ==
  /\ ChainShape
  /\ \A j \in DOMAIN jobs : JobPhase(jobs[j]) /\ OnItsWay(jobs[j])
  /\ RivalPhase
  /\ FullyWritten => AtRest

-----------------------------------------------------------------------------
(* Every step keeps it.                                                    *)

LEMMA InitLedger == Init => LedgerInv
<1> SUFFICES ASSUME Init PROVE LedgerInv
  OBVIOUS
<1>1. /\ stateDB = InitialLedger /\ codeDB = {EMPTY_HASH} /\ latestBlock.blockNumber = 1
      /\ DOMAIN blockDB = {1} /\ transactionPool = << >> /\ DOMAIN jobs = {} /\ rival.pc = "idle"
  BY MiningAssumption DEF Init, IdleRival
<1>2. AtRest
  BY <1>1, LedgerStarts DEF AtRest, NodeLedger, FirstLedger
<1>3. LedgerOK(InitialLedger, {EMPTY_HASH})
  BY MiningAssumption DEF LedgerOK, AccountsOK, CodeIsStored, PayeesArePlain
<1>4. << >> \in Seq(PoolTx)
  OBVIOUS
<1>5. ChainShape
  BY <1>1, <1>3, <1>4 DEF ChainShape
<1> QED
  BY <1>1, <1>2, <1>5 DEF LedgerInv, RivalPhase

\* The chain stays, and with it the ledger it yields.
LEMMA LedgerStays ==
  ASSUME ChainShape, UNCHANGED latestBlock, \A k \in 1..latestBlock.blockNumber : blockDB'[k] = blockDB[k]
  PROVE  NodeLedger' = NodeLedger
<1>1. latestBlock.blockNumber \in Nat \ {0} /\ latestBlock' = latestBlock
  BY DEF ChainShape
<1>2. ASSUME NEW db, NEW other, \A k \in 1..latestBlock.blockNumber : other[k] = db[k]
      PROVE  LedgerAt(other, latestBlock.blockNumber) = LedgerAt(db, latestBlock.blockNumber)
  BY <1>1, <1>2, LedgerSame
<1>3. LedgerAt(blockDB', latestBlock.blockNumber) = LedgerAt(blockDB, latestBlock.blockNumber)
  BY <1>2
<1> QED
  BY <1>1, <1>3 DEF NodeLedger

\* A step that leaves the ledger alone and neither begins nor ends writing to it.
LEMMA LedgerFrame ==
  ASSUME LedgerInv, UNCHANGED <<accounts, chain>>, transactionPool' \in Seq(PoolTx),
         RivalWrites' <=> RivalWrites, RivalWrites => UNCHANGED rival,
         DOMAIN jobs \subseteq DOMAIN jobs',
         \A k \in DOMAIN jobs' :
           \/ k \in DOMAIN jobs /\ jobs'[k] = jobs[k]
           \/ /\ k \in DOMAIN jobs => jobs[k].pc \notin {"reward", "flush"}
              /\ jobs'[k].pc \notin {"reward", "flush"}
              /\ JobPhase(jobs[k])' /\ OnItsWay(jobs[k])'
  PROVE  LedgerInv'
<1>1. UNCHANGED <<stateDB, codeDB, blockDB, latestBlock>> /\ ChainShape
  BY DEF accounts, chain, LedgerInv
<1>2. NodeLedger' = NodeLedger /\ ChainShape' /\ (AtRest' <=> AtRest)
  <2>1. NodeLedger' = NodeLedger
    BY <1>1, LedgerStays
  <2> QED
    BY <1>1, <2>1 DEF ChainShape, AtRest
<1>3. FullyWritten' <=> FullyWritten
  BY DEF FullyWritten
<1>4. ASSUME NEW k \in DOMAIN jobs', k \in DOMAIN jobs, jobs'[k] = jobs[k]
      PROVE  JobPhase(jobs[k])' /\ OnItsWay(jobs[k])'
  <2>1. JobPhase(jobs[k]) /\ OnItsWay(jobs[k])
    BY <1>4 DEF LedgerInv
  <2>2. JobPhase(jobs[k])'
    BY <1>1, <1>2, <1>4, <2>1 DEF JobPhase, Stored, Mineable
  <2>3. OnItsWay(jobs[k])'
    BY <1>1, <1>3, <1>4, <2>1 DEF OnItsWay, Fits, Mineable, IsEmpty
  <2> QED
    BY <2>2, <2>3
<1>5. RivalPhase'
  <2>1. CASE RivalWrites
    BY <1>1, <1>2, <2>1 DEF LedgerInv, RivalPhase, Stored
  <2>2. CASE ~RivalWrites
    BY <2>2 DEF RivalPhase, RivalWrites
  <2> QED
    BY <2>1, <2>2
<1> QED
  BY <1>2, <1>3, <1>4, <1>5 DEF LedgerInv

\* A block with nothing in it can be added to any ledger.
LEMMA EmptyIsMineable ==
  ASSUME NEW db, NEW codes, LedgerOK(db, codes), NEW job, IsEmpty(job), job.block.coinbase = Coinbase
  PROVE  Mineable(db, codes, job)
<1>1. << >> \in Seq(Transaction)
  OBVIOUS
<1>2. SelectionOK(db, codes, << >>, 0, EmptySelection)
  BY <1>1, SelectionStarts
<1>3. EmptySelection.status = "ok" /\ EmptySelection.txs = << >>
  BY DEF EmptySelection
<1>4. job.block.coinbase \in Account
  BY MiningAssumption
<1> QED
  BY <1>2, <1>3, <1>4, SelectionIsMineable DEF IsEmpty

\* The timer fires.
LEMMA TickLedger ==
  ASSUME Shapes, LedgerInv, Tick
  PROVE  LedgerInv'
<1>1. PICK j : /\ j = Len(jobs) + 1 /\ j \in 1..(Len(jobs) + 1) /\ j \notin DOMAIN jobs
               /\ \/ SendToWorker(j, NewJob(j))
                  \/ /\ workers' = workers /\ IsJobs(jobs') /\ DOMAIN jobs' = DOMAIN jobs \cup {j}
                     /\ jobs'[j] = NewJob(j) /\ \A k \in DOMAIN jobs : jobs'[k] = jobs[k]
  BY TickIs
<1>2. /\ UNCHANGED <<accounts, chain, transactionPool, rival>> /\ ChainShape
      /\ UNCHANGED <<stateDB, codeDB, latestBlock>>
  BY DEF Tick, LedgerInv, accounts, chain
<1>3. /\ DOMAIN jobs' = DOMAIN jobs \cup {j} /\ jobs'[j].pc \in {"select", "hash"}
      /\ jobs'[j].block = NewJob(j).block /\ jobs'[j].work = NewJob(j).work
      /\ \A k \in DOMAIN jobs : jobs'[k] = jobs[k]
  <2>1. CASE SendToWorker(j, NewJob(j))
    <3>1. /\ DOMAIN jobs' = DOMAIN jobs \cup {j} /\ jobs'[j].pc = "hash"
          /\ jobs'[j].block = NewJob(j).block
          /\ \A k \in DOMAIN jobs \ {j} : jobs'[k] = jobs[k]
      BY <1>1, <2>1, NewJobIs, SendIs
    <3>2. jobs'[j].work = NewJob(j).work
      BY <2>1, NewJobIs, SentWork
    <3> QED
      BY <1>1, <3>1, <3>2
  <2>2. CASE /\ workers' = workers /\ IsJobs(jobs') /\ DOMAIN jobs' = DOMAIN jobs \cup {j}
             /\ jobs'[j] = NewJob(j) /\ \A k \in DOMAIN jobs : jobs'[k] = jobs[k]
    BY <2>2, NewJobIs
  <2> QED
    BY <1>1, <2>1, <2>2
<1>4. /\ NewJob(j).block.blockNumber = latestBlock.blockNumber + 1
      /\ NewJob(j).block.coinbase = Coinbase /\ NewJob(j).block.txs = << >>
      /\ NewJob(j).work = EmptySelection
  BY DEF NewJob, NewBlock
<1>5. IsEmpty(jobs'[j]) /\ Mineable(stateDB, codeDB, jobs'[j])
  <2>1. IsEmpty(jobs'[j]) /\ jobs'[j].block.coinbase = Coinbase
    BY <1>3, <1>4 DEF IsEmpty
  <2> QED
    BY <1>2, <2>1, EmptyIsMineable DEF ChainShape
<1>6. OnItsWay(jobs[j])'
  <2>1. /\ jobs'[j].block.coinbase = Coinbase /\ jobs'[j].block.blockNumber \in Nat
        /\ jobs'[j].block.blockNumber <= latestBlock.blockNumber + 1
    BY <1>2, <1>3, <1>4 DEF ChainShape
  <2>2. IsEmpty(jobs[j])' /\ Mineable(stateDB, codeDB, jobs[j])'
    BY <1>2, <1>5 DEF IsEmpty, Mineable
  <2> QED
    BY <1>2, <2>1, <2>2 DEF OnItsWay
<1>7. JobPhase(jobs[j])' /\ jobs'[j].pc \notin {"reward", "flush"}
  BY <1>3 DEF JobPhase
<1>8. transactionPool' \in Seq(PoolTx) /\ (RivalWrites' <=> RivalWrites)
  BY <1>2 DEF ChainShape, RivalWrites
<1> QED
  BY <1>1, <1>2, <1>3, <1>6, <1>7, <1>8, LedgerFrame

\* The pool is in order and the accounts are those of the chain.
LEMMA CollectLedger ==
  ASSUME PayeesStayPlain, Shapes, LedgerInv, SelectsInOrder, NEW j \in DOMAIN jobs, Collect(j)
  PROVE  LedgerInv'
<1>1. /\ jobs[j].pc = "select" /\ UNCHANGED <<accounts, chain, transactionPool, rival>>
      /\ FullyWritten /\ HasValidTxOrder(stateDB, transactionPool)
      /\ UNCHANGED <<stateDB, codeDB, latestBlock>>
  BY DEF Collect, SelectsInOrder, accounts, chain
<1>2. /\ ChainShape /\ jobs[j].block.coinbase = Coinbase /\ jobs[j].block.blockNumber \in Nat
      /\ jobs[j].block.blockNumber <= latestBlock.blockNumber + 1
  BY <1>1 DEF LedgerInv, OnItsWay
<1>3. transactionPool' \in Seq(PoolTx) /\ (RivalWrites' <=> RivalWrites)
  BY <1>1, <1>2 DEF ChainShape, RivalWrites
<1>4. ASSUME NEW job, SendToWorker(j, job), DOMAIN job = JobFields, DOMAIN job.block = BlockFields,
             job.block.blockNumber = jobs[j].block.blockNumber,
             job.block.coinbase = jobs[j].block.coinbase,
             job.work = Select(stateDB, codeDB, transactionPool),
             job.block.txs = job.work.txs, job.work.status = "ok"
      PROVE  LedgerInv'
  <2>1. LedgerOK(stateDB, codeDB) /\ transactionPool \in Seq(PoolTx) /\ PoolTx \subseteq Transaction
    BY <1>2, MiningAssumption DEF ChainShape
  <2>2. transactionPool \in Seq(Transaction)
    BY <2>1
  <2>3. PayeesDeployNothing(transactionPool)
    BY <2>1 DEF PayeesDeployNothing, PayeesStayPlain
  <2>4. SelectionOK(stateDB, codeDB, transactionPool, Len(transactionPool), job.work)
    BY <1>1, <1>4, <2>1, <2>2, <2>3, SelectedOK
  <2>5. Mineable(stateDB, codeDB, job)
    BY <1>2, <1>4, <2>1, <2>4, SelectionIsMineable, MiningAssumption
  <2>6. /\ DOMAIN jobs' = DOMAIN jobs \cup {j} /\ jobs'[j].pc = "hash"
        /\ jobs'[j].block = job.block /\ jobs'[j].work = job.work
        /\ \A k \in DOMAIN jobs \ {j} : jobs'[k] = jobs[k]
    <3>1. j \in 1..(Len(jobs) + 1)
      BY CollectIs
    <3> QED
      BY <1>4, <3>1, SendIs, SentWork
  <2>7. Mineable(stateDB, codeDB, jobs[j])'
    <3>1. Mineable(stateDB', codeDB', jobs'[j])
      BY <1>1, <2>5, <2>6 DEF Mineable
    <3> QED
      BY <3>1
  <2>8. FullyWritten'
    BY <1>1, <1>3, <2>6 DEF FullyWritten
  <2>9. OnItsWay(jobs[j])' /\ JobPhase(jobs[j])'
    BY <1>1, <1>2, <1>4, <2>6, <2>7, <2>8 DEF OnItsWay, JobPhase
  <2> QED
    BY <1>1, <1>3, <2>6, <2>9, LedgerFrame
<1>5. ASSUME jobs' = [jobs EXCEPT ![j] = jobs'[j]], jobs'[j].pc = "dead"
      PROVE  LedgerInv'
  <2>1. JobPhase(jobs[j])' /\ OnItsWay(jobs[j])'
    BY <1>5 DEF JobPhase, OnItsWay
  <2>2. DOMAIN jobs' = DOMAIN jobs /\ \A k \in DOMAIN jobs \ {j} : jobs'[k] = jobs[k]
    BY <1>5
  <2> QED
    BY <1>1, <1>3, <1>5, <2>1, <2>2, LedgerFrame
<1> QED
  BY <1>4, <1>5, CollectIs

\* A sweep keeps transactions of the pool.
SweepNext(env, sweep, tx) == SweepRound(env, sweep, tx)

SweepFold == INSTANCE FoldTheorems WITH Step <- SweepNext

LEMMA SweptStays ==
  ASSUME NEW db, NEW S, NEW pool \in Seq(S)
  PROVE  Swept(db, pool) \in Seq(S)
<1> DEFINE After(i) == SweepFold!Prefix(db, EmptySweep, pool, i)
           Good == {i \in Nat : i <= Len(pool) =>
                     DOMAIN After(i) = {"kept", "maxNonce"} /\ After(i).kept \in Seq(S)}
<1>1. SweepFold!IsSequence(pool) /\ Len(pool) \in Nat /\ \A i \in 1..Len(pool) : pool[i] \in S
  BY DEF SweepFold!IsSequence
<1>2. Swept(db, pool) = SweepFold!Folded(db, EmptySweep, pool).kept
  BY DEF Swept, SweepNext, FoldLeft, MapThenFoldSet, Max,
         SweepFold!Folded, SweepFold!FoldLeft, SweepFold!MapThenFoldSet, SweepFold!Max
<1>3. After(0) = EmptySweep
  BY <1>1, SweepFold!PrefixBase
<1>4. ASSUME NEW i \in 1..Len(pool)
      PROVE  After(i) = SweepRound(db, After(i - 1), pool[i])
  BY <1>1, SweepFold!PrefixStep DEF SweepNext
<1>5. SweepFold!Folded(db, EmptySweep, pool) = After(Len(pool))
  BY <1>1, SweepFold!FoldedIsPrefix
<1> HIDE DEF After
<1>6. 0 \in Good
  <2>1. EmptySweep.kept = << >> /\ << >> \in Seq(S) /\ DOMAIN EmptySweep = {"kept", "maxNonce"}
    BY DEF EmptySweep
  <2> QED
    BY <1>3, <2>1
<1>7. ASSUME NEW n \in Nat, n \in Good
      PROVE  n + 1 \in Good
  <2> SUFFICES ASSUME n + 1 <= Len(pool)
               PROVE  DOMAIN After(n + 1) = {"kept", "maxNonce"} /\ After(n + 1).kept \in Seq(S)
    OBVIOUS
  <2>1. n + 1 \in 1..Len(pool) /\ (n + 1) - 1 = n /\ n <= Len(pool)
    BY <1>1
  <2>2. After(n + 1) = SweepRound(db, After(n), pool[n + 1]) /\ pool[n + 1] \in S
    BY <1>1, <1>4, <2>1
  <2>3. DOMAIN After(n) = {"kept", "maxNonce"} /\ After(n).kept \in Seq(S)
    BY <1>7, <2>1
  <2>4. CASE Keeps(db, After(n), pool[n + 1])
    <3>1. After(n + 1).kept = Append(After(n).kept, pool[n + 1])
      BY <2>2, <2>4 DEF SweepRound
    <3>2. DOMAIN After(n + 1) = {"kept", "maxNonce"}
      BY <2>2, <2>4 DEF SweepRound
    <3> QED
      BY <2>2, <2>3, <3>1, <3>2
  <2>5. CASE ~Keeps(db, After(n), pool[n + 1])
    <3>1. After(n + 1) = [After(n) EXCEPT !.maxNonce[pool[n + 1].sender] =
                                             Reached(db, After(n), pool[n + 1].sender)]
      BY <2>2, <2>5 DEF SweepRound
    <3> QED
      BY <2>3, <3>1
  <2> QED
    BY <2>4, <2>5
<1>8. Nat \subseteq Good
  <2> HIDE DEF Good
  <2> QED
    BY <1>6, <1>7, SweepFold!Induction
<1>9. After(Len(pool)).kept \in Seq(S)
  <2>1. Len(pool) \in Good
    BY <1>1, <1>8
  <2> QED
    BY <1>1, <2>1
<1> QED
  BY <1>2, <1>5, <1>9


\* A job that writes does so alone.
LEMMA WriterAlone ==
  ASSUME OneWrites, NEW j \in DOMAIN jobs, Writes(j), UNCHANGED rival,
         jobs' = [jobs EXCEPT ![j] = jobs'[j]]
  PROVE  /\ ~RivalWrites /\ ~RivalWrites'
         /\ DOMAIN jobs' = DOMAIN jobs
         /\ \A k \in DOMAIN jobs \ {j} : jobs'[k] = jobs[k] /\ ~Writes(k)
         /\ FullyWritten <=> jobs[j].pc \notin {"reward", "flush"}
         /\ FullyWritten' <=> jobs'[j].pc \notin {"reward", "flush"}
<1>1. ~RivalWrites /\ ~RivalWrites'
  BY DEF OneWrites, RivalWrites
<1>2. DOMAIN jobs' = DOMAIN jobs /\ \A k \in DOMAIN jobs \ {j} : jobs'[k] = jobs[k]
  OBVIOUS
<1>3. \A k \in DOMAIN jobs \ {j} : ~Writes(k)
  BY DEF OneWrites
<1>4. \A k \in DOMAIN jobs \ {j} :
        jobs[k].pc \notin {"reward", "flush"} /\ jobs'[k].pc \notin {"reward", "flush"}
  BY <1>2, <1>3 DEF Writes
<1>5. FullyWritten <=> jobs[j].pc \notin {"reward", "flush"}
  BY <1>1, <1>4 DEF FullyWritten
<1>6. FullyWritten' <=> jobs'[j].pc \notin {"reward", "flush"}
  BY <1>1, <1>2, <1>4 DEF FullyWritten
<1> QED
  BY <1>1, <1>2, <1>3, <1>5, <1>6

\* A step of the job that writes.
LEMMA WriterLedger ==
  ASSUME OneWrites, NEW j \in DOMAIN jobs, Writes(j), UNCHANGED rival,
         jobs' = [jobs EXCEPT ![j] = jobs'[j]], jobs'[j].pc \notin {"select", "hash"},
         ChainShape', JobPhase(jobs[j])', FullyWritten' => AtRest',
         \A k \in DOMAIN jobs \ {j} : OnItsWay(jobs[k])'
  PROVE  LedgerInv'
<1>1. /\ ~RivalWrites' /\ DOMAIN jobs' = DOMAIN jobs
      /\ \A k \in DOMAIN jobs \ {j} : jobs'[k] = jobs[k] /\ ~Writes(k)
  BY WriterAlone
<1>2. ASSUME NEW k \in DOMAIN jobs'
      PROVE  JobPhase(jobs[k])'
  <2>1. CASE k = j
    BY <2>1
  <2>2. CASE k # j
    <3>1. jobs'[k].pc \notin {"blockDB", "index", "reward", "flush"}
      BY <1>1, <2>2 DEF Writes
    <3> QED
      BY <3>1 DEF JobPhase
  <2> QED
    BY <2>1, <2>2
<1>3. ASSUME NEW k \in DOMAIN jobs'
      PROVE  OnItsWay(jobs[k])'
  <2>1. CASE k = j
    BY <2>1 DEF OnItsWay
  <2>2. CASE k # j
    BY <1>1, <2>2
  <2> QED
    BY <2>1, <2>2
<1>4. RivalPhase'
  BY <1>1 DEF RivalPhase, RivalWrites
<1> QED
  BY <1>2, <1>3, <1>4 DEF LedgerInv

\* What a job adds is its own block, the next one of the chain.
LEMMA AddingIs ==
  ASSUME WorkerInv, ChildInv, LedgerInv, NEW j \in DOMAIN jobs, Writes(j)
  PROVE  /\ ChainShape /\ jobs[j].result = jobs[j].block /\ DOMAIN jobs[j] = JobFields
         /\ JobPhase(jobs[j])
         /\ Unadded(j) => Fits(jobs[j].block)
<1>1. jobs[j].result = jobs[j].block
  BY DEF WorkerInv, TakesOwnResult, Writes, Writing
<1>2. DOMAIN jobs[j] = JobFields
  BY DEF WorkerInv, Shapes, IsJobs
<1>3. Unadded(j) => Fits(jobs[j].block)
  BY <1>1 DEF ChildInv, IsChild, Fits
<1> QED
  BY <1>1, <1>2, <1>3 DEF LedgerInv

\* The block is stored as the next one of the chain.
LEMMA PutBlockLedger ==
  ASSUME WorkerInv, ChildInv, LedgerInv, OneWrites, NEW j \in DOMAIN jobs, PutBlock(j)
  PROVE  LedgerInv'
<1>1. /\ jobs[j].pc = "blockDB" /\ jobs' = [jobs EXCEPT ![j].pc = "index"]
      /\ blockDB' = Put(blockDB, jobs[j].result.blockNumber, jobs[j].result)
      /\ UNCHANGED <<accounts, latestBlock, transactionPool, rival>>
  BY DEF PutBlock
<1>2. /\ Writes(j) /\ ChainShape /\ jobs[j].result = jobs[j].block /\ DOMAIN jobs[j] = JobFields
      /\ AtRest /\ Mineable(stateDB, codeDB, jobs[j]) /\ Fits(jobs[j].block)
  <2>1. Writes(j) /\ Unadded(j)
    BY <1>1 DEF Writes, Unadded
  <2> QED
    BY <1>1, <2>1, AddingIs DEF JobPhase
<1>3. UNCHANGED <<stateDB, codeDB, latestBlock, transactionPool>>
  BY <1>1 DEF accounts
<1>4. /\ latestBlock.blockNumber \in Nat \ {0}
      /\ jobs[j].block.blockNumber = latestBlock.blockNumber + 1
      /\ 1..latestBlock.blockNumber \subseteq DOMAIN blockDB
  BY <1>2 DEF ChainShape, Fits
<1>5. /\ DOMAIN blockDB' = DOMAIN blockDB \cup {jobs[j].block.blockNumber}
      /\ blockDB'[jobs[j].block.blockNumber] = jobs[j].block
      /\ \A k \in 1..latestBlock.blockNumber : blockDB'[k] = blockDB[k]
  BY <1>1, <1>2, <1>4 DEF Put
<1>6. NodeLedger' = NodeLedger
  BY <1>2, <1>3, <1>5, LedgerStays
<1>7. ChainShape' /\ AtRest'
  BY <1>2, <1>3, <1>4, <1>5, <1>6 DEF ChainShape, AtRest
<1>8. /\ jobs' = [jobs EXCEPT ![j] = jobs'[j]] /\ jobs'[j].pc = "index"
      /\ jobs'[j].block = jobs[j].block /\ jobs'[j].work = jobs[j].work
  BY <1>1, <1>2 DEF JobFields
<1>9. Stored(jobs[j].block)'
  BY <1>5, <1>8 DEF Stored
<1>10. Mineable(stateDB, codeDB, jobs[j])'
  <2>1. Mineable(stateDB', codeDB', jobs'[j])
    BY <1>2, <1>3, <1>8 DEF Mineable
  <2> QED
    BY <2>1
<1>11. JobPhase(jobs[j])'
  BY <1>7, <1>8, <1>9, <1>10 DEF JobPhase
<1>12. /\ FullyWritten' <=> FullyWritten
       /\ ~RivalWrites' /\ ~RivalWrites
       /\ \A k \in DOMAIN jobs \ {j} : jobs'[k] = jobs[k]
  BY <1>1, <1>2, <1>8, WriterAlone
<1>13. ASSUME NEW k \in DOMAIN jobs \ {j}
       PROVE  OnItsWay(jobs[k])'
  <2>1. OnItsWay(jobs[k])
    BY DEF LedgerInv
  <2> QED
    BY <1>3, <1>12, <2>1 DEF OnItsWay, Fits, Mineable, IsEmpty
<1> QED
  BY <1>1, <1>2, <1>7, <1>8, <1>11, <1>13, WriterLedger

\* The chain has a new block: the ledger it yields is the one its accounts
\* are about to give.
LEMMA IndexLedger ==
  ASSUME WorkerInv, ChildInv, LedgerInv, OneWrites, NEW j \in DOMAIN jobs, Index(j)
  PROVE  LedgerInv'
<1>1. /\ jobs[j].pc = "index" /\ jobs' = [jobs EXCEPT ![j].pc = "reward"]
      /\ latestBlock' = jobs[j].result
      /\ UNCHANGED <<accounts, blockDB, transactionPool, rival>>
  BY DEF Index
<1>2. /\ Writes(j) /\ ChainShape /\ jobs[j].result = jobs[j].block /\ DOMAIN jobs[j] = JobFields
      /\ AtRest /\ Mineable(stateDB, codeDB, jobs[j]) /\ Fits(jobs[j].block)
      /\ Stored(jobs[j].block)
  <2>1. Writes(j) /\ Unadded(j)
    BY <1>1 DEF Writes, Unadded
  <2> QED
    BY <1>1, <2>1, AddingIs DEF JobPhase
<1>3. UNCHANGED <<stateDB, codeDB, blockDB, transactionPool>>
  BY <1>1 DEF accounts
<1> DEFINE n == latestBlock.blockNumber
           block == jobs[j].block
           paid == PayCoinbase(stateDB, codeDB, jobs[j].work, jobs[j].block)
<1>4. /\ n \in Nat \ {0} /\ 1..n \subseteq DOMAIN blockDB
      /\ latestBlock'.blockNumber = n + 1 /\ n + 1 \in DOMAIN blockDB /\ blockDB[n + 1] = block
  BY <1>1, <1>2 DEF ChainShape, Fits, Stored
<1>5. ChainShape'
  <2>1. latestBlock'.blockNumber \in Nat \ {0} /\ 1..latestBlock'.blockNumber \subseteq DOMAIN blockDB'
    BY <1>3, <1>4
  <2> QED
    BY <1>2, <1>3, <2>1 DEF ChainShape
<1>6. NodeLedger' = ReplayBlock(NodeLedger, block)
  <2>1. LedgerAt(blockDB, n + 1) = ReplayBlock(LedgerAt(blockDB, n), blockDB[n + 1])
    BY <1>4, LedgerMoves
  <2>2. NodeLedger' = LedgerAt(blockDB', latestBlock'.blockNumber)
    BY DEF NodeLedger
  <2> QED
    BY <1>3, <1>4, <2>1, <2>2 DEF NodeLedger
<1>7. /\ WorkOK(paid) /\ Loaded(paid) /\ NodeLedger' = Written(stateDB, codeDB, paid)
  <2>1. ReplayBlock(NodeLedger, block) = Written(stateDB, codeDB, Transit(stateDB, codeDB, block))
    BY <1>2, ReplayAccepts DEF Mineable, AtRest
  <2> QED
    BY <1>2, <1>6, <2>1 DEF Mineable
<1>8. /\ jobs' = [jobs EXCEPT ![j] = jobs'[j]] /\ jobs'[j].pc = "reward"
      /\ jobs'[j].block = jobs[j].block /\ jobs'[j].work = jobs[j].work
  BY <1>1, <1>2 DEF JobFields
<1>9. JobPhase(jobs[j])'
  BY <1>3, <1>7, <1>8 DEF JobPhase
<1>10. ~FullyWritten' /\ \A k \in DOMAIN jobs \ {j} : jobs'[k] = jobs[k]
  BY <1>1, <1>2, <1>8, WriterAlone
<1>11. ASSUME NEW k \in DOMAIN jobs \ {j}
       PROVE  OnItsWay(jobs[k])'
  <2>1. OnItsWay(jobs[k])
    BY DEF LedgerInv
  <2> QED
    BY <1>4, <1>10, <2>1 DEF OnItsWay, Fits
<1> QED
  BY <1>1, <1>2, <1>5, <1>8, <1>9, <1>10, <1>11, WriterLedger

\* The reward completes the working set.
LEMMA RewardLedger ==
  ASSUME WorkerInv, ChildInv, LedgerInv, OneWrites, NEW j \in DOMAIN jobs, Reward(j)
  PROVE  LedgerInv'
<1> DEFINE paid == PayCoinbase(stateDB, codeDB, jobs[j].work, jobs[j].block)
<1>1. /\ jobs[j].pc = "reward"
      /\ jobs' = [jobs EXCEPT ![j].pc = "flush", ![j].work = paid, ![j].unwritten = DOMAIN paid.states]
      /\ UNCHANGED <<accounts, chain, transactionPool, rival>>
  BY DEF Reward
<1>2. /\ Writes(j) /\ ChainShape /\ DOMAIN jobs[j] = JobFields
      /\ WorkOK(paid) /\ Loaded(paid) /\ NodeLedger = Written(stateDB, codeDB, paid)
  <2>1. Writes(j)
    BY <1>1 DEF Writes
  <2> QED
    BY <1>1, <2>1, AddingIs DEF JobPhase
<1> HIDE DEF paid
<1>3. UNCHANGED <<stateDB, codeDB, blockDB, latestBlock, transactionPool>>
  BY <1>1 DEF accounts, chain
<1>4. NodeLedger' = NodeLedger /\ ChainShape'
  <2>1. NodeLedger' = NodeLedger
    BY <1>2, <1>3, LedgerStays
  <2> QED
    BY <1>2, <1>3, <2>1 DEF ChainShape
<1>5. /\ jobs' = [jobs EXCEPT ![j] = jobs'[j]] /\ jobs'[j].pc = "flush"
      /\ jobs'[j].work = paid /\ jobs'[j].unwritten = DOMAIN paid.states
  BY <1>1, <1>2 DEF JobFields
<1>6. Flushing(stateDB, codeDB, Written(stateDB, codeDB, paid), paid, DOMAIN paid.states)
  BY <1>2, FlushingStarts
<1>7. Flushing(stateDB', codeDB', NodeLedger', jobs'[j].work, jobs'[j].unwritten)
  BY <1>2, <1>3, <1>4, <1>5, <1>6
<1>8. JobPhase(jobs[j])'
  BY <1>5, <1>7 DEF JobPhase
<1>9. /\ ~FullyWritten' /\ ~FullyWritten /\ ~RivalWrites' /\ ~RivalWrites
      /\ \A k \in DOMAIN jobs \ {j} : jobs'[k] = jobs[k]
  BY <1>1, <1>2, <1>5, WriterAlone
<1>10. ASSUME NEW k \in DOMAIN jobs \ {j}
       PROVE  OnItsWay(jobs[k])'
  <2>1. OnItsWay(jobs[k])
    BY DEF LedgerInv
  <2> QED
    BY <1>3, <1>9, <2>1 DEF OnItsWay, Fits, IsEmpty
<1> QED
  BY <1>1, <1>2, <1>4, <1>5, <1>8, <1>9, <1>10, WriterLedger

\* An account is written; with the last one the ledger is that of the chain.
LEMMA FlushLedger ==
  ASSUME WorkerInv, ChildInv, LedgerInv, OneWrites, NEW j \in DOMAIN jobs, FlushAccount(j)
  PROVE  LedgerInv'
<1>1. jobs[j].pc = "flush" /\ UNCHANGED <<chain, transactionPool, rival>>
  BY DEF FlushAccount
<1> DEFINE work == jobs[j].work
           Loads(a) == work.states[a].codeHash \in work.code
<1>2. PICK a \in jobs[j].unwritten :
        /\ stateDB' = [stateDB EXCEPT ![a] = work.states[a]]
        /\ codeDB' = IF Loads(a) THEN codeDB \cup {work.states[a].codeHash} ELSE codeDB
        /\ jobs' = [jobs EXCEPT ![j].unwritten = @ \ {a},
                      ![j].pc = IF ~Loads(a) THEN "dead"
                                ELSE IF jobs[j].unwritten = {a} THEN "sweep" ELSE "flush"]
  BY DEF FlushAccount
<1>3. /\ Writes(j) /\ ChainShape /\ DOMAIN jobs[j] = JobFields
      /\ Flushing(stateDB, codeDB, NodeLedger, work, jobs[j].unwritten)
  <2>1. Writes(j)
    BY <1>1 DEF Writes
  <2> QED
    BY <1>1, <2>1, AddingIs DEF JobPhase
<1>4. Loads(a)
  BY <1>3 DEF Flushing, Loaded
<1>5. /\ codeDB' = codeDB \cup {work.states[a].codeHash}
      /\ jobs' = [jobs EXCEPT ![j].unwritten = @ \ {a},
                    ![j].pc = IF jobs[j].unwritten = {a} THEN "sweep" ELSE "flush"]
  BY <1>2, <1>4
<1>6. /\ LedgerOK(stateDB', codeDB')
      /\ Flushing(stateDB', codeDB', NodeLedger, work, jobs[j].unwritten \ {a})
      /\ jobs[j].unwritten = {a} => NodeLedger = Result(stateDB', codeDB')
  <2>1. LedgerOK(stateDB, codeDB)
    BY <1>3 DEF ChainShape
  <2>2. stateDB' = AccountPut(stateDB, work, a) /\ codeDB' = CodePut(codeDB, work, a)
    BY <1>2, <1>5 DEF AccountPut, CodePut
  <2> HIDE DEF work, Loads
  <2> QED
    BY <1>3, <2>1, <2>2, FlushingGoesOn
<1>7. UNCHANGED <<blockDB, latestBlock, transactionPool>>
  BY <1>1 DEF chain
<1>8. NodeLedger' = NodeLedger /\ ChainShape'
  <2>1. NodeLedger' = NodeLedger
    BY <1>3, <1>7, LedgerStays
  <2> QED
    BY <1>3, <1>6, <1>7, <2>1 DEF ChainShape
<1>9. /\ jobs' = [jobs EXCEPT ![j] = jobs'[j]]
      /\ jobs'[j].pc = IF jobs[j].unwritten = {a} THEN "sweep" ELSE "flush"
      /\ jobs'[j].work = work /\ jobs'[j].unwritten = jobs[j].unwritten \ {a}
  BY <1>3, <1>5 DEF JobFields
<1> HIDE DEF work
<1>10. /\ FullyWritten' => AtRest'
       /\ JobPhase(jobs[j])'
  <2>1. CASE jobs[j].unwritten = {a}
    <3>1. AtRest'
      BY <1>6, <1>8, <2>1 DEF AtRest
    <3> QED
      BY <1>9, <2>1, <3>1 DEF JobPhase
  <2>2. CASE jobs[j].unwritten # {a}
    <3>1. Flushing(stateDB', codeDB', NodeLedger', jobs'[j].work, jobs'[j].unwritten)
      BY <1>6, <1>8, <1>9
    <3>2. ~FullyWritten'
      BY <1>1, <1>3, <1>9, <2>2, WriterAlone
    <3> QED
      BY <1>9, <2>2, <3>1, <3>2 DEF JobPhase
  <2> QED
    BY <2>1, <2>2
<1>11. /\ ~FullyWritten /\ ~RivalWrites' /\ ~RivalWrites
       /\ \A k \in DOMAIN jobs \ {j} : jobs'[k] = jobs[k]
  BY <1>1, <1>3, <1>9, WriterAlone
<1>12. ASSUME NEW k \in DOMAIN jobs \ {j}
       PROVE  OnItsWay(jobs[k])'
  <2>1. OnItsWay(jobs[k]) /\ jobs'[k] = jobs[k]
    BY <1>11 DEF LedgerInv
  <2>2. /\ jobs[k].pc \in {"select", "hash"} => jobs[k].block.coinbase = Coinbase
        /\ jobs[k].pc = "hash" /\ Fits(jobs[k].block) => IsEmpty(jobs[k])
    BY <1>11, <2>1 DEF OnItsWay
  <2>3. jobs[k].pc = "hash" /\ Fits(jobs[k].block) => Mineable(stateDB', codeDB', jobs[k])
    BY <1>6, <2>2, EmptyIsMineable
  <2>4. Mineable(stateDB', codeDB', jobs[k]) => Mineable(stateDB, codeDB, jobs[k])'
    BY <2>1 DEF Mineable
  <2> QED
    BY <1>7, <1>11, <2>1, <2>2, <2>3, <2>4 DEF OnItsWay, Fits, IsEmpty
<1> QED
  BY <1>1, <1>3, <1>8, <1>9, <1>10, <1>12, WriterLedger

\* The sweep leaves the ledger alone.
LEMMA CompleteLedger ==
  ASSUME WorkerInv, LedgerInv, NEW j \in DOMAIN jobs, Complete(j)
  PROVE  LedgerInv'
<1>1. /\ jobs[j].pc = "sweep" /\ jobs' = [jobs EXCEPT ![j].pc = "done"]
      /\ transactionPool' = Swept(stateDB, transactionPool)
      /\ UNCHANGED <<accounts, chain, rival>>
  BY DEF Complete
<1>2. DOMAIN jobs[j] = JobFields
  BY DEF WorkerInv, Shapes, IsJobs
<1>3. transactionPool' \in Seq(PoolTx) /\ (RivalWrites' <=> RivalWrites)
  BY <1>1, SweptStays DEF LedgerInv, ChainShape, RivalWrites
<1>4. /\ DOMAIN jobs' = DOMAIN jobs /\ jobs'[j].pc = "done"
      /\ \A k \in DOMAIN jobs \ {j} : jobs'[k] = jobs[k]
  BY <1>1, <1>2 DEF JobFields
<1>5. JobPhase(jobs[j])' /\ OnItsWay(jobs[j])'
  BY <1>4 DEF JobPhase, OnItsWay
<1> QED
  BY <1>1, <1>3, <1>4, <1>5, LedgerFrame

\* A result is added only when no other block was adopted since it was asked for.
LEMMA DeliverLedger ==
  ASSUME WorkerInv, ChildInv, LedgerInv, OneWrites', NEW v \in DOMAIN workers, Deliver(v)
  PROVE  LedgerInv'
<1>1. PICK j \in DOMAIN jobs :
        /\ Waits(v, j) /\ workers[v].outbox = <<jobs[j].block>>
        /\ jobs' = [jobs EXCEPT ![j] = jobs'[j]]
        /\ jobs'[j].block = jobs[j].block /\ jobs'[j].work = jobs[j].work
        /\ \/ jobs'[j].pc = "done"
           \/ ~mined /\ jobs'[j].pc = "blockDB"
  BY DeliverIs
<1>2. UNCHANGED <<accounts, chain, transactionPool, rival>>
  BY DEF Deliver
<1>3. /\ ChainShape /\ Active(v) /\ jobs[j].pc = "hash"
      /\ DOMAIN jobs' = DOMAIN jobs /\ \A k \in DOMAIN jobs \ {j} : jobs'[k] = jobs[k]
  BY <1>1 DEF LedgerInv, Active, Waits
<1>4. UNCHANGED <<stateDB, codeDB, blockDB, latestBlock>>
  BY <1>2 DEF accounts, chain
<1>5. transactionPool' \in Seq(PoolTx) /\ (RivalWrites' <=> RivalWrites)
  BY <1>2, <1>3 DEF ChainShape, RivalWrites
<1>6. OnItsWay(jobs[j])'
  BY <1>1 DEF OnItsWay
<1>7. CASE jobs'[j].pc = "done"
  <2>1. JobPhase(jobs[j])'
    BY <1>7 DEF JobPhase
  <2> QED
    BY <1>2, <1>3, <1>5, <1>6, <1>7, <2>1, LedgerFrame
<1>8. CASE ~mined /\ jobs'[j].pc = "blockDB"
  <2>1. Fits(jobs[j].block)
    BY <1>1, <1>3, <1>8 DEF ChildInv, Pending, IsChild, Fits
  <2>2. FullyWritten
    <3>1. j \in DOMAIN jobs' /\ Writes(j)'
      BY <1>3, <1>8 DEF Writes
    <3>2. ~RivalWrites' /\ \A k \in DOMAIN jobs' \ {j} : ~Writes(k)'
      BY <3>1 DEF OneWrites
    <3>3. \A k \in DOMAIN jobs \ {j} : jobs[k].pc \notin {"reward", "flush"}
      BY <1>3, <3>2 DEF Writes
    <3> QED
      BY <1>3, <1>5, <3>2, <3>3 DEF FullyWritten
  <2>3. AtRest /\ Mineable(stateDB, codeDB, jobs[j])
    BY <1>3, <2>1, <2>2 DEF LedgerInv, OnItsWay
  <2>4. NodeLedger' = NodeLedger
    BY <1>3, <1>4, LedgerStays
  <2>5. Mineable(stateDB', codeDB', jobs'[j])
    BY <1>1, <1>4, <2>3 DEF Mineable
  <2>6. AtRest' /\ Mineable(stateDB, codeDB, jobs[j])'
    BY <1>4, <2>3, <2>4, <2>5 DEF AtRest
  <2>7. JobPhase(jobs[j])'
    BY <1>8, <2>6 DEF JobPhase
  <2> QED
    BY <1>2, <1>3, <1>5, <1>6, <1>8, <2>7, LedgerFrame
<1> QED
  BY <1>1, <1>7, <1>8

\* The other steps change neither jobs nor what is stored.
LEMMA RestLedger ==
  ASSUME LedgerInv,
         \/ UNCHANGED vars
         \/ Solve
         \/ \E w \in DOMAIN workers : Lose(w)
         \/ \E tx \in PoolTx : Submit(tx)
         \/ RivalComplete
  PROVE  LedgerInv'
<1>1. UNCHANGED <<accounts, chain, jobs>>
  BY DEF vars, miner, Solve, Lose, Submit, RivalComplete
<1>2. transactionPool \in Seq(PoolTx)
  BY DEF LedgerInv, ChainShape
<1>3. transactionPool' \in Seq(PoolTx)
  <2>1. CASE \E tx \in PoolTx : Submit(tx)
    BY <1>2, <2>1 DEF Submit
  <2>2. CASE RivalComplete
    BY <1>2, <2>2, SweptStays DEF RivalComplete
  <2>3. CASE transactionPool' = transactionPool
    BY <1>2, <2>3
  <2> QED
    BY <2>1, <2>2, <2>3 DEF vars, Solve, Lose
<1>4. (RivalWrites' <=> RivalWrites) /\ (RivalWrites => UNCHANGED rival)
  <2>1. CASE RivalComplete
    BY <2>1 DEF RivalComplete, RivalWrites, IdleRival
  <2>2. CASE UNCHANGED rival
    BY <2>2 DEF RivalWrites
  <2> QED
    BY <2>1, <2>2 DEF vars, Solve, Lose, Submit
<1> QED
  BY <1>1, <1>3, <1>4, LedgerFrame

\* While the block of another miner is written no job writes, and the one that
\* is mined no longer fits once it is the latest.
LEMMA RivalLedger ==
  ASSUME LedgerInv, \A k \in DOMAIN jobs : ~Writes(k), UNCHANGED jobs, ChainShape', RivalPhase',
         \/ RivalWrites' /\ UNCHANGED latestBlock
         \/ /\ latestBlock'.blockNumber = latestBlock.blockNumber + 1
            /\ AtRest'
  PROVE  LedgerInv'
<1>1. ASSUME NEW k \in DOMAIN jobs'
      PROVE  JobPhase(jobs[k])'
  BY DEF JobPhase, Writes
<1>2. ASSUME NEW k \in DOMAIN jobs'
      PROVE  OnItsWay(jobs[k])'
  <2>1. OnItsWay(jobs[k]) /\ jobs'[k] = jobs[k]
    BY DEF LedgerInv
  <2>2. CASE RivalWrites' /\ UNCHANGED latestBlock
    <3>1. ~FullyWritten'
      BY <2>2 DEF FullyWritten
    <3> QED
      BY <2>1, <2>2, <3>1 DEF OnItsWay
  <2>3. CASE latestBlock'.blockNumber = latestBlock.blockNumber + 1
    <3>1. latestBlock.blockNumber \in Nat
      BY DEF LedgerInv, ChainShape
    <3> QED
      BY <2>1, <2>3, <3>1 DEF OnItsWay, Fits
  <2> QED
    BY <2>2, <2>3
<1>3. FullyWritten' => AtRest'
  BY DEF FullyWritten
<1> QED
  BY <1>1, <1>2, <1>3 DEF LedgerInv

\* A block of another miner that passes verification.
LEMMA ReceiveLedger ==
  ASSUME PayeesStayPlain, LedgerInv, OneWrites', NEW block \in PeerBlock, Receive(block)
  PROVE  LedgerInv'
<1> DEFINE work == Transit(stateDB, codeDB, block)
<1>1. /\ rival.pc = "idle" /\ UNCHANGED <<accounts, chain, transactionPool, jobs>>
      /\ HasValidTxOrder(stateDB, block.txs) /\ work.status = "ok"
      /\ rival' = [pc |-> "flush", block |-> block, work |-> work, unwritten |-> DOMAIN work.states]
  BY DEF Receive, miner
<1>2. RivalWrites' /\ ~RivalWrites /\ \A k \in DOMAIN jobs : ~Writes(k)
  <2>1. RivalWrites' /\ ~RivalWrites
    BY <1>1 DEF RivalWrites
  <2>2. \A k \in DOMAIN jobs' : ~Writes(k)'
    BY <2>1 DEF OneWrites
  <2> QED
    BY <1>1, <2>1, <2>2 DEF Writes
<1>3. UNCHANGED <<stateDB, codeDB, blockDB, latestBlock, transactionPool>>
  BY <1>1 DEF accounts, chain
<1>4. ChainShape /\ AtRest /\ LedgerOK(stateDB, codeDB)
  <2>1. FullyWritten
    BY <1>2 DEF FullyWritten, Writes
  <2> QED
    BY <2>1 DEF LedgerInv, ChainShape
<1>5. NodeLedger' = NodeLedger /\ ChainShape'
  <2>1. NodeLedger' = NodeLedger
    BY <1>3, <1>4, LedgerStays
  <2> QED
    BY <1>3, <1>4, <2>1 DEF ChainShape
<1>6. WorkOK(work) /\ Loaded(work)
  <2>1. BlockOK(block) /\ PayeesDeployNothing(block.txs)
    BY MiningAssumption DEF BlockOK, PayeesStayPlain
  <2>2. Loaded(work)
    BY <1>4, <2>1, TransitLoads DEF LedgerOK
  <2> QED
    BY <1>4, <2>1, <2>2, TransitWellFormed DEF LedgerOK
<1>7. ReplayBlock(NodeLedger, block) = Written(stateDB, codeDB, work)
  <2>1. NodeLedger = Result(stateDB, codeDB)
    BY <1>4 DEF AtRest
  <2> QED
    BY <1>1, <2>1, ReplayAccepts
<1> HIDE DEF work
<1>8. Flushing(stateDB, codeDB, ReplayBlock(NodeLedger, block), work, DOMAIN work.states)
  BY <1>6, <1>7, FlushingStarts
<1>9. /\ rival'.pc = "flush" /\ rival'.block = block /\ rival'.work = work
      /\ rival'.unwritten = DOMAIN work.states
  BY <1>1
<1>10. RivalPhase'
  <2>1. Flushing(stateDB', codeDB', ReplayBlock(NodeLedger', rival'.block), rival'.work, rival'.unwritten)
    BY <1>3, <1>5, <1>8, <1>9
  <2> QED
    BY <1>9, <2>1 DEF RivalPhase
<1> QED
  BY <1>1, <1>2, <1>3, <1>5, <1>10, RivalLedger

\* An account of it is written.
LEMMA RivalFlushLedger ==
  ASSUME WorkerInv, LedgerInv, OneWrites, RivalFlush
  PROVE  LedgerInv'
<1> DEFINE work == rival.work
           Loads(a) == work.states[a].codeHash \in work.code
           ledger == ReplayBlock(NodeLedger, rival.block)
<1>1. /\ rival.pc = "flush" /\ RivalWrites /\ UNCHANGED <<chain, transactionPool, jobs>>
      /\ \A k \in DOMAIN jobs : ~Writes(k)
  BY DEF RivalFlush, RivalWrites, OneWrites
<1>2. PICK a \in rival.unwritten :
        /\ stateDB' = [stateDB EXCEPT ![a] = work.states[a]]
        /\ codeDB' = IF Loads(a) THEN codeDB \cup {work.states[a].codeHash} ELSE codeDB
        /\ rival' = IF ~Loads(a) THEN IdleRival
                    ELSE [rival EXCEPT !.unwritten = @ \ {a},
                                       !.pc = IF rival.unwritten = {a} THEN "blockDB" ELSE "flush"]
  BY DEF RivalFlush
<1>3. /\ ChainShape /\ Flushing(stateDB, codeDB, ledger, work, rival.unwritten)
      /\ DOMAIN rival = {"pc", "block", "work", "unwritten"}
  BY <1>1 DEF LedgerInv, RivalPhase, WorkerInv, Shapes, IdleRival
<1>4. Loads(a)
  BY <1>3 DEF Flushing, Loaded
<1>5. /\ codeDB' = codeDB \cup {work.states[a].codeHash}
      /\ rival' = [rival EXCEPT !.unwritten = @ \ {a},
                                !.pc = IF rival.unwritten = {a} THEN "blockDB" ELSE "flush"]
  BY <1>2, <1>4
<1> HIDE DEF ledger
<1>6. /\ LedgerOK(stateDB', codeDB')
      /\ Flushing(stateDB', codeDB', ledger, work, rival.unwritten \ {a})
      /\ rival.unwritten = {a} => ledger = Result(stateDB', codeDB')
  <2>1. LedgerOK(stateDB, codeDB)
    BY <1>3 DEF ChainShape
  <2>2. stateDB' = AccountPut(stateDB, work, a) /\ codeDB' = CodePut(codeDB, work, a)
    BY <1>2, <1>5 DEF AccountPut, CodePut
  <2> HIDE DEF work, Loads
  <2> QED
    BY <1>3, <2>1, <2>2, FlushingGoesOn
<1>7. UNCHANGED <<blockDB, latestBlock, transactionPool>>
  BY <1>1 DEF chain
<1>8. NodeLedger' = NodeLedger /\ ChainShape'
  <2>1. NodeLedger' = NodeLedger
    BY <1>3, <1>7, LedgerStays
  <2> QED
    BY <1>3, <1>6, <1>7, <2>1 DEF ChainShape
<1>9. /\ rival'.pc = IF rival.unwritten = {a} THEN "blockDB" ELSE "flush"
      /\ rival'.work = work /\ rival'.unwritten = rival.unwritten \ {a}
      /\ rival'.block = rival.block
  BY <1>3, <1>5
<1>10. RivalWrites' /\ ReplayBlock(NodeLedger', rival'.block) = ledger
  BY <1>8, <1>9 DEF RivalWrites, ledger
<1> HIDE DEF work
<1>11. RivalPhase'
  <2>1. CASE rival.unwritten = {a}
    <3>1. ReplayBlock(NodeLedger', rival'.block) = Result(stateDB', codeDB')
      BY <1>6, <1>10, <2>1
    <3> QED
      BY <1>9, <2>1, <3>1 DEF RivalPhase
  <2>2. CASE rival.unwritten # {a}
    <3>1. Flushing(stateDB', codeDB', ReplayBlock(NodeLedger', rival'.block), rival'.work, rival'.unwritten)
      BY <1>6, <1>9, <1>10
    <3> QED
      BY <1>9, <2>2, <3>1 DEF RivalPhase
  <2> QED
    BY <2>1, <2>2
<1> QED
  BY <1>1, <1>7, <1>8, <1>10, <1>11, RivalLedger

\* It is stored and becomes the latest.
LEMMA RivalAddLedger ==
  ASSUME WorkerInv, ChildInv, LedgerInv, OneWrites, RivalPutBlock \/ RivalIndex
  PROVE  LedgerInv'
<1> DEFINE n == latestBlock.blockNumber
           block == rival.block
<1>1. /\ RivalWrites /\ UNCHANGED <<accounts, jobs>> /\ \A k \in DOMAIN jobs : ~Writes(k)
      /\ DOMAIN rival = {"pc", "block", "work", "unwritten"} /\ block.blockNumber = n + 1
  BY DEF RivalPutBlock, RivalIndex, miner, WorkerInv, Shapes, IdleRival, RivalWrites, OneWrites,
         ChildInv, IsChild
<1>2. ChainShape /\ RivalPhase /\ n \in Nat \ {0} /\ 1..n \subseteq DOMAIN blockDB
  BY DEF LedgerInv, ChainShape
<1>3. UNCHANGED <<stateDB, codeDB>>
  BY <1>1 DEF accounts
<1>4. CASE RivalPutBlock
  <2>1. /\ rival.pc = "blockDB" /\ blockDB' = Put(blockDB, block.blockNumber, block)
        /\ rival' = [rival EXCEPT !.pc = "index"] /\ UNCHANGED <<latestBlock, transactionPool>>
    BY <1>4 DEF RivalPutBlock
  <2>2. ReplayBlock(NodeLedger, block) = Result(stateDB, codeDB)
    BY <1>2, <2>1 DEF RivalPhase
  <2>3. /\ DOMAIN blockDB' = DOMAIN blockDB \cup {n + 1} /\ blockDB'[n + 1] = block
        /\ \A k \in 1..n : blockDB'[k] = blockDB[k]
    BY <1>1, <1>2, <2>1 DEF Put
  <2>4. NodeLedger' = NodeLedger
    BY <1>2, <2>1, <2>3, LedgerStays
  <2>5. ChainShape'
    BY <1>2, <1>3, <2>1, <2>3 DEF ChainShape
  <2>6. rival'.pc = "index" /\ rival'.block = block /\ RivalWrites'
    BY <1>1, <2>1 DEF RivalWrites
  <2>7. RivalPhase'
    BY <1>1, <1>3, <2>2, <2>3, <2>4, <2>6 DEF RivalPhase, Stored
  <2> QED
    BY <1>1, <2>1, <2>5, <2>6, <2>7, RivalLedger
<1>5. CASE RivalIndex
  <2>1. /\ rival.pc = "index" /\ latestBlock' = block
        /\ rival' = [rival EXCEPT !.pc = "sweep"] /\ UNCHANGED <<blockDB, transactionPool>>
    BY <1>5 DEF RivalIndex
  <2>2. /\ ReplayBlock(NodeLedger, block) = Result(stateDB, codeDB)
        /\ n + 1 \in DOMAIN blockDB /\ blockDB[n + 1] = block
    BY <1>1, <1>2, <2>1 DEF RivalPhase, Stored
  <2>3. LedgerAt(blockDB, n + 1) = ReplayBlock(LedgerAt(blockDB, n), blockDB[n + 1])
    BY <1>2, LedgerMoves
  <2>4. NodeLedger' = LedgerAt(blockDB', latestBlock'.blockNumber)
    BY DEF NodeLedger
  <2>5. NodeLedger' = Result(stateDB', codeDB')
    BY <1>1, <1>3, <2>1, <2>2, <2>3, <2>4 DEF NodeLedger
  <2>6. latestBlock'.blockNumber \in Nat \ {0} /\ 1..latestBlock'.blockNumber \subseteq DOMAIN blockDB'
    BY <1>1, <1>2, <2>1, <2>2
  <2>7. ChainShape'
    BY <1>2, <1>3, <2>1, <2>6 DEF ChainShape
  <2>8. rival'.pc = "sweep"
    BY <1>1, <2>1
  <2>9. RivalPhase' /\ AtRest'
    BY <2>5, <2>8 DEF RivalPhase, AtRest
  <2> QED
    BY <1>1, <2>1, <2>7, <2>9, RivalLedger
<1> QED
  BY <1>4, <1>5

\* Every step.
LEMMA NextLedger ==
  ASSUME PayeesStayPlain, WorkerInv, ChildInv, LedgerInv, OneWrites, OneWrites',
         [SelectsInOrder]_vars, [Next]_vars
  PROVE  LedgerInv'
<1>1. UNCHANGED vars => LedgerInv'
  BY RestLedger
<1> SUFFICES ASSUME SelectsInOrder, Next
             PROVE  LedgerInv'
  BY <1>1
<1>2. Shapes
  BY DEF WorkerInv
<1>3. ASSUME NEW j \in DOMAIN jobs, JobStep(j)
      PROVE  LedgerInv'
  BY <1>2, <1>3, CollectLedger, PutBlockLedger, IndexLedger, RewardLedger, FlushLedger, CompleteLedger
     DEF JobStep
<1>4. RivalStep => LedgerInv'
  BY RivalFlushLedger, RivalAddLedger, RestLedger DEF RivalStep
<1>5. ASSUME NEW w \in DOMAIN workers, Deliver(w) \/ Lose(w)
      PROVE  LedgerInv'
  BY <1>5, DeliverLedger, RestLedger
<1>6. Tick => LedgerInv'
  BY <1>2, TickLedger
<1>7. Solve => LedgerInv'
  BY RestLedger
<1>8. ASSUME NEW block \in PeerBlock, Receive(block)
      PROVE  LedgerInv'
  BY <1>8, ReceiveLedger
<1>9. ASSUME NEW tx \in PoolTx, Submit(tx)
      PROVE  LedgerInv'
  BY <1>9, RestLedger
<1> QED
  BY <1>3, <1>4, <1>5, <1>6, <1>7, <1>8, <1>9 DEF Next

LEMMA LedgerInvariance ==
  ASSUME PayeesStayPlain
  PROVE  Spec /\ [][TimerWaits /\ OvertakesNone /\ ForgetsNone]_vars /\ []OneWrites /\ [][SelectsInOrder]_vars
           => []LedgerInv
<1>1. WorkerInv /\ ChildInv /\ LedgerInv /\ OneWrites /\ OneWrites' /\ [SelectsInOrder]_vars /\ [Next]_vars
        => LedgerInv'
  BY NextLedger
<1> QED
  BY <1>1, InitLedger, ChildInvariance, PTL DEF Spec

\* A node that verifies the stored chain from the genesis block accepts every
\* block of it and reaches this node's accounts, whoever mined them and whatever
\* arrives during the awaits (mine(), verifyBlock), until one of five things
\* happens that the code does not guard against: one of the three that break
\* MinesOnTheTip, two handlers write at once, or a job selects while accounts
\* are being written or from a pool with a gap.  Contracts pay nobody who
\* deploys code.
THEOREM ChainIsItsLedger ==
  ASSUME PayeesStayPlain
  PROVE  Spec /\ [][TimerWaits /\ OvertakesNone /\ ForgetsNone]_vars /\ []OneWrites /\ [][SelectsInOrder]_vars
           => []LedgerIsReplay
<1>1. LedgerInv => LedgerIsReplay
  <2> SUFFICES ASSUME LedgerInv, NobodyWaits
               PROVE  Replayed = [valid |-> TRUE, db |-> stateDB, codes |-> codeDB]
    BY DEF LedgerIsReplay
  <2>1. FullyWritten
    BY DEF NobodyWaits, FullyWritten, RivalWrites, Writing
  <2> QED
    BY <2>1, ReplayedIs DEF LedgerInv, ChainShape, AtRest, NodeLedger, Result
<1> QED
  BY <1>1, LedgerInvariance, PTL

\* No flush throws then, so that every block mined or received is announced,
\* until a block becomes the latest between the writes of another and its
\* message to the peers.
THEOREM AnnouncesInOrder ==
  ASSUME PayeesStayPlain
  PROVE  Spec /\ [][TimerWaits /\ OvertakesNone /\ ForgetsNone]_vars /\ []OneWrites /\ [][SelectsInOrder]_vars
           /\ [][KeepsLatest]_vars => []OwnBlocksAnnounced
<1>1. LedgerInv => NoFlushThrows
  BY DEF LedgerInv, JobPhase, Flushing, Loaded, NoFlushThrows, CodeOf
<1>2. Spec /\ [][KeepsLatest]_vars /\ []NoFlushThrows => []OwnBlocksAnnounced
  BY AnnouncesEveryBlock
<1> QED
  BY <1>1, <1>2, LedgerInvariance, PTL

-----------------------------------------------------------------------------
(* A sweep of the pool.                                                    *)

\* The senders of these transactions have accounts.
SendersExist(db, txs) == \A i \in DOMAIN txs : db[txs[i].sender] # Absent

\* What a sweep has kept so far, and the nonces it remembers.
SweepOK(db, sweep) ==
  /\ sweep.kept \in Seq(Transaction)
  /\ sweep.maxNonce \in [Account -> Nat]
  /\ HasValidTxOrder(db, sweep.kept)
  /\ \A a \in Account : db[a] # Absent =>
       Reached(db, sweep, a) = db[a].nonce + SentUpTo(sweep.kept, Len(sweep.kept), a)

LEMMA SweepStarts ==
  ASSUME NEW db, AccountsOK(db)
  PROVE  SweepOK(db, EmptySweep)
<1>1. /\ EmptySweep.kept = << >> /\ << >> \in Seq(Transaction) /\ Len(<< >>) = 0
      /\ EmptySweep.maxNonce = [a \in Account |-> 0]
  BY DEF EmptySweep
<1>2. \A a : SentUpTo(<< >>, 0, a) = 0
  BY SentSteps
<1>3. \A a \in Account : db[a] # Absent => db[a].nonce \in Nat
  BY DEF AccountsOK, AccountState
<1>4. HasValidTxOrder(db, << >>)
  BY DEF HasValidTxOrder
<1> QED
  BY <1>1, <1>2, <1>3, <1>4 DEF SweepOK, Reached

LEMMA SweepGoesOn ==
  ASSUME NEW db, AccountsOK(db), NEW sweep, DOMAIN sweep = {"kept", "maxNonce"},
         SweepOK(db, sweep), NEW tx \in Transaction, db[tx.sender] # Absent
  PROVE  LET next == SweepRound(db, sweep, tx)
         IN  DOMAIN next = {"kept", "maxNonce"} /\ SweepOK(db, next)
<1> DEFINE next == SweepRound(db, sweep, tx)
           s == tx.sender
           kept == sweep.kept
           m == Len(kept)
           reached == Reached(db, sweep, s)
<1>1. /\ s \in Account /\ tx.nonce \in Nat /\ kept \in Seq(Transaction) /\ m \in Nat
      /\ sweep.maxNonce \in [Account -> Nat] /\ HasValidTxOrder(db, kept)
      /\ \A a \in Account : db[a] # Absent => Reached(db, sweep, a) = db[a].nonce + SentUpTo(kept, m, a)
      /\ \A a \in Account : db[a] # Absent => db[a].nonce \in Nat
      /\ \A a : SentUpTo(kept, m, a) \in Nat
  <2>1. s \in Account /\ tx.nonce \in Nat
    BY DEF Transaction
  <2>2. /\ kept \in Seq(Transaction) /\ m \in Nat /\ sweep.maxNonce \in [Account -> Nat]
        /\ HasValidTxOrder(db, kept)
        /\ \A a \in Account : db[a] # Absent => Reached(db, sweep, a) = db[a].nonce + SentUpTo(kept, m, a)
    BY DEF SweepOK
  <2>3. \A a \in Account : db[a] # Absent => db[a].nonce \in Nat
    BY DEF AccountsOK, AccountState
  <2> HIDE DEF kept, m, s
  <2>4. \A a : SentUpTo(kept, m, a) \in Nat
    BY <2>2, SentSteps
  <2> QED
    BY <2>1, <2>2, <2>3, <2>4
<1>2. reached = db[s].nonce + SentUpTo(kept, m, s) /\ reached \in Nat /\ db[s] # Absent
  BY <1>1
<1>3. CASE tx.nonce = reached + 1
  <2>1. next = [kept |-> Append(kept, tx), maxNonce |-> [sweep.maxNonce EXCEPT ![s] = tx.nonce]]
    BY <1>3 DEF SweepRound, Keeps
  <2>2. /\ DOMAIN next = {"kept", "maxNonce"} /\ next.kept = Append(kept, tx)
        /\ next.maxNonce = [sweep.maxNonce EXCEPT ![s] = tx.nonce]
    BY <2>1
  <2>3. next.maxNonce \in [Account -> Nat] /\ next.maxNonce[s] = tx.nonce
        /\ \A a \in Account \ {s} : next.maxNonce[a] = sweep.maxNonce[a]
    BY <1>1, <2>2
  <2>4. next.kept \in Seq(Transaction) /\ Len(next.kept) = m + 1
    BY <1>1, <2>2, LongerIs
  <2>5. HasValidTxOrder(db, next.kept)
    BY <1>1, <1>2, <1>3, <2>2, OrderLonger
  <2>6. \A a : SentUpTo(next.kept, m + 1, a) = SentUpTo(kept, m, a) + (IF s = a THEN 1 ELSE 0)
    BY <1>1, <2>2, SentLonger
  <2> HIDE DEF next, s, kept, m
  <2>7. ASSUME NEW a \in Account, db[a] # Absent
        PROVE  Reached(db, next, a) = db[a].nonce + SentUpTo(next.kept, m + 1, a)
    <3>1. CASE a = s
      <4>1. Reached(db, next, a) = tx.nonce
        BY <1>2, <1>3, <2>3, <3>1 DEF Reached
      <4>2. SentUpTo(next.kept, m + 1, a) = SentUpTo(kept, m, a) + 1
        BY <2>6, <3>1
      <4>3. SentUpTo(kept, m, a) \in Nat /\ db[a].nonce \in Nat
        BY <1>1, <2>7
      <4> QED
        BY <1>2, <1>3, <3>1, <4>1, <4>2, <4>3
    <3>2. CASE a # s
      <4>1. Reached(db, next, a) = Reached(db, sweep, a)
        BY <2>3, <3>2 DEF Reached
      <4>2. SentUpTo(next.kept, m + 1, a) = SentUpTo(kept, m, a) + 0
        BY <2>6, <3>2
      <4>3. SentUpTo(kept, m, a) \in Nat
        BY <1>1
      <4> QED
        BY <1>1, <2>7, <4>1, <4>2, <4>3
    <3> QED
      BY <3>1, <3>2
  <2> QED
    BY <2>2, <2>3, <2>4, <2>5, <2>7 DEF SweepOK, next
<1>4. CASE tx.nonce # reached + 1
  <2>1. next = [sweep EXCEPT !.maxNonce[s] = reached]
    BY <1>4 DEF SweepRound, Keeps
  <2>2. /\ DOMAIN next = {"kept", "maxNonce"} /\ next.kept = kept
        /\ next.maxNonce = [sweep.maxNonce EXCEPT ![s] = reached]
    <3> HIDE DEF s, reached, next
    <3> QED
      BY <2>1
  <2> HIDE DEF next, reached
  <2>3. next.maxNonce \in [Account -> Nat] /\ next.maxNonce[s] = reached
        /\ \A a \in Account \ {s} : next.maxNonce[a] = sweep.maxNonce[a]
    BY <1>1, <1>2, <2>2
  <2>4. ASSUME NEW a \in Account, db[a] # Absent
        PROVE  Reached(db, next, a) = Reached(db, sweep, a)
    <3>1. CASE a = s /\ sweep.maxNonce[s] # 0
      BY <2>3, <3>1 DEF Reached, reached
    <3>2. CASE a = s /\ sweep.maxNonce[s] = 0
      BY <2>3, <3>2 DEF Reached, reached
    <3>3. CASE a # s
      BY <2>3, <3>3 DEF Reached
    <3> QED
      BY <3>1, <3>2, <3>3
  <2> QED
    BY <1>1, <2>2, <2>3, <2>4 DEF SweepOK, next
<1> QED
  BY <1>3, <1>4

\* clearDepreciatedTxns: what it keeps can be mined as it is.  The nonces of
\* every sender go on from its account without a gap, whatever was submitted.
THEOREM SweptIsInOrder ==
  ASSUME NEW db, AccountsOK(db), NEW pool \in Seq(Transaction), SendersExist(db, pool)
  PROVE  HasValidTxOrder(db, Swept(db, pool))
<1> DEFINE After(i) == SweepFold!Prefix(db, EmptySweep, pool, i)
           Good == {i \in Nat : i <= Len(pool) =>
                     DOMAIN After(i) = {"kept", "maxNonce"} /\ SweepOK(db, After(i))}
<1>1. SweepFold!IsSequence(pool) /\ Len(pool) \in Nat /\ DOMAIN pool = 1..Len(pool)
      /\ \A i \in 1..Len(pool) : pool[i] \in Transaction
  BY DEF SweepFold!IsSequence
<1>2. Swept(db, pool) = SweepFold!Folded(db, EmptySweep, pool).kept
  BY DEF Swept, SweepNext, FoldLeft, MapThenFoldSet, Max,
         SweepFold!Folded, SweepFold!FoldLeft, SweepFold!MapThenFoldSet, SweepFold!Max
<1>3. After(0) = EmptySweep
  BY <1>1, SweepFold!PrefixBase
<1>4. ASSUME NEW i \in 1..Len(pool)
      PROVE  After(i) = SweepRound(db, After(i - 1), pool[i])
  BY <1>1, SweepFold!PrefixStep DEF SweepNext
<1>5. SweepFold!Folded(db, EmptySweep, pool) = After(Len(pool))
  BY <1>1, SweepFold!FoldedIsPrefix
<1> HIDE DEF After
<1>6. 0 \in Good
  <2>1. DOMAIN EmptySweep = {"kept", "maxNonce"}
    BY DEF EmptySweep
  <2> QED
    BY <1>3, <2>1, SweepStarts
<1>7. ASSUME NEW n \in Nat, n \in Good
      PROVE  n + 1 \in Good
  <2> SUFFICES ASSUME n + 1 <= Len(pool)
               PROVE  DOMAIN After(n + 1) = {"kept", "maxNonce"} /\ SweepOK(db, After(n + 1))
    OBVIOUS
  <2>1. n + 1 \in 1..Len(pool) /\ (n + 1) - 1 = n /\ n <= Len(pool)
    BY <1>1
  <2>2. After(n + 1) = SweepRound(db, After(n), pool[n + 1]) /\ pool[n + 1] \in Transaction
        /\ db[pool[n + 1].sender] # Absent
    BY <1>1, <1>4, <2>1 DEF SendersExist
  <2>3. DOMAIN After(n) = {"kept", "maxNonce"} /\ SweepOK(db, After(n))
    BY <1>7, <2>1
  <2> QED
    BY <2>2, <2>3, SweepGoesOn
<1>8. Nat \subseteq Good
  <2> HIDE DEF Good
  <2> QED
    BY <1>6, <1>7, SweepFold!Induction
<1>9. SweepOK(db, After(Len(pool)))
  <2>1. Len(pool) \in Good
    BY <1>1, <1>8
  <2> QED
    BY <1>1, <2>1
<1> QED
  BY <1>2, <1>5, <1>9 DEF SweepOK
=============================================================================
