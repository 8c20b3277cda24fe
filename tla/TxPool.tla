-------------------------------- MODULE TxPool --------------------------------
(***************************************************************************)
(* The transaction pool of a synced JeChain node: the CREATE_TRANSACTION   *)
(* handler and sendTransaction (src/node/server.js), addTransaction and    *)
(* clearDepreciatedTxns (src/core/txPool.js), against the adoption of      *)
(* blocks, which writes the accounts they read and replaces the pool.      *)
(*                                                                         *)
(* The pool is a JavaScript array that is mutated by push and replaced by  *)
(* every sweep, and code that awaits a store may hold the array that was   *)
(* the pool before.  arrays is the sequence of arrays that have been the   *)
(* pool; the last one is chainInfo.transactionPool.                        *)
(*                                                                         *)
(* How a block comes to be adopted is in Intake; here one adopter at a     *)
(* time writes the accounts of a valid block and then sweeps the pool.     *)
(***************************************************************************)
EXTENDS PoolRules

CONSTANTS
  Handler,         \* submissions that can be in progress at once
  Entry,           \* ways to submit: "message" and "rpc"
  PoolTx,          \* the transactions submitted, any number of times
  Block,           \* the blocks that may be adopted
  InitialLedger

ASSUME PoolAssumption ==
  /\ Entry \subseteq {"message", "rpc"}
  /\ PoolTx \subseteq Transaction
  /\ \A block \in Block : block.txs \in Seq(Transaction) /\ block.coinbase \in Account
  /\ InitialLedger \in [Account -> AccountState \cup {Absent}]

VARIABLES
  stateDB,
  arrays,      \* the arrays that have been chainInfo.transactionPool, in order
  task,        \* handler -> the submission it works on
  adopter,     \* the adoption in progress and its sweep
  added,       \* transactions reported as added to the pool
  relayed      \* transactions sent on by the message handler, in order

vars == <<stateDB, arrays, task, adopter, added, relayed>>

IdleTask == [pc |-> "idle", entry |-> "message", tx |-> [sender |-> Absent], array |-> 1]
IdleAdopter == [pc |-> "idle", states |-> << >>, unwritten |-> {},
                swept |-> 0, sweep |-> EmptySweep]

Init ==
  /\ stateDB = InitialLedger
  /\ arrays = << << >> >>
  /\ task = [h \in Handler |-> IdleTask]
  /\ adopter = IdleAdopter
  /\ added = {}
  /\ relayed = << >>

transactionPool == Last(arrays)

-----------------------------------------------------------------------------
(* Submissions.                                                            *)

At(h, pc) == task[h].pc = pc
Finish(h) == task' = [task EXCEPT ![h] = IdleTask]

Submit(h, entry, tx) ==
  /\ At(h, "idle")
  /\ task' = [task EXCEPT ![h] = [pc |-> "valid", entry |-> entry, tx |-> tx, array |-> 1]]
  /\ UNCHANGED <<stateDB, arrays, adopter, added, relayed>>

\* Transaction.isValid, and for addTransaction the gas limit and the array
\* that is the pool at this moment.  The message handler checks no gas.
CheckValid(h) ==
  /\ At(h, "valid")
  /\ LET t == task[h]
     IN  IF /\ IsValid(stateDB, t.tx)
            /\ t.entry = "rpc" => t.tx.contractGas <= BLOCK_GAS_LIMIT
         THEN task' = [task EXCEPT ![h].pc = "nonce", ![h].array = Len(arrays)]
         ELSE Finish(h)
  /\ UNCHANGED <<stateDB, arrays, adopter, added, relayed>>

\* The message handler looks up the pool after its awaits, addTransaction
\* uses the array it found before the last one.
TargetArray(h) == IF task[h].entry = "rpc" THEN task[h].array ELSE Len(arrays)

CheckNonce(h) ==
  /\ At(h, "nonce")
  /\ LET t == task[h]
         target == TargetArray(h)
     IN  IF MaxNonce(stateDB, arrays[target], t.tx) + 1 = t.tx.nonce
         THEN /\ arrays' = [arrays EXCEPT ![target] = Append(@, t.tx)]
              /\ added' = added \cup {t.tx}
              /\ relayed' = IF t.entry = "message" THEN Append(relayed, t.tx) ELSE relayed
         ELSE UNCHANGED <<arrays, added, relayed>>
  /\ Finish(h)
  /\ UNCHANGED <<stateDB, adopter>>

-----------------------------------------------------------------------------
(* The adoption of a block and the sweep that follows it.                  *)

Adopt(block) ==
  LET work == Transit(stateDB, Code \cup {EMPTY_HASH}, block)
  IN  /\ adopter.pc = "idle"
      /\ HasValidTxOrder(stateDB, block.txs)
      /\ work.status = "ok"
      /\ adopter' = [IdleAdopter EXCEPT !.pc = "flush", !.states = work.states,
                                        !.unwritten = DOMAIN work.states]
      /\ UNCHANGED <<stateDB, arrays, task, added, relayed>>

FlushAccount ==
  /\ adopter.pc = "flush"
  /\ \E a \in adopter.unwritten :
       /\ stateDB' = [stateDB EXCEPT ![a] = adopter.states[a]]
       /\ adopter' = [adopter EXCEPT !.unwritten = @ \ {a},
                        !.pc = IF adopter.unwritten = {a} THEN "index" ELSE "flush"]
  /\ UNCHANGED <<arrays, task, added, relayed>>

\* The end of clearDepreciatedTxns: its result becomes the pool.
Replace(kept) ==
  /\ arrays' = Append(arrays, kept)
  /\ adopter' = IdleAdopter

\* The block is on the chain; clearDepreciatedTxns runs to its first await.
StartSweep ==
  /\ adopter.pc = "index"
  /\ IF transactionPool = << >>
     THEN Replace(<< >>)
     ELSE arrays' = arrays /\ adopter' = [adopter EXCEPT !.pc = "sweep"]
  /\ UNCHANGED <<stateDB, task, added, relayed>>

\* One round of the loop, which sees what is pushed while it runs.
SweepTx ==
  /\ adopter.pc = "sweep"
  /\ LET tx == transactionPool[adopter.swept + 1]
         sweep == SweepRound(stateDB, adopter.sweep, tx)
     IN  IF adopter.swept + 1 = Len(transactionPool)
         THEN Replace(sweep.kept)
         ELSE /\ arrays' = arrays
              /\ adopter' = [adopter EXCEPT !.swept = @ + 1, !.sweep = sweep]
  /\ UNCHANGED <<stateDB, task, added, relayed>>

-----------------------------------------------------------------------------
Next ==
  \/ \E h \in Handler, entry \in Entry, tx \in PoolTx : Submit(h, entry, tx)
  \/ \E h \in Handler : CheckValid(h) \/ CheckNonce(h)
  \/ \E block \in Block : Adopt(block)
  \/ FlushAccount \/ StartSweep \/ SweepTx

Spec == Init /\ [][Next]_vars

-----------------------------------------------------------------------------
(* Correctness.                                                            *)

\* Between two adoptions the pool is the body of a valid block: for each
\* sender its nonces continue the account's without a gap or a repetition.
\* mine() takes transactions in this order and checks no nonce.
PoolIsMineable == adopter.pc = "idle" => HasValidTxOrder(stateDB, transactionPool)

\* A transaction that was added stays in the pool until its account has
\* executed that nonce ("Added one transaction to pool.", addTransaction).
NoneLost ==
  \A tx \in added : tx \in Range(transactionPool) \/ tx.nonce <= stateDB[tx.sender].nonce

\* A transaction is flooded by a node at most once.
RelayedOnce == IsInjective(relayed)

=============================================================================
