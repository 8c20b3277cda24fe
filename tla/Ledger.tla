------------------------------- MODULE Ledger -------------------------------
(***************************************************************************)
(* The account state of a JeChain node and what a block does to it         *)
(* (src/core/block.js, src/core/transaction.js, src/core/runtime.js,       *)
(* src/consensus/consensus.js).  Only operators: every process that reads  *)
(* or writes the state (block intake, miner, pool) shares them.            *)
(*                                                                         *)
(* Abstractions.  An address, a code hash and a block hash are values that *)
(* are only compared.  The sender of a transaction, which the code         *)
(* recovers from the signature, is a field.  A contract is the summary of  *)
(* its run given by Program: how many instructions it executes, whether    *)
(* it ends in "revert", and the one "send" it makes.  Contract storage is  *)
(* left out: no balance, nonce or validity check reads it.                 *)
(***************************************************************************)
EXTENDS Naturals, Sequences, FiniteSets, SequencesExt

CONSTANTS
  Account,          \* addresses
  Code,             \* hashes of contract code
  EMPTY_HASH,       \* the code hash of an account without code
  Absent,           \* what stateDB.get finds at an unused address
  Program,          \* code hash -> [steps, revert, amount, payee]
  STEP_GAS,         \* gas of one instruction (10000000 in runtime.js)
  BLOCK_REWARD,
  BLOCK_GAS_LIMIT

ASSUME LedgerAssumption ==
  /\ IsFiniteSet(Account)
  /\ EMPTY_HASH \notin Code
  /\ BLOCK_REWARD \in Nat /\ BLOCK_GAS_LIMIT \in Nat /\ STEP_GAS \in Nat
  /\ \A c \in Code : Program[c].payee \in Account /\ Program[c].amount \in Nat

CodeHash == Code \cup {EMPTY_HASH}
AccountState == [balance : Nat, nonce : Nat, codeHash : CodeHash]

ASSUME AbsentAssumption == Absent \notin AccountState

\* A transaction as the decoding of a block yields it: every number is read
\* behind "0x", so none is negative.
Transaction ==
  [sender : Account, recipient : Account, nonce : Nat, amount : Nat, gas : Nat,
   contractGas : Nat, scBody : CodeHash]

Fresh == [balance |-> 0, nonce |-> 0, codeHash |-> EMPTY_HASH]

\* db.put(key, value)
Put(db, key, value) ==
  [k \in DOMAIN db \cup {key} |-> IF k = key THEN value ELSE db[k]]

TotalAmountToPay(tx) == tx.amount + tx.gas + tx.contractGas

\* The hash of a transaction covers its contents and not its signature, so
\* two senders can sign transactions of one hash.
TxHash(tx) == [f \in (DOMAIN tx) \ {"sender"} |-> tx[f]]

-----------------------------------------------------------------------------
(* Checks on the transactions of a block before any of them is executed.  *)

IsPlainAccount(db, a) == db[a] # Absent /\ db[a].codeHash = EMPTY_HASH

\* Transaction.isValid: the sender exists and is not a contract.
IsValid(db, tx) == IsPlainAccount(db, tx.sender)

\* Block.hasValidTxOrder: for each sender, nonces continue the account's.
SentBefore(txs, i) == Cardinality({j \in 1..(i - 1) : txs[j].sender = txs[i].sender})

HasValidTxOrder(db, txs) ==
  \A i \in DOMAIN txs :
    /\ db[txs[i].sender] # Absent
    /\ txs[i].nonce = db[txs[i].sender].nonce + SentBefore(txs, i) + 1

-----------------------------------------------------------------------------
(* The execution of one transaction on the working set of a block: states  *)
(* caches the accounts touched so far and code the code hashes whose text   *)
(* has been loaded; an account the runtime pays is cached without its code. *)

EmptyWork == [status |-> "ok", states |-> << >>, code |-> {}]

Fail(work, status) == [work EXCEPT !.status = status]

\* The cached copy of an account, as the blocks "Cache the state of ..."
\* leave it: an address that is not in the state, or whose code cannot be
\* read, is cached as an empty account.
CacheAccount(db, codes, work, a) ==
  IF a \in DOMAIN work.states THEN work
  ELSE LET known == db[a] # Absent /\ db[a].codeHash \in codes
           state == IF known THEN db[a] ELSE Fresh
       IN  [work EXCEPT !.states = Put(@, a, state),
                        !.code = @ \cup {state.codeHash}]

Credit(work, a, amount) == [work EXCEPT !.states[a].balance = @ + amount]
Debit(work, a, amount) == [work EXCEPT !.states[a].balance = @ - amount]

\* Mutant: the balance is not compared with the total.
CanPayAnything(work, tx) == work.states[tx.sender].codeHash = EMPTY_HASH

CanPay(work, tx) ==
  /\ work.states[tx.sender].codeHash = EMPTY_HASH
  /\ work.states[tx.sender].balance >= TotalAmountToPay(tx)

\* A transaction that carries code turns its sender into a contract.
Deploy(work, tx) ==
  IF tx.scBody = EMPTY_HASH THEN work
  ELSE [work EXCEPT !.states[tx.sender].codeHash = tx.scBody,
                    !.code = @ \cup {tx.scBody}]

\* The "send" of a contract: the payee is cached without its code.
Send(db, work, contract, payee, amount) ==
  IF work.states[contract].balance < amount THEN work
  ELSE LET cached == IF payee \in DOMAIN work.states THEN work
                     ELSE [work EXCEPT !.states =
                             Put(@, payee, IF db[payee] = Absent THEN Fresh ELSE db[payee])]
       IN  Debit(Credit(cached, payee, amount), contract, amount)

\* jelscript: a run that reverts or lacks gas returns the state alone where
\* its caller destructures a pair, so the caller throws; so does a call of a
\* contract whose text was never loaded.
RunContract(db, work, tx) ==
  LET hash == work.states[tx.recipient].codeHash
      program == Program[hash]
  IN  IF hash = EMPTY_HASH THEN work
      ELSE IF \/ hash \notin work.code
              \/ program.revert
              \/ tx.contractGas < program.steps * STEP_GAS
           THEN Fail(work, "throws")
           ELSE Send(db, work, tx.recipient, program.payee, program.amount)

Execute(db, codes, work, tx) ==
  LET paid   == Debit(work, tx.sender, TotalAmountToPay(tx))
      moved  == Credit(CacheAccount(db, codes, paid, tx.recipient), tx.recipient, tx.amount)
      coded  == Deploy(moved, tx)
      counted == [coded EXCEPT !.states[tx.sender].nonce = @ + 1]
  IN  RunContract(db, counted, tx)

\* One round of the loop of verifyTxAndTransit.  totalTxGas stays 0 there, so
\* the gas limit bounds each transaction and not the block.
SettleTx(db, codes, work, tx) ==
  LET cached == CacheAccount(db, codes, work, tx.sender)
  IN  IF work.status # "ok" THEN work
      ELSE IF tx.contractGas >= BLOCK_GAS_LIMIT \/ ~CanPay(cached, tx)
           THEN Fail(work, "invalid")
           ELSE Execute(db, codes, cached, tx)

\* Mutant: the gas that contracts were given is not collected.
FeesOfGas(txs) == FoldLeft(LAMBDA sum, tx : sum + tx.gas, 0, txs)

Fees(txs) == FoldLeft(LAMBDA sum, tx : sum + tx.gas + tx.contractGas, 0, txs)

PayCoinbase(db, codes, work, block) ==
  Credit(CacheAccount(db, codes, work, block.coinbase), block.coinbase,
         BLOCK_REWARD + Fees(block.txs))

\* The whole loop.
Settle(db, codes, txs) ==
  FoldLeft(LAMBDA work, tx : SettleTx(db, codes, work, tx), EmptyWork, txs)

\* Block.verifyTxAndTransit up to its writes: the verdict on the block and
\* the accounts it would write.
Transit(db, codes, block) ==
  LET settled == Settle(db, codes, block.txs)
  IN  IF \E i \in DOMAIN block.txs : ~IsValid(db, block.txs[i]) THEN Fail(EmptyWork, "invalid")
      ELSE IF settled.status # "ok" THEN settled
      ELSE PayCoinbase(db, codes, settled, block)

\* The state once every account of states has been written over db.
Overlay(db, states) ==
  [a \in DOMAIN db |-> IF a \in DOMAIN states THEN states[a] ELSE db[a]]

\* The code hashes of the accounts of states.
CodeOf(states) == {states[a].codeHash : a \in DOMAIN states}

\* What the accounts of db hold together.
Balance(db, a) == IF db[a] = Absent THEN 0 ELSE db[a].balance
Supply(db) == FoldSet(LAMBDA a, sum : sum + Balance(db, a), 0, Account)

-----------------------------------------------------------------------------
(* Difficulty (updateDifficulty in src/consensus/consensus.js).            *)

\* Mutant: Math.floor in place of Math.ceil.
FloorDiv(n, d) == n \div d

\* Math.ceil(n / d)
CeilDiv(n, d) == (n + d - 1) \div d

Retarget(difficulty, epoch, blockTime, first, last) ==
  CeilDiv(difficulty * epoch * blockTime, last.timestamp - first.timestamp)

=============================================================================
