------------------------------- MODULE Contracts -------------------------------
(***************************************************************************)
(* The contracts of a node: the calls of a block run one instruction at a   *)
(* time (src/core/runtime.js), on the working set of                       *)
(* Block.verifyTxAndTransit (src/core/block.js), while requests to the RPC *)
(* server (src/rpc/rpc.js) read the stores the contracts keep on disk.     *)
(*                                                                         *)
(* A store is a LevelDB directory that one handle at a time may open; one  *)
(* that finds it open fails, and the exception drops the block.  Of an     *)
(* account there is the balance and the storage root, which stands for     *)
(* the storage it is the hash of; the text of a contract stands for its    *)
(* hash.  An account and its text are written in one step, and the         *)
(* accounts in any order.  Nonces, the gas limit and deployments are in    *)
(* Ledger and Intake.                                                      *)
(***************************************************************************)
EXTENDS Jelscript

CONSTANTS
  Contract,         \* the addresses that hold a program, numbers like the others
  Program,          \* contract -> sequence of lines
  Blocks,           \* the blocks that can arrive
  InitialBalance,   \* address -> balance, of the accounts that exist
  BLOCK_REWARD,
  MaxBlocks         \* bound: blocks accepted or torn

ASSUME ContractsAssumption ==
  /\ Contract \subseteq DOMAIN InitialBalance /\ DOMAIN InitialBalance \subseteq Nat
  /\ \A b \in Blocks : b.calls \in Seq(Range(b.calls))
  /\ STEP_GAS \in Nat \ {0} /\ WORD \in Nat /\ BLOCK_REWARD \in Nat /\ MaxBlocks \in Nat

\* Amounts, arguments and operands are read behind "0x": none is negative.
ASSUME ValuesAssumption ==
  /\ IsFiniteSet(DOMAIN InitialBalance) /\ InitialBalance \in [DOMAIN InitialBalance -> Nat]
  /\ \A c \in Contract :
       /\ Program[c] \in Seq(Range(Program[c]))
       /\ \A line \in Range(Program[c]) : line.x \in Token /\ line.y \in Token
  /\ \A b \in Blocks :
       /\ b.timestamp \in Nat /\ b.difficulty \in Nat
       /\ \A call \in Range(b.calls) :
            /\ DOMAIN call = {"txsender", "to", "txvalue", "txgas", "txexecgas", "args"}
            /\ \A field \in {"txsender", "txvalue", "txgas", "txexecgas"} : call[field] \in Nat
            /\ \A i \in DOMAIN call.args : call.args[i] \in Nat

VARIABLES
  balances,   \* stateDB: address -> balance
  root,       \* stateDB: contract -> the storage its storageRoot is of
  store,      \* accountStore: contract -> storage, of the stores that exist
  lock,       \* contract -> who has its store open
  accepted,   \* number of blocks applied
  pc,         \* where verifyTxAndTransit is
  block,      \* the block it applies
  index,      \* the call of the block it is at
  run,        \* the call of jelscript under way
  states,     \* states: address -> balance, of the accounts touched
  code,       \* code: the texts of contracts that have been loaded
  storage,    \* storage: contract -> what its last call of the block left
  left,       \* contracts whose storage is still to be written
  unwritten,  \* accounts that are still to be written
  torn,       \* history: what each block had begun to write when it was dropped
  stale       \* history: contracts a torn block has left without their root

chain == <<balances, root, accepted, torn, stale>>
work == <<block, index, states, code, unwritten>>
vars == <<chain, store, lock, pc, work, run, storage, left>>

NoRun == [ptr |-> 0]

Init ==
  /\ balances = InitialBalance
  /\ root = [c \in Contract |-> << >>]
  /\ store = << >>
  /\ lock = [c \in Contract |-> "free"]
  /\ accepted = 0 /\ torn = << >> /\ stale = {}
  /\ pc = "idle" /\ block = << >> /\ index = 0 /\ run = NoRun
  /\ states = << >> /\ code = {} /\ storage = << >> /\ left = << >> /\ unwritten = {}

-----------------------------------------------------------------------------
(* The calls of a block.                                                   *)

\* What both ends of verifyTxAndTransit do: the working set is gone.
Leave ==
  /\ pc' = "idle" /\ block' = << >> /\ index' = 0 /\ run' = NoRun
  /\ states' = << >> /\ code' = {} /\ storage' = << >> /\ left' = << >> /\ unwritten' = {}

Drop == Leave /\ UNCHANGED chain

Begin(b) ==
  /\ pc = "idle" /\ accepted + Len(torn) < MaxBlocks
  /\ pc' = "call" /\ block' = b /\ index' = 1
  /\ UNCHANGED <<chain, store, lock, run, states, code, storage, left, unwritten>>

Call == block.calls[index]

Cached(a) == IF a \in DOMAIN states THEN states[a] ELSE At(balances, a)

\* The text is loaded with the account, when a transaction or the reward
\* touches it first; a payment by a contract loads none.
Loading(a) ==
  IF a \in Contract \ DOMAIN states THEN code \cup {Program[a]} ELSE code

Unloaded(a) == a \in Contract /\ Program[a] \notin code

Fee(call) == call.txgas + call.txexecgas

\* The transfer that comes before the call.
Moved(call) ==
  LET debited == Put(states, call.txsender, Cached(call.txsender) - call.txvalue - Fee(call))
  IN  Put(debited, call.to,
          (IF call.to = call.txsender THEN debited[call.to] ELSE Cached(call.to)) + call.txvalue)

Transfer ==
  /\ pc = "call" /\ index <= Len(block.calls)
  /\ UNCHANGED <<store, lock>>
  /\ IF Call.txsender \in Contract \/ Cached(Call.txsender) < Call.txvalue + Fee(Call)
     THEN Drop
     ELSE /\ states' = Moved(Call) /\ code' = Loading(Call.to)
          /\ IF Call.to \in Contract
             THEN pc' = "load" /\ UNCHANGED index
             ELSE pc' = "call" /\ index' = index + 1
          /\ UNCHANGED <<chain, block, run, storage, left, unwritten>>

\* The storage the earlier calls of the block left to this one.
OriginalStorage(c) == IF c \in DOMAIN storage THEN storage[c] ELSE << >>

Started(c, loaded) ==
  [ptr |-> 1, gas |-> Call.txexecgas, memory |-> << >>, args |-> Call.args, state |-> states,
   storage |-> loaded, address |-> c,
   info |-> Over(Call, [timestamp |-> block.timestamp, difficulty |-> block.difficulty,
                        blocknumber |-> accepted + 1])]

\* new Level(...): the directory is made if there is none.
OpenStore(c) ==
  /\ lock[c] = "free"
  /\ lock' = [lock EXCEPT ![c] = "node"]
  /\ store' = IF c \in DOMAIN store THEN store ELSE Put(store, c, << >>)

\* input.trim() throws on a text that is not there.  The store is read only
\* when no call of the block has left a storage, and the one that is left is
\* not copied.
Load ==
  /\ pc = "load"
  /\ \/ Unloaded(Call.to) /\ Drop /\ UNCHANGED <<store, lock>>
     \/ /\ ~Unloaded(Call.to)
        /\ OriginalStorage(Call.to) = << >>
        /\ \/ OpenStore(Call.to) /\ pc' = "read" /\ UNCHANGED <<chain, work, run, storage, left>>
           \/ lock[Call.to] # "free" /\ Drop /\ UNCHANGED <<store, lock>>
     \/ /\ ~Unloaded(Call.to)
        /\ OriginalStorage(Call.to) # << >>
        /\ pc' = "run" /\ run' = Started(Call.to, << >>)
        /\ UNCHANGED <<chain, store, lock, work, storage, left>>

\* Mutant: the store is not closed once it has been read.
ReadAndKeep ==
  /\ pc = "read"
  /\ pc' = "run" /\ run' = Started(Call.to, store[Call.to])
  /\ UNCHANGED <<chain, store, lock, work, storage, left>>

ReadStore ==
  /\ pc = "read"
  /\ lock' = [lock EXCEPT ![Call.to] = "free"]
  /\ pc' = "run" /\ run' = Started(Call.to, store[Call.to])
  /\ UNCHANGED <<chain, store, work, storage, left>>

-----------------------------------------------------------------------------
(* A run.                                                                  *)

Instruction ==
  /\ pc = "run" /\ Verdict(Program[run.address], run) = "continues"
  /\ run' = Paid(run, Execute(Program[run.address], balances, run))
  /\ UNCHANGED <<chain, store, lock, pc, work, storage, left>>

\* The caller takes a pair apart and is given the state alone.
Throw ==
  /\ pc = "run" /\ Verdict(Program[run.address], run) \in {"reverts", "starves"}
  /\ Drop /\ UNCHANGED <<store, lock>>

Return ==
  /\ pc = "run" /\ Verdict(Program[run.address], run) = "done"
  /\ states' = run.state
  /\ storage' = Put(storage, run.address, run.storage)
  /\ left' = IF run.address \in DOMAIN storage THEN left ELSE Append(left, run.address)
  /\ pc' = "call" /\ index' = index + 1 /\ run' = NoRun
  /\ UNCHANGED <<chain, store, lock, block, code, unwritten>>

-----------------------------------------------------------------------------
(* The writes: the stores, and then the accounts.                          *)

Fees(calls) == FoldLeft(LAMBDA sum, call : sum + Fee(call), 0, calls)

PayCoinbase ==
  /\ pc = "call" /\ index > Len(block.calls)
  /\ states' = Put(states, block.coinbase,
                   Cached(block.coinbase) + BLOCK_REWARD + Fees(block.calls))
  /\ code' = Loading(block.coinbase)
  /\ unwritten' = DOMAIN states'
  /\ pc' = "flush"
  /\ UNCHANGED <<chain, store, lock, block, index, run, storage, left>>

\* A block is dropped in the middle of its writes.
Tear(what, rootless) ==
  /\ torn' = Append(torn, what) /\ stale' = rootless
  /\ Leave /\ UNCHANGED accepted

\* Mutant: a store that cannot be opened is passed over.
FlushWhatOpens ==
  /\ pc = "flush" /\ left # << >>
  /\ \/ /\ OpenStore(Head(left)) /\ pc' = "put"
        /\ UNCHANGED <<chain, work, run, storage, left>>
     \/ /\ lock[Head(left)] # "free" /\ left' = Tail(left)
        /\ UNCHANGED <<chain, store, lock, pc, work, run, storage>>

\* The contracts of the block whose stores have been written.
PutSoFar == {c \in DOMAIN storage \ Range(left) : storage[c] # << >>}

\* Without a key there is no put that could fail.
Flush ==
  /\ pc = "flush" /\ left # << >>
  /\ \/ /\ OpenStore(Head(left)) /\ pc' = "put"
        /\ UNCHANGED <<chain, work, run, storage, left>>
     \/ /\ lock[Head(left)] # "free" /\ storage[Head(left)] # << >>
        /\ IF PutSoFar = {} THEN Drop
           ELSE Tear("stores", stale \cup PutSoFar) /\ UNCHANGED <<balances, root>>
        /\ UNCHANGED <<store, lock>>
     \/ /\ lock[Head(left)] # "free" /\ storage[Head(left)] = << >>
        /\ left' = Tail(left)
        /\ UNCHANGED <<chain, store, lock, pc, work, run, storage>>

PutKeys ==
  /\ pc = "put"
  /\ store' = [store EXCEPT ![Head(left)] = Over(storage[Head(left)], @)]
  /\ lock' = [lock EXCEPT ![Head(left)] = "free"]
  /\ left' = Tail(left) /\ pc' = "flush"
  /\ UNCHANGED <<chain, work, run, storage>>

\* stateDB.put of one account, and codeDB.put, which throws on a text that was
\* never loaded: the accounts written before, and this one, stay, and the
\* block is not adopted.
PutAccount ==
  /\ pc = "flush" /\ left = << >>
  /\ \E a \in unwritten :
       /\ balances' = Put(balances, a, states[a])
       /\ root' = IF a \in DOMAIN storage THEN [root EXCEPT ![a] = storage[a]] ELSE root
       /\ \/ /\ Unloaded(a)
             /\ Tear("accounts", (stale \ DOMAIN storage) \cup (DOMAIN storage \cap (unwritten \ {a})))
          \/ /\ ~Unloaded(a) /\ unwritten = {a}
             /\ accepted' = accepted + 1 /\ stale' = stale \ DOMAIN storage
             /\ Leave /\ UNCHANGED torn
          \/ /\ ~Unloaded(a) /\ unwritten # {a}
             /\ unwritten' = unwritten \ {a}
             /\ UNCHANGED <<accepted, torn, stale, pc, block, index, run, states, code, storage, left>>
  /\ UNCHANGED <<store, lock>>

-----------------------------------------------------------------------------
(* The RPC server.                                                         *)

\* get_storage closes the store only when it finds the key.
GetStorage(c, key) ==
  /\ c \in DOMAIN store /\ lock[c] = "free"
  /\ lock' = [lock EXCEPT ![c] = IF key \in DOMAIN store[c] THEN "reader" ELSE "leaked"]
  /\ UNCHANGED <<chain, store, pc, work, run, storage, left>>

GetStorageKeys(c) ==
  /\ c \in DOMAIN store /\ lock[c] = "free"
  /\ lock' = [lock EXCEPT ![c] = "reader"]
  /\ UNCHANGED <<chain, store, pc, work, run, storage, left>>

\* The handle is closed: by the request, or by the garbage collector.
Release(c) ==
  /\ lock[c] \in {"reader", "leaked"}
  /\ lock' = [lock EXCEPT ![c] = "free"]
  /\ UNCHANGED <<chain, store, pc, work, run, storage, left>>

-----------------------------------------------------------------------------
\* No block calls a contract twice.
OneCallEach ==
  \A b \in Blocks : \A i, j \in DOMAIN b.calls :
    b.calls[i].to \in Contract /\ b.calls[j].to = b.calls[i].to => i = j

Node ==
  \/ Transfer \/ Load \/ ReadStore \/ Instruction \/ Throw \/ Return
  \/ PayCoinbase \/ Flush \/ PutKeys \/ PutAccount

Rpc(c) == GetStorageKeys(c) \/ Release(c) \/ \E key \in {0, 1} : GetStorage(c, key)

Next == Node \/ (\E b \in Blocks : Begin(b)) \/ \E c \in Contract : Rpc(c)

Spec == Init /\ [][Next]_vars

\* The node goes on with the block it has begun.
FairSpec == Spec /\ WF_vars(Node)

-----------------------------------------------------------------------------
(* Properties.                                                             *)

Balances == Over(states, balances)

\* The balances that count: those of the run, of the block, of the disk.
InForce == IF pc = "run" THEN Over(run.state, balances) ELSE Balances

\* Every balance is a number, also in the middle of a run.
TypeOK ==
  /\ \A a \in DOMAIN InForce : InForce[a] \in Nat
  /\ DOMAIN store \subseteq Contract /\ DOMAIN storage \subseteq Contract
  /\ stale \subseteq Contract
  /\ lock \in [Contract -> {"free", "node", "reader", "leaked"}]
  /\ pc \in {"idle", "call", "load", "read", "run", "flush", "put"}
  /\ accepted \in 0..MaxBlocks

\* The fees that senders have paid and no one has got yet.
FeesDue ==
  IF pc \in {"idle", "flush", "put"} THEN 0
  ELSE Fees(SubSeq(block.calls, 1, IF pc = "call" THEN index - 1 ELSE index))

Rewarded == IF pc \in {"flush", "put"} THEN accepted + 1 ELSE accepted

\* Contracts neither make nor destroy money, whether they pay themselves, who
\* called them, who mines the block or another contract: at every instruction
\* and between any two writes, the balances and the fees due are what the
\* initial balances and the rewards make, until the first block that throws
\* between its accounts.
Conserved ==
  "accounts" \notin Range(torn) =>
    FoldFunction(+, 0, InForce) + FeesDue
      = FoldFunction(+, 0, InitialBalance) + Rewarded * BLOCK_REWARD

\* The node has a store open only while it reads or writes it, however the
\* block ends: a handle left open would fail every later call.
StoreClosedBehind ==
  \A c \in Contract :
    lock[c] = "node" => \/ pc = "read" /\ c = Call.to
                        \/ pc = "put" /\ c = Head(left)

\* Between blocks a store holds what the storage root of its account is the
\* hash of: a block dropped before its first write (a run reverted or ran out
\* of gas, a sender could not pay, a text was not loaded, a request had the
\* store open) has written nothing, and one dropped in the middle of its writes
\* leaves the store of a contract without its root only until the next block
\* that calls it.
RootDescribesStore ==
  pc = "idle" => \A c \in DOMAIN store \ stale : store[c] = root[c]

\* "data will be kept on your computer and can be reused in the future"
\* (CONTRACT.md): a call begins with the storage that the calls before it
\* have left.
StorageIsKept ==
  pc = "run" /\ run.ptr = 1 =>
    run.storage = Over(OriginalStorage(run.address), store[run.address])

\* "For every instructions, you will lose 10000000 Jem, preventing infinite
\* loops" (CONTRACT.md): every block that is begun is done with.
BlocksEnd == pc # "idle" ~> pc = "idle"

=============================================================================
