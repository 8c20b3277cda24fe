--------------------------------- MODULE Wire ---------------------------------
(***************************************************************************)
(* How accounts, transactions and blocks are written and read              *)
(* (src/utils/utils.js, src/core/transaction.js, src/core/block.js), and    *)
(* the tree over the transactions of a block (Merkle).  One account is      *)
(* paid, signs transactions and is charged for them in blocks that travel   *)
(* as bytes.                                                               *)
(*                                                                         *)
(* Bytes are sequences of digits, two to a byte.  The base and the widths   *)
(* are parameters (16, and 22 for an amount, in the code).  padStart only   *)
(* fills: a value that is too wide is written whole and moves what follows  *)
(* it, so the balance and the number of transactions are bounded where     *)
(* their fields end.  A hash, a key or a signature is a number that fits   *)
(* its field; the text of a contract is digits.                            *)
(***************************************************************************)
EXTENDS Merkle

CONSTANTS
  BASE,
  HASH,        \* digits of a hash, an address or half of a signature: 64
  AMOUNT,      \* of a balance, an amount, a gas: 22
  NONCE,       \* of the nonce of an account, a block number, an offset: 8
  TX_NONCE,    \* of the nonce of a transaction: 6
  LONG,        \* of the nonce, the timestamp and the difficulty of a block: 10, 12, 16
  Income,      \* what the account can be paid at once
  Payments,    \* what can be signed: [recipient, amount, gas, data], signature <<r, s, v>>
  Headers,     \* the headers of blocks, as their numbers in order
  MaxTxs       \* bound: transactions in a block

ASSUME WireAssumption ==
  /\ BASE \in Nat \ {0, 1} /\ MaxTxs \in Nat
  /\ {HASH, AMOUNT, NONCE, TX_NONCE, LONG} \subseteq {2 * k : k \in 1..32}
  /\ \A p \in Payments : p.recipient < BASE ^ HASH /\ p.amount < BASE ^ AMOUNT

VARIABLES
  account,    \* [balance, codeHash, nonce, storageRoot]: what the node means
  record,     \* stateDB: the bytes that say it
  signed,     \* the transactions signed since the last block, in order
  sent,       \* a block on its way, as its miner means it
  bytes       \* its bytes

vars == <<account, record, signed, sent, bytes>>

-----------------------------------------------------------------------------
(* Numbers and fields.                                                     *)

\* value.toString(16)
Digits[v \in Nat] ==
  IF v < BASE THEN <<v>> ELSE Append(Digits[v \div BASE], v % BASE)

Number(digits) == FoldLeft(LAMBDA n, d : n * BASE + d, 0, digits)

Zeros(n) == [i \in 1..n |-> 0]

\* padStart(width, "0")
Field(v, width) == Zeros(width - Len(Digits[v])) \o Digits[v]

Whole(digits) == IF Len(digits) % 2 = 0 THEN digits ELSE <<0>> \o digits

First(digits, n) == SubSeq(digits, 1, IF n < Len(digits) THEN n ELSE Len(digits))
From(digits, n) == SubSeq(digits, n + 1, Len(digits))

Write(values, widths) == FlattenSeq([i \in DOMAIN widths |-> Field(values[i], widths[i])])

\* The fields of the widths given, cut off the front one after the other.
Read(digits, widths) ==
  LET before(i) == FoldLeft(+, 0, SubSeq(widths, 1, i - 1))
  IN  [i \in DOMAIN widths |-> Number(First(From(digits, before(i)), widths[i]))]

After(digits, widths) == From(digits, FoldLeft(+, 0, widths))

\* Mutant: a size counts digits, and not bytes.
PackedByDigits(items) ==
  FlattenSeq([i \in DOMAIN items |-> Field(Len(items[i]), NONCE) \o items[i]])

\* Each item after its size in bytes.
Packed(items) ==
  FlattenSeq([i \in DOMAIN items |-> Field(Len(items[i]) \div 2, NONCE) \o items[i]])

Unpacked[digits \in Seq(Nat)] ==
  IF digits = << >> THEN << >>
  ELSE LET size == 2 * Number(First(digits, NONCE))
           rest == From(digits, NONCE)
       IN  <<First(rest, size)>> \o Unpacked[From(rest, size)]

-----------------------------------------------------------------------------
(* Accounts.                                                               *)

StateWidths == <<AMOUNT, HASH, NONCE, HASH>>

SerializeState(state) ==
  Write(<<state.balance, state.codeHash, state.nonce, state.storageRoot>>, StateWidths)

DeserializeState(digits) ==
  LET f == Read(digits, StateWidths)
  IN  [balance |-> f[1], codeHash |-> f[2], nonce |-> f[3], storageRoot |-> f[4]]

-----------------------------------------------------------------------------
(* Transactions.                                                           *)

TxWidths == <<HASH, AMOUNT, AMOUNT, TX_NONCE, HASH, HASH, 2>>

Deploy == 0
Call == 1
Neither == 2

ArgDigits(arg) == Whole(Digits[arg])

SerializeData(data) ==
  Field(data.flag, 2) \o
    CASE data.flag = Deploy -> Whole(data.scBody)
      [] data.flag = Call -> Field(data.contractGas, AMOUNT)
                               \o Packed([i \in DOMAIN data.txCallArgs |-> ArgDigits(data.txCallArgs[i])])
      [] OTHER -> << >>

DeserializeData(flag, digits) ==
  CASE flag = Deploy -> [flag |-> flag, scBody |-> digits]
    [] flag = Call ->
         LET args == Unpacked[From(digits, AMOUNT)]
         IN  [flag |-> flag, contractGas |-> Number(First(digits, AMOUNT)),
              txCallArgs |-> [i \in DOMAIN args |-> Number(args[i])]]
    [] OTHER -> [flag |-> Neither]

Serialize(tx) ==
  Write(<<tx.recipient, tx.amount, tx.gas, tx.nonce>> \o tx.signature, TxWidths)
    \o SerializeData(tx.data)

Deserialize(digits) ==
  LET f == Read(digits, TxWidths)
      data == After(digits, TxWidths)
  IN  [recipient |-> f[1], amount |-> f[2], gas |-> f[3], nonce |-> f[4],
       signature |-> <<f[5], f[6], f[7]>>,
       data |-> DeserializeData(Number(First(data, 2)), From(data, 2))]

\* What getHash covers.
Content(tx) == [f \in DOMAIN tx \ {"signature"} |-> tx[f]]

-----------------------------------------------------------------------------
(* Blocks: number, timestamp, difficulty, parent hash, nonce, root,         *)
(* coinbase, hash, and the transactions.                                   *)

HeaderWidths == <<NONCE, LONG, LONG, HASH, LONG, HASH, HASH, HASH>>

SerializeBlock(block) ==
  Write(block.header, HeaderWidths)
    \o Packed([i \in DOMAIN block.transactions |-> Serialize(block.transactions[i])])

DeserializeBlock(digits) ==
  LET txs == Unpacked[After(digits, HeaderWidths)]
  IN  [header |-> Read(digits, HeaderWidths),
       transactions |-> [i \in DOMAIN txs |-> Deserialize(txs[i])]]

-----------------------------------------------------------------------------
(* The account, and the blocks.                                            *)

NoBlock == [header |-> << >>, transactions |-> << >>]

Fresh == [balance |-> 0, codeHash |-> BASE ^ HASH - 1, nonce |-> 0, storageRoot |-> 1]

Init ==
  /\ account = Fresh /\ record = SerializeState(Fresh)
  /\ signed = << >> /\ sent = NoBlock /\ bytes = << >>

\* The last block has been read everywhere.
Delivered == sent' = NoBlock /\ bytes' = << >>

\* Mutant: the nonce is written back as wide as that of a transaction.
RewrittenNarrow(balance, nonce) ==
  /\ account' = [account EXCEPT !.balance = @ + balance, !.nonce = @ + nonce]
  /\ LET state == DeserializeState(record)
     IN  record' = Write(<<state.balance + balance, state.codeHash, state.nonce + nonce,
                           state.storageRoot>>, <<AMOUNT, HASH, TX_NONCE, HASH>>)

\* The state is read, changed and written.
Rewritten(balance, nonce) ==
  /\ account' = [account EXCEPT !.balance = @ + balance, !.nonce = @ + nonce]
  /\ LET state == DeserializeState(record)
     IN  record' = SerializeState([state EXCEPT !.balance = @ + balance, !.nonce = @ + nonce])

Earn(amount) ==
  /\ account.balance + amount < BASE ^ AMOUNT
  /\ Rewritten(amount, 0) /\ Delivered
  /\ UNCHANGED signed

Cost(p) == p.amount + p.gas + (IF p.data.flag = Call THEN p.data.contractGas ELSE 0)

CostOf(txs) == FoldLeft(LAMBDA sum, tx : sum + Cost(tx), 0, txs)

\* The nonce a wallet signs with is the one after those of its account and
\* of the transactions that wait.
Sign(p) ==
  /\ Len(signed) < MaxTxs
  /\ LET nonce == DeserializeState(record).nonce + Len(signed) + 1
     IN  /\ nonce < BASE ^ TX_NONCE
         /\ CostOf(signed) + Cost(p) <= account.balance
         /\ signed' = Append(signed, [recipient |-> p.recipient, amount |-> p.amount, gas |-> p.gas,
                                      nonce |-> nonce, signature |-> p.signature, data |-> p.data])
  /\ Delivered /\ UNCHANGED <<account, record>>

Mine(header) ==
  LET block == [header |-> header, transactions |-> signed]
  IN  /\ sent' = block /\ bytes' = SerializeBlock(block)
      /\ Rewritten(-CostOf(signed), Len(signed))
      /\ signed' = << >>

Next ==
  \/ \E amount \in Income : Earn(amount)
  \/ \E p \in Payments : Sign(p)
  \/ \E header \in Headers : Mine(header)

Spec == Init /\ [][Next]_vars

-----------------------------------------------------------------------------
(* Properties.                                                             *)

\* However often it is read and written, up to the largest balance, an
\* account is what the transfers made it.
AccountReadsBack == DeserializeState(record) = account

\* The node that receives a block reads the header and the transactions its
\* miner wrote: their number, their borders, code, arguments and signatures.
BlockReadsBack == sent # NoBlock => DeserializeBlock(bytes) = sent

Received ==
  LET transactions == DeserializeBlock(bytes).transactions
  IN  [i \in DOMAIN transactions |-> Content(transactions[i])]

\* Every transaction a node has received has a path that leads from its leaf
\* to the root of the tree, and no other leaf has.
PathsProve ==
  sent # NoBlock =>
    LET list == Received
        trie == BuildTxTrie(list)
        leaves == Leaves(list)
        path == [i \in DOMAIN leaves |-> GetTxTriePath(trie, leaves[i])]
    IN  \A i, j \in DOMAIN leaves : (RootOfPath(leaves[j], path[i]) = trie.root) <=> (i = j)

\* The root a block is checked against holds for one list of transactions
\* alone: with one taken away, doubled or changed places it is another.
RootBinds ==
  sent # NoBlock =>
    LET list == Received
        root == BuildTxTrie(list).root
        Differs(other) == BuildTxTrie(other).root # root
    IN  /\ \A i \in DOMAIN list : Differs(RemoveAt(list, i)) /\ Differs(Append(list, list[i]))
        /\ \A i \in DOMAIN list, j \in DOMAIN list :
             i # j => Differs([list EXCEPT ![i] = list[j], ![j] = list[i]])

=============================================================================
