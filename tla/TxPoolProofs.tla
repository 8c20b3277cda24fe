----------------------------- MODULE TxPoolProofs -----------------------------
(***************************************************************************)
(* The pool while a single account submits, over the message handler only: *)
(* for any number of submissions in progress and any blocks adopted in the *)
(* meantime, between adoptions the pool is what a valid block can hold, no *)
(* transaction is lost from it and none is flooded twice.  Both hypotheses *)
(* are needed: MaxNonce mixes the nonces of all senders, and addTransaction *)
(* may push to an array that is the pool no more.                          *)
(***************************************************************************)
EXTENDS TxPool, LedgerProofs

OneAccount == \A t, u \in PoolTx : t.sender = u.sender
MessagesOnly == "rpc" \notin Entry

StateNonce(db, tx) == db[tx.sender].nonce

\* Nonces rise along the pool, and where they are beyond the account's next
\* nonce they rise by one.
GapFree(db, pool) ==
  /\ \A i, j \in 1..Len(pool) : i < j => pool[i].nonce < pool[j].nonce
  /\ \A i \in 1..Len(pool) :
       pool[i].nonce > StateNonce(db, pool[i]) + 1 =>
         i > 1 /\ pool[i].nonce = pool[i - 1].nonce + 1

\* Nothing in the pool has been executed.
AllPending(db, pool) ==
  \A i \in 1..Len(pool) : pool[i].nonce > StateNonce(db, pool[i])

\* A sweep has kept, of the first k transactions, those still to be executed,
\* and knows the nonce they reach.
SweptUpTo(db, pool, k, sweep) ==
  LET n == Len(sweep.kept)
  IN  /\ sweep.kept \in Seq(PoolTx)
      /\ sweep.maxNonce \in [Account -> Nat]
      /\ \A i \in 1..n : sweep.kept[i].nonce = StateNonce(db, sweep.kept[i]) + i
      /\ \A i \in 1..k :
           pool[i].nonce <= StateNonce(db, pool[i]) \/ pool[i] \in Range(sweep.kept)
      /\ \A tx \in PoolTx : Reached(db, sweep, tx.sender) = StateNonce(db, tx) + n
      /\ k = 0 => n = 0
      /\ k > 0 /\ n = 0 => pool[k].nonce <= StateNonce(db, pool[k])
      /\ k > 0 /\ n > 0 => pool[k].nonce = StateNonce(db, pool[k]) + n

SubmissionsOK ==
  /\ DOMAIN task = Handler
  /\ \A h \in Handler :
       /\ DOMAIN task[h] = DOMAIN IdleTask
       /\ task[h].pc \in {"idle", "valid", "nonce"}
       /\ task[h].pc # "idle" => task[h].entry = "message" /\ task[h].tx \in PoolTx
       /\ task[h].pc = "nonce" => stateDB[task[h].tx.sender] # Absent

AdopterOK ==
  /\ DOMAIN adopter = DOMAIN IdleAdopter
  /\ DOMAIN adopter.sweep = DOMAIN EmptySweep
  /\ adopter.pc \in {"idle", "flush", "index", "sweep"}
  /\ adopter.pc = "flush" =>
       /\ adopter.unwritten \subseteq DOMAIN adopter.states
       /\ adopter.unwritten \subseteq Account
       /\ \A a \in adopter.unwritten :
            /\ adopter.states[a] \in AccountState
            /\ stateDB[a] # Absent => adopter.states[a].nonce >= stateDB[a].nonce
  /\ adopter.pc # "sweep" => adopter.swept = 0 /\ adopter.sweep = EmptySweep

PoolOK ==
  /\ arrays \in Seq(Seq(PoolTx)) /\ Len(arrays) > 0
  /\ \A i \in 1..Len(transactionPool) : stateDB[transactionPool[i].sender] # Absent
  /\ GapFree(stateDB, transactionPool)
  /\ adopter.pc = "idle" => AllPending(stateDB, transactionPool)

SweepOK ==
  adopter.pc = "sweep" =>
    /\ adopter.swept \in Nat /\ adopter.swept < Len(transactionPool)
    /\ SweptUpTo(stateDB, transactionPool, adopter.swept, adopter.sweep)

\* What was reported is in the pool or executed, and what was flooded was
\* reported before.
RecordOK ==
  /\ added \subseteq PoolTx
  /\ \A tx \in added : stateDB[tx.sender] # Absent
  /\ NoneLost
  /\ relayed \in Seq(PoolTx)
  /\ \A i \in 1..Len(relayed) : relayed[i] \in added
  /\ RelayedOnce

PoolInv ==
  AccountsOK(stateDB) /\ SubmissionsOK /\ AdopterOK /\ PoolOK /\ SweepOK /\ RecordOK

-----------------------------------------------------------------------------
(* The operators of the pool.                                              *)

LEMMA SameBase ==
  ASSUME OneAccount, NEW db, NEW t \in PoolTx, NEW u \in PoolTx
  PROVE  StateNonce(db, t) = StateNonce(db, u)
<1>1. t.sender = u.sender
  BY DEF OneAccount
<1> QED
  BY <1>1 DEF StateNonce

LEMMA NonceIsNat ==
  ASSUME NEW db, AccountsOK(db), NEW tx \in PoolTx
  PROVE  /\ tx \in Transaction /\ tx.sender \in Account /\ tx.nonce \in Nat
         /\ db[tx.sender] # Absent => StateNonce(db, tx) \in Nat
<1>1. tx \in Transaction
  BY PoolAssumption
<1>2. tx.sender \in Account /\ tx.nonce \in Nat
  BY <1>1 DEF Transaction
<1> QED
  BY <1>1, <1>2 DEF AccountsOK, AccountState, StateNonce

\* The nonce a new transaction must follow bounds the account's and those of
\* the pool, and is one of them.
LEMMA MaxNonceOK ==
  ASSUME NEW db, AccountsOK(db), NEW pool \in Seq(PoolTx), GapFree(db, pool),
         NEW tx \in PoolTx, db[tx.sender] # Absent
  PROVE  LET m == MaxNonce(db, pool, tx)
         IN  /\ m \in Nat /\ StateNonce(db, tx) <= m
             /\ \A i \in 1..Len(pool) : pool[i].nonce <= m
             /\ m # StateNonce(db, tx) => Len(pool) > 0 /\ m = pool[Len(pool)].nonce
<1> DEFINE base == StateNonce(db, tx)
           nonces == {db[tx.sender].nonce} \cup {pool[i].nonce : i \in DOMAIN pool}
           top == IF Len(pool) = 0 THEN base
                  ELSE IF pool[Len(pool)].nonce > base THEN pool[Len(pool)].nonce ELSE base
           m == MaxNonce(db, pool, tx)
<1>1. base \in Nat /\ base = db[tx.sender].nonce
  BY NonceIsNat DEF StateNonce
<1>2. /\ Len(pool) \in Nat /\ DOMAIN pool = 1..Len(pool)
      /\ \A i \in 1..Len(pool) : pool[i].nonce \in Nat
  BY NonceIsNat
<1>3. \A i \in 1..Len(pool) : pool[i].nonce <= pool[Len(pool)].nonce
  <2>1. ASSUME NEW i \in 1..Len(pool), i # Len(pool)
        PROVE  pool[i].nonce < pool[Len(pool)].nonce
    <3>1. i < Len(pool) /\ Len(pool) \in 1..Len(pool)
      BY <1>2, <2>1
    <3> QED
      BY <3>1 DEF GapFree
  <2> TAKE i \in 1..Len(pool)
  <2>2. pool[i].nonce \in Nat /\ pool[Len(pool)].nonce \in Nat
    BY <1>2
  <2>3. CASE i = Len(pool)
    BY <2>2, <2>3
  <2>4. CASE i # Len(pool)
    BY <2>1, <2>2, <2>4
  <2> QED
    BY <2>3, <2>4
<1> HIDE DEF base
<1>4. nonces \subseteq Nat /\ top \in nonces /\ \A n \in nonces : n <= top
  <2>1. top \in nonces
    BY <1>1, <1>2
  <2>2. nonces \subseteq Nat
    BY <1>1, <1>2
  <2>3. \A i \in 1..Len(pool) : pool[i].nonce <= top
    BY <1>1, <1>2, <1>3
  <2>4. base <= top
    BY <1>1, <1>2
  <2> HIDE DEF top
  <2> QED
    BY <1>1, <1>2, <2>1, <2>2, <2>3, <2>4
<1>5. m = CHOOSE n \in nonces : \A k \in nonces : k <= n
  BY DEF MaxNonce
<1> HIDE DEF nonces, m, top
<1>6. m = top
  <2>1. m \in nonces /\ \A k \in nonces : k <= m
    BY <1>4, <1>5
  <2> QED
    BY <1>4, <2>1
<1> QED
  BY <1>1, <1>2, <1>3, <1>6 DEF top, m, base

LEMMA AppendKeeps ==
  ASSUME OneAccount, NEW db, AccountsOK(db), NEW pool \in Seq(PoolTx), GapFree(db, pool),
         NEW tx \in PoolTx, db[tx.sender] # Absent,
         MaxNonce(db, pool, tx) + 1 = tx.nonce
  PROVE  /\ GapFree(db, Append(pool, tx))
         /\ AllPending(db, pool) => AllPending(db, Append(pool, tx))
         /\ \A i \in 1..Len(pool) : pool[i] # tx
         /\ tx.nonce > StateNonce(db, tx)
<1> DEFINE next == Append(pool, tx)
           base == StateNonce(db, tx)
           m == MaxNonce(db, pool, tx)
<1>1. /\ m \in Nat /\ base <= m /\ base \in Nat
      /\ \A i \in 1..Len(pool) : pool[i].nonce <= m
      /\ m # base => Len(pool) > 0 /\ m = pool[Len(pool)].nonce
  BY MaxNonceOK, NonceIsNat
<1>2. tx.nonce = m + 1
  OBVIOUS
<1>3. /\ Len(pool) \in Nat /\ Len(next) = Len(pool) + 1
      /\ \A i \in 1..Len(pool) : next[i] = pool[i] /\ pool[i] \in PoolTx
      /\ next[Len(pool) + 1] = tx
  OBVIOUS
<1>4. \A i \in 1..Len(pool) : pool[i].nonce \in Nat /\ StateNonce(db, pool[i]) = base
  BY <1>3, NonceIsNat, SameBase
<1> HIDE DEF next, base, m
<1>5. ASSUME NEW i \in 1..Len(next), NEW j \in 1..Len(next), i < j
      PROVE  next[i].nonce < next[j].nonce
  <2>1. CASE j = Len(pool) + 1
    BY <1>1, <1>2, <1>3, <1>4, <1>5, <2>1
  <2>2. CASE j # Len(pool) + 1
    <3>1. i \in 1..Len(pool) /\ j \in 1..Len(pool)
      BY <1>3, <1>5, <2>2
    <3> QED
      BY <1>3, <1>5, <3>1 DEF GapFree
  <2> QED
    BY <2>1, <2>2
<1>6. ASSUME NEW i \in 1..Len(next), next[i].nonce > StateNonce(db, next[i]) + 1
      PROVE  i > 1 /\ next[i].nonce = next[i - 1].nonce + 1
  <2>1. CASE i = Len(pool) + 1
    <3>1. m # base /\ i - 1 = Len(pool)
      BY <1>1, <1>2, <1>3, <1>6, <2>1 DEF base
    <3>2. Len(pool) > 0 /\ m = pool[Len(pool)].nonce /\ Len(pool) \in 1..Len(pool)
      BY <1>1, <1>3, <3>1
    <3> QED
      BY <1>2, <1>3, <2>1, <3>1, <3>2
  <2>2. CASE i # Len(pool) + 1
    <3>1. i \in 1..Len(pool)
      BY <1>3, <2>2
    <3>2. i > 1 /\ pool[i].nonce = pool[i - 1].nonce + 1
      BY <1>3, <1>6, <3>1 DEF GapFree
    <3>3. i - 1 \in 1..Len(pool)
      BY <1>3, <3>1, <3>2
    <3> QED
      BY <1>3, <3>1, <3>2, <3>3
  <2> QED
    BY <2>1, <2>2
<1>7. ASSUME AllPending(db, pool), NEW i \in 1..Len(next)
      PROVE  next[i].nonce > StateNonce(db, next[i])
  <2>1. CASE i = Len(pool) + 1
    BY <1>1, <1>2, <1>3, <2>1 DEF base
  <2>2. CASE i # Len(pool) + 1
    <3>1. i \in 1..Len(pool)
      BY <1>3, <2>2
    <3> QED
      BY <1>3, <1>7, <3>1 DEF AllPending
  <2> QED
    BY <2>1, <2>2
<1>8. \A i \in 1..Len(pool) : pool[i] # tx
  BY <1>1, <1>2, <1>4
<1> QED
  BY <1>1, <1>2, <1>5, <1>6, <1>7, <1>8 DEF GapFree, AllPending, next, base

\* Nonces that grow under the pool leave it without a gap.
LEMMA GapFreeLater ==
  ASSUME NEW db, AccountsOK(db), NEW later, AccountsOK(later),
         NEW pool \in Seq(PoolTx), GapFree(db, pool),
         \A i \in 1..Len(pool) :
           /\ db[pool[i].sender] # Absent /\ later[pool[i].sender] # Absent
           /\ StateNonce(db, pool[i]) <= StateNonce(later, pool[i])
  PROVE  GapFree(later, pool)
<1>1. \A i \in 1..Len(pool) : /\ StateNonce(db, pool[i]) \in Nat
                              /\ StateNonce(later, pool[i]) \in Nat
                              /\ pool[i].nonce \in Nat
  BY NonceIsNat
<1> QED
  BY <1>1 DEF GapFree

\* Then the pool, when nothing in it has been executed, can be mined as it is.
LEMMA PendingIsValid ==
  ASSUME OneAccount, NEW db, AccountsOK(db), NEW pool \in Seq(PoolTx), GapFree(db, pool),
         AllPending(db, pool), \A i \in 1..Len(pool) : db[pool[i].sender] # Absent
  PROVE  HasValidTxOrder(db, pool)
<1>1. /\ Len(pool) \in Nat /\ DOMAIN pool = 1..Len(pool)
      /\ \A i \in 1..Len(pool) : /\ pool[i] \in PoolTx /\ pool[i].nonce \in Nat
                                 /\ StateNonce(db, pool[i]) \in Nat
                                 /\ pool[i].nonce > StateNonce(db, pool[i])
  BY NonceIsNat DEF AllPending
<1>2. \A i, j \in 1..Len(pool) : /\ pool[i].sender = pool[j].sender
                                 /\ StateNonce(db, pool[i]) = StateNonce(db, pool[j])
  BY <1>1, SameBase DEF OneAccount
<1> DEFINE S == {n \in Nat : n + 1 \in 1..Len(pool) =>
                   pool[n + 1].nonce = StateNonce(db, pool[n + 1]) + n + 1}
<1>3. 0 \in S
  BY <1>1 DEF GapFree
<1>4. ASSUME NEW n \in Nat, n \in S
      PROVE  n + 1 \in S
  <2> DEFINE i == n + 2
  <2> SUFFICES ASSUME i \in 1..Len(pool)
               PROVE  pool[i].nonce = StateNonce(db, pool[i]) + n + 2
    <3>1. (n + 1) + 1 = i /\ n + 1 \in Nat
      OBVIOUS
    <3> HIDE DEF i
    <3>2. i \in 1..Len(pool) => pool[i].nonce = StateNonce(db, pool[i]) + (n + 1) + 1
      <4> SUFFICES ASSUME i \in 1..Len(pool)
                   PROVE  pool[i].nonce = StateNonce(db, pool[i]) + (n + 1) + 1
        OBVIOUS
      <4>1. StateNonce(db, pool[i]) \in Nat /\ pool[i].nonce = StateNonce(db, pool[i]) + n + 2
        BY <1>1
      <4> QED
        BY <4>1
    <3> QED
      BY <3>1, <3>2
  <2>1. n + 1 \in 1..Len(pool) /\ n + 1 < i /\ i - 1 = n + 1
    BY <1>1
  <2>2. pool[n + 1].nonce = StateNonce(db, pool[n + 1]) + n + 1
    BY <1>4, <2>1
  <2>3. pool[n + 1].nonce < pool[i].nonce
    BY <2>1 DEF GapFree
  <2>4. pool[i].nonce > StateNonce(db, pool[i]) + 1 => pool[i].nonce = pool[n + 1].nonce + 1
    BY <2>1 DEF GapFree
  <2>5. StateNonce(db, pool[i]) = StateNonce(db, pool[n + 1])
    BY <1>2, <2>1
  <2> HIDE DEF i
  <2> QED
    BY <1>1, <2>1, <2>2, <2>3, <2>4, <2>5
<1>5. Nat \subseteq S
  <2> HIDE DEF S
  <2> QED
    BY <1>3, <1>4, SettleFold!Induction
<1>6. ASSUME NEW i \in 1..Len(pool)
      PROVE  pool[i].nonce = StateNonce(db, pool[i]) + i
  <2>1. i - 1 \in S /\ (i - 1) + 1 = i
    BY <1>1, <1>5
  <2> QED
    BY <1>1, <2>1
<1>7. ASSUME NEW i \in 1..Len(pool)
      PROVE  SentBefore(pool, i) = i - 1
  <2>1. {j \in 1..(i - 1) : pool[j].sender = pool[i].sender} = 1..(i - 1)
    <3>1. 1..(i - 1) \subseteq 1..Len(pool)
      BY <1>1
    <3> QED
      BY <1>2, <3>1
  <2>2. Cardinality(1..(i - 1)) = i - 1
    BY FS_Interval
  <2> QED
    BY <2>1, <2>2 DEF SentBefore
<1> QED
  BY <1>1, <1>6, <1>7 DEF HasValidTxOrder, StateNonce

\* The first round of a sweep, and what one round adds.
LEMMA SweepStarts ==
  ASSUME OneAccount, NEW db, AccountsOK(db), NEW pool \in Seq(PoolTx),
         \A tx \in PoolTx : StateNonce(db, tx) \in Nat
  PROVE  SweptUpTo(db, pool, 0, EmptySweep)
<1>1. \A tx \in PoolTx : Reached(db, EmptySweep, tx.sender) = StateNonce(db, tx) + 0
  BY NonceIsNat DEF Reached, EmptySweep, StateNonce
<1> QED
  BY <1>1 DEF SweptUpTo, EmptySweep

LEMMA RoundKeeps ==
  ASSUME OneAccount, NEW db, AccountsOK(db), NEW pool \in Seq(PoolTx), GapFree(db, pool),
         NEW k \in Nat, k < Len(pool), NEW sweep, SweptUpTo(db, pool, k, sweep),
         DOMAIN sweep = {"kept", "maxNonce"},
         \A tx \in PoolTx : StateNonce(db, tx) \in Nat
  PROVE  LET next == SweepRound(db, sweep, pool[k + 1])
         IN  SweptUpTo(db, pool, k + 1, next) /\ DOMAIN next = {"kept", "maxNonce"}
<1> DEFINE tx == pool[k + 1]
           n == Len(sweep.kept)
           base == StateNonce(db, tx)
           next == SweepRound(db, sweep, tx)
<1>1. /\ tx \in PoolTx /\ tx.nonce \in Nat /\ tx.sender \in Account
      /\ base \in Nat /\ n \in Nat /\ k + 1 \in 1..Len(pool)
      /\ \A i \in 1..Len(pool) : pool[i] \in PoolTx /\ pool[i].nonce \in Nat
      /\ sweep.kept \in Seq(PoolTx) /\ sweep.maxNonce \in [Account -> Nat]
  <2>1. sweep.kept \in Seq(PoolTx) /\ sweep.maxNonce \in [Account -> Nat]
    BY DEF SweptUpTo
  <2>2. k + 1 \in 1..Len(pool)
    OBVIOUS
  <2> QED
    BY <2>1, <2>2, NonceIsNat
<1>2. \A t \in PoolTx : t.sender = tx.sender /\ StateNonce(db, t) = base
  BY <1>1, SameBase DEF OneAccount
<1>3. k > 0 => /\ pool[k].nonce \in Nat /\ pool[k].nonce < tx.nonce
               /\ tx.nonce > base + 1 => tx.nonce = pool[k].nonce + 1
  <2>1. k > 0 => k \in 1..Len(pool) /\ k < k + 1 /\ (k + 1) - 1 = k
    BY <1>1
  <2>2. tx.nonce > base + 1 => tx.nonce = pool[(k + 1) - 1].nonce + 1
    BY <1>1 DEF GapFree
  <2>3. k > 0 => pool[k].nonce < tx.nonce
    BY <1>1, <2>1 DEF GapFree
  <2> QED
    BY <1>1, <2>1, <2>2, <2>3
<1>4. k = 0 => tx.nonce <= base + 1
  <2>1. tx.nonce > base + 1 => k + 1 > 1
    BY <1>1 DEF GapFree
  <2> QED
    BY <1>1, <2>1
<1>5. /\ k = 0 => n = 0
      /\ k > 0 /\ n = 0 => pool[k].nonce <= base
      /\ k > 0 /\ n > 0 => pool[k].nonce = base + n
      /\ Reached(db, sweep, tx.sender) = base + n
  BY <1>1, <1>2, <1>3 DEF SweptUpTo
<1> HIDE DEF base, n, next
<1>6. CASE tx.nonce = base + n + 1
  <2>1. Keeps(db, sweep, tx)
    BY <1>1, <1>5, <1>6 DEF Keeps
  <2>2. next = [kept |-> Append(sweep.kept, tx),
                maxNonce |-> [sweep.maxNonce EXCEPT ![tx.sender] = tx.nonce]]
    BY <2>1 DEF SweepRound, next
  <2> DEFINE kept == Append(sweep.kept, tx)
  <2>3. /\ kept \in Seq(PoolTx) /\ Len(kept) = n + 1
        /\ \A i \in 1..n : kept[i] = sweep.kept[i]
        /\ kept[n + 1] = tx
        /\ Range(kept) = Range(sweep.kept) \cup {tx}
    <3>1. /\ kept \in Seq(PoolTx) /\ Len(kept) = n + 1
          /\ \A i \in 1..n : kept[i] = sweep.kept[i]
          /\ kept[n + 1] = tx
      BY <1>1 DEF n
    <3>2. DOMAIN kept = 1..(n + 1) /\ DOMAIN sweep.kept = 1..n
      BY <1>1, <3>1 DEF n
    <3> HIDE DEF kept
    <3>3. \A i \in 1..(n + 1) : i \in 1..n \/ i = n + 1
      BY <1>1
    <3>4. 1..n \subseteq 1..(n + 1) /\ n + 1 \in 1..(n + 1)
      BY <1>1
    <3> QED
      BY <3>1, <3>2, <3>3, <3>4 DEF Range
  <2>4. next.kept = kept /\ next.maxNonce = [sweep.maxNonce EXCEPT ![tx.sender] = tx.nonce]
        /\ DOMAIN next = {"kept", "maxNonce"}
    BY <2>2
  <2>5. next.maxNonce \in [Account -> Nat] /\ next.maxNonce[tx.sender] = tx.nonce
    BY <1>1, <2>4
  <2> HIDE DEF kept
  <2>6. \A i \in 1..(n + 1) : kept[i].nonce = StateNonce(db, kept[i]) + i
    <3> TAKE i \in 1..(n + 1)
    <3>1. CASE i = n + 1
      BY <1>1, <1>6, <2>3, <3>1 DEF base
    <3>2. CASE i # n + 1
      <4>1. i \in 1..n
        BY <1>1, <3>2
      <4> QED
        BY <2>3, <4>1 DEF SweptUpTo, n
    <3> QED
      BY <3>1, <3>2
  <2>7. \A i \in 1..(k + 1) :
          pool[i].nonce <= StateNonce(db, pool[i]) \/ pool[i] \in Range(kept)
    <3> TAKE i \in 1..(k + 1)
    <3>1. CASE i = k + 1
      BY <2>3, <3>1
    <3>2. CASE i # k + 1
      <4>1. i \in 1..k
        BY <3>2
      <4> QED
        BY <2>3, <4>1 DEF SweptUpTo
    <3> QED
      BY <3>1, <3>2
  <2>8. \A t \in PoolTx : Reached(db, next, t.sender) = StateNonce(db, t) + (n + 1)
    BY <1>1, <1>2, <1>6, <2>5 DEF Reached
  <2>9. tx.nonce = base + (n + 1) /\ n + 1 > 0 /\ k + 1 # 0
    BY <1>1, <1>6
  <2>10. Len(next.kept) = n + 1 /\ pool[k + 1].nonce = StateNonce(db, pool[k + 1]) + (n + 1)
    BY <2>3, <2>4, <2>9 DEF base
  <2>11. next.kept \in Seq(PoolTx)
    BY <2>3, <2>4
  <2> HIDE DEF tx
  <2>12. SweptUpTo(db, pool, k + 1, next)
    <3> DEFINE l == Len(next.kept)
    <3>1. /\ \A i \in 1..l : next.kept[i].nonce = StateNonce(db, next.kept[i]) + i
          /\ \A t \in PoolTx : Reached(db, next, t.sender) = StateNonce(db, t) + l
          /\ pool[k + 1].nonce = StateNonce(db, pool[k + 1]) + l
          /\ l # 0 /\ k + 1 # 0
      BY <1>1, <2>4, <2>6, <2>8, <2>9, <2>10
    <3>2. \A i \in 1..(k + 1) :
            pool[i].nonce <= StateNonce(db, pool[i]) \/ pool[i] \in Range(next.kept)
      BY <2>4, <2>7
    <3> HIDE DEF l
    <3> QED
      BY <2>5, <2>11, <3>1, <3>2 DEF SweptUpTo, l
  <2> QED
    BY <2>4, <2>12 DEF next, tx
<1>7. CASE tx.nonce # base + n + 1
  <2>1. tx.nonce <= base /\ n = 0
    <3>1. CASE k = 0
      <4> HIDE DEF tx
      <4>1. n = 0 /\ tx.nonce <= base + 1 /\ tx.nonce # base + 1
        BY <1>1, <1>4, <1>5, <1>7, <3>1
      <4> QED
        BY <1>1, <4>1
    <3>2. CASE k > 0 /\ n = 0
      <4> HIDE DEF tx
      <4>1. pool[k].nonce <= base /\ tx.nonce # base + 1
        BY <1>1, <1>5, <1>7, <3>2
      <4>2. ~(tx.nonce > base + 1)
        BY <1>1, <1>3, <3>2, <4>1
      <4> QED
        BY <1>1, <3>2, <4>1, <4>2
    <3>3. CASE k > 0 /\ n > 0
      <4> HIDE DEF tx
      <4>1. pool[k].nonce = base + n /\ base + n < tx.nonce
        BY <1>3, <1>5, <3>3
      <4>2. tx.nonce > base + 1
        BY <1>1, <3>3, <4>1
      <4>3. tx.nonce = pool[k].nonce + 1
        BY <1>3, <3>3, <4>2
      <4> QED
        BY <1>1, <1>7, <4>1, <4>3
    <3> QED
      BY <1>1, <3>1, <3>2, <3>3
  <2>2. ~Keeps(db, sweep, tx)
    BY <1>1, <1>5, <1>7 DEF Keeps
  <2>3. next = [sweep EXCEPT !.maxNonce[tx.sender] = base]
    <3>1. Reached(db, sweep, tx.sender) = base
      BY <1>1, <1>5, <2>1
    <3> QED
      BY <2>2, <3>1 DEF SweepRound, next
  <2>4. /\ next.kept = sweep.kept /\ DOMAIN next = {"kept", "maxNonce"}
        /\ next.maxNonce = [sweep.maxNonce EXCEPT ![tx.sender] = base]
    BY <2>3
  <2>5. next.maxNonce \in [Account -> Nat] /\ next.maxNonce[tx.sender] = base
    BY <1>1, <2>4
  <2>6. \A t \in PoolTx : Reached(db, next, t.sender) = StateNonce(db, t) + n
    BY <1>1, <1>2, <2>1, <2>5 DEF Reached, StateNonce
  <2>7. \A i \in 1..(k + 1) :
          pool[i].nonce <= StateNonce(db, pool[i]) \/ pool[i] \in Range(sweep.kept)
    <3> TAKE i \in 1..(k + 1)
    <3>1. CASE i = k + 1
      BY <2>1, <3>1 DEF base
    <3>2. CASE i # k + 1
      <4>1. i \in 1..k
        BY <3>2
      <4> QED
        BY <4>1 DEF SweptUpTo
    <3> QED
      BY <3>1, <3>2
  <2>8. \A i \in 1..n : sweep.kept[i].nonce = StateNonce(db, sweep.kept[i]) + i
    BY DEF SweptUpTo, n
  <2>9. Len(next.kept) = n /\ n = 0 /\ k + 1 # 0 /\ ~(n > 0)
    BY <1>1, <2>1, <2>4 DEF n
  <2>10. pool[k + 1].nonce <= StateNonce(db, pool[k + 1])
    BY <2>1 DEF base
  <2>11. next.kept \in Seq(PoolTx)
    BY <1>1, <2>4
  <2> HIDE DEF tx
  <2>12. SweptUpTo(db, pool, k + 1, next)
    BY <2>4, <2>5, <2>6, <2>7, <2>8, <2>9, <2>10, <2>11 DEF SweptUpTo
  <2> QED
    BY <2>4, <2>12 DEF next, tx
<1> QED
  BY <1>6, <1>7

\* What a sweep keeps can be mined as it is.
LEMMA KeptIsPending ==
  ASSUME OneAccount, NEW db, AccountsOK(db), NEW pool, NEW k, NEW sweep,
         SweptUpTo(db, pool, k, sweep),
         \A tx \in PoolTx : StateNonce(db, tx) \in Nat
  PROVE  GapFree(db, sweep.kept) /\ AllPending(db, sweep.kept)
<1> DEFINE kept == sweep.kept
<1>1. /\ kept \in Seq(PoolTx)
      /\ \A i \in 1..Len(kept) : kept[i].nonce = StateNonce(db, kept[i]) + i
  BY DEF SweptUpTo
<1>2. /\ Len(kept) \in Nat
      /\ \A i \in 1..Len(kept) : kept[i] \in PoolTx /\ StateNonce(db, kept[i]) \in Nat
  BY <1>1
<1>3. \A i, j \in 1..Len(kept) : StateNonce(db, kept[i]) = StateNonce(db, kept[j])
  BY <1>2, SameBase
<1> HIDE DEF kept
<1>4. \A i \in 1..Len(kept) : i > 1 => i - 1 \in 1..Len(kept)
  BY <1>2
<1>5. \A i \in 1..Len(kept) : kept[i].nonce \in Nat /\ kept[i].nonce > StateNonce(db, kept[i])
  BY <1>1, <1>2
<1>6. ASSUME NEW i \in 1..Len(kept), NEW j \in 1..Len(kept)
      PROVE  kept[i].nonce - kept[j].nonce = i - j
  <2>1. /\ kept[i].nonce = StateNonce(db, kept[i]) + i
        /\ kept[j].nonce = StateNonce(db, kept[i]) + j
    BY <1>1, <1>3
  <2> QED
    BY <1>2, <2>1
<1>7. \A i, j \in 1..Len(kept) : i < j => kept[i].nonce < kept[j].nonce
  BY <1>2, <1>5, <1>6
<1>8. ASSUME NEW i \in 1..Len(kept), kept[i].nonce > StateNonce(db, kept[i]) + 1
      PROVE  i > 1 /\ kept[i].nonce = kept[i - 1].nonce + 1
  <2>1. i > 1
    BY <1>1, <1>2, <1>8
  <2>2. kept[i].nonce - kept[i - 1].nonce = 1
    BY <1>2, <1>4, <1>6, <2>1
  <2> QED
    BY <1>4, <1>5, <2>1, <2>2
<1> QED
  BY <1>5, <1>7, <1>8 DEF GapFree, AllPending, kept

-----------------------------------------------------------------------------
(* What the steps of the specification do to the invariant.                *)

\* No nonce is smaller in an account a block writes.
LEMMA TransitRaises ==
  ASSUME NEW db, AccountsOK(db), NEW block \in Block,
         Transit(db, Code \cup {EMPTY_HASH}, block).status = "ok"
  PROVE  LET states == Transit(db, Code \cup {EMPTY_HASH}, block).states
         IN  /\ DOMAIN states \subseteq Account
             /\ \A a \in DOMAIN states :
                  /\ states[a] \in AccountState
                  /\ db[a] # Absent => states[a].nonce >= db[a].nonce
<1> DEFINE codes == Code \cup {EMPTY_HASH}
           work == Transit(db, codes, block)
           after == Overlay(db, work.states)
<1>1. BlockOK(block)
  BY PoolAssumption DEF BlockOK
<1>2. CodeIsStored(db, codes)
  BY DEF CodeIsStored, AccountsOK, AccountState, CodeHash
<1> HIDE DEF codes
<1>3. WorkOK(work)
  BY <1>1, TransitWellFormed
<1>4. \A a \in Account : Cached(after, a).nonce
                           = Cached(db, a).nonce + SentUpTo(block.txs, Len(block.txs), a)
  BY <1>1, <1>2, TransitConserves DEF codes
<1> HIDE DEF work
<1>5. ASSUME NEW a \in DOMAIN work.states
      PROVE  /\ a \in Account /\ work.states[a] \in AccountState
             /\ db[a] # Absent => work.states[a].nonce >= db[a].nonce
  <2>1. a \in Account /\ work.states[a] \in AccountState
    BY <1>3 DEF WorkOK
  <2>2. Cached(after, a) = work.states[a]
    BY <2>1, AbsentAssumption DEF Cached, Overlay, AccountsOK
  <2>3. SentUpTo(block.txs, Len(block.txs), a) \in Nat
    <3>1. Len(block.txs) \in Nat
      BY <1>1 DEF BlockOK
    <3> QED
      BY <3>1, SentSteps
  <2>4. db[a] # Absent => Cached(db, a) = db[a] /\ db[a].nonce \in Nat
    BY <2>1 DEF Cached, AccountsOK, AccountState
  <2>5. work.states[a].nonce = Cached(db, a).nonce + SentUpTo(block.txs, Len(block.txs), a)
    BY <1>4, <2>1, <2>2
  <2> QED
    BY <2>1, <2>3, <2>4, <2>5
<1> QED
  BY <1>3, <1>5 DEF WorkOK, work, codes

LEMMA PoolInit ==
  ASSUME Init
  PROVE  PoolInv
<1>1. AccountsOK(stateDB)
  BY PoolAssumption DEF Init, AccountsOK
<1>2. arrays = << << >> >> /\ transactionPool = << >>
  BY DEF Init, transactionPool, Last
<1>3. PoolOK
  BY <1>2 DEF PoolOK, GapFree, AllPending
<1>4. SubmissionsOK /\ AdopterOK /\ SweepOK
  BY DEF Init, SubmissionsOK, AdopterOK, SweepOK, IdleTask, IdleAdopter, EmptySweep
<1>5. RecordOK
  BY DEF Init, RecordOK, NoneLost, RelayedOnce, IsInjective
<1> QED
  BY <1>1, <1>3, <1>4, <1>5 DEF PoolInv

LEMMA SubmissionFrame ==
  ASSUME PoolInv, UNCHANGED <<stateDB, arrays, adopter, added, relayed>>, SubmissionsOK'
  PROVE  PoolInv'
<1>1. transactionPool' = transactionPool
  BY DEF transactionPool
<1>2. AccountsOK(stateDB)'
  BY DEF PoolInv, AccountsOK
<1>3. AdopterOK'
  BY DEF PoolInv, AdopterOK
<1>4. PoolOK'
  BY <1>1 DEF PoolInv, PoolOK, GapFree, AllPending, StateNonce
<1>5. SweepOK'
  BY <1>1 DEF PoolInv, SweepOK, SweptUpTo, Reached, StateNonce
<1>6. RecordOK'
  BY <1>1 DEF PoolInv, RecordOK, NoneLost, RelayedOnce
<1> QED
  BY <1>2, <1>3, <1>4, <1>5, <1>6 DEF PoolInv

LEMMA SubmitStep ==
  ASSUME PoolInv, MessagesOnly, NEW h \in Handler, NEW entry \in Entry, NEW tx \in PoolTx,
         Submit(h, entry, tx)
  PROVE  PoolInv'
<1>1. entry = "message"
  BY PoolAssumption DEF MessagesOnly
<1>2. SubmissionsOK'
  BY <1>1 DEF PoolInv, SubmissionsOK, Submit, IdleTask
<1> QED
  BY <1>2, SubmissionFrame DEF Submit

LEMMA CheckValidStep ==
  ASSUME PoolInv, NEW h \in Handler, CheckValid(h)
  PROVE  PoolInv'
<1>1. SubmissionsOK
  BY DEF PoolInv
<1>2. CASE task' = [task EXCEPT ![h].pc = "nonce", ![h].array = Len(arrays)] /\ IsValid(stateDB, task[h].tx)
  <2>1. stateDB[task[h].tx.sender] # Absent /\ stateDB' = stateDB
    BY <1>2 DEF IsValid, IsPlainAccount, CheckValid
  <2>2. SubmissionsOK'
    BY <1>1, <1>2, <2>1 DEF SubmissionsOK, IdleTask, CheckValid, At
  <2> QED
    BY <2>2, SubmissionFrame DEF CheckValid
<1>3. CASE Finish(h)
  <2>1. SubmissionsOK'
    BY <1>1, <1>3 DEF SubmissionsOK, IdleTask, Finish, CheckValid
  <2> QED
    BY <2>1, SubmissionFrame DEF CheckValid
<1> QED
  BY <1>2, <1>3 DEF CheckValid

LEMMA CheckNonceStep ==
  ASSUME PoolInv, OneAccount, NEW h \in Handler, CheckNonce(h)
  PROVE  PoolInv'
<1> DEFINE tx == task[h].tx
           n == Len(arrays)
           pool == transactionPool
           next == Append(pool, tx)
<1>1. /\ task[h].pc = "nonce" /\ task[h].entry = "message" /\ tx \in PoolTx
      /\ stateDB[tx.sender] # Absent
  BY DEF PoolInv, SubmissionsOK, CheckNonce, At
<1>2. /\ arrays \in Seq(Seq(PoolTx)) /\ n \in Nat \ {0} /\ pool = arrays[n]
      /\ pool \in Seq(PoolTx) /\ TargetArray(h) = n
  <2>1. arrays \in Seq(Seq(PoolTx)) /\ n \in Nat \ {0} /\ pool = arrays[n]
    BY DEF PoolInv, PoolOK, transactionPool, Last
  <2> QED
    BY <1>1, <2>1 DEF TargetArray
<1>3. /\ AccountsOK(stateDB) /\ AccountsOK(stateDB)' /\ GapFree(stateDB, pool)
      /\ \A i \in 1..Len(pool) : stateDB[pool[i].sender] # Absent
      /\ stateDB' = stateDB /\ adopter' = adopter
  BY DEF PoolInv, PoolOK, CheckNonce, AccountsOK
<1>4. SubmissionsOK'
  BY <1>3 DEF PoolInv, SubmissionsOK, CheckNonce, Finish, IdleTask
<1>5. AdopterOK'
  BY <1>3 DEF PoolInv, AdopterOK
<1>6. CASE MaxNonce(stateDB, pool, tx) + 1 = tx.nonce
  <2>1. /\ arrays' = [arrays EXCEPT ![n] = next]
        /\ added' = added \cup {tx}
        /\ relayed' = Append(relayed, tx)
    BY <1>1, <1>2, <1>6 DEF CheckNonce
  <2>2. /\ next \in Seq(PoolTx) /\ Len(next) = Len(pool) + 1 /\ Len(pool) \in Nat
        /\ \A i \in 1..Len(pool) : next[i] = pool[i]
        /\ next[Len(pool) + 1] = tx
    BY <1>1, <1>2
  <2>3. /\ GapFree(stateDB, next)
        /\ AllPending(stateDB, pool) => AllPending(stateDB, next)
        /\ \A i \in 1..Len(pool) : pool[i] # tx
        /\ tx.nonce > StateNonce(stateDB, tx)
    BY <1>1, <1>2, <1>3, <1>6, AppendKeeps
  <2> HIDE DEF next
  <2>4. /\ arrays' \in Seq(Seq(PoolTx)) /\ Len(arrays') = n /\ arrays'[n] = next
    BY <1>2, <2>1, <2>2
  <2>5. transactionPool' = next
    BY <2>4 DEF transactionPool, Last
  <2> HIDE DEF pool, tx
  <2>6. \A i \in 1..Len(next) : stateDB[next[i].sender] # Absent
    <3> TAKE i \in 1..Len(next)
    <3>1. CASE i = Len(pool) + 1
      BY <1>1, <2>2, <3>1
    <3>2. CASE i # Len(pool) + 1
      <4>1. i \in 1..Len(pool)
        BY <2>2, <3>2
      <4> QED
        BY <1>3, <2>2, <4>1
    <3> QED
      BY <3>1, <3>2
  <2>7. PoolOK'
    <3>1. adopter.pc = "idle" => AllPending(stateDB, next)
      BY <2>3 DEF PoolInv, PoolOK, pool
    <3>2. Len(arrays') > 0 /\ arrays' \in Seq(Seq(PoolTx))
      BY <1>2, <2>4
    <3>3. GapFree(stateDB, transactionPool)' /\ (adopter.pc = "idle" => AllPending(stateDB, transactionPool)')
      BY <1>3, <2>3, <2>5, <3>1 DEF GapFree, AllPending, StateNonce
    <3> QED
      BY <1>3, <2>5, <2>6, <3>2, <3>3 DEF PoolOK
  <2>8. SweepOK'
    <3> SUFFICES ASSUME adopter.pc = "sweep"
                 PROVE  /\ adopter.swept \in Nat /\ adopter.swept < Len(next)
                        /\ SweptUpTo(stateDB, next, adopter.swept, adopter.sweep)
      BY <1>3, <2>5 DEF SweepOK, SweptUpTo, Reached, StateNonce
    <3>1. /\ adopter.swept \in Nat /\ adopter.swept < Len(pool)
          /\ SweptUpTo(stateDB, pool, adopter.swept, adopter.sweep)
      BY DEF PoolInv, SweepOK, pool
    <3>2. \A i \in 1..adopter.swept : next[i] = pool[i]
      BY <2>2, <3>1
    <3>3. adopter.swept > 0 => next[adopter.swept] = pool[adopter.swept]
      BY <3>1, <3>2
    <3>4. adopter.swept < Len(next)
      BY <2>2, <3>1
    <3> QED
      BY <3>1, <3>2, <3>3, <3>4 DEF SweptUpTo
  <2>9. RecordOK'
    <3>1. /\ added \subseteq PoolTx /\ NoneLost /\ relayed \in Seq(PoolTx) /\ RelayedOnce
          /\ \A i \in 1..Len(relayed) : relayed[i] \in added
          /\ \A t \in added : stateDB[t.sender] # Absent
      BY DEF PoolInv, RecordOK
    <3>2. Range(next) = Range(pool) \cup {tx}
      <4>1. DOMAIN pool = 1..Len(pool) /\ DOMAIN next = 1..(Len(pool) + 1)
        BY <1>2, <2>2
      <4>2. \A i \in 1..(Len(pool) + 1) : i \in 1..Len(pool) \/ i = Len(pool) + 1
        BY <2>2
      <4>3. 1..Len(pool) \subseteq 1..(Len(pool) + 1) /\ Len(pool) + 1 \in 1..(Len(pool) + 1)
        BY <2>2
      <4> QED
        BY <2>2, <4>1, <4>2, <4>3 DEF Range
    <3>3. NoneLost'
      BY <1>3, <2>1, <2>5, <3>1, <3>2 DEF NoneLost, pool
    <3>4. tx \notin added
      <4>1. tx \notin Range(pool)
        BY <1>2, <2>3 DEF Range
      <4>2. ~(tx.nonce <= stateDB[tx.sender].nonce)
        <5>1. tx.nonce \in Nat /\ StateNonce(stateDB, tx) \in Nat
          BY <1>1, <1>3, NonceIsNat
        <5> QED
          BY <2>3, <5>1 DEF StateNonce
      <4> QED
        BY <3>1, <4>1, <4>2 DEF NoneLost, pool
    <3>5. /\ relayed' \in Seq(PoolTx) /\ Len(relayed') = Len(relayed) + 1
          /\ \A i \in 1..Len(relayed) : relayed'[i] = relayed[i]
          /\ relayed'[Len(relayed) + 1] = tx /\ Len(relayed) \in Nat
          /\ DOMAIN relayed = 1..Len(relayed) /\ DOMAIN relayed' = 1..(Len(relayed) + 1)
      BY <1>1, <2>1, <3>1
    <3>6. \A i \in 1..(Len(relayed) + 1) : i \in 1..Len(relayed) \/ i = Len(relayed) + 1
      BY <3>5
    <3>7. \A i \in 1..Len(relayed') : relayed'[i] \in added'
      BY <2>1, <3>1, <3>5, <3>6
    <3>8. RelayedOnce'
      BY <3>1, <3>4, <3>5, <3>6 DEF RelayedOnce, IsInjective
    <3>9. added' \subseteq PoolTx /\ \A t \in added' : stateDB'[t.sender] # Absent
      BY <1>1, <1>3, <2>1, <3>1
    <3> QED
      BY <3>3, <3>5, <3>7, <3>8, <3>9 DEF RecordOK
  <2> QED
    BY <1>3, <1>4, <1>5, <2>7, <2>8, <2>9 DEF PoolInv
<1>7. CASE MaxNonce(stateDB, pool, tx) + 1 # tx.nonce
  <2>1. UNCHANGED <<arrays, added, relayed>>
    BY <1>2, <1>7 DEF CheckNonce
  <2> QED
    BY <1>3, <1>4, <2>1, SubmissionFrame
<1> QED
  BY <1>6, <1>7

LEMMA AdoptStep ==
  ASSUME PoolInv, NEW block \in Block, Adopt(block)
  PROVE  PoolInv'
<1> DEFINE work == Transit(stateDB, Code \cup {EMPTY_HASH}, block)
           states == work.states
<1>1. /\ adopter.pc = "idle" /\ work.status = "ok"
      /\ adopter' = [IdleAdopter EXCEPT !.pc = "flush", !.states = states,
                                        !.unwritten = DOMAIN states]
      /\ UNCHANGED <<stateDB, arrays, task, added, relayed>>
  BY DEF Adopt
<1>2. /\ DOMAIN states \subseteq Account
      /\ \A a \in DOMAIN states :
           /\ states[a] \in AccountState
           /\ stateDB[a] # Absent => states[a].nonce >= stateDB[a].nonce
  BY <1>1, TransitRaises DEF PoolInv
<1> HIDE DEF work
<1>3. /\ DOMAIN adopter' = DOMAIN IdleAdopter /\ adopter'.pc = "flush" /\ adopter'.states = states
      /\ adopter'.unwritten = DOMAIN states /\ adopter'.swept = 0 /\ adopter'.sweep = EmptySweep
  BY <1>1 DEF IdleAdopter
<1> HIDE DEF states
<1>4. AdopterOK'
  BY <1>1, <1>2, <1>3 DEF AdopterOK
<1>5. transactionPool' = transactionPool
  BY <1>1 DEF transactionPool
<1>6. AccountsOK(stateDB)' /\ SubmissionsOK'
  BY <1>1 DEF PoolInv, AccountsOK, SubmissionsOK
<1>7. PoolOK' /\ SweepOK'
  BY <1>1, <1>3, <1>5 DEF PoolInv, PoolOK, SweepOK, GapFree, StateNonce
<1>8. RecordOK'
  BY <1>1, <1>5 DEF PoolInv, RecordOK, NoneLost, RelayedOnce
<1> QED
  BY <1>4, <1>6, <1>7, <1>8 DEF PoolInv

LEMMA FlushAccountStep ==
  ASSUME PoolInv, FlushAccount
  PROVE  PoolInv'
<1> DEFINE pool == transactionPool
<1>1. PICK a \in adopter.unwritten :
        /\ adopter.pc = "flush"
        /\ stateDB' = [stateDB EXCEPT ![a] = adopter.states[a]]
        /\ adopter' = [adopter EXCEPT !.unwritten = @ \ {a},
                         !.pc = IF adopter.unwritten = {a} THEN "index" ELSE "flush"]
        /\ UNCHANGED <<arrays, task, added, relayed>>
  BY DEF FlushAccount
<1>2. /\ a \in Account /\ adopter.states[a] \in AccountState
      /\ stateDB[a] # Absent => adopter.states[a].nonce >= stateDB[a].nonce
  BY <1>1 DEF PoolInv, AdopterOK
<1>3. AccountsOK(stateDB) /\ AccountsOK(stateDB')
  BY <1>1, <1>2 DEF PoolInv, AccountsOK
<1>4. \A b \in Account : stateDB[b] # Absent =>
        /\ stateDB'[b] # Absent /\ stateDB[b].nonce \in Nat /\ stateDB'[b].nonce \in Nat
        /\ stateDB[b].nonce <= stateDB'[b].nonce
  <2> TAKE b \in Account
  <2> HAVE stateDB[b] # Absent
  <2>1. stateDB[b].nonce \in Nat
    BY <1>3 DEF AccountsOK, AccountState
  <2>2. CASE b = a
    <3>1. stateDB'[b] = adopter.states[a]
      BY <1>1, <1>2, <1>3, <2>2 DEF AccountsOK
    <3>2. adopter.states[a].nonce \in Nat
      BY <1>2 DEF AccountState
    <3> QED
      BY <1>2, <2>1, <2>2, <3>1, <3>2, AbsentAssumption
  <2>3. CASE b # a
    <3>1. stateDB'[b] = stateDB[b]
      BY <1>1, <1>3, <2>3 DEF AccountsOK
    <3> QED
      BY <2>1, <3>1
  <2> QED
    BY <2>2, <2>3
<1>5. /\ DOMAIN adopter' = DOMAIN IdleAdopter /\ adopter'.unwritten = adopter.unwritten \ {a}
      /\ adopter'.pc = (IF adopter.unwritten = {a} THEN "index" ELSE "flush")
      /\ adopter'.states = adopter.states /\ adopter'.swept = adopter.swept
      /\ adopter'.sweep = adopter.sweep
  BY <1>1 DEF PoolInv, AdopterOK, IdleAdopter
<1>6. AdopterOK'
  <2>1. \A b \in adopter'.unwritten : stateDB'[b] = stateDB[b]
    BY <1>1, <1>3, <1>5 DEF AccountsOK, PoolInv, AdopterOK
  <2> QED
    BY <1>1, <1>5, <2>1 DEF PoolInv, AdopterOK
<1>7. SubmissionsOK'
  <2>1. \A h \in Handler : task[h].pc = "nonce" => task[h].tx.sender \in Account
    BY <1>3, NonceIsNat DEF PoolInv, SubmissionsOK
  <2> QED
    BY <1>1, <1>4, <2>1 DEF PoolInv, SubmissionsOK
<1>8. pool \in Seq(PoolTx) /\ transactionPool' = pool
  BY <1>1 DEF PoolInv, PoolOK, transactionPool, Last
<1>9. \A i \in 1..Len(pool) :
        /\ pool[i].sender \in Account
        /\ stateDB[pool[i].sender] # Absent /\ stateDB'[pool[i].sender] # Absent
        /\ StateNonce(stateDB, pool[i]) <= StateNonce(stateDB', pool[i])
  <2>1. \A i \in 1..Len(pool) : pool[i].sender \in Account /\ stateDB[pool[i].sender] # Absent
    BY <1>3, <1>8, NonceIsNat DEF PoolInv, PoolOK
  <2> QED
    BY <1>4, <2>1 DEF StateNonce
<1>10. PoolOK'
  <2>1. GapFree(stateDB, pool)
    BY DEF PoolInv, PoolOK
  <2> HIDE DEF pool
  <2>2. GapFree(stateDB', pool)
    BY <1>3, <1>8, <1>9, <2>1, GapFreeLater
  <2>3. GapFree(stateDB, transactionPool)'
    BY <1>8, <2>2 DEF GapFree, StateNonce
  <2>4. arrays' \in Seq(Seq(PoolTx)) /\ Len(arrays') > 0
    BY <1>1 DEF PoolInv, PoolOK
  <2>5. adopter'.pc # "idle"
    BY <1>5
  <2> QED
    BY <1>8, <1>9, <2>3, <2>4, <2>5 DEF PoolOK
<1>11. SweepOK'
  BY <1>5 DEF SweepOK
<1>12. RecordOK'
  <2>1. \A tx \in added : /\ tx.sender \in Account /\ tx.nonce \in Nat
                          /\ stateDB[tx.sender] # Absent
    BY <1>3, NonceIsNat DEF PoolInv, RecordOK
  <2>2. NoneLost'
    BY <1>1, <1>4, <1>8, <2>1 DEF PoolInv, RecordOK, NoneLost
  <2> QED
    BY <1>1, <1>4, <2>1, <2>2 DEF PoolInv, RecordOK, RelayedOnce
<1> QED
  BY <1>3, <1>6, <1>7, <1>10, <1>11, <1>12 DEF PoolInv, AccountsOK

LEMMA ReplaceStep ==
  ASSUME PoolInv, NEW kept \in Seq(PoolTx), GapFree(stateDB, kept), AllPending(stateDB, kept),
         \A i \in 1..Len(kept) : stateDB[kept[i].sender] # Absent,
         \A i \in 1..Len(transactionPool) :
           \/ transactionPool[i].nonce <= StateNonce(stateDB, transactionPool[i])
           \/ transactionPool[i] \in Range(kept),
         Replace(kept), UNCHANGED <<stateDB, task, added, relayed>>
  PROVE  PoolInv'
<1>1. /\ arrays \in Seq(Seq(PoolTx)) /\ Len(arrays) \in Nat /\ arrays' = Append(arrays, kept)
      /\ adopter' = IdleAdopter
  BY DEF PoolInv, PoolOK, Replace
<1>2. /\ arrays' \in Seq(Seq(PoolTx)) /\ Len(arrays') = Len(arrays) + 1
      /\ arrays'[Len(arrays) + 1] = kept
  BY <1>1
<1>3. transactionPool' = kept
  BY <1>2 DEF transactionPool, Last
<1>4. AccountsOK(stateDB)' /\ SubmissionsOK'
  BY DEF PoolInv, AccountsOK, SubmissionsOK
<1>5. AdopterOK' /\ SweepOK'
  BY <1>1 DEF AdopterOK, SweepOK, IdleAdopter
<1>6. PoolOK'
  BY <1>1, <1>2, <1>3 DEF PoolOK, GapFree, AllPending, StateNonce
<1>7. NoneLost'
  <2>1. ASSUME NEW tx \in added, tx \in Range(transactionPool)
        PROVE  tx \in Range(kept) \/ tx.nonce <= stateDB[tx.sender].nonce
    <3>1. transactionPool \in Seq(PoolTx)
      BY <1>1 DEF transactionPool, Last, PoolInv, PoolOK
    <3>2. PICK i \in 1..Len(transactionPool) : transactionPool[i] = tx
      BY <2>1, <3>1 DEF Range
    <3> QED
      BY <3>2 DEF StateNonce
  <2> QED
    BY <1>3, <2>1 DEF PoolInv, RecordOK, NoneLost
<1>8. RecordOK'
  BY <1>7 DEF PoolInv, RecordOK, RelayedOnce
<1> QED
  BY <1>4, <1>5, <1>6, <1>8 DEF PoolInv

\* The account that submits exists once the pool has something of it.
LEMMA BaseIsNat ==
  ASSUME OneAccount, NEW db, AccountsOK(db), NEW t \in PoolTx, db[t.sender] # Absent
  PROVE  \A tx \in PoolTx : db[tx.sender] # Absent /\ StateNonce(db, tx) \in Nat
<1> TAKE tx \in PoolTx
<1>1. tx.sender = t.sender
  BY DEF OneAccount
<1> QED
  BY <1>1, NonceIsNat

LEMMA StartSweepStep ==
  ASSUME PoolInv, OneAccount, StartSweep
  PROVE  PoolInv'
<1> DEFINE pool == transactionPool
<1>1. /\ adopter.pc = "index" /\ AccountsOK(stateDB)
      /\ UNCHANGED <<stateDB, task, added, relayed>>
  BY DEF StartSweep, PoolInv
<1>2. arrays \in Seq(Seq(PoolTx)) /\ Len(arrays) > 0 /\ pool \in Seq(PoolTx)
  BY DEF PoolInv, PoolOK, transactionPool, Last
<1>3. CASE pool = << >>
  <2>1. Replace(<< >>)
    BY <1>3 DEF StartSweep
  <2>2. GapFree(stateDB, << >>) /\ AllPending(stateDB, << >>) /\ << >> \in Seq(PoolTx)
    BY DEF GapFree, AllPending
  <2>3. \A i \in 1..Len(pool) : FALSE
    BY <1>3
  <2>4. \A i \in 1..Len(<< >>) : stateDB[<< >>[i].sender] # Absent
    OBVIOUS
  <2> QED
    BY <1>1, <2>1, <2>2, <2>3, <2>4, ReplaceStep
<1>4. CASE pool # << >>
  <2>1. arrays' = arrays /\ adopter' = [adopter EXCEPT !.pc = "sweep"]
    BY <1>4 DEF StartSweep
  <2>2. transactionPool' = pool
    BY <2>1 DEF transactionPool
  <2>3. /\ adopter'.pc = "sweep" /\ adopter'.swept = 0 /\ adopter'.sweep = EmptySweep
        /\ DOMAIN adopter' = DOMAIN IdleAdopter /\ DOMAIN adopter'.sweep = DOMAIN EmptySweep
    BY <1>1, <2>1 DEF PoolInv, AdopterOK, IdleAdopter
  <2> HIDE DEF pool
  <2>4. SweptUpTo(stateDB, pool, 0, EmptySweep) /\ 0 < Len(pool)
    <3>1. 1 \in 1..Len(pool) /\ 0 < Len(pool)
      BY <1>2, <1>4
    <3>2. pool[1] \in PoolTx /\ stateDB[pool[1].sender] # Absent
      BY <1>2, <3>1 DEF PoolInv, PoolOK, pool
    <3>3. \A tx \in PoolTx : StateNonce(stateDB, tx) \in Nat
      BY <1>1, <3>2, BaseIsNat
    <3> QED
      BY <1>1, <1>2, <3>1, <3>3, SweepStarts
  <2>5. SweepOK'
    BY <1>1, <2>2, <2>3, <2>4 DEF SweepOK, SweptUpTo, Reached, StateNonce
  <2>6. AdopterOK'
    BY <2>3 DEF AdopterOK
  <2>7. PoolOK'
    BY <1>1, <2>1, <2>2, <2>3 DEF PoolInv, PoolOK, GapFree, StateNonce, pool
  <2>8. RecordOK'
    BY <1>1, <2>2 DEF PoolInv, RecordOK, NoneLost, RelayedOnce, pool
  <2>9. AccountsOK(stateDB)' /\ SubmissionsOK'
    BY <1>1 DEF PoolInv, AccountsOK, SubmissionsOK
  <2> QED
    BY <2>5, <2>6, <2>7, <2>8, <2>9 DEF PoolInv
<1> QED
  BY <1>3, <1>4

LEMMA SweepTxStep ==
  ASSUME PoolInv, OneAccount, SweepTx
  PROVE  PoolInv'
<1> DEFINE pool == transactionPool
           k == adopter.swept
           sweep == SweepRound(stateDB, adopter.sweep, pool[k + 1])
<1>1. /\ adopter.pc = "sweep" /\ AccountsOK(stateDB)
      /\ UNCHANGED <<stateDB, task, added, relayed>>
      /\ k \in Nat /\ k < Len(pool) /\ SweptUpTo(stateDB, pool, k, adopter.sweep)
  BY DEF SweepTx, PoolInv, SweepOK
<1>2. arrays \in Seq(Seq(PoolTx)) /\ pool \in Seq(PoolTx) /\ GapFree(stateDB, pool)
  BY DEF PoolInv, PoolOK, transactionPool, Last
<1>3. \A tx \in PoolTx : stateDB[tx.sender] # Absent /\ StateNonce(stateDB, tx) \in Nat
  <2>1. 1 \in 1..Len(pool)
    BY <1>1, <1>2
  <2>2. pool[1] \in PoolTx /\ stateDB[pool[1].sender] # Absent
    BY <1>2, <2>1 DEF PoolInv, PoolOK
  <2> HIDE DEF pool
  <2> QED
    BY <1>1, <2>2, BaseIsNat
<1>4. SweptUpTo(stateDB, pool, k + 1, sweep) /\ DOMAIN sweep = {"kept", "maxNonce"}
  <2>1. DOMAIN adopter.sweep = {"kept", "maxNonce"}
    BY DEF PoolInv, AdopterOK, EmptySweep
  <2> HIDE DEF pool, k
  <2> QED
    BY <1>1, <1>2, <1>3, <2>1, RoundKeeps
<1>5. CASE k + 1 = Len(pool)
  <2>1. Replace(sweep.kept)
    BY <1>5 DEF SweepTx
  <2> HIDE DEF pool, sweep, k
  <2>2. GapFree(stateDB, sweep.kept) /\ AllPending(stateDB, sweep.kept)
    BY <1>1, <1>3, <1>4, KeptIsPending
  <2>3. sweep.kept \in Seq(PoolTx)
    BY <1>4 DEF SweptUpTo
  <2>4. \A i \in 1..Len(sweep.kept) : stateDB[sweep.kept[i].sender] # Absent
    BY <1>3, <2>3
  <2>5. \A i \in 1..Len(pool) :
          \/ pool[i].nonce <= StateNonce(stateDB, pool[i])
          \/ pool[i] \in Range(sweep.kept)
    BY <1>4, <1>5 DEF SweptUpTo
  <2> QED
    BY <1>1, <2>1, <2>2, <2>3, <2>4, <2>5, ReplaceStep DEF pool
<1>6. CASE k + 1 # Len(pool)
  <2>1. /\ arrays' = arrays
        /\ adopter' = [adopter EXCEPT !.swept = @ + 1, !.sweep = sweep]
    BY <1>6 DEF SweepTx
  <2>2. transactionPool' = pool
    BY <2>1 DEF transactionPool
  <2> HIDE DEF sweep
  <2>3. /\ adopter'.pc = "sweep" /\ adopter'.swept = k + 1 /\ adopter'.sweep = sweep
        /\ DOMAIN adopter' = DOMAIN IdleAdopter
    BY <1>1, <2>1 DEF PoolInv, AdopterOK, IdleAdopter
  <2> HIDE DEF pool, k
  <2>4. SweepOK'
    <3>1. k + 1 \in Nat /\ k + 1 < Len(pool)
      BY <1>1, <1>2, <1>6
    <3>2. SweptUpTo(stateDB', pool, k + 1, sweep)
      BY <1>1, <1>4
    <3>3. SweptUpTo(stateDB, transactionPool, adopter.swept, adopter.sweep)'
      BY <2>2, <2>3, <3>2 DEF SweptUpTo, Reached, StateNonce
    <3> QED
      BY <2>2, <2>3, <3>1, <3>3 DEF SweepOK
  <2>5. AdopterOK'
    BY <1>4, <2>3 DEF AdopterOK, EmptySweep
  <2>6. PoolOK'
    BY <1>1, <2>1, <2>2, <2>3 DEF PoolInv, PoolOK, GapFree, StateNonce, pool
  <2>7. RecordOK'
    BY <1>1, <2>2 DEF PoolInv, RecordOK, NoneLost, RelayedOnce, pool
  <2>8. AccountsOK(stateDB)' /\ SubmissionsOK'
    BY <1>1 DEF PoolInv, AccountsOK, SubmissionsOK
  <2> QED
    BY <2>4, <2>5, <2>6, <2>7, <2>8 DEF PoolInv
<1> QED
  BY <1>5, <1>6

LEMMA PoolInvariance ==
  ASSUME OneAccount, MessagesOnly
  PROVE  Spec => []PoolInv
<1>1. ASSUME PoolInv, [Next]_vars
      PROVE  PoolInv'
  <2>1. CASE UNCHANGED vars
    <3>1. SubmissionsOK'
      BY <1>1, <2>1 DEF PoolInv, SubmissionsOK, vars
    <3>2. UNCHANGED <<stateDB, arrays, adopter, added, relayed>>
      BY <2>1 DEF vars
    <3> QED
      BY <1>1, <3>1, <3>2, SubmissionFrame
  <2>2. ASSUME NEW h \in Handler, NEW entry \in Entry, NEW tx \in PoolTx, Submit(h, entry, tx)
        PROVE  PoolInv'
    BY <1>1, <2>2, SubmitStep
  <2>3. ASSUME NEW h \in Handler, CheckValid(h)
        PROVE  PoolInv'
    BY <1>1, <2>3, CheckValidStep
  <2>4. ASSUME NEW h \in Handler, CheckNonce(h)
        PROVE  PoolInv'
    BY <1>1, <2>4, CheckNonceStep
  <2>5. ASSUME NEW block \in Block, Adopt(block)
        PROVE  PoolInv'
    BY <1>1, <2>5, AdoptStep
  <2>6. CASE FlushAccount
    BY <1>1, <2>6, FlushAccountStep
  <2>7. CASE StartSweep
    BY <1>1, <2>7, StartSweepStep
  <2>8. CASE SweepTx
    BY <1>1, <2>8, SweepTxStep
  <2> QED
    BY <1>1, <2>1, <2>2, <2>3, <2>4, <2>5, <2>6, <2>7, <2>8 DEF Next
<1> QED
  BY PoolInit, <1>1, PTL DEF Spec

-----------------------------------------------------------------------------
\* Between two adoptions the pool is what the miner can put into a block as
\* it is: the nonces continue the account's, without a gap or a repetition.
THEOREM PoolCanBeMined ==
  ASSUME OneAccount, MessagesOnly
  PROVE  Spec => []PoolIsMineable
<1>1. PoolInv => PoolIsMineable
  <2> SUFFICES ASSUME PoolInv, adopter.pc = "idle"
               PROVE  HasValidTxOrder(stateDB, transactionPool)
    BY DEF PoolIsMineable
  <2>1. transactionPool \in Seq(PoolTx)
    BY DEF PoolInv, PoolOK, transactionPool, Last
  <2> QED
    BY <2>1, PendingIsValid DEF PoolInv, PoolOK
<1> QED
  BY <1>1, PoolInvariance, PTL

\* A transaction that was reported as added stays in the pool until its
\* nonce is executed, whatever sweep runs while it is pushed.
THEOREM PoolLosesNothing ==
  ASSUME OneAccount, MessagesOnly
  PROVE  Spec => []NoneLost
<1>1. PoolInv => NoneLost
  BY DEF PoolInv, RecordOK
<1> QED
  BY <1>1, PoolInvariance, PTL

\* However often a transaction arrives, it is flooded once.
THEOREM PoolRelaysOnce ==
  ASSUME OneAccount, MessagesOnly
  PROVE  Spec => []RelayedOnce
<1>1. PoolInv => RelayedOnce
  BY DEF PoolInv, RecordOK
<1> QED
  BY <1>1, PoolInvariance, PTL

=============================================================================
