----------------------------- MODULE LedgerProofs -----------------------------
(***************************************************************************)
(* What executing a block does to the accounts, for every block, every     *)
(* state and every program: the accounts stay well formed, and a block     *)
(* that is accepted creates its reward and nothing else.                   *)
(***************************************************************************)
EXTENDS Ledger, FiniteSetTheorems, TLAPS

\* Every account of db is one that serializeState can store.
AccountsOK(db) ==
  /\ DOMAIN db = Account
  /\ \A a \in Account : db[a] = Absent \/ db[a] \in AccountState

\* The text of every contract in db is stored.
CodeIsStored(db, codes) ==
  \A a \in Account : db[a] # Absent => db[a].codeHash \in codes

\* The working set of a block or of a selection.
WorkOK(work) ==
  /\ {"status", "states", "code"} \subseteq DOMAIN work
  /\ DOMAIN work.states \subseteq Account
  /\ \A a \in DOMAIN work.states : work.states[a] \in AccountState
  /\ work.code \subseteq CodeHash

LEMMA EmptyWorkOK == WorkOK(EmptyWork) /\ DOMAIN EmptyWork.states = {}
BY DEF WorkOK, EmptyWork

LEMMA FailOK ==
  ASSUME NEW work, WorkOK(work), NEW status
  PROVE  /\ WorkOK(Fail(work, status))
         /\ Fail(work, status).status = status
         /\ Fail(work, status).states = work.states
BY DEF WorkOK, Fail

\* What CacheAccount and Send put for an account that is not cached.
Cached(db, a) == IF db[a] = Absent THEN Fresh ELSE db[a]

LEMMA FreshOK == Fresh \in AccountState
BY DEF Fresh, AccountState, CodeHash

LEMMA CacheOK ==
  ASSUME NEW db, AccountsOK(db), NEW codes, NEW work, WorkOK(work), NEW a \in Account
  PROVE  LET next == CacheAccount(db, codes, work, a)
         IN  /\ WorkOK(next) /\ next.status = work.status
             /\ DOMAIN next.states = DOMAIN work.states \cup {a}
             /\ \A b \in DOMAIN work.states : next.states[b] = work.states[b]
             /\ a \notin DOMAIN work.states =>
                  \/ next.states[a] = Fresh
                  \/ db[a] # Absent /\ next.states[a] = db[a]
             /\ CodeIsStored(db, codes) /\ a \notin DOMAIN work.states =>
                  next.states[a] = Cached(db, a)
<1> DEFINE known == db[a] # Absent /\ db[a].codeHash \in codes
           state == IF known THEN db[a] ELSE Fresh
           next == CacheAccount(db, codes, work, a)
<1>1. CASE a \in DOMAIN work.states
  BY <1>1 DEF CacheAccount
<1>2. CASE a \notin DOMAIN work.states
  <2>1. state \in AccountState
    BY FreshOK DEF AccountsOK
  <2>2. state.codeHash \in CodeHash
    BY <2>1 DEF AccountState
  <2>3. next = [work EXCEPT !.states = Put(@, a, state), !.code = @ \cup {state.codeHash}]
    BY <1>2 DEF CacheAccount
  <2>4. CodeIsStored(db, codes) => state = Cached(db, a)
    BY DEF CodeIsStored, Cached
  <2>5. state = Fresh \/ (db[a] # Absent /\ state = db[a])
    OBVIOUS
  <2> HIDE DEF state, next
  <2>6. /\ DOMAIN next = DOMAIN work /\ next.status = work.status
        /\ next.states = Put(work.states, a, state)
        /\ next.code = work.code \cup {state.codeHash}
    BY <2>3 DEF WorkOK
  <2>7. /\ DOMAIN next.states = DOMAIN work.states \cup {a}
        /\ next.states[a] = state
        /\ \A b \in DOMAIN work.states : next.states[b] = work.states[b]
    BY <1>2, <2>6 DEF Put
  <2>8. WorkOK(next)
    BY <2>1, <2>2, <2>6, <2>7 DEF WorkOK
  <2> QED
    BY <1>2, <2>4, <2>5, <2>6, <2>7, <2>8 DEF next
<1> QED
  BY <1>1, <1>2

\* A working set in which one cached account has been replaced.
LEMMA ReplaceOK ==
  ASSUME NEW work, WorkOK(work), NEW a \in DOMAIN work.states, NEW state \in AccountState,
         NEW next, next = [work EXCEPT !.states[a] = state]
  PROVE  /\ WorkOK(next) /\ next.status = work.status
         /\ DOMAIN next.states = DOMAIN work.states
         /\ next.states[a] = state
         /\ \A b \in DOMAIN work.states \ {a} : next.states[b] = work.states[b]
<1>1. /\ DOMAIN next = DOMAIN work /\ next.status = work.status /\ next.code = work.code
      /\ next.states = [work.states EXCEPT ![a] = state]
  BY DEF WorkOK
<1> QED
  BY <1>1 DEF WorkOK

LEMMA CreditOK ==
  ASSUME NEW work, WorkOK(work), NEW a \in DOMAIN work.states, NEW amount \in Nat
  PROVE  LET next == Credit(work, a, amount)
         IN  /\ WorkOK(next) /\ next.status = work.status
             /\ DOMAIN next.states = DOMAIN work.states
             /\ next.states[a].balance = work.states[a].balance + amount
             /\ next.states[a].nonce = work.states[a].nonce
             /\ next.states[a].codeHash = work.states[a].codeHash
             /\ \A b \in DOMAIN work.states \ {a} : next.states[b] = work.states[b]
<1> DEFINE state == [work.states[a] EXCEPT !.balance = @ + amount]
           next == Credit(work, a, amount)
<1>1. work.states[a] \in AccountState
  BY DEF WorkOK
<1>2. /\ state \in AccountState /\ state.balance = work.states[a].balance + amount
      /\ state.nonce = work.states[a].nonce /\ state.codeHash = work.states[a].codeHash
  BY <1>1 DEF AccountState
<1>3. next = [work EXCEPT !.states[a] = state]
  BY DEF Credit
<1> HIDE DEF state, next
<1> QED
  BY <1>2, <1>3, ReplaceOK DEF next

LEMMA DebitOK ==
  ASSUME NEW work, WorkOK(work), NEW a \in DOMAIN work.states, NEW amount \in Nat,
         amount <= work.states[a].balance
  PROVE  LET next == Debit(work, a, amount)
         IN  /\ WorkOK(next) /\ next.status = work.status
             /\ DOMAIN next.states = DOMAIN work.states
             /\ next.states[a].balance = work.states[a].balance - amount
             /\ next.states[a].nonce = work.states[a].nonce
             /\ next.states[a].codeHash = work.states[a].codeHash
             /\ \A b \in DOMAIN work.states \ {a} : next.states[b] = work.states[b]
<1> DEFINE state == [work.states[a] EXCEPT !.balance = @ - amount]
           next == Debit(work, a, amount)
<1>1. work.states[a] \in AccountState
  BY DEF WorkOK
<1>2. /\ state \in AccountState /\ state.balance = work.states[a].balance - amount
      /\ state.nonce = work.states[a].nonce /\ state.codeHash = work.states[a].codeHash
  BY <1>1 DEF AccountState
<1>3. next = [work EXCEPT !.states[a] = state]
  BY DEF Debit
<1> HIDE DEF state, next
<1> QED
  BY <1>2, <1>3, ReplaceOK DEF next

-----------------------------------------------------------------------------
(* What the accounts hold together.                                        *)

AddBalance(db, sum, a) == sum + Balance(db, a)

SupplyFold == INSTANCE FoldTheorems WITH Step <- AddBalance

\* The supply is added up one account after the other.
Added(db, t) == SupplyFold!Part(db, 0, Account, t)

LEMMA SupplyIsAdded ==
  ASSUME NEW db
  PROVE  /\ Added(db, {}) = 0
         /\ Supply(db) = Added(db, Account)
<1>1. SupplyFold!IsFiniteSet(Account)
  BY LedgerAssumption DEF IsFiniteSet, SupplyFold!IsFiniteSet
<1>2. Supply(db) = SupplyFold!Gathered(db, 0, Account)
  BY DEF Supply, AddBalance, FoldSet, MapThenFoldSet,
         SupplyFold!Gathered, SupplyFold!FoldSet, SupplyFold!MapThenFoldSet
<1> QED
  BY <1>1, <1>2, SupplyFold!PartBase, SupplyFold!GatheredIsPart DEF Added

LEMMA AddedOne ==
  ASSUME NEW t \in SUBSET Account, t # {}
  PROVE  \E x \in t : \A db : Added(db, t) = Added(db, t \ {x}) + Balance(db, x)
<1> DEFINE x == SupplyFold!Some(t)
<1>1. SupplyFold!IsFiniteSet(Account)
  BY LedgerAssumption DEF IsFiniteSet, SupplyFold!IsFiniteSet
<1>2. \A db : x \in t /\ Added(db, t) = AddBalance(db, Added(db, t \ {x}), x)
  BY <1>1, SupplyFold!PartStep DEF Added
<1> QED
  BY <1>2 DEF AddBalance

\* Two states that differ in the balance of one account.
LEMMA SupplyMoves ==
  ASSUME NEW old, NEW new, NEW a \in Account,
         \A b \in Account : Balance(old, b) \in Int /\ Balance(new, b) \in Int,
         \A b \in Account \ {a} : Balance(new, b) = Balance(old, b)
  PROVE  /\ Supply(old) \in Int /\ Supply(new) \in Int
         /\ Supply(new) = Supply(old) + Balance(new, a) - Balance(old, a)
<1> DEFINE d == Balance(new, a) - Balance(old, a)
           Agree(t) == /\ Added(old, t) \in Int /\ Added(new, t) \in Int
                       /\ Added(new, t) = Added(old, t) + (IF a \in t THEN d ELSE 0)
           S == {n \in Nat : \A t \in SUBSET Account : Cardinality(t) = n => Agree(t)}
<1>1. IsFiniteSet(Account)
  BY LedgerAssumption
<1>2. 0 \in S
  <2> SUFFICES ASSUME NEW t \in SUBSET Account, Cardinality(t) = 0
               PROVE  Agree(t)
    OBVIOUS
  <2>1. t = {}
    BY <1>1, FS_Subset, FS_EmptySet
  <2> QED
    BY <2>1, SupplyIsAdded
<1>3. ASSUME NEW n \in Nat, n \in S
      PROVE  n + 1 \in S
  <2> SUFFICES ASSUME NEW t \in SUBSET Account, Cardinality(t) = n + 1
               PROVE  Agree(t)
    OBVIOUS
  <2>1. IsFiniteSet(t) /\ t # {}
    BY <1>1, FS_Subset, FS_EmptySet
  <2>2. PICK x \in t : \A db : Added(db, t) = Added(db, t \ {x}) + Balance(db, x)
    BY <2>1, AddedOne
  <2> DEFINE rest == t \ {x}
  <2>3. /\ x \in Account /\ rest \in SUBSET Account
        /\ Added(old, t) = Added(old, rest) + Balance(old, x)
        /\ Added(new, t) = Added(new, rest) + Balance(new, x)
    BY <2>2
  <2>4. Cardinality(rest) = n
    <3>1. Cardinality(t \ {x}) = Cardinality(t) - 1
      BY <2>1, <2>2, FS_RemoveElement
    <3> QED
      BY <3>1
  <2>5. Agree(rest)
    BY <1>3, <2>3, <2>4
  <2>6. x = a => a \notin rest /\ a \in t
    BY <2>2
  <2>7. x # a => (a \in rest <=> a \in t)
    OBVIOUS
  <2>8. Balance(old, x) \in Int /\ Balance(new, x) \in Int
        /\ (x # a => Balance(new, x) = Balance(old, x))
        /\ Balance(old, a) \in Int /\ Balance(new, a) \in Int
    BY <2>3
  <2> HIDE DEF rest
  <2> QED
    BY <2>3, <2>5, <2>6, <2>7, <2>8
<1>4. Nat \subseteq S
  <2> HIDE DEF S
  <2> QED
    BY <1>2, <1>3, SupplyFold!Induction
<1>5. Agree(Account)
  BY <1>1, <1>4, FS_CardinalityType
<1>6. Balance(old, a) \in Int /\ Balance(new, a) \in Int
  OBVIOUS
<1> QED
  BY <1>5, <1>6, SupplyIsAdded

LEMMA SupplySame ==
  ASSUME NEW old, NEW new,
         \A b \in Account : Balance(old, b) \in Int /\ Balance(new, b) = Balance(old, b)
  PROVE  Supply(old) \in Int /\ Supply(new) = Supply(old)
<1>1. CASE Account = {}
  BY <1>1, SupplyIsAdded
<1>2. ASSUME NEW a \in Account
      PROVE  Supply(old) \in Int /\ Supply(new) = Supply(old)
  <2>1. /\ Supply(old) \in Int
        /\ Supply(new) = Supply(old) + Balance(new, a) - Balance(old, a)
    BY SupplyMoves
  <2> QED
    BY <2>1
<1> QED
  BY <1>1, <1>2

\* An account as the execution of a block finds it.
Seen(db, work, a) == IF a \in DOMAIN work.states THEN work.states[a] ELSE Cached(db, a)

\* The supply if the working set were written now.
Total(db, work) == Supply(Overlay(db, work.states))

LEMMA SeenOK ==
  ASSUME NEW db, AccountsOK(db), NEW work, WorkOK(work), NEW a \in Account
  PROVE  /\ Seen(db, work, a) \in AccountState
         /\ Balance(Overlay(db, work.states), a) = Seen(db, work, a).balance
         /\ Seen(db, work, a).balance \in Nat
         /\ Seen(db, work, a).nonce \in Nat
<1>1. Cached(db, a) \in AccountState
  BY FreshOK DEF Cached, AccountsOK
<1>2. Seen(db, work, a) \in AccountState
  BY <1>1 DEF Seen, WorkOK
<1>3. Seen(db, work, a).balance \in Nat /\ Seen(db, work, a).nonce \in Nat
  BY <1>2 DEF AccountState
<1>4. Balance(Overlay(db, work.states), a) = Seen(db, work, a).balance
  <2>1. CASE a \in DOMAIN work.states
    <3>1. Overlay(db, work.states)[a] = work.states[a] /\ work.states[a] # Absent
      BY <2>1, AbsentAssumption DEF Overlay, AccountsOK, WorkOK
    <3> QED
      BY <2>1, <3>1 DEF Balance, Seen
  <2>2. CASE a \notin DOMAIN work.states
    <3>1. Overlay(db, work.states)[a] = db[a]
      BY <2>2 DEF Overlay, AccountsOK
    <3> QED
      BY <2>2, <3>1 DEF Balance, Seen, Cached, Fresh
  <2> QED
    BY <2>1, <2>2
<1> QED
  BY <1>2, <1>3, <1>4

\* One account's balance changes by the execution of a block.
LEMMA TotalMoves ==
  ASSUME NEW db, AccountsOK(db), NEW work, WorkOK(work), NEW next, WorkOK(next),
         NEW a \in Account,
         \A b \in Account \ {a} : Seen(db, next, b).balance = Seen(db, work, b).balance
  PROVE  /\ Total(db, work) \in Int /\ Total(db, next) \in Int
         /\ Total(db, next) = Total(db, work) + Seen(db, next, a).balance - Seen(db, work, a).balance
<1> DEFINE old == Overlay(db, work.states)
           new == Overlay(db, next.states)
<1>1. \A b \in Account : /\ Balance(old, b) = Seen(db, work, b).balance
                         /\ Balance(new, b) = Seen(db, next, b).balance
                         /\ Balance(old, b) \in Int /\ Balance(new, b) \in Int
  BY SeenOK
<1> HIDE DEF old, new
<1>2. /\ Supply(old) \in Int /\ Supply(new) \in Int
      /\ Supply(new) = Supply(old) + Balance(new, a) - Balance(old, a)
  BY <1>1, SupplyMoves
<1> QED
  BY <1>1, <1>2 DEF Total, old, new

-----------------------------------------------------------------------------
(* The steps of one transaction.                                           *)

\* What every step below keeps: the working set is well formed, and accounts
\* stay cached.
Extends(next, work) == WorkOK(next) /\ DOMAIN work.states \subseteq DOMAIN next.states

SameNonces(db, next, work) ==
  \A b \in Account : Seen(db, next, b).nonce = Seen(db, work, b).nonce

LEMMA CacheSeen ==
  ASSUME NEW db, AccountsOK(db), NEW codes, CodeIsStored(db, codes),
         NEW work, WorkOK(work), NEW a \in Account
  PROVE  LET next == CacheAccount(db, codes, work, a)
         IN  /\ \A b \in Account : Seen(db, next, b) = Seen(db, work, b)
             /\ SameNonces(db, next, work)
             /\ Total(db, next) = Total(db, work) /\ Total(db, work) \in Int
<1> DEFINE next == CacheAccount(db, codes, work, a)
<1>1. WorkOK(next)
  BY CacheOK
<1>2. \A b \in Account : Seen(db, next, b) = Seen(db, work, b)
  BY CacheOK DEF Seen
<1> HIDE DEF next
<1>3. /\ Total(db, next) = Total(db, work) + Seen(db, next, a).balance - Seen(db, work, a).balance
      /\ Total(db, work) \in Int
  BY <1>1, <1>2, TotalMoves
<1>4. Seen(db, next, a).balance = Seen(db, work, a).balance /\ Seen(db, work, a).balance \in Nat
  BY <1>2, SeenOK
<1> QED
  BY <1>2, <1>3, <1>4 DEF SameNonces, next

LEMMA CreditTotal ==
  ASSUME NEW db, AccountsOK(db), NEW work, WorkOK(work), NEW a \in DOMAIN work.states,
         NEW amount \in Nat
  PROVE  LET next == Credit(work, a, amount)
         IN  /\ Extends(next, work) /\ SameNonces(db, next, work)
             /\ Total(db, next) = Total(db, work) + amount
             /\ Total(db, work) \in Int
<1> DEFINE next == Credit(work, a, amount)
<1>1. /\ WorkOK(next) /\ a \in Account
      /\ DOMAIN next.states = DOMAIN work.states
      /\ next.states[a].balance = work.states[a].balance + amount
      /\ next.states[a].nonce = work.states[a].nonce
      /\ \A b \in DOMAIN work.states \ {a} : next.states[b] = work.states[b]
  BY CreditOK DEF WorkOK
<1> HIDE DEF next
<1>2. /\ \A b \in Account \ {a} : Seen(db, next, b) = Seen(db, work, b)
      /\ Seen(db, next, a).balance = Seen(db, work, a).balance + amount
      /\ Seen(db, next, a).nonce = Seen(db, work, a).nonce
  BY <1>1 DEF Seen
<1>3. /\ Total(db, next) = Total(db, work) + Seen(db, next, a).balance - Seen(db, work, a).balance
      /\ Total(db, work) \in Int
  BY <1>1, <1>2, TotalMoves
<1>4. Seen(db, work, a).balance \in Nat
  BY <1>1, SeenOK
<1> QED
  BY <1>1, <1>2, <1>3, <1>4 DEF SameNonces, Extends, next

LEMMA DebitTotal ==
  ASSUME NEW db, AccountsOK(db), NEW work, WorkOK(work), NEW a \in DOMAIN work.states,
         NEW amount \in Nat, amount <= work.states[a].balance
  PROVE  LET next == Debit(work, a, amount)
         IN  /\ Extends(next, work) /\ SameNonces(db, next, work)
             /\ Total(db, next) = Total(db, work) - amount
             /\ Total(db, work) \in Int
<1> DEFINE next == Debit(work, a, amount)
<1>1. /\ WorkOK(next) /\ a \in Account
      /\ DOMAIN next.states = DOMAIN work.states
      /\ next.states[a].balance = work.states[a].balance - amount
      /\ next.states[a].nonce = work.states[a].nonce
      /\ \A b \in DOMAIN work.states \ {a} : next.states[b] = work.states[b]
  BY DebitOK DEF WorkOK
<1> HIDE DEF next
<1>2. /\ \A b \in Account \ {a} : Seen(db, next, b) = Seen(db, work, b)
      /\ Seen(db, next, a).balance = Seen(db, work, a).balance - amount
      /\ Seen(db, next, a).nonce = Seen(db, work, a).nonce
  BY <1>1 DEF Seen
<1>3. /\ Total(db, next) = Total(db, work) + Seen(db, next, a).balance - Seen(db, work, a).balance
      /\ Total(db, work) \in Int
  BY <1>1, <1>2, TotalMoves
<1>4. Seen(db, work, a).balance \in Nat
  BY <1>1, SeenOK
<1> QED
  BY <1>1, <1>2, <1>3, <1>4 DEF SameNonces, Extends, next

\* A change of one cached account that leaves its balance alone.
LEMMA RewriteTotal ==
  ASSUME NEW db, AccountsOK(db), NEW work, WorkOK(work), NEW a \in DOMAIN work.states,
         NEW next, WorkOK(next), DOMAIN next.states = DOMAIN work.states,
         next.states[a].balance = work.states[a].balance,
         \A b \in DOMAIN work.states \ {a} : next.states[b] = work.states[b]
  PROVE  Total(db, next) = Total(db, work) /\ Total(db, work) \in Int
<1>1. /\ a \in Account
      /\ \A b \in Account \ {a} : Seen(db, next, b).balance = Seen(db, work, b).balance
      /\ Seen(db, next, a).balance = Seen(db, work, a).balance
  BY DEF Seen, WorkOK
<1>2. /\ Total(db, next) = Total(db, work) + Seen(db, next, a).balance - Seen(db, work, a).balance
      /\ Total(db, work) \in Int
  BY <1>1, TotalMoves
<1>3. Seen(db, work, a).balance \in Nat
  BY <1>1, SeenOK
<1> QED
  BY <1>1, <1>2, <1>3

LEMMA DeployTotal ==
  ASSUME NEW db, AccountsOK(db), NEW work, WorkOK(work), NEW tx \in Transaction,
         tx.sender \in DOMAIN work.states
  PROVE  LET next == Deploy(work, tx)
         IN  /\ Extends(next, work) /\ SameNonces(db, next, work)
             /\ next.status = work.status
             /\ Total(db, next) = Total(db, work)
<1> DEFINE a == tx.sender
           state == [work.states[a] EXCEPT !.codeHash = tx.scBody]
           named == [work EXCEPT !.states[a] = state]
           next == Deploy(work, tx)
<1>1. CASE tx.scBody = EMPTY_HASH
  BY <1>1 DEF Deploy, Extends, SameNonces
<1>2. CASE tx.scBody # EMPTY_HASH
  <2>1. tx.scBody \in CodeHash /\ work.states[a] \in AccountState
    BY DEF Transaction, WorkOK
  <2>2. /\ state \in AccountState /\ state.balance = work.states[a].balance
        /\ state.nonce = work.states[a].nonce
    BY <2>1 DEF AccountState
  <2>3. next = [named EXCEPT !.code = @ \cup {tx.scBody}]
    BY <1>2 DEF Deploy
  <2> HIDE DEF state, next
  <2>4. /\ WorkOK(named) /\ named.status = work.status
        /\ DOMAIN named.states = DOMAIN work.states
        /\ named.states[a] = state
        /\ \A b \in DOMAIN work.states \ {a} : named.states[b] = work.states[b]
    BY <2>2, ReplaceOK
  <2> HIDE DEF named
  <2>5. next.states = named.states /\ next.status = named.status /\ WorkOK(next)
    BY <2>1, <2>3, <2>4 DEF WorkOK
  <2>6. Total(db, next) = Total(db, work)
    BY <2>2, <2>4, <2>5, RewriteTotal
  <2>7. SameNonces(db, next, work)
    BY <2>2, <2>4, <2>5 DEF SameNonces, Seen
  <2> QED
    BY <2>4, <2>5, <2>6, <2>7 DEF Extends, next
<1> QED
  BY <1>1, <1>2

\* The nonce of the sender.
CountTx(work, tx) == [work EXCEPT !.states[tx.sender].nonce = @ + 1]

NonceCounted(db, next, work, tx) ==
  \A b \in Account :
    Seen(db, next, b).nonce = Seen(db, work, b).nonce + (IF b = tx.sender THEN 1 ELSE 0)

LEMMA CountTotal ==
  ASSUME NEW db, AccountsOK(db), NEW work, WorkOK(work), NEW tx \in Transaction,
         tx.sender \in DOMAIN work.states
  PROVE  LET next == CountTx(work, tx)
         IN  /\ Extends(next, work) /\ NonceCounted(db, next, work, tx)
             /\ next.status = work.status
             /\ Total(db, next) = Total(db, work)
<1> DEFINE a == tx.sender
           state == [work.states[a] EXCEPT !.nonce = @ + 1]
           next == CountTx(work, tx)
<1>1. work.states[a] \in AccountState /\ a \in Account
  BY DEF WorkOK
<1>2. /\ state \in AccountState /\ state.balance = work.states[a].balance
      /\ state.nonce = work.states[a].nonce + 1
  BY <1>1 DEF AccountState
<1>3. next = [work EXCEPT !.states[a] = state]
  BY DEF CountTx
<1> HIDE DEF state, next
<1>4. /\ WorkOK(next) /\ next.status = work.status
      /\ DOMAIN next.states = DOMAIN work.states
      /\ next.states[a] = state
      /\ \A b \in DOMAIN work.states \ {a} : next.states[b] = work.states[b]
  BY <1>2, <1>3, ReplaceOK
<1>5. Total(db, next) = Total(db, work)
  BY <1>2, <1>4, RewriteTotal
<1>6. NonceCounted(db, next, work, tx)
  <2>1. \A b \in Account : Seen(db, work, b).nonce \in Nat
    BY SeenOK
  <2> QED
    BY <1>1, <1>2, <1>4, <2>1 DEF NonceCounted, Seen
<1> QED
  BY <1>4, <1>5, <1>6 DEF Extends, next

\* A contract pays no more than it holds.
LEMMA SendTotal ==
  ASSUME NEW db, AccountsOK(db), NEW work, WorkOK(work),
         NEW contract \in DOMAIN work.states, NEW payee \in Account, NEW amount \in Nat
  PROVE  LET next == Send(db, work, contract, payee, amount)
         IN  /\ Extends(next, work) /\ SameNonces(db, next, work)
             /\ next.status = work.status
             /\ Total(db, next) = Total(db, work)
<1> DEFINE cached == IF payee \in DOMAIN work.states THEN work
                     ELSE [work EXCEPT !.states = Put(@, payee, Cached(db, payee))]
           credited == Credit(cached, payee, amount)
           next == Send(db, work, contract, payee, amount)
<1>1. CASE work.states[contract].balance < amount
  BY <1>1 DEF Send, Extends, SameNonces
<1>2. CASE ~(work.states[contract].balance < amount)
  <2>1. next = Debit(credited, contract, amount)
    BY <1>2 DEF Send, Cached
  <2>2. /\ WorkOK(cached) /\ cached.status = work.status
        /\ DOMAIN cached.states = DOMAIN work.states \cup {payee}
        /\ \A b \in DOMAIN work.states : cached.states[b] = work.states[b]
        /\ \A b \in Account : Seen(db, cached, b) = Seen(db, work, b)
    <3>1. CASE payee \in DOMAIN work.states
      BY <3>1
    <3>2. CASE payee \notin DOMAIN work.states
      <4>1. Cached(db, payee) \in AccountState
        BY FreshOK DEF Cached, AccountsOK
      <4>2. cached = [work EXCEPT !.states = Put(@, payee, Cached(db, payee))]
        BY <3>2
      <4> HIDE DEF cached
      <4>3. /\ DOMAIN cached = DOMAIN work /\ cached.status = work.status
            /\ cached.code = work.code
            /\ cached.states = Put(work.states, payee, Cached(db, payee))
        BY <4>2 DEF WorkOK
      <4>4. /\ DOMAIN cached.states = DOMAIN work.states \cup {payee}
            /\ cached.states[payee] = Cached(db, payee)
            /\ \A b \in DOMAIN work.states : cached.states[b] = work.states[b]
        BY <3>2, <4>3 DEF Put
      <4>5. WorkOK(cached)
        BY <4>1, <4>3, <4>4 DEF WorkOK
      <4> QED
        BY <3>2, <4>3, <4>4, <4>5 DEF Seen
    <3> QED
      BY <3>1, <3>2
  <2> HIDE DEF cached
  <2>3. Total(db, cached) = Total(db, work) /\ Total(db, work) \in Int
    <3>1. /\ Total(db, cached) = Total(db, work) + Seen(db, cached, payee).balance
                                  - Seen(db, work, payee).balance
          /\ Total(db, work) \in Int
      BY <2>2, TotalMoves
    <3>2. Seen(db, work, payee).balance \in Nat
      BY SeenOK
    <3> QED
      BY <2>2, <3>1, <3>2
  <2>4. /\ Extends(credited, cached) /\ SameNonces(db, credited, cached)
        /\ Total(db, credited) = Total(db, cached) + amount
    BY <2>2, CreditTotal
  <2>5. credited.status = cached.status /\ amount <= credited.states[contract].balance
    <3>1. /\ credited.status = cached.status
          /\ credited.states[payee].balance = cached.states[payee].balance + amount
          /\ \A b \in DOMAIN cached.states \ {payee} : credited.states[b] = cached.states[b]
      BY <2>2, CreditOK
    <3>2. cached.states[contract].balance = work.states[contract].balance
      BY <2>2
    <3>3. work.states[contract].balance \in Nat
      BY DEF WorkOK, AccountState
    <3> HIDE DEF credited
    <3>4. CASE contract = payee
      BY <3>1, <3>2, <3>3, <3>4
    <3>5. CASE contract # payee
      BY <1>2, <2>2, <3>1, <3>2, <3>3, <3>5
    <3> QED
      BY <3>4, <3>5
  <2>6. WorkOK(credited) /\ contract \in DOMAIN credited.states
    BY <2>2, <2>4 DEF Extends
  <2> HIDE DEF credited
  <2>7. /\ Extends(next, credited) /\ SameNonces(db, next, credited)
        /\ next.status = credited.status
        /\ Total(db, next) = Total(db, credited) - amount
    BY <2>1, <2>5, <2>6, DebitTotal, DebitOK
  <2> HIDE DEF next
  <2>8. Total(db, next) = Total(db, work)
    BY <2>3, <2>4, <2>7
  <2>9. SameNonces(db, next, work)
    BY <2>2, <2>4, <2>7 DEF SameNonces
  <2> QED
    BY <2>2, <2>4, <2>5, <2>7, <2>8, <2>9 DEF Extends, next
<1> QED
  BY <1>1, <1>2

LEMMA RunContractTotal ==
  ASSUME NEW db, AccountsOK(db), NEW work, WorkOK(work), NEW tx \in Transaction,
         tx.recipient \in DOMAIN work.states
  PROVE  LET next == RunContract(db, work, tx)
         IN  /\ Extends(next, work) /\ SameNonces(db, next, work)
             /\ next.status = "ok" => work.status = "ok"
             /\ Total(db, next) = Total(db, work)
<1> DEFINE hash == work.states[tx.recipient].codeHash
           program == Program[hash]
           next == RunContract(db, work, tx)
<1>1. CASE next = work
  BY <1>1 DEF Extends, SameNonces
<1>2. CASE next = Fail(work, "throws")
  <2>1. WorkOK(next) /\ next.status = "throws" /\ next.states = work.states
    BY <1>2, FailOK
  <2> HIDE DEF next
  <2> QED
    BY <2>1 DEF Extends, SameNonces, Seen, Total, next
<1>3. CASE hash # EMPTY_HASH /\ next = Send(db, work, tx.recipient, program.payee, program.amount)
  <2>1. hash \in CodeHash
    BY DEF WorkOK, AccountState
  <2>2. program.payee \in Account /\ program.amount \in Nat
    BY <1>3, <2>1, LedgerAssumption DEF CodeHash
  <2> HIDE DEF next, program
  <2> QED
    BY <1>3, <2>2, SendTotal DEF next
<1> QED
  BY <1>1, <1>2, <1>3 DEF RunContract

\* The execution of a transaction takes its fees out of the accounts and
\* moves the rest; only the sender's nonce changes.
LEMMA ExecuteTotal ==
  ASSUME NEW db, AccountsOK(db), NEW codes, NEW work, WorkOK(work), NEW tx \in Transaction,
         tx.sender \in DOMAIN work.states, CanPay(work, tx)
  PROVE  LET next == Execute(db, codes, work, tx)
         IN  /\ Extends(next, work)
             /\ next.status = "ok" => work.status = "ok"
             /\ CodeIsStored(db, codes) =>
                  /\ NonceCounted(db, next, work, tx)
                  /\ Total(db, next) = Total(db, work) - (tx.gas + tx.contractGas)
                  /\ Total(db, work) \in Int
<1> DEFINE paid == Debit(work, tx.sender, TotalAmountToPay(tx))
           cached == CacheAccount(db, codes, paid, tx.recipient)
           moved == Credit(cached, tx.recipient, tx.amount)
           coded == Deploy(moved, tx)
           counted == CountTx(coded, tx)
           next == Execute(db, codes, work, tx)
<1>1. /\ tx.amount \in Nat /\ tx.gas \in Nat /\ tx.contractGas \in Nat
      /\ tx.recipient \in Account /\ TotalAmountToPay(tx) \in Nat
      /\ TotalAmountToPay(tx) = tx.amount + tx.gas + tx.contractGas
  BY DEF Transaction, TotalAmountToPay
<1>2. next = RunContract(db, counted, tx)
  BY DEF Execute, CountTx
<1>3. TotalAmountToPay(tx) <= work.states[tx.sender].balance
  <2>1. work.states[tx.sender].balance \in Nat
    BY DEF WorkOK, AccountState
  <2> QED
    BY <1>1, <2>1 DEF CanPay
<1>4. /\ Extends(paid, work) /\ SameNonces(db, paid, work) /\ paid.status = work.status
      /\ Total(db, paid) = Total(db, work) - TotalAmountToPay(tx)
      /\ Total(db, work) \in Int
  BY <1>1, <1>3, DebitTotal, DebitOK
<1> HIDE DEF paid
<1>5. /\ Extends(cached, paid) /\ cached.status = paid.status
      /\ tx.recipient \in DOMAIN cached.states
      /\ CodeIsStored(db, codes) => /\ SameNonces(db, cached, paid)
                                    /\ Total(db, cached) = Total(db, paid)
  <2>1. WorkOK(paid)
    BY <1>4 DEF Extends
  <2> QED
    BY <1>1, <2>1, CacheOK, CacheSeen DEF Extends
<1> HIDE DEF cached
<1>6. /\ Extends(moved, cached) /\ SameNonces(db, moved, cached) /\ moved.status = cached.status
      /\ Total(db, moved) = Total(db, cached) + tx.amount
  BY <1>1, <1>5, CreditTotal, CreditOK DEF Extends
<1> HIDE DEF moved
<1>7. WorkOK(moved) /\ tx.sender \in DOMAIN moved.states /\ tx.recipient \in DOMAIN moved.states
  BY <1>4, <1>5, <1>6 DEF Extends
<1>8. /\ Extends(coded, moved) /\ SameNonces(db, coded, moved) /\ coded.status = moved.status
      /\ Total(db, coded) = Total(db, moved)
  BY <1>7, DeployTotal
<1> HIDE DEF coded
<1>9. WorkOK(coded) /\ tx.sender \in DOMAIN coded.states /\ tx.recipient \in DOMAIN coded.states
  BY <1>7, <1>8 DEF Extends
<1>10. /\ Extends(counted, coded) /\ NonceCounted(db, counted, coded, tx)
       /\ counted.status = coded.status
       /\ Total(db, counted) = Total(db, coded)
  BY <1>9, CountTotal
<1> HIDE DEF counted
<1>11. WorkOK(counted) /\ tx.recipient \in DOMAIN counted.states
  BY <1>9, <1>10 DEF Extends
<1>12. /\ Extends(next, counted) /\ SameNonces(db, next, counted)
       /\ next.status = "ok" => counted.status = "ok"
       /\ Total(db, next) = Total(db, counted)
  BY <1>2, <1>11, RunContractTotal
<1> HIDE DEF next
<1>13. Extends(next, work)
  BY <1>4, <1>5, <1>6, <1>8, <1>10, <1>12 DEF Extends
<1>14. next.status = "ok" => work.status = "ok"
  BY <1>4, <1>5, <1>6, <1>8, <1>10, <1>12
<1>15. CodeIsStored(db, codes) => NonceCounted(db, next, work, tx)
  BY <1>4, <1>5, <1>6, <1>8, <1>10, <1>12 DEF SameNonces, NonceCounted
<1>16. CodeIsStored(db, codes) =>
         /\ Total(db, next) = Total(db, work) - TotalAmountToPay(tx) + tx.amount
         /\ Total(db, work) \in Int
  BY <1>4, <1>5, <1>6, <1>8, <1>10, <1>12
<1>17. CodeIsStored(db, codes) => Total(db, next) = Total(db, work) - (tx.gas + tx.contractGas)
  BY <1>1, <1>16
<1> QED
  BY <1>4, <1>13, <1>14, <1>15, <1>17 DEF next

-----------------------------------------------------------------------------
(* The transactions of a block, one after the other.                       *)

LEMMA SettleTxTotal ==
  ASSUME NEW db, AccountsOK(db), NEW codes, NEW work, WorkOK(work), NEW tx \in Transaction
  PROVE  LET next == SettleTx(db, codes, work, tx)
         IN  /\ Extends(next, work)
             /\ next.status = "ok" => work.status = "ok"
             /\ next.status = "ok" /\ CodeIsStored(db, codes) =>
                  /\ NonceCounted(db, next, work, tx)
                  /\ Total(db, next) = Total(db, work) - (tx.gas + tx.contractGas)
                  /\ Total(db, work) \in Int
<1> DEFINE cached == CacheAccount(db, codes, work, tx.sender)
           next == SettleTx(db, codes, work, tx)
<1>1. CASE next = work /\ work.status # "ok"
  BY <1>1 DEF Extends
<1>2. CASE next = Fail(work, "invalid")
  <2>1. WorkOK(next) /\ next.status = "invalid" /\ next.states = work.states
    BY <1>2, FailOK
  <2> HIDE DEF next
  <2> QED
    BY <2>1 DEF Extends, next
<1>3. CASE next = Execute(db, codes, cached, tx) /\ CanPay(cached, tx)
  <2>1. tx.sender \in Account
    BY DEF Transaction
  <2>2. /\ WorkOK(cached) /\ cached.status = work.status /\ tx.sender \in DOMAIN cached.states
        /\ DOMAIN work.states \subseteq DOMAIN cached.states
        /\ CodeIsStored(db, codes) => /\ SameNonces(db, cached, work)
                                      /\ Total(db, cached) = Total(db, work)
    BY <2>1, CacheOK, CacheSeen
  <2> HIDE DEF cached, next
  <2>3. /\ Extends(next, cached)
        /\ next.status = "ok" => cached.status = "ok"
        /\ CodeIsStored(db, codes) =>
             /\ NonceCounted(db, next, cached, tx)
             /\ Total(db, next) = Total(db, cached) - (tx.gas + tx.contractGas)
             /\ Total(db, cached) \in Int
    BY <1>3, <2>2, ExecuteTotal
  <2>4. CodeIsStored(db, codes) => NonceCounted(db, next, work, tx)
    BY <2>2, <2>3 DEF SameNonces, NonceCounted
  <2> QED
    BY <2>2, <2>3, <2>4 DEF Extends, next
<1> QED
  BY <1>1, <1>2, <1>3 DEF SettleTx

SettleNext(env, work, tx) == SettleTx(env[1], env[2], work, tx)
AddFee(env, sum, tx) == sum + tx.gas + tx.contractGas

SettleFold == INSTANCE FoldTheorems WITH Step <- SettleNext
FeeFold == INSTANCE FoldTheorems WITH Step <- AddFee

\* The working set and the fees after the first i transactions.
Settled(db, codes, txs, i) == SettleFold!Prefix(<<db, codes>>, EmptyWork, txs, i)
FeesUpTo(txs, i) == FeeFold!Prefix(0, 0, txs, i)

LEMMA SettledSteps ==
  ASSUME NEW db, NEW codes, NEW txs \in Seq(Transaction)
  PROVE  /\ Settled(db, codes, txs, 0) = EmptyWork
         /\ \A i \in 1..Len(txs) :
              Settled(db, codes, txs, i) = SettleTx(db, codes, Settled(db, codes, txs, i - 1), txs[i])
         /\ Settle(db, codes, txs) = Settled(db, codes, txs, Len(txs))
<1>1. SettleFold!IsSequence(txs)
  BY DEF SettleFold!IsSequence
<1>2. Settle(db, codes, txs) = SettleFold!Folded(<<db, codes>>, EmptyWork, txs)
  BY DEF Settle, SettleNext, FoldLeft, MapThenFoldSet, Max,
         SettleFold!Folded, SettleFold!FoldLeft, SettleFold!MapThenFoldSet, SettleFold!Max
<1>3. SettleFold!Prefix(<<db, codes>>, EmptyWork, txs, 0) = EmptyWork
  BY <1>1, SettleFold!PrefixBase
<1>4. ASSUME NEW i \in 1..Len(txs)
      PROVE  Settled(db, codes, txs, i) = SettleTx(db, codes, Settled(db, codes, txs, i - 1), txs[i])
  <2>1. Settled(db, codes, txs, i) = SettleNext(<<db, codes>>, Settled(db, codes, txs, i - 1), txs[i])
    BY <1>1, SettleFold!PrefixStep DEF Settled
  <2> QED
    BY <2>1 DEF SettleNext
<1>5. SettleFold!Folded(<<db, codes>>, EmptyWork, txs) = Settled(db, codes, txs, Len(txs))
  BY <1>1, SettleFold!FoldedIsPrefix DEF Settled
<1> QED
  BY <1>2, <1>3, <1>4, <1>5 DEF Settled

LEMMA FeeSteps ==
  ASSUME NEW txs \in Seq(Transaction)
  PROVE  /\ FeesUpTo(txs, 0) = 0
         /\ \A i \in 1..Len(txs) :
              FeesUpTo(txs, i) = FeesUpTo(txs, i - 1) + txs[i].gas + txs[i].contractGas
         /\ Fees(txs) = FeesUpTo(txs, Len(txs))
<1>1. FeeFold!IsSequence(txs)
  BY DEF FeeFold!IsSequence
<1>2. Fees(txs) = FeeFold!Folded(0, 0, txs)
  BY DEF Fees, AddFee, FoldLeft, MapThenFoldSet, Max,
         FeeFold!Folded, FeeFold!FoldLeft, FeeFold!MapThenFoldSet, FeeFold!Max
<1> QED
  BY <1>1, <1>2, FeeFold!PrefixBase, FeeFold!PrefixStep, FeeFold!FoldedIsPrefix DEF FeesUpTo, AddFee

\* How many of the first i transactions a sent.
SentUpTo(txs, i, a) == Cardinality({j \in 1..i : txs[j].sender = a})

LEMMA SentSteps ==
  ASSUME NEW txs, NEW a
  PROVE  /\ SentUpTo(txs, 0, a) = 0
         /\ \A i \in Nat : SentUpTo(txs, i, a) \in Nat
         /\ \A i \in Nat : SentUpTo(txs, i + 1, a)
              = SentUpTo(txs, i, a) + (IF txs[i + 1].sender = a THEN 1 ELSE 0)
<1> DEFINE Sent(i) == {j \in 1..i : txs[j].sender = a}
<1>1. \A i \in Nat : IsFiniteSet(Sent(i))
  <2>1. ASSUME NEW i \in Nat
        PROVE  IsFiniteSet(Sent(i))
    <3>1. IsFiniteSet(1..i) /\ Sent(i) \in SUBSET (1..i)
      BY FS_Interval
    <3> QED
      BY <3>1, FS_Subset
  <2> QED
    BY <2>1
<1>2. Sent(0) = {}
  OBVIOUS
<1>3. ASSUME NEW i \in Nat
      PROVE  Cardinality(Sent(i + 1))
               = Cardinality(Sent(i)) + (IF txs[i + 1].sender = a THEN 1 ELSE 0)
  <2>1. IsFiniteSet(Sent(i)) /\ i + 1 \notin Sent(i) /\ Cardinality(Sent(i)) \in Nat
    BY <1>1, FS_CardinalityType
  <2>2. \A j : j \in Sent(i + 1) <=> j \in Sent(i) \/ (j = i + 1 /\ txs[i + 1].sender = a)
    <3>1. \A j : j \in 1..(i + 1) <=> j \in 1..i \/ j = i + 1
      OBVIOUS
    <3> QED
      BY <3>1, Zenon
  <2>3. CASE txs[i + 1].sender = a
    <3>1. Sent(i + 1) = Sent(i) \cup {i + 1}
      <4> HIDE DEF Sent
      <4> QED
        BY <2>2, <2>3
    <3>2. Cardinality(Sent(i) \cup {i + 1}) = Cardinality(Sent(i)) + 1
      BY <2>1, FS_AddElement
    <3> HIDE DEF Sent
    <3> QED
      BY <2>3, <3>1, <3>2
  <2>4. CASE txs[i + 1].sender # a
    <3> HIDE DEF Sent
    <3>1. Sent(i + 1) = Sent(i)
      BY <2>2, <2>4
    <3> QED
      BY <2>1, <2>4, <3>1
  <2> QED
    BY <2>3, <2>4
<1>4. \A i \in Nat : Cardinality(Sent(i)) \in Nat
  BY <1>1, FS_CardinalityType
<1> QED
  BY <1>2, <1>3, <1>4, FS_EmptySet DEF SentUpTo

\* After i transactions the accounts hold what they held, less the fees, and
\* each account's nonce has grown by what it sent.
FundsKept(db, codes, txs, i) ==
  LET work == Settled(db, codes, txs, i)
  IN  /\ WorkOK(work)
      /\ work.status = "ok" /\ CodeIsStored(db, codes) =>
           /\ Total(db, work) = Supply(db) - FeesUpTo(txs, i)
           /\ \A b \in Account :
                Seen(db, work, b).nonce = Cached(db, b).nonce + SentUpTo(txs, i, b)
      /\ FeesUpTo(txs, i) \in Nat

LEMMA FundsInit ==
  ASSUME NEW db, AccountsOK(db), NEW codes, NEW txs \in Seq(Transaction)
  PROVE  FundsKept(db, codes, txs, 0) /\ Supply(db) \in Int
<1>1. /\ Settled(db, codes, txs, 0) = EmptyWork /\ WorkOK(EmptyWork)
      /\ FeesUpTo(txs, 0) = 0 /\ DOMAIN EmptyWork.states = {}
  BY SettledSteps, FeeSteps, EmptyWorkOK
<1>2. \A b \in Account : /\ Seen(db, EmptyWork, b) = Cached(db, b)
                         /\ SentUpTo(txs, 0, b) = 0
                         /\ Cached(db, b).nonce \in Nat
                         /\ Balance(Overlay(db, EmptyWork.states), b) = Balance(db, b)
                         /\ Balance(db, b) \in Int
  <2>1. ASSUME NEW b \in Account
        PROVE  /\ Seen(db, EmptyWork, b) = Cached(db, b)
               /\ Cached(db, b).balance = Balance(db, b)
    BY <1>1 DEF Seen, Cached, Balance, Fresh
  <2> QED
    BY <1>1, <2>1, SeenOK, SentSteps
<1>3. Total(db, EmptyWork) = Supply(db) /\ Supply(db) \in Int
  BY <1>2, SupplySame DEF Total
<1> QED
  BY <1>1, <1>2, <1>3 DEF FundsKept

LEMMA FundsStep ==
  ASSUME NEW db, AccountsOK(db), NEW codes, NEW txs \in Seq(Transaction),
         NEW n \in Nat, n + 1 \in 1..Len(txs), FundsKept(db, codes, txs, n)
  PROVE  FundsKept(db, codes, txs, n + 1)
<1> DEFINE i == n + 1
           tx == txs[i]
           work == Settled(db, codes, txs, n)
           next == Settled(db, codes, txs, i)
<1>1. next = SettleTx(db, codes, work, tx)
  <2>1. i - 1 = n
    OBVIOUS
  <2> QED
    BY <2>1, SettledSteps
<1>2. tx \in Transaction /\ tx.gas \in Nat /\ tx.contractGas \in Nat
  <2>1. tx \in Transaction
    OBVIOUS
  <2> HIDE DEF tx
  <2> QED
    BY <2>1 DEF Transaction
<1>3. FeesUpTo(txs, i) = FeesUpTo(txs, n) + tx.gas + tx.contractGas
  <2>1. i - 1 = n
    OBVIOUS
  <2> QED
    BY <2>1, FeeSteps
<1>4. \A b : /\ SentUpTo(txs, n, b) \in Nat
            /\ SentUpTo(txs, i, b) = SentUpTo(txs, n, b) + (IF tx.sender = b THEN 1 ELSE 0)
  BY SentSteps
<1>5. /\ WorkOK(work) /\ FeesUpTo(txs, n) \in Nat
      /\ work.status = "ok" /\ CodeIsStored(db, codes) =>
           /\ Total(db, work) = Supply(db) - FeesUpTo(txs, n)
           /\ \A b \in Account :
                Seen(db, work, b).nonce = Cached(db, b).nonce + SentUpTo(txs, n, b)
  BY DEF FundsKept
<1>6. Supply(db) \in Int
  BY FundsInit
<1> HIDE DEF work, next, tx, i
<1>7. /\ Extends(next, work)
      /\ next.status = "ok" => work.status = "ok"
      /\ next.status = "ok" /\ CodeIsStored(db, codes) =>
           /\ NonceCounted(db, next, work, tx)
           /\ Total(db, next) = Total(db, work) - (tx.gas + tx.contractGas)
  BY <1>1, <1>2, <1>5, SettleTxTotal
<1>8. FeesUpTo(txs, i) \in Nat
  BY <1>2, <1>3, <1>5
<1>9. ASSUME next.status = "ok", CodeIsStored(db, codes)
      PROVE  Total(db, next) = Supply(db) - FeesUpTo(txs, i)
  BY <1>2, <1>3, <1>5, <1>6, <1>7, <1>9
<1>10. ASSUME next.status = "ok", CodeIsStored(db, codes), NEW b \in Account
       PROVE  Seen(db, next, b).nonce = Cached(db, b).nonce + SentUpTo(txs, i, b)
  <2>1. /\ Seen(db, work, b).nonce = Cached(db, b).nonce + SentUpTo(txs, n, b)
        /\ Seen(db, next, b).nonce = Seen(db, work, b).nonce + (IF b = tx.sender THEN 1 ELSE 0)
    BY <1>5, <1>7, <1>10 DEF NonceCounted
  <2>2. Cached(db, b).nonce \in Nat
    BY FreshOK DEF Cached, AccountsOK, AccountState
  <2> QED
    BY <1>4, <2>1, <2>2
<1> QED
  BY <1>7, <1>8, <1>9, <1>10 DEF FundsKept, Extends, next, i

LEMMA FundsAlwaysKept ==
  ASSUME NEW db, AccountsOK(db), NEW codes, NEW txs \in Seq(Transaction)
  PROVE  FundsKept(db, codes, txs, Len(txs))
<1> DEFINE S == {n \in Nat : n <= Len(txs) => FundsKept(db, codes, txs, n)}
<1>1. 0 \in S
  BY FundsInit
<1>2. ASSUME NEW n \in Nat, n \in S
      PROVE  n + 1 \in S
  <2> SUFFICES ASSUME n + 1 <= Len(txs)
               PROVE  FundsKept(db, codes, txs, n + 1)
    OBVIOUS
  <2>1. n + 1 \in 1..Len(txs) /\ FundsKept(db, codes, txs, n)
    BY <1>2
  <2> QED
    BY <2>1, FundsStep
<1>3. Nat \subseteq S
  <2> HIDE DEF S
  <2> QED
    BY <1>1, <1>2, SettleFold!Induction
<1> QED
  BY <1>3

\* A block: its transactions and the account its miner is paid to.
BlockOK(block) == block.txs \in Seq(Transaction) /\ block.coinbase \in Account

LEMMA FeesAreNat ==
  ASSUME NEW db, AccountsOK(db), NEW codes, NEW txs \in Seq(Transaction)
  PROVE  Fees(txs) \in Nat
BY FundsAlwaysKept, FeeSteps DEF FundsKept

LEMMA CoinbaseTotal ==
  ASSUME NEW db, AccountsOK(db), NEW codes, NEW work, WorkOK(work), NEW block, BlockOK(block)
  PROVE  LET next == PayCoinbase(db, codes, work, block)
         IN  /\ WorkOK(next)
             /\ CodeIsStored(db, codes) =>
                  /\ SameNonces(db, next, work)
                  /\ Total(db, next) = Total(db, work) + BLOCK_REWARD + Fees(block.txs)
                  /\ Total(db, work) \in Int
<1> DEFINE a == block.coinbase
           cached == CacheAccount(db, codes, work, a)
           next == PayCoinbase(db, codes, work, block)
<1>1. a \in Account /\ Fees(block.txs) \in Nat /\ BLOCK_REWARD \in Nat
  BY FeesAreNat, LedgerAssumption DEF BlockOK
<1>2. /\ WorkOK(cached) /\ a \in DOMAIN cached.states
      /\ CodeIsStored(db, codes) => /\ SameNonces(db, cached, work)
                                    /\ Total(db, cached) = Total(db, work)
                                    /\ Total(db, work) \in Int
  BY <1>1, CacheOK, CacheSeen
<1>3. next = Credit(cached, a, BLOCK_REWARD + Fees(block.txs))
  BY DEF PayCoinbase
<1>4. BLOCK_REWARD + Fees(block.txs) \in Nat
  BY <1>1
<1> HIDE DEF cached, next, a
<1>5. /\ Extends(next, cached) /\ SameNonces(db, next, cached)
      /\ Total(db, next) = Total(db, cached) + (BLOCK_REWARD + Fees(block.txs))
  BY <1>2, <1>3, <1>4, CreditTotal
<1> QED
  BY <1>1, <1>2, <1>5 DEF Extends, SameNonces, next

LEMMA TransitCases ==
  ASSUME NEW db, NEW codes, NEW block
  PROVE  LET settled == Settle(db, codes, block.txs)
             after == Transit(db, codes, block)
         IN  \/ after = Fail(EmptyWork, "invalid")
             \/ after = settled /\ settled.status # "ok"
             \/ after = PayCoinbase(db, codes, settled, block) /\ settled.status = "ok"
BY DEF Transit

\* Executing a block yields accounts that can be stored: no balance and no
\* nonce is negative, whatever the transactions and the contracts do.
THEOREM TransitWellFormed ==
  ASSUME NEW db, AccountsOK(db), NEW codes, NEW block, BlockOK(block)
  PROVE  /\ WorkOK(Transit(db, codes, block))
         /\ AccountsOK(Overlay(db, Transit(db, codes, block).states))
<1> DEFINE settled == Settle(db, codes, block.txs)
           after == Transit(db, codes, block)
<1>1. WorkOK(settled)
  BY FundsAlwaysKept, SettledSteps DEF FundsKept, BlockOK
<1>2. WorkOK(Fail(EmptyWork, "invalid"))
  BY EmptyWorkOK, FailOK
<1>3. WorkOK(PayCoinbase(db, codes, settled, block))
  BY <1>1, CoinbaseTotal
<1>4. WorkOK(after)
  BY <1>1, <1>2, <1>3, TransitCases
<1>5. AccountsOK(Overlay(db, after.states))
  <2> HIDE DEF after
  <2> QED
    BY <1>4 DEF AccountsOK, WorkOK, Overlay
<1> QED
  BY <1>4, <1>5

\* A block that is accepted adds its reward to what the accounts hold, and
\* nothing else: amounts move, and every fee reaches the miner.  Each account's
\* nonce grows by the number of transactions it sent.
THEOREM TransitConserves ==
  ASSUME NEW db, AccountsOK(db), NEW codes, CodeIsStored(db, codes),
         NEW block, BlockOK(block), Transit(db, codes, block).status = "ok"
  PROVE  LET after == Overlay(db, Transit(db, codes, block).states)
         IN  /\ Supply(after) = Supply(db) + BLOCK_REWARD
             /\ \A a \in Account :
                  Cached(after, a).nonce
                    = Cached(db, a).nonce + SentUpTo(block.txs, Len(block.txs), a)
<1> DEFINE txs == block.txs
           settled == Settle(db, codes, txs)
           work == Transit(db, codes, block)
           after == Overlay(db, work.states)
<1>1. /\ WorkOK(settled) /\ Fees(txs) \in Nat
      /\ settled.status = "ok" =>
           /\ Total(db, settled) = Supply(db) - Fees(txs)
           /\ \A b \in Account :
                Seen(db, settled, b).nonce = Cached(db, b).nonce + SentUpTo(txs, Len(txs), b)
  BY FundsAlwaysKept, SettledSteps, FeeSteps DEF FundsKept, BlockOK
<1>2. work = PayCoinbase(db, codes, settled, block) /\ settled.status = "ok"
  <2>1. Fail(EmptyWork, "invalid").status = "invalid"
    BY EmptyWorkOK, FailOK
  <2> QED
    BY <2>1, TransitCases
<1>3. Supply(db) \in Int /\ BLOCK_REWARD \in Nat
  BY FundsInit, LedgerAssumption DEF BlockOK
<1> HIDE DEF settled
<1>4. /\ WorkOK(work) /\ SameNonces(db, work, settled)
      /\ Total(db, work) = Total(db, settled) + BLOCK_REWARD + Fees(txs)
  <2> HIDE DEF work
  <2> QED
    BY <1>1, <1>2, CoinbaseTotal
<1> HIDE DEF work
<1>5. Supply(after) = Supply(db) + BLOCK_REWARD
  BY <1>1, <1>2, <1>3, <1>4 DEF Total
<1>6. ASSUME NEW a \in Account
      PROVE  Cached(after, a).nonce = Cached(db, a).nonce + SentUpTo(txs, Len(txs), a)
  <2>1. Seen(db, work, a).nonce = Cached(db, a).nonce + SentUpTo(txs, Len(txs), a)
    BY <1>1, <1>2, <1>4 DEF SameNonces
  <2>2. Cached(after, a) = Seen(db, work, a)
    BY <1>4, AbsentAssumption DEF Cached, Seen, Overlay, AccountsOK, WorkOK
  <2> QED
    BY <2>1, <2>2
<1> QED
  BY <1>5, <1>6 DEF after, work

\* The code of the accounts that an accepted block writes is all that has to
\* be stored for the code of every account to be stored again.
LEMMA TransitStores ==
  ASSUME NEW db, AccountsOK(db), NEW codes, CodeIsStored(db, codes),
         NEW block, BlockOK(block)
  PROVE  LET states == Transit(db, codes, block).states
         IN  CodeIsStored(Overlay(db, states), codes \cup CodeOf(states))
<1> DEFINE states == Transit(db, codes, block).states
<1> HIDE DEF states
<1>1. \A a \in Account : Overlay(db, states)[a] = IF a \in DOMAIN states THEN states[a] ELSE db[a]
  BY DEF Overlay, AccountsOK
<1>2. CodeIsStored(Overlay(db, states), codes \cup CodeOf(states))
  BY <1>1 DEF CodeIsStored, CodeOf
<1> QED
  BY <1>2 DEF states

LEMMA SentMonotone ==
  ASSUME NEW txs, NEW a, NEW i \in Nat, NEW j \in Nat, i <= j
  PROVE  SentUpTo(txs, i, a) <= SentUpTo(txs, j, a)
<1> DEFINE Sent(k) == {m \in 1..k : txs[m].sender = a}
<1>1. Sent(i) \subseteq Sent(j)
  <2>1. 1..i \subseteq 1..j
    OBVIOUS
  <2> QED
    BY <2>1, Zenon
<1>2. IsFiniteSet(Sent(j))
  <2>1. IsFiniteSet(1..j) /\ Sent(j) \in SUBSET (1..j)
    BY FS_Interval
  <2> QED
    BY <2>1, FS_Subset
<1>3. Cardinality(Sent(i)) <= Cardinality(Sent(j))
  <2> HIDE DEF Sent
  <2> QED
    BY <1>1, <1>2, FS_Subset
<1> QED
  BY <1>3 DEF SentUpTo

\* The transactions of a block that passes the check of their order continue
\* the nonces of the state, and no two have sender and nonce in common.
LEMMA OrderedNonces ==
  ASSUME NEW db, AccountsOK(db), NEW txs \in Seq(Transaction), HasValidTxOrder(db, txs),
         NEW i \in DOMAIN txs
  PROVE  LET a == txs[i].sender
         IN  /\ txs[i].nonce > Cached(db, a).nonce
             /\ txs[i].nonce <= Cached(db, a).nonce + SentUpTo(txs, Len(txs), a)
             /\ \A j \in DOMAIN txs :
                  txs[j].sender = a /\ txs[j].nonce = txs[i].nonce => j = i
<1> DEFINE a == txs[i].sender
           base == Cached(db, a).nonce
<1>0. ASSUME NEW j \in DOMAIN txs
      PROVE  /\ j \in 1..Len(txs) /\ Len(txs) \in Nat
             /\ txs[j].nonce \in Nat /\ txs[j].sender \in Account
  <2>1. j \in 1..Len(txs) /\ txs[j] \in Transaction
    OBVIOUS
  <2> QED
    BY <2>1 DEF Transaction
<1>1. ASSUME NEW j \in DOMAIN txs, txs[j].sender = a
      PROVE  /\ j \in Nat /\ j - 1 \in Nat /\ j <= Len(txs) /\ base \in Nat
             /\ SentUpTo(txs, j - 1, a) \in Nat
             /\ SentUpTo(txs, j, a) = SentUpTo(txs, j - 1, a) + 1
             /\ txs[j].nonce = base + SentUpTo(txs, j, a)
  <2>1. j \in Nat /\ j - 1 \in Nat /\ (j - 1) + 1 = j /\ j <= Len(txs) /\ a \in Account
    BY <1>0
  <2>2. db[a] # Absent /\ txs[j].nonce = db[a].nonce + SentBefore(txs, j) + 1
    BY <1>1 DEF HasValidTxOrder
  <2>3. base = db[a].nonce /\ base \in Nat
    BY <2>1, <2>2 DEF Cached, AccountsOK, AccountState
  <2>4. SentBefore(txs, j) = SentUpTo(txs, j - 1, a)
    BY <1>1 DEF SentBefore, SentUpTo
  <2>5. /\ SentUpTo(txs, j - 1, a) \in Nat
        /\ SentUpTo(txs, j, a) = SentUpTo(txs, j - 1, a) + (IF txs[j].sender = a THEN 1 ELSE 0)
    <3> DEFINE k == j - 1
    <3>1. k \in Nat /\ k + 1 = j
      BY <2>1
    <3>2. /\ SentUpTo(txs, k, a) \in Nat
          /\ SentUpTo(txs, k + 1, a) = SentUpTo(txs, k, a) + (IF txs[k + 1].sender = a THEN 1 ELSE 0)
      <4> HIDE DEF k
      <4> QED
        BY <3>1, SentSteps
    <3> QED
      BY <3>1, <3>2
  <2>6. SentUpTo(txs, j, a) = SentUpTo(txs, j - 1, a) + 1
    BY <1>1, <2>5
  <2> HIDE DEF base, a
  <2>7. txs[j].nonce = base + SentUpTo(txs, j, a)
    <3>1. txs[j].nonce = base + SentUpTo(txs, j - 1, a) + 1
      BY <2>2, <2>3, <2>4
    <3> DEFINE earlier == SentUpTo(txs, j - 1, a)
               upTo == SentUpTo(txs, j, a)
    <3>2. earlier \in Nat /\ upTo = earlier + 1
      BY <2>5, <2>6
    <3> HIDE DEF earlier, upTo
    <3> QED
      BY <2>3, <3>1, <3>2 DEF earlier, upTo
  <2> QED
    BY <2>1, <2>3, <2>5, <2>6, <2>7
<1>2. txs[i].nonce > base
  <2> HIDE DEF base
  <2> QED
    BY <1>1
<1>3. txs[i].nonce <= base + SentUpTo(txs, Len(txs), a)
  <2>1. /\ i \in Nat /\ Len(txs) \in Nat /\ i <= Len(txs) /\ base \in Nat
        /\ txs[i].nonce = base + SentUpTo(txs, i, a)
    BY <1>1
  <2>2. /\ SentUpTo(txs, i, a) \in Nat /\ SentUpTo(txs, Len(txs), a) \in Nat
        /\ SentUpTo(txs, i, a) <= SentUpTo(txs, Len(txs), a)
    BY <2>1, SentSteps, SentMonotone
  <2> HIDE DEF base, a
  <2> QED
    BY <2>1, <2>2
\* Of two transactions of one sender the later has the higher nonce.
<1>4. ASSUME NEW j \in DOMAIN txs, txs[j].sender = a, NEW k \in DOMAIN txs, txs[k].sender = a,
             j < k
      PROVE  txs[j].nonce < txs[k].nonce
  <2>1. /\ j \in Nat /\ k - 1 \in Nat /\ j <= k - 1 /\ base \in Nat
        /\ txs[j].nonce = base + SentUpTo(txs, j, a)
        /\ txs[k].nonce = base + SentUpTo(txs, k - 1, a) + 1
        /\ SentUpTo(txs, k - 1, a) \in Nat
    <3>1. /\ j \in Nat /\ k - 1 \in Nat /\ base \in Nat
          /\ SentUpTo(txs, k - 1, a) \in Nat
          /\ SentUpTo(txs, k, a) = SentUpTo(txs, k - 1, a) + 1
          /\ txs[j].nonce = base + SentUpTo(txs, j, a)
          /\ txs[k].nonce = base + SentUpTo(txs, k, a)
      BY <1>1, <1>4
    <3> HIDE DEF base, a
    <3> QED
      BY <1>4, <3>1
  <2>2. SentUpTo(txs, j, a) \in Nat /\ SentUpTo(txs, j, a) <= SentUpTo(txs, k - 1, a)
    BY <2>1, SentSteps, SentMonotone
  <2> HIDE DEF base, a
  <2> QED
    BY <2>1, <2>2
<1>5. ASSUME NEW j \in DOMAIN txs, txs[j].sender = a, txs[j].nonce = txs[i].nonce
      PROVE  j = i
  <2>1. /\ i \in Nat /\ j \in Nat /\ txs[i].nonce \in Nat /\ txs[j].nonce \in Nat
    BY <1>0
  <2>2. ~(i < j) /\ ~(j < i)
    <3>1. i < j => txs[i].nonce < txs[j].nonce
      BY <1>4, <1>5
    <3>2. j < i => txs[j].nonce < txs[i].nonce
      BY <1>4, <1>5
    <3> QED
      BY <1>5, <2>1, <3>1, <3>2
  <2> QED
    BY <2>1, <2>2
<1> QED
  BY <1>2, <1>3, <1>5

-----------------------------------------------------------------------------
(* Where contracts pay accounts without code only, every account that a     *)
(* block writes has its code loaded, and the writes do not throw.           *)

IsPayee(a) == \E c \in Code : Program[c].payee = a

\* No payee of a contract turns itself into a contract.
PayeesDeployNothing(txs) ==
  \A i \in DOMAIN txs : txs[i].scBody # EMPTY_HASH => ~IsPayee(txs[i].sender)

PayeesArePlain(db) ==
  \A a \in Account : IsPayee(a) /\ db[a] # Absent => db[a].codeHash = EMPTY_HASH

Loaded(work) ==
  \A a \in DOMAIN work.states :
    /\ work.states[a].codeHash \in work.code
    /\ IsPayee(a) => work.states[a].codeHash = EMPTY_HASH

\* A change of one account's balance or nonce.
LEMMA SameCodeLoads ==
  ASSUME NEW work, WorkOK(work), Loaded(work), NEW a \in DOMAIN work.states,
         NEW state \in AccountState, state.codeHash = work.states[a].codeHash,
         NEW next, next = [work EXCEPT !.states[a] = state]
  PROVE  Loaded(next) /\ next.code = work.code
<1>1. next.code = work.code /\ next.states = [work.states EXCEPT ![a] = state]
  BY DEF WorkOK
<1> QED
  BY <1>1 DEF Loaded

LEMMA DebitLoads ==
  ASSUME NEW work, WorkOK(work), Loaded(work), NEW a \in DOMAIN work.states,
         NEW amount \in Nat, amount <= work.states[a].balance
  PROVE  Loaded(Debit(work, a, amount)) /\ Debit(work, a, amount).code = work.code
<1> DEFINE state == [work.states[a] EXCEPT !.balance = @ - amount]
           next == Debit(work, a, amount)
<1>1. work.states[a] \in AccountState
  BY DEF WorkOK
<1>2. state \in AccountState /\ state.codeHash = work.states[a].codeHash
  BY <1>1 DEF AccountState
<1>3. next = [work EXCEPT !.states[a] = state]
  BY DEF Debit
<1> HIDE DEF state, next
<1> QED
  BY <1>2, <1>3, SameCodeLoads DEF next

LEMMA CreditLoads ==
  ASSUME NEW work, WorkOK(work), Loaded(work), NEW a \in DOMAIN work.states,
         NEW amount \in Nat
  PROVE  Loaded(Credit(work, a, amount)) /\ Credit(work, a, amount).code = work.code
<1> DEFINE state == [work.states[a] EXCEPT !.balance = @ + amount]
           next == Credit(work, a, amount)
<1>1. work.states[a] \in AccountState
  BY DEF WorkOK
<1>2. state \in AccountState /\ state.codeHash = work.states[a].codeHash
  BY <1>1 DEF AccountState
<1>3. next = [work EXCEPT !.states[a] = state]
  BY DEF Credit
<1> HIDE DEF state, next
<1> QED
  BY <1>2, <1>3, SameCodeLoads DEF next

LEMMA CountLoads ==
  ASSUME NEW work, WorkOK(work), Loaded(work), NEW tx, tx.sender \in DOMAIN work.states
  PROVE  Loaded(CountTx(work, tx)) /\ CountTx(work, tx).code = work.code
<1> DEFINE a == tx.sender
           state == [work.states[a] EXCEPT !.nonce = @ + 1]
           next == CountTx(work, tx)
<1>1. work.states[a] \in AccountState
  BY DEF WorkOK
<1>2. state \in AccountState /\ state.codeHash = work.states[a].codeHash
  BY <1>1 DEF AccountState
<1>3. next = [work EXCEPT !.states[a] = state]
  BY DEF CountTx
<1> HIDE DEF state, next
<1> QED
  BY <1>2, <1>3, SameCodeLoads DEF next

LEMMA CacheDomain ==
  ASSUME NEW db, AccountsOK(db), NEW codes, NEW work, WorkOK(work), NEW a \in Account
  PROVE  /\ WorkOK(CacheAccount(db, codes, work, a))
         /\ a \in DOMAIN CacheAccount(db, codes, work, a).states
         /\ DOMAIN work.states \subseteq DOMAIN CacheAccount(db, codes, work, a).states
<1> DEFINE next == CacheAccount(db, codes, work, a)
<1>1. /\ WorkOK(next) /\ next.status = work.status
      /\ DOMAIN next.states = DOMAIN work.states \cup {a}
  BY CacheOK, SMTT(20)
<1> HIDE DEF next
<1>2. WorkOK(next) /\ a \in DOMAIN next.states /\ DOMAIN work.states \subseteq DOMAIN next.states
  BY <1>1
<1> QED
  BY <1>2 DEF next

LEMMA CacheLoads ==
  ASSUME NEW db, AccountsOK(db), PayeesArePlain(db), NEW codes,
         NEW work, WorkOK(work), Loaded(work), NEW a \in Account
  PROVE  LET next == CacheAccount(db, codes, work, a)
         IN  Loaded(next) /\ work.code \subseteq next.code
<1> DEFINE known == db[a] # Absent /\ db[a].codeHash \in codes
           state == IF known THEN db[a] ELSE Fresh
           next == CacheAccount(db, codes, work, a)
<1>1. CASE a \in DOMAIN work.states
  BY <1>1 DEF CacheAccount
<1>2. CASE a \notin DOMAIN work.states
  <2>1. next = [work EXCEPT !.states = Put(@, a, state), !.code = @ \cup {state.codeHash}]
    BY <1>2 DEF CacheAccount
  <2>2. IsPayee(a) => state.codeHash = EMPTY_HASH
    BY DEF PayeesArePlain, Fresh
  <2> HIDE DEF state, next
  <2>3. /\ next.states = Put(work.states, a, state)
        /\ next.code = work.code \cup {state.codeHash}
    BY <2>1 DEF WorkOK
  <2>4. /\ DOMAIN next.states = DOMAIN work.states \cup {a}
        /\ next.states[a] = state
        /\ \A b \in DOMAIN work.states : next.states[b] = work.states[b]
    BY <1>2, <2>3 DEF Put
  <2> QED
    BY <2>2, <2>3, <2>4 DEF Loaded, next
<1> QED
  BY <1>1, <1>2

LEMMA DeployLoads ==
  ASSUME NEW work, WorkOK(work), Loaded(work), NEW tx \in Transaction,
         tx.sender \in DOMAIN work.states, tx.scBody # EMPTY_HASH => ~IsPayee(tx.sender)
  PROVE  LET next == Deploy(work, tx) IN Loaded(next) /\ work.code \subseteq next.code
<1> DEFINE a == tx.sender
           state == [work.states[a] EXCEPT !.codeHash = tx.scBody]
           next == Deploy(work, tx)
<1>1. CASE tx.scBody = EMPTY_HASH
  BY <1>1 DEF Deploy
<1>2. CASE tx.scBody # EMPTY_HASH
  <2>1. work.states[a] \in AccountState
    BY DEF WorkOK
  <2>2. state.codeHash = tx.scBody
    BY <2>1 DEF AccountState
  <2>3. next = [work EXCEPT !.states[a] = state, !.code = @ \cup {tx.scBody}]
    BY <1>2 DEF Deploy
  <2> HIDE DEF state, next
  <2>4. /\ next.states = [work.states EXCEPT ![a] = state]
        /\ next.code = work.code \cup {tx.scBody}
    BY <2>3 DEF WorkOK
  <2> QED
    BY <1>2, <2>2, <2>4 DEF Loaded, next
<1> QED
  BY <1>1, <1>2

LEMMA SendLoads ==
  ASSUME NEW db, AccountsOK(db), PayeesArePlain(db), NEW work, WorkOK(work), Loaded(work),
         EMPTY_HASH \in work.code, NEW contract \in DOMAIN work.states,
         NEW payee \in Account, IsPayee(payee), NEW amount \in Nat
  PROVE  Loaded(Send(db, work, contract, payee, amount))
<1> DEFINE cached == IF payee \in DOMAIN work.states THEN work
                     ELSE [work EXCEPT !.states = Put(@, payee, Cached(db, payee))]
           credited == Credit(cached, payee, amount)
           next == Send(db, work, contract, payee, amount)
<1>1. CASE work.states[contract].balance < amount
  BY <1>1 DEF Send
<1>2. CASE ~(work.states[contract].balance < amount)
  <2>1. next = Debit(credited, contract, amount)
    BY <1>2 DEF Send, Cached
  <2>2. /\ WorkOK(cached) /\ Loaded(cached)
        /\ contract \in DOMAIN cached.states /\ payee \in DOMAIN cached.states
        /\ cached.states[contract] = work.states[contract]
    <3>1. CASE payee \in DOMAIN work.states
      BY <3>1
    <3>2. CASE payee \notin DOMAIN work.states
      <4>1. Cached(db, payee) \in AccountState /\ Cached(db, payee).codeHash = EMPTY_HASH
        BY FreshOK DEF Cached, AccountsOK, PayeesArePlain, Fresh
      <4>2. cached = [work EXCEPT !.states = Put(@, payee, Cached(db, payee))]
        BY <3>2
      <4> HIDE DEF cached
      <4>3. /\ DOMAIN cached = DOMAIN work /\ cached.code = work.code
            /\ cached.states = Put(work.states, payee, Cached(db, payee))
        BY <4>2 DEF WorkOK
      <4>4. /\ DOMAIN cached.states = DOMAIN work.states \cup {payee}
            /\ cached.states[payee] = Cached(db, payee)
            /\ \A b \in DOMAIN work.states : cached.states[b] = work.states[b]
        BY <3>2, <4>3 DEF Put
      <4>5. WorkOK(cached)
        BY <4>1, <4>3, <4>4 DEF WorkOK
      <4>6. Loaded(cached)
        BY <4>1, <4>3, <4>4 DEF Loaded
      <4> QED
        BY <4>4, <4>5, <4>6
    <3> QED
      BY <3>1, <3>2
  <2> HIDE DEF cached
  <2>3. /\ WorkOK(credited) /\ Loaded(credited) /\ contract \in DOMAIN credited.states
        /\ credited.states[payee].balance = cached.states[payee].balance + amount
        /\ \A b \in DOMAIN cached.states \ {payee} : credited.states[b] = cached.states[b]
    BY <2>2, CreditOK, CreditLoads
  <2>4. amount <= credited.states[contract].balance
    <3>1. work.states[contract].balance \in Nat
      BY DEF WorkOK, AccountState
    <3> HIDE DEF credited
    <3>2. CASE contract = payee
      BY <2>2, <2>3, <3>1, <3>2
    <3>3. CASE contract # payee
      BY <1>2, <2>2, <2>3, <3>1, <3>3
    <3> QED
      BY <3>2, <3>3
  <2> HIDE DEF credited
  <2> QED
    BY <2>1, <2>3, <2>4, DebitLoads
<1> QED
  BY <1>1, <1>2

LEMMA RunContractLoads ==
  ASSUME NEW db, AccountsOK(db), PayeesArePlain(db), NEW work, WorkOK(work), Loaded(work),
         EMPTY_HASH \in work.code, NEW tx \in Transaction, tx.recipient \in DOMAIN work.states
  PROVE  Loaded(RunContract(db, work, tx))
<1> DEFINE hash == work.states[tx.recipient].codeHash
           program == Program[hash]
           next == RunContract(db, work, tx)
<1>1. CASE next = work
  BY <1>1
<1>2. CASE next = Fail(work, "throws")
  <2>1. next.states = work.states /\ next.code = work.code
    BY <1>2 DEF Fail, WorkOK
  <2> HIDE DEF next
  <2> QED
    BY <2>1 DEF Loaded, next
<1>3. CASE hash # EMPTY_HASH /\ next = Send(db, work, tx.recipient, program.payee, program.amount)
  <2>1. hash \in CodeHash
    BY DEF WorkOK, AccountState
  <2>2. /\ program.payee \in Account /\ program.amount \in Nat
        /\ IsPayee(program.payee)
    BY <1>3, <2>1, LedgerAssumption DEF CodeHash, IsPayee
  <2> HIDE DEF next, program
  <2> QED
    BY <1>3, <2>2, SendLoads DEF next
<1> QED
  BY <1>1, <1>2, <1>3 DEF RunContract

LEMMA ExecuteLoads ==
  ASSUME NEW db, AccountsOK(db), PayeesArePlain(db), NEW codes,
         NEW work, WorkOK(work), Loaded(work), NEW tx \in Transaction,
         tx.sender \in DOMAIN work.states, CanPay(work, tx),
         tx.scBody # EMPTY_HASH => ~IsPayee(tx.sender)
  PROVE  Loaded(Execute(db, codes, work, tx))
<1> DEFINE paid == Debit(work, tx.sender, TotalAmountToPay(tx))
           cached == CacheAccount(db, codes, paid, tx.recipient)
           moved == Credit(cached, tx.recipient, tx.amount)
           coded == Deploy(moved, tx)
           counted == CountTx(coded, tx)
<1>1. /\ tx.amount \in Nat /\ tx.recipient \in Account /\ TotalAmountToPay(tx) \in Nat
  BY DEF Transaction, TotalAmountToPay
<1>2. Execute(db, codes, work, tx) = RunContract(db, counted, tx)
  BY DEF Execute, CountTx
<1>3. TotalAmountToPay(tx) <= work.states[tx.sender].balance /\ EMPTY_HASH \in work.code
  <2>1. work.states[tx.sender].balance \in Nat
    BY DEF WorkOK, AccountState
  <2> QED
    BY <1>1, <2>1 DEF CanPay, Loaded
<1>4. /\ WorkOK(paid) /\ Loaded(paid) /\ EMPTY_HASH \in paid.code
      /\ DOMAIN paid.states = DOMAIN work.states
  BY <1>1, <1>3, DebitOK, DebitLoads
<1> HIDE DEF paid
<1>5. /\ WorkOK(cached) /\ Loaded(cached) /\ EMPTY_HASH \in cached.code
      /\ tx.recipient \in DOMAIN cached.states /\ DOMAIN work.states \subseteq DOMAIN cached.states
  <2>1. /\ WorkOK(cached) /\ tx.recipient \in DOMAIN cached.states
        /\ DOMAIN paid.states \subseteq DOMAIN cached.states
    BY <1>1, <1>4, CacheDomain
  <2>2. Loaded(cached) /\ paid.code \subseteq cached.code
    BY <1>1, <1>4, CacheLoads
  <2> QED
    BY <1>4, <2>1, <2>2
<1> HIDE DEF cached
<1>6. /\ WorkOK(moved) /\ Loaded(moved) /\ EMPTY_HASH \in moved.code
      /\ DOMAIN moved.states = DOMAIN cached.states
  <2>1. WorkOK(moved) /\ DOMAIN moved.states = DOMAIN cached.states
    BY <1>1, <1>5, CreditOK
  <2>2. Loaded(moved) /\ moved.code = cached.code
    BY <1>1, <1>5, CreditLoads
  <2> QED
    BY <1>5, <2>1, <2>2
<1> HIDE DEF moved
<1>7. tx.sender \in DOMAIN moved.states /\ tx.recipient \in DOMAIN moved.states
  BY <1>5, <1>6
<1>8. Extends(coded, moved) /\ Loaded(coded) /\ EMPTY_HASH \in coded.code
  BY <1>6, <1>7, DeployTotal, DeployLoads
<1> HIDE DEF coded
<1>9. WorkOK(coded) /\ tx.sender \in DOMAIN coded.states /\ tx.recipient \in DOMAIN coded.states
  BY <1>7, <1>8 DEF Extends
<1>10. Extends(counted, coded) /\ Loaded(counted) /\ EMPTY_HASH \in counted.code
  BY <1>8, <1>9, CountTotal, CountLoads
<1> HIDE DEF counted
<1>11. WorkOK(counted) /\ tx.recipient \in DOMAIN counted.states
  BY <1>9, <1>10 DEF Extends
<1> QED
  BY <1>2, <1>10, <1>11, RunContractLoads

LEMMA SettleTxLoads ==
  ASSUME NEW db, AccountsOK(db), PayeesArePlain(db), NEW codes,
         NEW work, WorkOK(work), Loaded(work), NEW tx \in Transaction,
         tx.scBody # EMPTY_HASH => ~IsPayee(tx.sender)
  PROVE  Loaded(SettleTx(db, codes, work, tx))
<1> DEFINE cached == CacheAccount(db, codes, work, tx.sender)
           next == SettleTx(db, codes, work, tx)
<1>1. CASE next = work
  BY <1>1
<1>2. CASE next = Fail(work, "invalid")
  <2>1. next.states = work.states /\ next.code = work.code
    BY <1>2 DEF Fail, WorkOK
  <2> HIDE DEF next
  <2> QED
    BY <2>1 DEF Loaded, next
<1>3. CASE next = Execute(db, codes, cached, tx) /\ CanPay(cached, tx)
  <2>1. tx.sender \in Account
    BY DEF Transaction
  <2>2. WorkOK(cached) /\ tx.sender \in DOMAIN cached.states
    BY <2>1, CacheDomain
  <2>3. Loaded(cached)
    BY <2>1, CacheLoads
  <2> HIDE DEF cached, next
  <2> QED
    BY <1>3, <2>2, <2>3, ExecuteLoads DEF next
<1> QED
  BY <1>1, <1>2, <1>3 DEF SettleTx

LEMMA SettleLoads ==
  ASSUME NEW db, AccountsOK(db), PayeesArePlain(db), NEW codes, NEW txs \in Seq(Transaction),
         PayeesDeployNothing(txs)
  PROVE  Loaded(Settle(db, codes, txs))
<1> DEFINE S == {n \in Nat : n <= Len(txs) => Loaded(Settled(db, codes, txs, n))
                                             /\ WorkOK(Settled(db, codes, txs, n))}
<1>1. 0 \in S
  BY SettledSteps, EmptyWorkOK DEF Loaded
<1>2. ASSUME NEW n \in Nat, n \in S
      PROVE  n + 1 \in S
  <2> DEFINE i == n + 1
  <2> SUFFICES ASSUME i <= Len(txs)
               PROVE  /\ Loaded(Settled(db, codes, txs, i))
                      /\ WorkOK(Settled(db, codes, txs, i))
    OBVIOUS
  <2>1. i \in 1..Len(txs) /\ i - 1 = n /\ n <= Len(txs) /\ DOMAIN txs = 1..Len(txs)
    OBVIOUS
  <2>2. Settled(db, codes, txs, i) = SettleTx(db, codes, Settled(db, codes, txs, n), txs[i])
    BY <2>1, SettledSteps
  <2>3. Loaded(Settled(db, codes, txs, n)) /\ WorkOK(Settled(db, codes, txs, n))
    BY <1>2, <2>1
  <2>4. txs[i] \in Transaction /\ (txs[i].scBody # EMPTY_HASH => ~IsPayee(txs[i].sender))
    BY <2>1 DEF PayeesDeployNothing
  <2> HIDE DEF i
  <2> QED
    BY <2>2, <2>3, <2>4, SettleTxLoads, SettleTxTotal DEF Extends
<1>3. Nat \subseteq S
  <2> HIDE DEF S
  <2> QED
    BY <1>1, <1>2, SettleFold!Induction
<1>4. Len(txs) \in S
  BY <1>3
<1> QED
  BY <1>4, SettledSteps

\* What an accepted block writes can be written: the code of every account is
\* loaded, and payees stay accounts without code.
LEMMA TransitLoads ==
  ASSUME NEW db, AccountsOK(db), PayeesArePlain(db), NEW codes,
         NEW block, BlockOK(block), PayeesDeployNothing(block.txs)
  PROVE  Loaded(Transit(db, codes, block))
<1> DEFINE settled == Settle(db, codes, block.txs)
           cached == CacheAccount(db, codes, settled, block.coinbase)
           work == Transit(db, codes, block)
<1>1. WorkOK(settled) /\ Loaded(settled)
  BY FundsAlwaysKept, SettledSteps, SettleLoads DEF FundsKept, BlockOK
<1>2. CASE work = Fail(EmptyWork, "invalid")
  <2>1. DOMAIN work.states = {}
    BY <1>2 DEF Fail, EmptyWork
  <2> HIDE DEF work
  <2> QED
    BY <2>1 DEF Loaded, work
<1>3. CASE work = settled
  BY <1>1, <1>3
<1>4. CASE work = PayCoinbase(db, codes, settled, block)
  <2>1. block.coinbase \in Account /\ BLOCK_REWARD + Fees(block.txs) \in Nat
    <3>1. Fees(block.txs) \in Nat
      BY FeesAreNat DEF BlockOK
    <3> QED
      BY <3>1, LedgerAssumption DEF BlockOK
  <2>2. work = Credit(cached, block.coinbase, BLOCK_REWARD + Fees(block.txs))
    BY <1>4 DEF PayCoinbase
  <2> HIDE DEF settled, work
  <2>3. WorkOK(cached) /\ block.coinbase \in DOMAIN cached.states
    BY <1>1, <2>1, CacheDomain
  <2>4. Loaded(cached)
    BY <1>1, <2>1, CacheLoads
  <2> HIDE DEF cached
  <2> QED
    BY <2>1, <2>2, <2>3, <2>4, CreditLoads DEF work
<1> HIDE DEF settled, work
<1> QED
  BY <1>2, <1>3, <1>4, TransitCases DEF settled, work

=============================================================================
