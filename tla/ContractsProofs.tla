---------------------------- MODULE ContractsProofs ----------------------------
(***************************************************************************)
(* What holds of the stores of contracts for every program, every block    *)
(* and every interleaving with the requests of the RPC server.             *)
(*                                                                         *)
(* StoreClosedBehind needs to know where a block is when the node has a    *)
(* store open (Place).                                                     *)
(*                                                                         *)
(* Conserved needs that every value is a natural number (Values), since a  *)
(* difference would do for a sum but not for a balance, and that what is   *)
(* stored is accounted for also while a block is under way (Sums): until   *)
(* its first account is written a dropped block leaves the balances that   *)
(* were stored, and from then on the accounts that are written are those   *)
(* in force.                                                               *)
(*                                                                         *)
(* RootDescribesStore needs in addition what the steps of a call leave to  *)
(* the writes (Stores, Queue, Calls): a run keeps every key it was given,   *)
(* what it returns waits in storage and left, once it is put the store is  *)
(* the storage that becomes the root, and a root that is still to be       *)
(* written when a block is torn is one of the stale ones.                   *)
(***************************************************************************)
EXTENDS Contracts, TLAPS, SequenceTheorems, FiniteSetTheorems

InCall == {"load", "read", "run"}

\* The fields of a run that no instruction takes away.
Fields == {"ptr", "gas", "memory", "state", "storage", "address"}

Place ==
  /\ pc # "idle" => block \in Blocks /\ index \in Nat \ {0}
  /\ pc \in InCall => index \in DOMAIN block.calls /\ Call.to \in Contract
  /\ pc = "run" => /\ Fields \subseteq DOMAIN run
                   /\ run.address = Call.to
  /\ lock \in [Contract -> {"free", "node", "reader", "leaked"}]
  /\ left \in Seq(Contract) /\ (pc = "put" => left # << >>)

LEMMA CallsOfBlock ==
  ASSUME NEW b \in Blocks
  PROVE  Len(b.calls) \in Nat /\ DOMAIN b.calls = 1..Len(b.calls)
  BY ContractsAssumption DEF ContractsAssumption

\* An instruction leaves the fields of a run, its address and every key of
\* its storage.
LEMMA ExecuteKept ==
  ASSUME NEW program, NEW disk, NEW old, Fields \subseteq DOMAIN old,
         NEW after, after = Execute(program, disk, old)
  PROVE  /\ Fields \subseteq DOMAIN after
         /\ after.address = old.address
         /\ DOMAIN old.state \subseteq DOMAIN after.state
         /\ after.storage = old.storage \/ \E k, v : after.storage = Put(old.storage, k, v)
<1> DEFINE op == program[old.ptr].op
           c == Value(old, program[old.ptr].x)
           b == Value(old, program[old.ptr].y)
<1>1. CASE \E memory : after = [old EXCEPT !.memory = memory]
  BY <1>1 DEF Fields
<1>2. CASE after = [old EXCEPT !.storage = Put(@, c, b)]
  BY <1>2 DEF Fields
<1>3. CASE after = Jump(program, old, c, b)
  BY <1>3 DEF Jump, Fields
<1>4. CASE after = Send(old, disk, c, b)
  <2>1. \A v : DOMAIN old.state \subseteq DOMAIN Put(old.state, c, v)
    BY DEF Put
  <2> QED
    BY <1>4, <2>1 DEF Send, Fields
<1>5. CASE after = old
  BY <1>5
<1>6. \/ after = [old EXCEPT !.memory = Put(@, c, Written(old, disk, op, c, b))]
      \/ after = [old EXCEPT !.storage = Put(@, c, b)]
      \/ after = Jump(program, old, c, b)
      \/ after = Send(old, disk, c, b)
      \/ after = old
  <2>1. CASE op \in MemoryOps
    <3>1. op # "store" /\ op # "jump" /\ op # "send"
      BY <2>1 DEF MemoryOps, ArithmeticOps, ComparisonOps, EnvironmentOps
    <3> QED BY <2>1, <3>1, SMTT(30) DEF Execute
  <2>2. CASE op \notin MemoryOps
    BY <2>2, SMTT(30) DEF Execute
  <2> QED
    BY <2>1, <2>2
<1> QED
  BY <1>1, <1>2, <1>3, <1>4, <1>5, <1>6

LEMMA RunKept ==
  ASSUME NEW program, NEW disk, NEW old, Fields \subseteq DOMAIN old,
         NEW new, new = Paid(old, Execute(program, disk, old))
  PROVE  /\ Fields \subseteq DOMAIN new
         /\ new.address = old.address
         /\ DOMAIN old.state \subseteq DOMAIN new.state
         /\ new.storage = old.storage \/ \E k, v : new.storage = Put(old.storage, k, v)
<1> DEFINE after == Execute(program, disk, old)
<1>1. /\ Fields \subseteq DOMAIN after
      /\ after.address = old.address
      /\ DOMAIN old.state \subseteq DOMAIN after.state
      /\ after.storage = old.storage \/ \E k, v : after.storage = Put(old.storage, k, v)
  BY ExecuteKept
<1>2. new = [after EXCEPT !.ptr = @ + 1, !.gas = @ - STEP_GAS]
  BY DEF Paid
<1> QED
  BY <1>1, <1>2 DEF Fields

-----------------------------------------------------------------------------
LEMMA InitPlace == Init => Place /\ StoreClosedBehind
  BY DEF Init, Place, StoreClosedBehind, InCall

LEMMA LeavePlace ==
  ASSUME Place, StoreClosedBehind, Leave, UNCHANGED lock, pc \notin {"read", "put"}
  PROVE  Place' /\ StoreClosedBehind'
  BY DEF Place, StoreClosedBehind, Leave, InCall

LEMMA OpenPlace ==
  ASSUME Place, StoreClosedBehind, NEW c \in Contract, OpenStore(c), pc \notin {"read", "put"},
         \/ pc' = "read" /\ c = Call'.to
         \/ pc' = "put" /\ c = Head(left')
  PROVE  StoreClosedBehind' /\ lock' \in [Contract -> {"free", "node", "reader", "leaked"}]
<1>1. lock' \in [Contract -> {"free", "node", "reader", "leaked"}]
  BY DEF OpenStore, Place
<1>2. ASSUME NEW d \in Contract, lock'[d] = "node" PROVE d = c
  BY <1>2 DEF OpenStore, Place, StoreClosedBehind
<1> QED
  BY <1>1, <1>2 DEF StoreClosedBehind

\* A step that closes the store that was open.
LEMMA ClosePlace ==
  ASSUME Place, StoreClosedBehind, NEW c \in Contract,
         lock' = [lock EXCEPT ![c] = "free"],
         \/ pc = "read" /\ c = Call.to
         \/ pc = "put" /\ c = Head(left)
  PROVE  StoreClosedBehind' /\ lock' \in [Contract -> {"free", "node", "reader", "leaked"}]
<1>1. lock' \in [Contract -> {"free", "node", "reader", "leaked"}]
  BY DEF Place
<1>2. \A d \in Contract : lock'[d] # "node"
  BY DEF Place, StoreClosedBehind
<1> QED
  BY <1>1, <1>2 DEF StoreClosedBehind

LEMMA RpcPlace ==
  ASSUME Place, StoreClosedBehind, NEW c \in Contract, Rpc(c)
  PROVE  Place' /\ StoreClosedBehind'
<1>1. UNCHANGED <<pc, block, index, run, left>>
  BY DEF Rpc, GetStorage, GetStorageKeys, Release, work
<1>2. PICK who \in {"free", "reader", "leaked"} : lock' = [lock EXCEPT ![c] = who]
  BY DEF Rpc, GetStorage, GetStorageKeys, Release
<1>3. Place'
  BY <1>1, <1>2 DEF Place, Call
<1>4. StoreClosedBehind'
  BY <1>1, <1>2 DEF StoreClosedBehind, Place, Call
<1> QED
  BY <1>3, <1>4

LEMMA NextPlace ==
  ASSUME Place, StoreClosedBehind, [Next]_vars
  PROVE  Place' /\ StoreClosedBehind'
<1>1. CASE UNCHANGED vars
  BY <1>1 DEF vars, work, chain, Place, StoreClosedBehind, Call
<1>2. ASSUME NEW b \in Blocks, Begin(b) PROVE Place' /\ StoreClosedBehind'
  BY <1>2 DEF Begin, Place, StoreClosedBehind, InCall
<1>3. ASSUME NEW c \in Contract, Rpc(c) PROVE Place' /\ StoreClosedBehind'
  BY <1>3, RpcPlace
<1>4. CASE Transfer
  <2>1. CASE Drop
    BY <1>4, <2>1, LeavePlace DEF Transfer, Drop
  <2>2. CASE ~Drop
    <3>1. /\ UNCHANGED <<lock, block, run, left>> /\ pc = "call"
          /\ \/ Call.to \in Contract /\ pc' = "load" /\ index' = index
             \/ pc' = "call" /\ index' = index + 1
      BY <1>4, <2>2 DEF Transfer
    <3>2. block \in Blocks /\ index \in Nat \ {0}
      BY <3>1 DEF Place
    <3>3. index \in DOMAIN block.calls
      BY <1>4, <3>2, CallsOfBlock DEF Transfer
    <3>4. Place'
      BY <3>1, <3>2, <3>3 DEF Place, InCall, Call
    <3>5. StoreClosedBehind'
      BY <3>1 DEF StoreClosedBehind
    <3> QED BY <3>4, <3>5
  <2> QED BY <2>1, <2>2
<1>5. CASE Load
  <2>1. Call.to \in Contract /\ pc = "load"
    BY <1>5 DEF Load, Place, InCall
  <2>2. CASE Drop /\ UNCHANGED lock
    BY <2>1, <2>2, LeavePlace DEF Drop
  <2>3. CASE OpenStore(Call.to) /\ pc' = "read" /\ UNCHANGED <<chain, work, run, storage, left>>
    <3>1. Call' = Call
      BY <2>3 DEF work, Call
    <3>2. StoreClosedBehind' /\ lock' \in [Contract -> {"free", "node", "reader", "leaked"}]
      BY <2>1, <2>3, <3>1, OpenPlace
    <3> QED
      BY <2>1, <2>3, <3>1, <3>2 DEF Place, work, InCall
  <2>4. CASE pc' = "run" /\ run' = Started(Call.to, << >>) /\ UNCHANGED <<lock, work, left>>
    BY <2>1, <2>4 DEF Place, StoreClosedBehind, Started, work, Call, Fields, InCall
  <2> QED
    BY <1>5, <2>2, <2>3, <2>4 DEF Load
<1>6. CASE ReadStore
  <2>1. Call.to \in Contract /\ pc = "read"
    BY <1>6 DEF ReadStore, Place, InCall
  <2>2. StoreClosedBehind' /\ lock' \in [Contract -> {"free", "node", "reader", "leaked"}]
    BY <1>6, <2>1, ClosePlace DEF ReadStore
  <2> QED
    BY <1>6, <2>1, <2>2 DEF ReadStore, Place, Started, work, Call, Fields, InCall
<1>7. CASE Instruction
  <2>1. Fields \subseteq DOMAIN run' /\ run'.address = run.address
    <3>1. Fields \subseteq DOMAIN run
      BY <1>7 DEF Instruction, Place
    <3>2. run' = Paid(run, Execute(Program[run.address], balances, run))
      BY <1>7 DEF Instruction
    <3> QED
      BY <3>1, <3>2, RunKept
  <2> QED
    BY <1>7, <2>1 DEF Instruction, Place, StoreClosedBehind, work, Call, InCall
<1>8. CASE Throw
  BY <1>8, LeavePlace DEF Throw, Drop
<1>9. CASE Return
  <2>1. run.address \in Contract /\ block \in Blocks /\ index \in Nat \ {0}
    BY <1>9 DEF Return, Place, InCall
  <2>2. left' \in Seq(Contract)
    BY <1>9, <2>1 DEF Return, Place
  <2> QED
    BY <1>9, <2>1, <2>2 DEF Return, Place, StoreClosedBehind, InCall
<1>10. CASE PayCoinbase
  BY <1>10 DEF PayCoinbase, Place, StoreClosedBehind, InCall
<1>11. CASE Flush
  <2>1. Head(left) \in Contract /\ pc = "flush" /\ left # << >>
    BY <1>11 DEF Flush, Place
  <2>2. CASE Leave /\ UNCHANGED lock
    BY <2>1, <2>2, LeavePlace
  <2>3. CASE OpenStore(Head(left)) /\ pc' = "put" /\ UNCHANGED <<chain, work, run, storage, left>>
    <3>1. StoreClosedBehind' /\ lock' \in [Contract -> {"free", "node", "reader", "leaked"}]
      BY <2>1, <2>3, OpenPlace
    <3> QED
      BY <2>1, <2>3, <3>1 DEF Place, work, InCall
  <2>4. CASE left' = Tail(left) /\ UNCHANGED <<lock, pc, work>>
    BY <2>1, <2>4 DEF Place, StoreClosedBehind, work, InCall
  <2> QED
    BY <1>11, <2>2, <2>3, <2>4 DEF Flush, Drop, Tear
<1>12. CASE PutKeys
  <2>1. Head(left) \in Contract /\ pc = "put" /\ Tail(left) \in Seq(Contract)
    BY <1>12 DEF PutKeys, Place
  <2>2. StoreClosedBehind' /\ lock' \in [Contract -> {"free", "node", "reader", "leaked"}]
    BY <1>12, <2>1, ClosePlace DEF PutKeys
  <2> QED
    BY <1>12, <2>1, <2>2 DEF PutKeys, Place, work, InCall
<1>13. CASE PutAccount
  <2>1. pc = "flush" /\ UNCHANGED lock
    BY <1>13 DEF PutAccount
  <2>2. CASE Leave
    BY <2>1, <2>2, LeavePlace
  <2>3. CASE UNCHANGED <<pc, block, index, left>>
    BY <2>1, <2>3 DEF Place, StoreClosedBehind, Call, InCall
  <2> QED
    BY <1>13, <2>2, <2>3 DEF PutAccount, Tear
<1> QED
  BY <1>1, <1>2, <1>3, <1>4, <1>5, <1>6, <1>7, <1>8, <1>9, <1>10, <1>11, <1>12, <1>13
  DEF Next, Node

\* The node has a store open only while it reads or writes it.
THEOREM StoresAreClosed == Spec => []StoreClosedBehind
<1>1. Place /\ StoreClosedBehind /\ [Next]_vars => (Place /\ StoreClosedBehind)'
  BY NextPlace
<1> QED
  BY <1>1, InitPlace, PTL DEF Spec

-----------------------------------------------------------------------------
(* Numbers and the functions into them.                                    *)

\* Every value of f is a natural number.
Numbers(f) == \A x \in DOMAIN f : f[x] \in Nat

\* What accounts hold.
Funds(f) == IsFiniteSet(DOMAIN f) /\ f \in [DOMAIN f -> Nat]

-----------------------------------------------------------------------------
(* Sums.                                                                   *)

AddValue(fun, sum, x) == fun[x] + sum

SumFold == INSTANCE FoldTheorems WITH Step <- AddValue

SumOver(fun, t) == SumFold!Part(fun, 0, t, t)

Money(fun) == FoldFunction(+, 0, fun)

LEMMA MoneyIsSum == ASSUME NEW fun PROVE Money(fun) = SumOver(fun, DOMAIN fun)
BY DEF Money, FoldFunction, FoldFunctionOnSet, MapThenFoldSet,
       SumOver, SumFold!Part, SumFold!Tabulates, SumFold!Some, AddValue

LEMMA SameFinite == ASSUME NEW t PROVE SumFold!IsFiniteSet(t) <=> IsFiniteSet(t)
BY DEF IsFiniteSet, SumFold!IsFiniteSet

LEMMA SumOfNone == ASSUME NEW fun PROVE SumOver(fun, {}) = 0
<1>1. SumFold!IsFiniteSet({})
  BY FS_EmptySet, SameFinite
<1> QED
  BY <1>1, SumFold!PartBase DEF SumOver

LEMMA SumOfSome ==
  ASSUME NEW fun, NEW t, IsFiniteSet(t), t # {}
  PROVE  \E x \in t : SumOver(fun, t) = fun[x] + SumOver(fun, t \ {x})
<1> DEFINE x == SumFold!Some(t)
<1>1. SumFold!IsFiniteSet(t) /\ SumFold!IsFiniteSet(t \ {x})
  BY FS_Subset, SameFinite
<1>2. x \in t /\ SumFold!Part(fun, 0, t, t) = AddValue(fun, SumFold!Part(fun, 0, t, t \ {x}), x)
  BY <1>1, SumFold!PartStep
<1>3. SumFold!Part(fun, 0, t, t \ {x}) = SumFold!Part(fun, 0, t \ {x}, t \ {x})
  BY <1>1, SumFold!PartAgrees
<1> QED
  BY <1>2, <1>3 DEF SumOver, AddValue

LEMMA SumOfSame ==
  ASSUME NEW fun, NEW other, NEW t, IsFiniteSet(t), \A x \in t : fun[x] = other[x]
  PROVE  SumOver(fun, t) = SumOver(other, t)
<1>1. \A x \in t : \A sum : AddValue(fun, sum, x) = AddValue(other, sum, x)
  BY DEF AddValue
<1> QED
  BY <1>1, SameFinite, SumFold!PartAgrees DEF SumOver

\* A sum of natural numbers is one,
LEMMA SumType ==
  ASSUME NEW fun, NEW U, IsFiniteSet(U), \A x \in U : fun[x] \in Nat
  PROVE  SumOver(fun, U) \in Nat
<1> DEFINE S == {n \in Nat : \A t \in SUBSET U : Cardinality(t) = n => SumOver(fun, t) \in Nat}
<1>1. ASSUME NEW t \in SUBSET U
      PROVE  IsFiniteSet(t) /\ Cardinality(t) \in Nat
  BY FS_Subset, FS_CardinalityType
<1>2. 0 \in S
  <2>1. \A t \in SUBSET U : Cardinality(t) = 0 => t = {}
    BY <1>1, FS_EmptySet
  <2> QED
    BY <2>1, SumOfNone
<1>3. ASSUME NEW n \in Nat, n \in S
      PROVE  n + 1 \in S
  <2>1. ASSUME NEW t \in SUBSET U, Cardinality(t) = n + 1
        PROVE  SumOver(fun, t) \in Nat
    <3>1. t # {}
      BY <2>1, FS_EmptySet
    <3>2. PICK x \in t : SumOver(fun, t) = fun[x] + SumOver(fun, t \ {x})
      BY <1>1, <3>1, SumOfSome
    <3>3. Cardinality(t \ {x}) = n
      <4>1. Cardinality(t \ {x}) = Cardinality(t) - 1
        BY <1>1, FS_RemoveElement
      <4> QED
        BY <2>1, <4>1
    <3>4. SumOver(fun, t \ {x}) \in Nat
      BY <1>3, <3>3
    <3> QED
      BY <3>2, <3>4
  <2> QED
    BY <2>1
<1>4. Nat \subseteq S
  <2> HIDE DEF S
  <2> QED
    BY <1>2, <1>3, SumFold!Induction
<1>5. Cardinality(U) \in S
  <2> HIDE DEF S
  <2> QED
    BY <1>1, <1>4
<1> QED
  BY <1>5

\* which does not depend on the order.
LEMMA SumWithout ==
  ASSUME NEW fun, NEW U, IsFiniteSet(U), \A x \in U : fun[x] \in Nat
  PROVE  \A y \in U : SumOver(fun, U) = fun[y] + SumOver(fun, U \ {y})
<1> DEFINE Good(t) == \A y \in t : SumOver(fun, t) = fun[y] + SumOver(fun, t \ {y})
           S == {n \in Nat : \A t \in SUBSET U : Cardinality(t) = n => Good(t)}
<1>1. ASSUME NEW t \in SUBSET U
      PROVE  IsFiniteSet(t) /\ Cardinality(t) \in Nat
  BY FS_Subset, FS_CardinalityType
<1>2. 0 \in S
  <2>1. \A t \in SUBSET U : Cardinality(t) = 0 => t = {}
    BY <1>1, FS_EmptySet
  <2>2. Good({})
    BY SumOfNone
  <2> HIDE DEF Good
  <2> QED
    BY <2>1, <2>2
<1>3. ASSUME NEW n \in Nat, n \in S
      PROVE  n + 1 \in S
  <2>1. ASSUME NEW t \in SUBSET U, Cardinality(t) = n + 1
        PROVE  Good(t)
    <3>1. \A y \in t : Cardinality(t \ {y}) = n /\ t \ {y} \in SUBSET U
      <4>1. \A y \in t : Cardinality(t \ {y}) = Cardinality(t) - 1
        BY <1>1, FS_RemoveElement
      <4> QED
        BY <2>1, <4>1
    <3>2. \A y \in t : Good(t \ {y})
      BY <1>3, <3>1
    <3>3. t # {}
      BY <2>1, FS_EmptySet
    <3>4. PICK x \in t : SumOver(fun, t) = fun[x] + SumOver(fun, t \ {x})
      BY <1>1, <3>3, SumOfSome
    <3>5. ASSUME NEW y \in t
          PROVE  SumOver(fun, t) = fun[y] + SumOver(fun, t \ {y})
      <4>1. CASE y = x
        BY <3>4, <4>1
      <4>2. CASE y # x
        <5>1. SumOver(fun, t \ {x}) = fun[y] + SumOver(fun, (t \ {x}) \ {y})
          BY <3>2, <4>2
        <5>2. SumOver(fun, t \ {y}) = fun[x] + SumOver(fun, (t \ {y}) \ {x})
          BY <3>2, <4>2
        <5>3. (t \ {x}) \ {y} = (t \ {y}) \ {x}
          OBVIOUS
        <5> DEFINE rest == SumOver(fun, (t \ {y}) \ {x})
        <5>4. rest \in Nat
          BY <1>1, SumType
        <5> QED
          BY <3>4, <5>1, <5>2, <5>3, <5>4
      <4> QED
        BY <4>1, <4>2
    <3> QED
      BY <3>5
  <2> HIDE DEF Good
  <2> QED
    BY <2>1
<1>4. Nat \subseteq S
  <2> HIDE DEF S
  <2> QED
    BY <1>2, <1>3, SumFold!Induction
<1>5. Cardinality(U) \in S
  <2> HIDE DEF S
  <2> QED
    BY <1>1, <1>4
<1> QED
  BY <1>5

-----------------------------------------------------------------------------
(* A payment changes the sum by what it puts in place of what was there.   *)

LEMMA PutFunds ==
  ASSUME NEW f, Funds(f), NEW a, NEW v \in Nat
  PROVE  /\ Funds(Put(f, a, v))
         /\ Money(f) \in Nat /\ At(f, a) \in Nat
         /\ Money(Put(f, a, v)) = Money(f) - At(f, a) + v
<1> DEFINE g == Put(f, a, v)
           rest == DOMAIN f \ {a}
<1>1. /\ DOMAIN g = DOMAIN f \cup {a} /\ g[a] = v
      /\ \A x \in rest : g[x] = f[x]
      /\ \A x \in DOMAIN g : g[x] \in Nat
      /\ DOMAIN g \ {a} = rest
      /\ g \in [DOMAIN g -> Nat]
  BY DEF Put, Funds
<1>2. IsFiniteSet(DOMAIN f) /\ IsFiniteSet(DOMAIN g) /\ IsFiniteSet(rest)
  BY <1>1, FS_AddElement, FS_Subset DEF Funds
<1>3. At(f, a) \in Nat
  BY DEF At, Funds
<1> HIDE DEF g
<1>4. SumOver(f, rest) \in Nat /\ SumOver(f, rest) = SumOver(g, rest)
  <2>1. \A x \in rest : f[x] \in Nat /\ f[x] = g[x]
    BY <1>1 DEF Funds
  <2> QED
    BY <1>2, <2>1, SumType, SumOfSame
<1>5. Money(g) = v + SumOver(g, rest)
  BY <1>1, <1>2, SumWithout, MoneyIsSum
<1>6. Money(f) = At(f, a) + SumOver(f, rest)
  <2>1. CASE a \in DOMAIN f
    BY <1>2, <2>1, SumWithout, MoneyIsSum DEF At, Funds
  <2>2. CASE a \notin DOMAIN f
    <3>1. rest = DOMAIN f
      BY <2>2
    <3> QED
      BY <1>4, <2>2, <3>1, MoneyIsSum DEF At
  <2> QED
    BY <2>1, <2>2
<1>7. Funds(g)
  BY <1>1, <1>2 DEF Funds
<1> QED
  BY <1>3, <1>4, <1>5, <1>6, <1>7 DEF g

\* A payment into the working set is one into the balances in force.
LEMMA OverPut ==
  ASSUME NEW new, NEW old, NEW a, NEW v
  PROVE  Over(Put(new, a, v), old) = Put(Over(new, old), a, v)
BY DEF Over, Put

LEMMA OverFunds ==
  ASSUME NEW new, Funds(new), NEW old, Funds(old)
  PROVE  Funds(Over(new, old)) /\ Money(Over(new, old)) \in Nat
<1>1. IsFiniteSet(DOMAIN new \cup DOMAIN old)
  BY FS_Union DEF Funds
<1>2. /\ DOMAIN Over(new, old) = DOMAIN new \cup DOMAIN old
      /\ Over(new, old) \in [DOMAIN Over(new, old) -> Nat]
  BY DEF Over, Funds
<1>3. Funds(Over(new, old))
  BY <1>1, <1>2 DEF Funds
<1> QED
  BY <1>3, SumType, MoneyIsSum DEF Funds

LEMMA OverAt ==
  ASSUME NEW new, NEW old, NEW a
  PROVE  At(Over(new, old), a) = IF a \in DOMAIN new THEN new[a] ELSE At(old, a)
BY DEF Over, At

LEMMA NoFunds == Funds(<< >>) /\ \A f : Funds(f) => Over(<< >>, f) = f
BY FS_EmptySet DEF Funds, Over

-----------------------------------------------------------------------------
(* Values are natural numbers, whatever is computed.                       *)

DoublePower(env, f, n) == IF n = 0 THEN 1 ELSE 2 * f[n - 1]
ReadDigits(env, f, n) == IF n < 10 THEN n ELSE 16 * f[n \div 10] + (n % 10)

PowerRec == INSTANCE FoldTheorems WITH Step <- DoublePower
MisreadRec == INSTANCE FoldTheorems WITH Step <- ReadDigits

LEMMA PowerType == \A n \in Nat : Power[n] \in Nat \ {0}
<1>1. PowerRec!LooksBack(0)
  BY DEF PowerRec!LooksBack, DoublePower
<1>2. \E f : f = [n \in Nat |-> DoublePower(0, f, n)]
  BY <1>1, PowerRec!Recursion
<1>3. Power = [n \in Nat |-> DoublePower(0, Power, n)]
  BY <1>2 DEF Power, DoublePower
<1>4. \A n \in Nat : (\A k \in Nat : k < n => Power[k] \in Nat \ {0})
                       => DoublePower(0, Power, n) \in Nat \ {0}
  BY DEF DoublePower
<1> QED
  BY <1>3, <1>4, PowerRec!RecursionStays

LEMMA MisreadType == \A n \in Nat : Misread[n] \in Nat
<1>1. \A n \in Nat : n >= 10 => n \div 10 \in Nat /\ n \div 10 < n /\ n % 10 \in Nat
  OBVIOUS
<1>2. MisreadRec!LooksBack(0)
  BY <1>1 DEF MisreadRec!LooksBack, ReadDigits
<1>3. \E f : f = [n \in Nat |-> ReadDigits(0, f, n)]
  BY <1>2, MisreadRec!Recursion
<1>4. Misread = [n \in Nat |-> ReadDigits(0, Misread, n)]
  BY <1>3 DEF Misread, ReadDigits
<1>5. \A n \in Nat : (\A k \in Nat : k < n => Misread[k] \in Nat) => ReadDigits(0, Misread, n) \in Nat
  BY <1>1 DEF ReadDigits
<1> QED
  BY <1>4, <1>5, MisreadRec!RecursionStays

LEMMA DivType == \A m \in Nat : \A n \in Nat \ {0} : m \div n \in Nat
OBVIOUS

LEMMA BitsType ==
  ASSUME NEW f \in [0..(WORD - 1) -> Nat]
  PROVE  OfBits(f) \in Nat
<1> DEFINE g == [i \in DOMAIN f |-> f[i] * Power[i]]
<1>1. DOMAIN g = 0..(WORD - 1) /\ \A i \in DOMAIN g : g[i] \in Nat
  BY PowerType, ContractsAssumption
<1>2. IsFiniteSet(DOMAIN g)
  BY <1>1, ContractsAssumption, FS_Interval
<1>3. OfBits(f) = Money(g)
  BY DEF OfBits, Money
<1> HIDE DEF g
<1> QED
  BY <1>1, <1>2, <1>3, SumType, MoneyIsSum

LEMMA BitType == \A n \in Nat : \A i \in Nat : Bit(n, i) \in {0, 1}
<1> SUFFICES ASSUME NEW n \in Nat, NEW i \in Nat
             PROVE  Bit(n, i) \in {0, 1}
  OBVIOUS
<1>1. n \div Power[i] \in Nat
  BY PowerType, DivType
<1> QED
  BY <1>1 DEF Bit

LEMMA ArithmeticType ==
  ASSUME NEW op \in ArithmeticOps, NEW a \in Nat, NEW b \in Nat
  PROVE  Arithmetic(op, a, b) \in Nat
<1>1. \A i \in 0..(WORD - 1) : Bit(a, i) \in {0, 1} /\ Bit(b, i) \in {0, 1}
  BY BitType, ContractsAssumption
<1>2. /\ [i \in 0..(WORD - 1) |-> Bit(a, i) * Bit(b, i)] \in [0..(WORD - 1) -> Nat]
      /\ [i \in 0..(WORD - 1) |-> (Bit(a, i) + Bit(b, i) + 1) \div 2] \in [0..(WORD - 1) -> Nat]
      /\ [i \in 0..(WORD - 1) |-> (Bit(a, i) + Bit(b, i)) % 2] \in [0..(WORD - 1) -> Nat]
  BY <1>1
<1>3. CASE op = "and"
  BY <1>2, <1>3, BitsType DEF Arithmetic
<1>4. CASE op = "or"
  BY <1>2, <1>4, BitsType DEF Arithmetic
<1>5. CASE op = "xor"
  BY <1>2, <1>5, BitsType DEF Arithmetic
<1>6. CASE op = "ls"
  <2>1. Arithmetic(op, a, b) = a * Power[b]
    BY <1>6 DEF Arithmetic
  <2> QED
    BY <2>1, PowerType
<1>7. CASE op = "rs"
  <2>1. Arithmetic(op, a, b) = a \div Power[b]
    BY <1>7 DEF Arithmetic
  <2> QED
    BY <2>1, PowerType, DivType
<1>8. CASE op = "div"
  <2>1. Arithmetic(op, a, b) = IF b = 0 THEN 0 ELSE a \div b
    BY <1>8 DEF Arithmetic
  <2> QED
    BY <2>1, DivType
<1>9. CASE op = "mod"
  <2>1. Arithmetic(op, a, b) = IF b = 0 THEN 0 ELSE a % b
    BY <1>9 DEF Arithmetic
  <2> QED
    BY <2>1
<1>10. CASE op \in {"set", "add", "sub", "mul"}
  BY <1>10 DEF Arithmetic
<1> QED
  BY <1>3, <1>4, <1>5, <1>6, <1>7, <1>8, <1>9, <1>10 DEF ArithmeticOps

LEMMA MinOfNaturals ==
  ASSUME NEW S, S \subseteq Nat, S # {}
  PROVE  Min(S) \in S
<1> DEFINE T == {n \in Nat : \A k \in 0..n : k \notin S}
<1>1. SUFFICES ASSUME \A x \in S : \E y \in S : y < x PROVE FALSE
  <2>1. CASE \E x \in S : \A y \in S : x <= y
    BY <2>1 DEF Min
  <2>2. CASE \A x \in S : \E y \in S : ~(x <= y)
    <3>1. \A x \in S : \E y \in S : y < x
      BY <2>2
    <3> QED
      BY <3>1
  <2> QED
    BY <2>1, <2>2
<1>2. 0 \in T
  BY <1>1
<1>3. ASSUME NEW n \in Nat, n \in T PROVE n + 1 \in T
  <2>1. n + 1 \notin S
    BY <1>1, <1>3
  <2> QED
    BY <1>3, <2>1
<1>4. Nat \subseteq T
  <2> HIDE DEF T
  <2> QED
    BY <1>2, <1>3, SumFold!Induction
<1>5. \A x \in Nat : x \in 0..x /\ x \in T
  BY <1>4
<1>6. \A x \in Nat : x \notin S
  BY <1>5
<1> QED
  BY <1>6

\* What an instruction finds in the transaction and the block.
Facts == {"timestamp", "blocknumber", "difficulty", "txvalue", "txsender", "txgas", "txexecgas"}

RunOK(r, c) ==
  /\ DOMAIN r = {"ptr", "gas", "memory", "args", "state", "storage", "address", "info"}
  /\ r.address = c /\ c \in DOMAIN r.state
  /\ r.ptr \in Nat \ {0} /\ r.gas \in Nat
  /\ Numbers(r.memory) /\ Numbers(r.args) /\ Numbers(r.storage)
  /\ Funds(r.state)
  /\ \A fact \in Facts : r.info[fact] \in Nat

LEMMA NumbersAt == \A f : Numbers(f) => \A x : At(f, x) \in Nat
BY DEF Numbers, At

LEMMA NumbersPut ==
  ASSUME NEW f, Numbers(f), NEW x, NEW v \in Nat
  PROVE  Numbers(Put(f, x, v))
BY DEF Numbers, Put

LEMMA ValueType ==
  ASSUME NEW c \in Contract, NEW r, RunOK(r, c), NEW token \in Token
  PROVE  Value(r, token) \in Nat
BY NumbersAt DEF RunOK, Token, Value

LEMMA OpsApart ==
  ASSUME NEW op
  PROVE  /\ op \in ArithmeticOps => /\ op \notin ComparisonOps /\ op \notin EnvironmentOps
                                   /\ op \notin {"pull", "balance"}
         /\ op \in ComparisonOps => op \notin EnvironmentOps /\ op \notin {"pull", "balance"}
         /\ op \in EnvironmentOps => op \notin {"pull", "balance"}
         /\ op \in MemoryOps => op \notin {"store", "jump", "send"}
<1>1. op \in ArithmeticOps => /\ op \notin ComparisonOps /\ op \notin EnvironmentOps
                             /\ op \notin {"pull", "balance"}
  BY DEF ArithmeticOps, ComparisonOps, EnvironmentOps
<1>2. op \in ComparisonOps => op \notin EnvironmentOps /\ op \notin {"pull", "balance"}
  BY DEF ComparisonOps, EnvironmentOps
<1>3. op \in EnvironmentOps => op \notin {"pull", "balance"}
  BY DEF EnvironmentOps
<1>4. op \in MemoryOps => op \notin {"store", "jump", "send"}
  BY DEF MemoryOps, ArithmeticOps, ComparisonOps, EnvironmentOps
<1> QED
  BY <1>1, <1>2, <1>3, <1>4

LEMMA WrittenType ==
  ASSUME NEW c \in Contract, NEW r, RunOK(r, c), NEW disk, Funds(disk),
         NEW op \in MemoryOps, NEW x \in Nat, NEW y \in Nat
  PROVE  Written(r, disk, op, x, y) \in Nat
<1>1. At(r.memory, x) \in Nat /\ At(r.storage, y) \in Nat /\ c \in Nat /\ At(disk, y) \in Nat
  BY NumbersAt, ContractsAssumption DEF RunOK, Numbers, Funds
<1>2. CASE op \in ArithmeticOps
  <2>1. Written(r, disk, op, x, y) = Arithmetic(op, At(r.memory, x), y)
    BY <1>2, OpsApart DEF Written
  <2> QED
    BY <1>1, <1>2, <2>1, ArithmeticType
<1>3. CASE op \in ComparisonOps
  <2>1. Written(r, disk, op, x, y) = IF Holds(op, At(r.memory, x), y) THEN 1 ELSE 0
    BY <1>3, OpsApart DEF Written
  <2> QED
    BY <2>1
<1>4. CASE op \in EnvironmentOps
  <2>2. Written(r, disk, op, x, y) = Environment(r, op)
    BY <1>4, OpsApart DEF Written
  <2>3. CASE op = "selfbalance"
    BY <2>2, <2>3 DEF Environment, RunOK, Funds
  <2>4. CASE op = "address"
    BY <1>1, <2>2, <2>4 DEF Environment, RunOK
  <2>5. CASE op = "gas"
    BY <2>2, <2>5 DEF Environment, RunOK
  <2>6. CASE op \in {"txvalue", "txgas", "txexecgas"}
    <3>1. Environment(r, op) = Misread[r.info[op]] /\ r.info[op] \in Nat
      BY <2>6 DEF Environment, RunOK, Facts
    <3> QED
      BY <2>2, <3>1, MisreadType
  <2>7. CASE op \in {"timestamp", "blocknumber", "difficulty", "txsender"}
    <3>1. Environment(r, op) = r.info[op] /\ r.info[op] \in Nat
      BY <2>7 DEF Environment, RunOK, Facts
    <3> QED
      BY <2>2, <3>1
  <2> QED
    BY <1>4, <2>3, <2>4, <2>5, <2>6, <2>7 DEF EnvironmentOps
<1>5. CASE op = "pull"
  <2>1. Written(r, disk, op, x, y) = At(r.storage, y)
    BY <1>5, OpsApart DEF Written
  <2> QED
    BY <1>1, <2>1
<1>6. CASE op = "balance"
  <2>1. Written(r, disk, op, x, y) = Balance(r, disk, y)
    BY <1>6, OpsApart DEF Written
  <2> QED
    BY <1>1, <2>1 DEF Balance, RunOK, Funds
<1> QED
  BY <1>2, <1>3, <1>4, <1>5, <1>6 DEF MemoryOps

\* A contract pays what another gets, also when it pays itself.
LEMMA SendPays ==
  ASSUME NEW c \in Contract, NEW r, RunOK(r, c), NEW disk, Funds(disk),
         NEW target \in Nat, NEW amount \in Nat
  PROVE  /\ RunOK(Send(r, disk, target, amount), c)
         /\ Money(Over(Send(r, disk, target, amount).state, disk)) = Money(Over(r.state, disk))
<1> DEFINE funds == Over(r.state, disk)
           credit == Balance(r, disk, target) + amount
           credited == Put(r.state, target, credit)
           debited == [credited EXCEPT ![r.address] = @ - amount]
           after == Send(r, disk, target, amount)
<1>1. Funds(r.state) /\ c \in DOMAIN r.state /\ r.address = c
  BY DEF RunOK
<1>2. CASE r.state[c] < amount
  BY <1>1, <1>2 DEF Send
<1>3. CASE ~(r.state[c] < amount)
  <2>1. after = [r EXCEPT !.state = debited]
    <3>1. ~(r.state[r.address] < amount)
      BY <1>1, <1>3
    <3> QED
      BY <3>1 DEF Send
  <2>2. r.state[c] \in Nat /\ amount <= r.state[c]
    BY <1>1, <1>3 DEF Funds
  <2>3. Balance(r, disk, target) = At(funds, target) /\ At(funds, c) = r.state[c]
    BY <1>1, OverAt DEF Balance
  <2>4. Funds(funds) /\ At(funds, target) \in Nat
    BY <1>1, OverFunds, PutFunds
  <2>5. credit \in Nat /\ credit = At(funds, target) + amount
    BY <2>3, <2>4
  <2> HIDE DEF credit
  <2>6. Funds(credited) /\ c \in DOMAIN credited /\ amount <= credited[c]
    <3>1. Funds(credited)
      BY <1>1, <2>5, PutFunds
    <3>2. credited[c] = IF c = target THEN credit ELSE r.state[c]
      BY <1>1 DEF Put
    <3>3. c = target => credit = r.state[c] + amount
      BY <2>3, <2>5
    <3> QED
      BY <1>1, <2>2, <3>1, <3>2, <3>3 DEF Put
  <2> DEFINE remains == credited[c] - amount
  <2>7. debited = Put(credited, c, remains) /\ remains \in Nat
    <3> HIDE DEF credited
    <3>1. debited = [credited EXCEPT ![c] = @ - amount]
      BY <1>1
    <3>2. credited \in [DOMAIN credited -> Nat] /\ c \in DOMAIN credited
      BY <2>6 DEF Funds
    <3> QED
      BY <2>6, <3>1, <3>2 DEF Put
  <2>8. Funds(debited) /\ c \in DOMAIN debited
    <3> HIDE DEF credited, remains, debited
    <3>1. Funds(Put(credited, c, remains))
      BY <2>6, <2>7, PutFunds
    <3>2. c \in DOMAIN Put(credited, c, remains)
      BY DEF Put
    <3> QED
      BY <2>7, <3>1, <3>2
  <2>9. Money(Over(debited, disk)) = Money(funds)
    <3> DEFINE middle == Over(credited, disk)
    <3>1. Funds(middle) /\ Money(middle) = Money(funds) + amount /\ Money(funds) \in Nat
      <4>1. middle = Put(funds, target, credit)
        BY OverPut
      <4> HIDE DEF middle, funds
      <4>2. Funds(Put(funds, target, credit)) /\ Money(funds) \in Nat
            /\ Money(Put(funds, target, credit)) = Money(funds) - At(funds, target) + credit
        BY <2>4, <2>5, PutFunds
      <4> QED
        BY <2>4, <2>5, <4>1, <4>2
    <3>2. At(middle, c) = credited[c] /\ credited[c] \in Nat
      BY <2>6, OverAt DEF Funds
    <3>3. Over(debited, disk) = Put(middle, c, remains)
      BY <2>7, OverPut
    <3>4. Money(Put(middle, c, remains)) = Money(middle) - At(middle, c) + remains
      BY <2>7, <3>1, PutFunds
    <3> HIDE DEF middle, credited, debited, funds
    <3> QED
      BY <3>1, <3>2, <3>3, <3>4
  <2>10. RunOK(after, c)
    BY <2>1, <2>8 DEF RunOK
  <2>11. after.state = debited
    BY <2>1 DEF RunOK
  <2> QED
    BY <2>9, <2>10, <2>11
<1> QED
  BY <1>2, <1>3

LEMMA LinesOfProgram ==
  ASSUME NEW c \in Contract
  PROVE  /\ Len(Program[c]) \in Nat /\ DOMAIN Program[c] = 1..Len(Program[c])
         /\ \A i \in DOMAIN Program[c] : /\ Program[c][i].x \in Token
                                          /\ Program[c][i].y \in Token
<1>1. Len(Program[c]) \in Nat /\ DOMAIN Program[c] = 1..Len(Program[c])
  BY ValuesAssumption
<1>2. \A i \in DOMAIN Program[c] : Program[c][i] \in Range(Program[c])
  BY DEF Range
<1> QED
  BY <1>1, <1>2, ValuesAssumption

\* No instruction makes or destroys money, or leaves a value that is no number.
LEMMA ExecutePays ==
  ASSUME NEW c \in Contract, NEW r, RunOK(r, c), NEW disk, Funds(disk),
         Verdict(Program[c], r) = "continues"
  PROVE  LET after == Paid(r, Execute(Program[c], disk, r))
         IN  /\ RunOK(after, c)
             /\ Money(Over(after.state, disk)) = Money(Over(r.state, disk))
<1> DEFINE program == Program[c]
           line == program[r.ptr]
           x == Value(r, line.x)
           y == Value(r, line.y)
           done == Execute(program, disk, r)
           Kept(run0) == /\ RunOK(run0, c)
                         /\ Money(Over(run0.state, disk)) = Money(Over(r.state, disk))
<1>1. /\ r.ptr \in Nat \ {0} /\ r.gas \in Nat
      /\ Len(program) \in Nat /\ DOMAIN program = 1..Len(program)
      /\ \A i \in DOMAIN program : program[i].x \in Token /\ program[i].y \in Token
  BY LinesOfProgram DEF RunOK
<1>2. r.ptr \in DOMAIN program /\ r.gas >= STEP_GAS
  BY <1>1, ContractsAssumption DEF Verdict
<1>3. x \in Nat /\ y \in Nat
  BY <1>1, <1>2, ValueType
<1>4. Kept(done) /\ done.gas = r.gas
  <2> HIDE DEF x, y
  <2>1. CASE line.op \in MemoryOps
    <3> DEFINE w == Written(r, disk, line.op, x, y)
    <3>1. w \in Nat
      BY <1>3, <2>1, WrittenType
    <3>2. done = [r EXCEPT !.memory = Put(@, x, w)]
      BY <2>1, OpsApart DEF Execute, x, y
    <3>3. Numbers(Put(r.memory, x, w))
      BY <3>1, NumbersPut DEF RunOK
    <3> HIDE DEF w, done
    <3> QED
      BY <3>2, <3>3 DEF RunOK
  <2>2. CASE line.op \notin MemoryOps
    <3> HIDE DEF line
    <3>1. CASE line.op = "store"
      <4>1. done = [r EXCEPT !.storage = Put(@, x, y)]
        BY <2>2, <3>1 DEF Execute, x, y, line
      <4>2. Numbers(Put(r.storage, x, y))
        BY <1>3, NumbersPut DEF RunOK
      <4> HIDE DEF done
      <4> QED
        BY <4>1, <4>2 DEF RunOK
    <3>2. CASE line.op = "jump"
      <4> DEFINE lines == {i \in DOMAIN program : IsLabel(program[i], y)}
      <4>1. done = Jump(program, r, x, y)
        BY <2>2, <3>2 DEF Execute, x, y, line
      <4>2. done = r \/ (lines # {} /\ done = [r EXCEPT !.ptr = Min(lines)])
        BY <4>1 DEF Jump
      <4>3. lines # {} => Min(lines) \in Nat \ {0}
        <5>1. lines \subseteq DOMAIN program
          OBVIOUS
        <5> HIDE DEF program, lines
        <5>2. \A i \in DOMAIN program : i \in Nat /\ i # 0
          BY <1>1
        <5>3. lines \subseteq Nat \ {0}
          BY <5>1, <5>2
        <5> HIDE DEF lines
        <5> QED
          BY <5>3, MinOfNaturals
      <4> HIDE DEF done, lines
      <4>4. CASE done = r
        BY <4>4
      <4>5. CASE lines # {} /\ done = [r EXCEPT !.ptr = Min(lines)]
        BY <4>3, <4>5 DEF RunOK
      <4> QED
        BY <4>2, <4>4, <4>5
    <3>3. CASE line.op = "send"
      <4>1. done = Send(r, disk, x, y)
        BY <2>2, <3>3 DEF Execute, x, y, line
      <4>2. done.gas = r.gas
        BY <4>1 DEF Send, RunOK
      <4>3. Kept(Send(r, disk, x, y))
        BY <1>3, SendPays
      <4> QED
        BY <4>1, <4>2, <4>3
    <3>4. CASE line.op \notin {"store", "jump", "send"}
      <4>1. done = r
        BY <2>2, <3>4 DEF Execute, line
      <4> QED
        BY <4>1
    <3> QED
      BY <3>1, <3>2, <3>3, <3>4
  <2> QED
    BY <2>1, <2>2
<1>5. Paid(r, done) = [done EXCEPT !.ptr = @ + 1, !.gas = @ - STEP_GAS]
  BY DEF Paid
<1> HIDE DEF done
<1>6. RunOK(Paid(r, done), c) /\ Paid(r, done).state = done.state
  <2>1. done.gas - STEP_GAS \in Nat /\ done.ptr + 1 \in Nat \ {0}
    <3>1. done.gas = r.gas /\ done.ptr \in Nat \ {0}
      BY <1>4 DEF RunOK
    <3>2. r.gas \in Nat /\ r.gas >= STEP_GAS /\ STEP_GAS \in Nat
      BY <1>1, <1>2, ContractsAssumption
    <3> HIDE DEF program, Kept
    <3>3. done.gas - STEP_GAS \in Nat
      BY <3>1, <3>2
    <3>4. \A n \in Nat : n # 0 => n + 1 \in Nat /\ n + 1 # 0
      OBVIOUS
    <3> QED
      BY <3>1, <3>3, <3>4
  <2>2. RunOK(done, c)
    BY <1>4
  <2> DEFINE paid == [done EXCEPT !.ptr = @ + 1, !.gas = @ - STEP_GAS]
  <2>3. /\ DOMAIN paid = DOMAIN done
        /\ paid.ptr = done.ptr + 1 /\ paid.gas = done.gas - STEP_GAS
        /\ paid.memory = done.memory /\ paid.args = done.args /\ paid.state = done.state
        /\ paid.storage = done.storage /\ paid.address = done.address /\ paid.info = done.info
    BY <2>2 DEF RunOK
  <2> HIDE DEF paid
  <2>4. RunOK(paid, c)
    BY <2>1, <2>2, <2>3 DEF RunOK
  <2> QED
    BY <1>5, <2>3, <2>4 DEF paid
<1> QED
  BY <1>4, <1>6 DEF done

-----------------------------------------------------------------------------
(* The fees of the calls of a block.                                       *)

AddFee(env, sum, call) == sum + Fee(call)

FeeFold == INSTANCE FoldTheorems WITH Step <- AddFee

FeesOf(calls, i) == FeeFold!Prefix(0, 0, calls, i)

LEMMA FeesAreFolded ==
  ASSUME NEW calls, Len(calls) \in Nat, DOMAIN calls = 1..Len(calls)
  PROVE  Fees(calls) = FeesOf(calls, Len(calls))
<1>1. Fees(calls) = FeeFold!Folded(0, 0, calls)
  BY DEF Fees, AddFee, FoldLeft, MapThenFoldSet, Max,
         FeeFold!Folded, FeeFold!FoldLeft, FeeFold!MapThenFoldSet, FeeFold!Max
<1>2. FeeFold!IsSequence(calls)
  BY DEF FeeFold!IsSequence
<1> QED
  BY <1>1, <1>2, FeeFold!FoldedIsPrefix DEF FeesOf

LEMMA CallsAreNumbers ==
  ASSUME NEW b \in Blocks
  PROVE  /\ Len(b.calls) \in Nat /\ DOMAIN b.calls = 1..Len(b.calls)
         /\ \A i \in DOMAIN b.calls :
              LET call == b.calls[i]
              IN  /\ DOMAIN call = {"txsender", "to", "txvalue", "txgas", "txexecgas", "args"}
                  /\ call.txsender \in Nat /\ call.txvalue \in Nat
                  /\ call.txgas \in Nat /\ call.txexecgas \in Nat
                  /\ Numbers(call.args) /\ Fee(call) \in Nat
<1>1. Len(b.calls) \in Nat /\ DOMAIN b.calls = 1..Len(b.calls)
  BY ContractsAssumption
<1>2. \A i \in DOMAIN b.calls : b.calls[i] \in Range(b.calls)
  BY DEF Range
<1>3. \A call \in Range(b.calls) :
        /\ DOMAIN call = {"txsender", "to", "txvalue", "txgas", "txexecgas", "args"}
        /\ \A field \in {"txsender", "txvalue", "txgas", "txexecgas"} : call[field] \in Nat
        /\ Numbers(call.args)
  BY ValuesAssumption DEF Numbers
<1>4. \A call \in Range(b.calls) : /\ call.txsender \in Nat /\ call.txvalue \in Nat
                                   /\ call.txgas \in Nat /\ call.txexecgas \in Nat
  BY <1>3
<1> QED
  BY <1>1, <1>2, <1>3, <1>4 DEF Fee

LEMMA FeesStep ==
  ASSUME NEW b \in Blocks, NEW i \in 0..Len(b.calls)
  PROVE  LET due == Fees(SubSeq(b.calls, 1, i))
         IN  /\ due \in Nat
             /\ i = 0 => due = 0
             /\ i = Len(b.calls) => due = Fees(b.calls)
             /\ i > 0 => due = Fees(SubSeq(b.calls, 1, i - 1)) + Fee(b.calls[i])
<1> DEFINE calls == b.calls
           S == {n \in Nat : n <= Len(calls) => FeesOf(calls, n) \in Nat}
<1>1. Len(calls) \in Nat /\ FeeFold!IsSequence(calls)
  BY CallsAreNumbers DEF FeeFold!IsSequence
<1>2. ASSUME NEW n \in 0..Len(calls)
      PROVE  Fees(SubSeq(calls, 1, n)) = FeesOf(calls, n)
  <2> DEFINE part == SubSeq(calls, 1, n)
  <2>1. Len(part) = n /\ DOMAIN part = 1..n /\ \A j \in 1..n : part[j] = calls[j]
    BY <1>1, ContractsAssumption
  <2> HIDE DEF part
  <2>2. FeeFold!IsSequence(part) /\ Fees(part) = FeesOf(part, n)
    BY <1>1, <2>1, FeesAreFolded DEF FeeFold!IsSequence
  <2>3. /\ n \in Nat /\ n <= Len(part) /\ n <= Len(calls)
        /\ FeeFold!IsSequence(part) /\ FeeFold!IsSequence(calls)
    BY <1>1, <2>1, <2>2
  <2> HIDE DEF calls
  <2>4. FeeFold!Prefix(0, 0, part, n) = FeeFold!Prefix(0, 0, calls, n)
    BY <2>1, <2>3, FeeFold!PrefixAgrees
  <2> QED
    BY <2>2, <2>4 DEF FeesOf, part
<1>3. FeesOf(calls, 0) = 0
  BY <1>1, FeeFold!PrefixBase DEF FeesOf
<1>4. ASSUME NEW n \in 1..Len(calls)
      PROVE  FeesOf(calls, n) = FeesOf(calls, n - 1) + Fee(calls[n]) /\ Fee(calls[n]) \in Nat
  BY <1>1, CallsAreNumbers, FeeFold!PrefixStep DEF FeesOf, AddFee
<1>5. 0 \in S
  BY <1>3
<1>6. ASSUME NEW n \in Nat, n \in S
      PROVE  n + 1 \in S
  <2> SUFFICES ASSUME n + 1 <= Len(calls) PROVE FeesOf(calls, n + 1) \in Nat
    OBVIOUS
  <2>1. n + 1 \in 1..Len(calls) /\ (n + 1) - 1 = n /\ FeesOf(calls, n) \in Nat
    BY <1>1, <1>6
  <2> QED
    BY <1>4, <2>1
<1>7. Nat \subseteq S
  <2> HIDE DEF S
  <2> QED
    BY <1>5, <1>6, FeeFold!Induction
<1>8. i \in S
  BY <1>7
<1>9. FeesOf(calls, i) \in Nat
  BY <1>1, <1>8
<1>10. Fees(calls) = FeesOf(calls, Len(calls))
  BY CallsAreNumbers, FeesAreFolded
<1> HIDE DEF calls, S
<1>11. i > 0 => i \in 1..Len(calls) /\ i - 1 \in 0..Len(calls)
  BY <1>1 DEF calls
<1>12. i \in 0..Len(calls)
  BY DEF calls
<1> QED
  BY <1>2, <1>3, <1>4, <1>9, <1>10, <1>11, <1>12 DEF calls

-----------------------------------------------------------------------------
(* The numbers of a node.                                                  *)

\* The working set is that of the block under way, and every value in it, in
\* the stores and in the run is a natural number.
Values ==
  /\ pc \in {"idle", "call", "load", "read", "run", "flush", "put"}
  /\ accepted \in 0..MaxBlocks /\ torn \in Seq({"stores", "accounts"})
  /\ pc # "idle" => accepted + Len(torn) < MaxBlocks
  /\ stale \subseteq Contract
  /\ pc # "idle" => index <= Len(block.calls) + 1
  /\ pc = "idle" => states = << >>
  /\ pc \in {"flush", "put"} =>
       /\ unwritten \subseteq DOMAIN states
       /\ \A a \in DOMAIN states \ unwritten : a \in DOMAIN balances /\ balances[a] = states[a]
  /\ Funds(balances) /\ Funds(states)
  /\ DOMAIN store \subseteq Contract /\ DOMAIN storage \subseteq Contract
  /\ \A c \in DOMAIN store : Numbers(store[c])
  /\ \A c \in DOMAIN storage : Numbers(storage[c])
  /\ \A i \in DOMAIN left : left[i] \in DOMAIN storage
  /\ pc \in {"load", "read"} => Call.to \in DOMAIN states
  /\ pc = "read" => Call.to \in DOMAIN store
  /\ pc = "run" => RunOK(run, Call.to)

\* The accounts of the block are being written: it is not dropped any more
\* without a trace.
AllPut == pc = "flush" /\ left = << >>

\* What is stored is what the accepted blocks have made, also while the next
\* one is under way and may be dropped.
Sums ==
  "accounts" \notin Range(torn) =>
  /\ ~AllPut => Money(balances) = Money(InitialBalance) + accepted * BLOCK_REWARD
  /\ Money(InForce) + FeesDue = Money(InitialBalance) + Rewarded * BLOCK_REWARD

NodeInv == Place /\ StoreClosedBehind /\ Values /\ Sums

Due(i) == Fees(SubSeq(block.calls, 1, i))

LEMMA InForceFunds ==
  ASSUME Values
  PROVE  Funds(InForce) /\ Money(InForce) \in Nat /\ Funds(Balances) /\ Money(Balances) \in Nat
<1>1. pc = "run" => Funds(run.state)
  BY DEF Values, RunOK
<1> QED
  BY <1>1, OverFunds DEF Values, InForce, Balances

\* A reward more.
LEMMA OneMore ==
  /\ BLOCK_REWARD \in Nat /\ Money(InitialBalance) \in Nat
  /\ \A n \in Nat : n * BLOCK_REWARD \in Nat /\ (n + 1) * BLOCK_REWARD = n * BLOCK_REWARD + BLOCK_REWARD
<1>1. Money(InitialBalance) \in Nat
  BY ValuesAssumption, SumType, MoneyIsSum
<1> QED
  BY <1>1, ContractsAssumption

LEMMA InitKeeps == Init => Values /\ Sums
<1> SUFFICES ASSUME Init PROVE Values /\ Sums
  OBVIOUS
<1>1. /\ balances = InitialBalance /\ store = << >> /\ accepted = 0 /\ pc = "idle"
      /\ states = << >> /\ storage = << >> /\ left = << >> /\ torn = << >> /\ stale = {}
  BY DEF Init
<1>2. Funds(InitialBalance) /\ Funds(<< >>) /\ Over(<< >>, InitialBalance) = InitialBalance
  BY ValuesAssumption, NoFunds DEF Funds
<1>3. DOMAIN << >> = {}
  OBVIOUS
<1>4. Values
  BY <1>1, <1>2, <1>3, ContractsAssumption DEF Values
<1>5. InForce = InitialBalance /\ FeesDue = 0 /\ Rewarded = 0
  BY <1>1, <1>2 DEF InForce, Balances, FeesDue, Rewarded
<1>6. 0 * BLOCK_REWARD = 0
  BY ContractsAssumption
<1> QED
  BY <1>1, <1>4, <1>5, <1>6, OneMore DEF Sums

\* A block that leaves before its accounts are written leaves the balances
\* that were stored.
LEMMA LeaveKeeps ==
  ASSUME NodeInv, Leave, UNCHANGED <<balances, accepted, store>>, pc # "idle", ~AllPut,
         torn' \in {torn, Append(torn, "stores")}, stale' \subseteq Contract
  PROVE  Values' /\ Sums'
<1>1. /\ pc' = "idle" /\ states' = << >> /\ storage' = << >> /\ left' = << >>
      /\ balances' = balances /\ accepted' = accepted /\ store' = store
  BY DEF Leave
<1>2. Funds(<< >>) /\ Over(<< >>, balances) = balances /\ DOMAIN << >> = {}
  BY NoFunds DEF NodeInv, Values
<1>3. torn \in Seq({"stores", "accounts"})
  BY DEF NodeInv, Values
<1>4. /\ torn' \in Seq({"stores", "accounts"})
      /\ "accounts" \notin Range(torn') => "accounts" \notin Range(torn)
  <2>1. Append(torn, "stores") \in Seq({"stores", "accounts"})
    BY <1>3
  <2>2. \A i \in DOMAIN torn : /\ i \in DOMAIN Append(torn, "stores")
                               /\ Append(torn, "stores")[i] = torn[i]
    BY <1>3
  <2> QED
    BY <1>3, <2>1, <2>2 DEF Range
<1>5. Values'
  BY <1>1, <1>2, <1>4 DEF NodeInv, Values
<1>6. InForce' = balances /\ FeesDue' = 0 /\ Rewarded' = accepted
  BY <1>1, <1>2 DEF InForce, Balances, FeesDue, Rewarded
<1>7. SUFFICES ASSUME "accounts" \notin Range(torn')
               PROVE  /\ Money(balances') = Money(InitialBalance) + accepted' * BLOCK_REWARD
                      /\ Money(InForce') + FeesDue' = Money(InitialBalance) + Rewarded' * BLOCK_REWARD
  BY <1>5 DEF Sums
<1>8. Money(balances) = Money(InitialBalance) + accepted * BLOCK_REWARD /\ accepted \in Nat
  BY <1>4, <1>7 DEF NodeInv, Sums, Values
<1>9. Money(InForce') + FeesDue' = Money(InitialBalance) + Rewarded' * BLOCK_REWARD
  BY <1>6, <1>8, OneMore
<1> QED
  BY <1>1, <1>8, <1>9

LEMMA DropKeeps ==
  ASSUME NodeInv, Drop, UNCHANGED store, pc # "idle", ~AllPut
  PROVE  Values' /\ Sums'
<1>1. Leave /\ UNCHANGED <<balances, accepted, torn, stale>>
  BY DEF Drop, chain
<1>2. stale \subseteq Contract
  BY DEF NodeInv, Values
<1> QED
  BY <1>1, <1>2, LeaveKeeps

\* A step that keeps the stored balances, the balances in force and the fees.
LEMMA SumsFrame ==
  ASSUME Sums, UNCHANGED <<balances, accepted, torn>>, AllPut => AllPut',
         InForce' = InForce, FeesDue' = FeesDue, Rewarded' = Rewarded
  PROVE  Sums'
BY DEF Sums

\* The sender pays the amount and the fee; the recipient gets the amount.
LEMMA MovedPays ==
  ASSUME Funds(balances), Funds(states), NEW call,
         call.txvalue \in Nat, Fee(call) \in Nat,
         Cached(call.txsender) >= call.txvalue + Fee(call)
  PROVE  /\ Funds(Moved(call)) /\ call.to \in DOMAIN Moved(call)
         /\ Money(Over(Moved(call), balances)) = Money(Balances) - Fee(call)
<1> DEFINE s == call.txsender
           d == call.to
           v == call.txvalue
           fee == Fee(call)
           debit == Cached(s) - v - fee
           debited == Put(states, s, debit)
           mid == Put(Balances, s, debit)
           credit == (IF d = s THEN debited[d] ELSE Cached(d)) + v
<1>1. \A a : Cached(a) = At(Balances, a) /\ Cached(a) \in Nat
  BY OverAt DEF Cached, Balances, Funds, At
<1>2. Cached(s) >= v + fee /\ v \in Nat /\ fee \in Nat
  OBVIOUS
<1>3. Moved(call) = Put(debited, d, credit)
  BY DEF Moved
<1>4. Over(debited, balances) = mid
  BY OverPut DEF Balances
<1>5. Funds(Balances) /\ Money(Balances) \in Nat
  BY OverFunds DEF Balances
<1> HIDE DEF s, d, v, fee
<1>6. debit \in Nat /\ debit = Cached(s) - v - fee
  BY <1>1, <1>2
<1>7. Funds(debited) /\ Funds(mid) /\ Money(mid) \in Nat
      /\ Money(mid) = Money(Balances) - Cached(s) + debit
  <2> HIDE DEF debit
  <2>1. Funds(Put(states, s, debit))
    BY <1>6, PutFunds
  <2>2. Funds(mid) /\ Money(mid) = Money(Balances) - At(Balances, s) + debit
    BY <1>5, <1>6, PutFunds
  <2>3. Money(mid) \in Nat
    BY <2>2, SumType, MoneyIsSum DEF Funds
  <2> QED
    BY <1>1, <2>1, <2>2, <2>3
<1>8. credit = At(mid, d) + v /\ At(mid, d) \in Nat
  <2> HIDE DEF debit
  <2>1. At(mid, d) = IF d = s THEN debit ELSE At(Balances, d)
    BY DEF At, Put
  <2>2. d = s => debited[d] = debit
    BY DEF Put
  <2> QED
    BY <1>1, <1>6, <2>1, <2>2
<1> HIDE DEF debit, debited, mid, credit
<1>9. credit \in Nat
  BY <1>2, <1>8
<1>10. Funds(Put(debited, d, credit)) /\ d \in DOMAIN Put(debited, d, credit)
  <2>1. Funds(Put(debited, d, credit))
    BY <1>7, <1>9, PutFunds
  <2>2. d \in DOMAIN Put(debited, d, credit)
    BY DEF Put
  <2> QED
    BY <2>1, <2>2
<1>11. Over(Put(debited, d, credit), balances) = Put(mid, d, credit)
  BY <1>4, OverPut
<1>12. Money(Put(mid, d, credit)) = Money(mid) - At(mid, d) + credit
  BY <1>7, <1>9, PutFunds
<1>13. Money(Put(mid, d, credit)) = Money(Balances) - fee
  BY <1>1, <1>2, <1>5, <1>6, <1>7, <1>8, <1>9, <1>12
<1> QED
  BY <1>3, <1>10, <1>11, <1>13 DEF d, fee

\* What a call of the block under way is.
LEMMA CallUnderWay ==
  ASSUME NodeInv, pc # "idle", index <= Len(block.calls)
  PROVE  /\ block \in Blocks /\ index \in 1..Len(block.calls) /\ index \in Nat
         /\ index \in DOMAIN block.calls
         /\ (index + 1) - 1 = index /\ index + 1 <= Len(block.calls) + 1
         /\ DOMAIN Call = {"txsender", "to", "txvalue", "txgas", "txexecgas", "args"}
         /\ Call.txsender \in Nat /\ Call.txvalue \in Nat
         /\ Call.txgas \in Nat /\ Call.txexecgas \in Nat
         /\ Numbers(Call.args) /\ Fee(Call) \in Nat
         /\ block.timestamp \in Nat /\ block.difficulty \in Nat
         /\ Due(index) = Due(index - 1) + Fee(Call) /\ Due(index - 1) \in Nat
<1>1. block \in Blocks /\ index \in Nat \ {0}
  BY DEF NodeInv, Place
<1>2. Len(block.calls) \in Nat /\ DOMAIN block.calls = 1..Len(block.calls)
  BY <1>1, CallsAreNumbers
<1>3. /\ index \in 1..Len(block.calls) /\ index - 1 \in 0..Len(block.calls)
      /\ index \in 0..Len(block.calls) /\ index > 0
      /\ (index + 1) - 1 = index /\ index + 1 <= Len(block.calls) + 1
  BY <1>1, <1>2
<1>4. Due(index) = Due(index - 1) + Fee(Call)
  BY <1>1, <1>3, FeesStep DEF Due, Call
<1>5. Due(index - 1) \in Nat
  BY <1>1, <1>3, FeesStep DEF Due
<1>6. block.timestamp \in Nat /\ block.difficulty \in Nat
  BY <1>1, ValuesAssumption
<1>7. /\ DOMAIN Call = {"txsender", "to", "txvalue", "txgas", "txexecgas", "args"}
      /\ Call.txsender \in Nat /\ Call.txvalue \in Nat
      /\ Call.txgas \in Nat /\ Call.txexecgas \in Nat
      /\ Numbers(Call.args) /\ Fee(Call) \in Nat
  BY <1>1, <1>2, <1>3, CallsAreNumbers DEF Call
<1> QED
  BY <1>1, <1>2, <1>3, <1>4, <1>5, <1>6, <1>7

LEMMA BeginKeeps ==
  ASSUME NodeInv, NEW b \in Blocks, Begin(b)
  PROVE  Values' /\ Sums'
<1>1. /\ pc = "idle" /\ accepted + Len(torn) < MaxBlocks
      /\ pc' = "call" /\ block' = b /\ index' = 1
      /\ balances' = balances /\ accepted' = accepted /\ store' = store
      /\ torn' = torn /\ stale' = stale
      /\ states' = states /\ storage' = storage /\ left' = left
  BY DEF Begin, chain
<1>2. Len(b.calls) \in Nat
  BY CallsAreNumbers
<1>3. Values'
  BY <1>1, <1>2 DEF NodeInv, Values
<1>4. FeesDue' = 0
  <2>1. 0 \in 0..Len(b.calls) /\ 1 - 1 = 0
    BY <1>2
  <2>2. Fees(SubSeq(b.calls, 1, 0)) = 0
    BY <2>1, FeesStep
  <2> QED
    BY <1>1, <2>1, <2>2 DEF FeesDue
<1>5. FeesDue = 0 /\ InForce' = InForce /\ Rewarded' = Rewarded
  BY <1>1 DEF FeesDue, InForce, Balances, Rewarded
<1> QED
  BY <1>1, <1>3, <1>4, <1>5, SumsFrame DEF NodeInv, AllPut

LEMMA TransferKeeps ==
  ASSUME NodeInv, Transfer
  PROVE  Values' /\ Sums'
<1>1. CASE Drop
  BY <1>1, DropKeeps DEF Transfer, AllPut
<1>2. CASE ~Drop
  <2>1. /\ pc = "call" /\ index <= Len(block.calls)
        /\ ~(Cached(Call.txsender) < Call.txvalue + Fee(Call))
        /\ states' = Moved(Call)
        /\ \/ Call.to \in Contract /\ pc' = "load" /\ index' = index
           \/ pc' = "call" /\ index' = index + 1
        /\ balances' = balances /\ accepted' = accepted /\ store' = store /\ block' = block
        /\ torn' = torn /\ stale' = stale /\ run' = run /\ storage' = storage /\ left' = left
    BY <1>2 DEF Transfer, chain
  <2>2. /\ index \in Nat /\ (index + 1) - 1 = index /\ index + 1 <= Len(block.calls) + 1
        /\ Call.txvalue \in Nat /\ Fee(Call) \in Nat
        /\ Due(index) = Due(index - 1) + Fee(Call) /\ Due(index - 1) \in Nat
    BY <2>1, CallUnderWay
  <2>3. Funds(balances) /\ Funds(states) /\ Money(Balances) \in Nat
    BY InForceFunds DEF NodeInv, Values
  <2>4. Cached(Call.txsender) >= Call.txvalue + Fee(Call)
    <3>1. Cached(Call.txsender) \in Nat
      BY <2>3 DEF Cached, Funds, At
    <3> QED
      BY <2>1, <2>2, <3>1
  <2>5. /\ Funds(Moved(Call)) /\ Call.to \in DOMAIN Moved(Call)
        /\ Money(Over(Moved(Call), balances)) = Money(Balances) - Fee(Call)
    BY <2>2, <2>3, <2>4, MovedPays
  <2>6. Values'
    <3>1. pc' = "load" => Call' = Call
      BY <2>1 DEF Call
    <3> QED
      BY <2>1, <2>2, <2>5, <3>1 DEF NodeInv, Values
  <2>7. InForce = Balances /\ FeesDue = Due(index - 1) /\ Rewarded = accepted
    BY <2>1 DEF InForce, FeesDue, Rewarded, Due
  <2>8. InForce' = Over(Moved(Call), balances) /\ FeesDue' = Due(index) /\ Rewarded' = accepted
    BY <2>1, <2>2 DEF InForce, Balances, FeesDue, Rewarded, Due
  <2>9. Money(InForce') + FeesDue' = Money(InForce) + FeesDue
    BY <2>2, <2>3, <2>5, <2>7, <2>8
  <2> QED
    BY <2>1, <2>6, <2>7, <2>8, <2>9 DEF NodeInv, Sums, AllPut
<1> QED
  BY <1>1, <1>2

\* A run starts with the balances of the block.
LEMMA StartedOK ==
  ASSUME NodeInv, pc \in {"load", "read"}, NEW loaded, Numbers(loaded)
  PROVE  RunOK(Started(Call.to, loaded), Call.to) /\ Started(Call.to, loaded).state = states
<1> DEFINE started == Started(Call.to, loaded)
           header == [timestamp |-> block.timestamp, difficulty |-> block.difficulty,
                      blocknumber |-> accepted + 1]
<1>1. index <= Len(block.calls)
  <2>1. block \in Blocks /\ index \in DOMAIN block.calls
    BY DEF NodeInv, Place, InCall
  <2> QED
    BY <2>1, CallsAreNumbers
<1>2. /\ DOMAIN Call = {"txsender", "to", "txvalue", "txgas", "txexecgas", "args"}
      /\ Call.txsender \in Nat /\ Call.txvalue \in Nat
      /\ Call.txgas \in Nat /\ Call.txexecgas \in Nat /\ Numbers(Call.args)
      /\ block.timestamp \in Nat /\ block.difficulty \in Nat
  BY <1>1, CallUnderWay
<1>3. accepted + 1 \in Nat /\ Funds(states) /\ Call.to \in DOMAIN states
  BY DEF NodeInv, Values
<1>4. \A fact \in Facts : Over(Call, header)[fact] \in Nat
  BY <1>2, <1>3 DEF Facts, Over
<1>5. Numbers(<< >>)
  BY DEF Numbers
<1> HIDE DEF header
<1>6. started = [ptr |-> 1, gas |-> Call.txexecgas, memory |-> << >>, args |-> Call.args,
                 state |-> states, storage |-> loaded, address |-> Call.to,
                 info |-> Over(Call, header)]
  BY DEF Started, header
<1> HIDE DEF started
<1>7. RunOK(started, Call.to) /\ started.state = states
  BY <1>2, <1>3, <1>4, <1>5, <1>6 DEF RunOK
<1> QED
  BY <1>7 DEF started

LEMMA OpenKeeps ==
  ASSUME Values, NEW c \in Contract, OpenStore(c)
  PROVE  /\ DOMAIN store' \subseteq Contract /\ c \in DOMAIN store'
         /\ \A d \in DOMAIN store' : Numbers(store'[d])
<1>1. Numbers(<< >>)
  BY DEF Numbers
<1> QED
  BY <1>1 DEF OpenStore, Values, Put

LEMMA LoadKeeps ==
  ASSUME NodeInv, Load
  PROVE  Values' /\ Sums'
<1>1. pc = "load" /\ Call.to \in Contract
  BY DEF NodeInv, Place, InCall, Load
<1>2. CASE Drop /\ UNCHANGED store
  BY <1>1, <1>2, DropKeeps DEF AllPut
<1>3. CASE OpenStore(Call.to) /\ pc' = "read" /\ UNCHANGED <<chain, work, run, storage, left>>
  <2>1. /\ block' = block /\ index' = index /\ states' = states /\ balances' = balances
        /\ accepted' = accepted /\ torn' = torn /\ stale' = stale
        /\ unwritten' = unwritten /\ storage' = storage /\ left' = left /\ Call' = Call
    BY <1>3 DEF chain, work, Call
  <2>2. /\ DOMAIN store' \subseteq Contract /\ Call.to \in DOMAIN store'
        /\ \A d \in DOMAIN store' : Numbers(store'[d])
    BY <1>1, <1>3, OpenKeeps DEF NodeInv
  <2>3. Values'
    BY <1>1, <1>3, <2>1, <2>2 DEF NodeInv, Values
  <2>4. InForce' = InForce /\ FeesDue' = FeesDue /\ Rewarded' = Rewarded
    BY <1>1, <1>3, <2>1 DEF InForce, Balances, FeesDue, Rewarded
  <2> QED
    BY <1>1, <1>3, <2>1, <2>3, <2>4, SumsFrame DEF NodeInv, AllPut
<1>4. CASE /\ pc' = "run" /\ run' = Started(Call.to, << >>)
           /\ UNCHANGED <<chain, store, lock, work, storage, left>>
  <2>1. /\ block' = block /\ index' = index /\ states' = states /\ balances' = balances
        /\ accepted' = accepted /\ torn' = torn /\ stale' = stale
        /\ unwritten' = unwritten /\ storage' = storage /\ left' = left /\ store' = store
        /\ Call' = Call
    BY <1>4 DEF chain, work, Call
  <2>2. RunOK(run', Call.to) /\ run'.state = states
    BY <1>1, <1>4, StartedOK DEF Numbers
  <2>3. Values'
    BY <1>1, <1>4, <2>1, <2>2 DEF NodeInv, Values
  <2>4. InForce' = InForce /\ FeesDue' = FeesDue /\ Rewarded' = Rewarded
    BY <1>1, <1>4, <2>1, <2>2 DEF InForce, Balances, FeesDue, Rewarded
  <2> QED
    BY <1>1, <1>4, <2>1, <2>3, <2>4, SumsFrame DEF NodeInv, AllPut
<1> QED
  BY <1>2, <1>3, <1>4 DEF Load

LEMMA ReadStoreKeeps ==
  ASSUME NodeInv, ReadStore
  PROVE  Values' /\ Sums'
<1>1. pc = "read" /\ pc' = "run" /\ run' = Started(Call.to, store[Call.to])
  BY DEF ReadStore
<1>2. /\ block' = block /\ index' = index /\ states' = states /\ balances' = balances
      /\ accepted' = accepted /\ torn' = torn /\ stale' = stale
      /\ unwritten' = unwritten /\ storage' = storage /\ left' = left /\ store' = store
      /\ Call' = Call
  BY DEF ReadStore, chain, work, Call
<1>3. RunOK(run', Call.to) /\ run'.state = states
  <2>1. Numbers(store[Call.to])
    BY <1>1 DEF NodeInv, Values
  <2> QED
    BY <1>1, <2>1, StartedOK
<1>4. Values'
  BY <1>1, <1>2, <1>3 DEF NodeInv, Values
<1>5. InForce' = InForce /\ FeesDue' = FeesDue /\ Rewarded' = Rewarded
  BY <1>1, <1>2, <1>3 DEF InForce, Balances, FeesDue, Rewarded
<1> QED
  BY <1>1, <1>2, <1>4, <1>5, SumsFrame DEF NodeInv, AllPut

LEMMA InstructionKeeps ==
  ASSUME NodeInv, Instruction
  PROVE  Values' /\ Sums'
<1>1. /\ pc = "run" /\ pc' = "run" /\ Verdict(Program[run.address], run) = "continues"
      /\ run' = Paid(run, Execute(Program[run.address], balances, run))
  BY DEF Instruction
<1>2. /\ block' = block /\ index' = index /\ states' = states /\ balances' = balances
      /\ accepted' = accepted /\ torn' = torn /\ stale' = stale
      /\ unwritten' = unwritten /\ storage' = storage /\ left' = left /\ store' = store
      /\ Call' = Call
  BY DEF Instruction, chain, work, Call
<1>3. /\ Call.to \in Contract /\ run.address = Call.to /\ RunOK(run, Call.to)
      /\ Funds(balances)
  BY <1>1 DEF NodeInv, Place, Values, InCall
<1>4. RunOK(run', Call.to) /\ Money(Over(run'.state, balances)) = Money(Over(run.state, balances))
  BY <1>1, <1>3, ExecutePays
<1>5. Values'
  BY <1>1, <1>2, <1>4 DEF NodeInv, Values
<1>6. Money(InForce') = Money(InForce)
  BY <1>1, <1>2, <1>4 DEF InForce
<1>7. FeesDue' = FeesDue /\ Rewarded' = Rewarded
  BY <1>1, <1>2 DEF FeesDue, Rewarded
<1> QED
  BY <1>1, <1>2, <1>5, <1>6, <1>7 DEF NodeInv, Sums, AllPut

LEMMA ReturnKeeps ==
  ASSUME NodeInv, Return
  PROVE  Values' /\ Sums'
<1>1. /\ pc = "run" /\ pc' = "call" /\ states' = run.state /\ index' = index + 1
      /\ storage' = Put(storage, run.address, run.storage)
      /\ left' = IF run.address \in DOMAIN storage THEN left ELSE Append(left, run.address)
      /\ block' = block /\ balances' = balances /\ accepted' = accepted /\ store' = store
      /\ torn' = torn /\ stale' = stale
  BY DEF Return, chain
<1>2. /\ Call.to \in Contract /\ run.address = Call.to /\ RunOK(run, Call.to)
      /\ block \in Blocks /\ index \in DOMAIN block.calls /\ left \in Seq(Contract)
  BY <1>1 DEF NodeInv, Place, Values, InCall
<1>3. /\ (index + 1) - 1 = index /\ index + 1 <= Len(block.calls) + 1
  <2>1. index <= Len(block.calls)
    BY <1>2, CallsAreNumbers
  <2> QED
    BY <1>1, <2>1, CallUnderWay
<1>4. Funds(run.state) /\ Numbers(run.storage)
  BY <1>2 DEF RunOK
<1>5. /\ DOMAIN storage' \subseteq Contract
      /\ \A c \in DOMAIN storage' : Numbers(storage'[c])
      /\ DOMAIN storage' = DOMAIN storage \cup {run.address}
  BY <1>1, <1>2, <1>4 DEF NodeInv, Values, Put
<1>6. \A i \in DOMAIN left' : left'[i] \in DOMAIN storage'
  <2>1. \A i \in DOMAIN left : left[i] \in DOMAIN storage
    BY DEF NodeInv, Values
  <2>2. CASE left' = left
    BY <1>5, <2>1, <2>2
  <2>3. CASE left' = Append(left, run.address)
    BY <1>2, <1>5, <2>1, <2>3
  <2> QED
    BY <1>1, <2>2, <2>3
<1>7. Values'
  BY <1>1, <1>3, <1>4, <1>5, <1>6 DEF NodeInv, Values
<1>8. InForce' = InForce /\ FeesDue' = FeesDue /\ Rewarded' = Rewarded
  BY <1>1, <1>3 DEF InForce, Balances, FeesDue, Rewarded
<1> QED
  BY <1>1, <1>7, <1>8, SumsFrame DEF NodeInv, AllPut

\* The coinbase gets the reward and the fees of all the calls.
LEMMA PayCoinbaseKeeps ==
  ASSUME NodeInv, PayCoinbase
  PROVE  Values' /\ Sums'
<1> DEFINE a == block.coinbase
           fees == Fees(block.calls)
           v == Cached(a) + BLOCK_REWARD + fees
<1>1. /\ pc = "call" /\ pc' = "flush" /\ index > Len(block.calls)
      /\ states' = Put(states, a, v) /\ unwritten' = DOMAIN states'
      /\ torn' = torn /\ stale' = stale
      /\ block' = block /\ index' = index /\ balances' = balances /\ accepted' = accepted
      /\ store' = store /\ storage' = storage /\ left' = left
  BY DEF PayCoinbase, chain
<1>2. block \in Blocks /\ index \in Nat /\ index <= Len(block.calls) + 1
  BY <1>1 DEF NodeInv, Place, Values
<1>3. Due(index - 1) = fees /\ fees \in Nat
  <2>1. index - 1 = Len(block.calls) /\ Len(block.calls) \in 0..Len(block.calls)
    BY <1>1, <1>2, CallsAreNumbers
  <2>2. Due(Len(block.calls)) = fees /\ Due(Len(block.calls)) \in Nat
    BY <1>2, <2>1, FeesStep DEF Due
  <2> HIDE DEF fees
  <2> QED
    BY <2>1, <2>2
<1>4. Funds(Balances) /\ Money(Balances) \in Nat /\ Funds(states) /\ accepted \in Nat
  BY InForceFunds DEF NodeInv, Values
<1>5. Cached(a) = At(Balances, a) /\ Cached(a) \in Nat
  BY <1>4, OverAt DEF Cached, Balances, Funds, At
<1> HIDE DEF fees, a
<1>6. v \in Nat /\ v = Cached(a) + BLOCK_REWARD + fees
  BY <1>3, <1>5, OneMore
<1> HIDE DEF v
<1>7. /\ Funds(Put(states, a, v))
      /\ Money(Put(Balances, a, v)) = Money(Balances) - At(Balances, a) + v
  BY <1>4, <1>6, PutFunds
<1>8. Values'
  BY <1>1, <1>7 DEF NodeInv, Values
<1>9. InForce' = Put(Balances, a, v) /\ FeesDue' = 0 /\ Rewarded' = accepted + 1
  BY <1>1, OverPut DEF InForce, Balances, FeesDue, Rewarded
<1>10. InForce = Balances /\ FeesDue = fees /\ Rewarded = accepted
  BY <1>1, <1>3 DEF InForce, FeesDue, Rewarded, Due
<1>11. Money(InForce') + FeesDue' = Money(InForce) + FeesDue + BLOCK_REWARD
  BY <1>3, <1>4, <1>5, <1>6, <1>7, <1>9, <1>10, OneMore
<1>12. (accepted + 1) * BLOCK_REWARD = accepted * BLOCK_REWARD + BLOCK_REWARD /\ accepted * BLOCK_REWARD \in Nat
  BY <1>4, OneMore
<1>13. SUFFICES ASSUME "accounts" \notin Range(torn)
                PROVE  /\ Money(balances) = Money(InitialBalance) + accepted * BLOCK_REWARD
                       /\ Money(InForce') + FeesDue'
                            = Money(InitialBalance) + Rewarded' * BLOCK_REWARD
  BY <1>1, <1>8 DEF Sums
<1>14. Money(InForce) + FeesDue = Money(InitialBalance) + accepted * BLOCK_REWARD
  BY <1>10, <1>13 DEF NodeInv, Sums
<1>15. Money(InForce') + FeesDue' = Money(InitialBalance) + Rewarded' * BLOCK_REWARD
  BY <1>9, <1>11, <1>12, <1>14, OneMore
<1>16. Money(balances) = Money(InitialBalance) + accepted * BLOCK_REWARD
  BY <1>1, <1>13 DEF NodeInv, Sums, AllPut
<1> QED
  BY <1>15, <1>16

LEMMA FlushKeeps ==
  ASSUME NodeInv, Flush
  PROVE  Values' /\ Sums'
<1>1. pc = "flush" /\ left # << >> /\ left \in Seq(Contract) /\ Head(left) \in Contract
  BY DEF NodeInv, Place, Flush
<1>2. CASE Drop /\ UNCHANGED store
  BY <1>1, <1>2, DropKeeps DEF AllPut
<1>3. CASE OpenStore(Head(left)) /\ pc' = "put" /\ UNCHANGED <<chain, work, run, storage, left>>
  <2>1. /\ block' = block /\ index' = index /\ states' = states /\ balances' = balances
        /\ accepted' = accepted /\ torn' = torn /\ stale' = stale
        /\ unwritten' = unwritten /\ storage' = storage /\ left' = left
    BY <1>3 DEF chain, work
  <2>2. /\ DOMAIN store' \subseteq Contract
        /\ \A d \in DOMAIN store' : Numbers(store'[d])
    BY <1>1, <1>3, OpenKeeps DEF NodeInv
  <2>3. Values'
    BY <1>1, <1>3, <2>1, <2>2 DEF NodeInv, Values
  <2>4. InForce' = InForce /\ FeesDue' = FeesDue /\ Rewarded' = Rewarded
    BY <1>1, <1>3, <2>1 DEF InForce, Balances, FeesDue, Rewarded
  <2> QED
    BY <1>1, <1>3, <2>1, <2>3, <2>4, SumsFrame DEF NodeInv, AllPut
<1>4. CASE left' = Tail(left) /\ UNCHANGED <<chain, store, lock, pc, work, run, storage>>
  <2>1. /\ block' = block /\ index' = index /\ states' = states /\ balances' = balances
        /\ accepted' = accepted /\ torn' = torn /\ stale' = stale /\ unwritten' = unwritten
        /\ storage' = storage /\ store' = store /\ pc' = "flush"
    BY <1>1, <1>4 DEF chain, work
  <2>2. \A i \in DOMAIN left' : left'[i] \in DOMAIN storage
    BY <1>1, <1>4 DEF NodeInv, Values
  <2>3. Values'
    BY <1>1, <2>1, <2>2 DEF NodeInv, Values
  <2>4. InForce' = InForce /\ FeesDue' = FeesDue /\ Rewarded' = Rewarded
    BY <1>1, <2>1 DEF InForce, Balances, FeesDue, Rewarded
  <2> QED
    BY <1>1, <2>1, <2>3, <2>4, SumsFrame DEF NodeInv, AllPut
<1>5. CASE /\ Tear("stores", stale \cup PutSoFar) /\ UNCHANGED <<balances, root, store>>
  <2>1. Leave /\ accepted' = accepted /\ torn' = Append(torn, "stores")
        /\ stale' = stale \cup PutSoFar
    BY <1>5 DEF Tear
  <2>2. stale' \subseteq Contract
    BY <2>1 DEF PutSoFar, NodeInv, Values
  <2> QED
    BY <1>1, <1>5, <2>1, <2>2, LeaveKeeps DEF AllPut
<1> QED
  BY <1>2, <1>3, <1>4, <1>5 DEF Flush

LEMMA PutKeysKeeps ==
  ASSUME NodeInv, PutKeys
  PROVE  Values' /\ Sums'
<1> DEFINE c == Head(left)
<1>1. /\ pc = "put" /\ pc' = "flush" /\ left' = Tail(left)
      /\ store' = [store EXCEPT ![c] = Over(storage[c], @)]
      /\ block' = block /\ index' = index /\ states' = states /\ balances' = balances
      /\ accepted' = accepted /\ torn' = torn /\ stale' = stale
      /\ unwritten' = unwritten /\ storage' = storage
  BY DEF PutKeys, chain, work
<1>2. left # << >> /\ left \in Seq(Contract)
  BY <1>1 DEF NodeInv, Place
<1>3. \A i \in DOMAIN left' : left'[i] \in DOMAIN storage
  BY <1>1, <1>2 DEF NodeInv, Values
<1>4. c \in DOMAIN storage
  BY <1>2 DEF NodeInv, Values
<1>5. DOMAIN store' = DOMAIN store /\ \A d \in DOMAIN store : Numbers(store'[d])
  <2> HIDE DEF c
  <2>1. /\ \A d \in DOMAIN store : Numbers(store[d])
        /\ \A d \in DOMAIN storage : Numbers(storage[d])
    BY DEF NodeInv, Values
  <2>2. \A f, g : Numbers(f) /\ Numbers(g) => Numbers(Over(f, g))
    BY DEF Numbers, Over
  <2> QED
    BY <1>1, <1>4, <2>1, <2>2
<1>6. Values'
  BY <1>1, <1>3, <1>5 DEF NodeInv, Values
<1>7. InForce' = InForce /\ FeesDue' = FeesDue /\ Rewarded' = Rewarded
  BY <1>1 DEF InForce, Balances, FeesDue, Rewarded
<1> QED
  BY <1>1, <1>6, <1>7, SumsFrame DEF NodeInv, AllPut

\* An account that is written is one of those in force.
LEMMA WrittenInForce ==
  ASSUME NEW new, NEW old, NEW a \in DOMAIN new
  PROVE  Over(new, Put(old, a, new[a])) = Over(new, old)
BY DEF Over, Put

LEMMA AllInForce ==
  ASSUME NEW new, NEW old, NEW a,
         \A x \in DOMAIN new : x \in DOMAIN Put(old, a, new[a]) /\ Put(old, a, new[a])[x] = new[x]
  PROVE  Over(new, Put(old, a, new[a])) = Put(old, a, new[a])
BY DEF Over, Put

LEMMA PutAccountKeeps ==
  ASSUME NodeInv, PutAccount
  PROVE  Values' /\ Sums'
<1>1. PICK a \in unwritten :
        /\ balances' = Put(balances, a, states[a])
        /\ \/ /\ Unloaded(a)
              /\ Tear("accounts", (stale \ DOMAIN storage) \cup (DOMAIN storage \cap (unwritten \ {a})))
           \/ /\ ~Unloaded(a) /\ unwritten = {a}
              /\ accepted' = accepted + 1 /\ stale' = stale \ DOMAIN storage
              /\ Leave /\ UNCHANGED torn
           \/ /\ ~Unloaded(a) /\ unwritten # {a}
              /\ unwritten' = unwritten \ {a}
              /\ UNCHANGED <<accepted, torn, stale, pc, block, index, run, states, code, storage, left>>
  BY DEF PutAccount
<1>2. pc = "flush" /\ left = << >> /\ UNCHANGED <<store, lock>>
  BY DEF PutAccount
<1>3. /\ a \in DOMAIN states /\ states[a] \in Nat
      /\ Funds(balances) /\ Funds(states) /\ DOMAIN storage \subseteq Contract
      /\ accepted \in 0..MaxBlocks /\ accepted + Len(torn) < MaxBlocks
      /\ torn \in Seq({"stores", "accounts"}) /\ stale \subseteq Contract
      /\ \A x \in DOMAIN states \ unwritten : x \in DOMAIN balances /\ balances[x] = states[x]
  BY <1>1, <1>2 DEF NodeInv, Values, Funds
<1>4. Funds(balances') /\ Over(<< >>, balances') = balances' /\ Funds(<< >>) /\ DOMAIN << >> = {}
  BY <1>1, <1>3, PutFunds, NoFunds
<1>5. \A x \in DOMAIN states \ (unwritten \ {a}) :
        x \in DOMAIN balances' /\ balances'[x] = states[x]
  BY <1>1, <1>3 DEF Put
<1>6. Over(states, balances') = Balances
  BY <1>1, <1>3, WrittenInForce DEF Balances
<1>7. InForce = Balances /\ FeesDue = 0 /\ Rewarded = accepted + 1
  BY <1>2 DEF InForce, FeesDue, Rewarded
<1>8. CASE Tear("accounts", (stale \ DOMAIN storage) \cup (DOMAIN storage \cap (unwritten \ {a})))
  <2>1. /\ pc' = "idle" /\ states' = << >> /\ storage' = << >> /\ left' = << >>
        /\ accepted' = accepted /\ store' = store /\ torn' = Append(torn, "accounts")
        /\ stale' = (stale \ DOMAIN storage) \cup (DOMAIN storage \cap (unwritten \ {a}))
    BY <1>2, <1>8 DEF Tear, Leave
  <2>2. torn' \in Seq({"stores", "accounts"}) /\ "accounts" \in Range(torn')
    <3>1. Append(torn, "accounts")[Len(torn) + 1] = "accounts"
          /\ Len(torn) + 1 \in DOMAIN Append(torn, "accounts")
          /\ Append(torn, "accounts") \in Seq({"stores", "accounts"})
      BY <1>3
    <3> QED
      BY <2>1, <3>1 DEF Range
  <2>3. stale' \subseteq Contract
    BY <1>3, <2>1
  <2>4. Values'
    BY <1>3, <1>4, <2>1, <2>2, <2>3 DEF NodeInv, Values
  <2> QED
    BY <2>2, <2>4 DEF Sums
<1>9. CASE /\ unwritten = {a} /\ accepted' = accepted + 1 /\ stale' = stale \ DOMAIN storage
           /\ Leave /\ UNCHANGED torn
  <2>1. /\ pc' = "idle" /\ states' = << >> /\ storage' = << >> /\ left' = << >>
        /\ accepted' = accepted + 1 /\ store' = store /\ torn' = torn
        /\ stale' = stale \ DOMAIN storage
    BY <1>2, <1>9 DEF Leave
  <2>2. accepted + 1 \in 0..MaxBlocks
    <3>1. Len(torn) \in Nat
      BY <1>3
    <3> QED
      BY <1>3, <3>1, ContractsAssumption
  <2>3. Values'
    BY <1>3, <1>4, <2>1, <2>2 DEF NodeInv, Values
  <2>4. balances' = Balances
    <3>1. \A x \in DOMAIN states : x \in DOMAIN balances' /\ balances'[x] = states[x]
      BY <1>5, <1>9
    <3>2. Over(states, balances') = balances'
      BY <1>1, <3>1, AllInForce
    <3> QED
      BY <1>6, <3>2
  <2>5. InForce' = Balances /\ FeesDue' = 0 /\ Rewarded' = accepted + 1
    BY <1>4, <2>1, <2>4 DEF InForce, Balances, FeesDue, Rewarded
  <2>6. SUFFICES ASSUME "accounts" \notin Range(torn)
                 PROVE  /\ Money(balances') = Money(InitialBalance) + accepted' * BLOCK_REWARD
                        /\ Money(InForce') + FeesDue'
                             = Money(InitialBalance) + Rewarded' * BLOCK_REWARD
    BY <2>1, <2>3 DEF Sums
  <2>7. Money(Balances) + 0 = Money(InitialBalance) + (accepted + 1) * BLOCK_REWARD
    BY <1>7, <2>6 DEF NodeInv, Sums
  <2>8. Money(Balances) \in Nat
    BY InForceFunds DEF NodeInv
  <2>9. Money(Balances) = Money(InitialBalance) + (accepted + 1) * BLOCK_REWARD
    BY <2>7, <2>8
  <2> QED
    BY <2>1, <2>4, <2>5, <2>7, <2>9
<1>10. CASE /\ unwritten' = unwritten \ {a}
            /\ UNCHANGED <<accepted, torn, stale, pc, block, index, run, states, code, storage, left>>
  <2>1. Values'
    BY <1>2, <1>3, <1>4, <1>5, <1>10 DEF NodeInv, Values
  <2>2. InForce' = InForce /\ FeesDue' = FeesDue /\ Rewarded' = Rewarded
    BY <1>2, <1>6, <1>10 DEF InForce, Balances, FeesDue, Rewarded
  <2>3. AllPut'
    BY <1>2, <1>10 DEF AllPut
  <2> QED
    BY <1>10, <2>1, <2>2, <2>3 DEF NodeInv, Sums
<1> QED
  BY <1>1, <1>8, <1>9, <1>10

LEMMA RpcKeeps ==
  ASSUME NodeInv, NEW c \in Contract, Rpc(c)
  PROVE  Values' /\ Sums'
<1>1. UNCHANGED <<balances, accepted, torn, stale, store, pc, block, index, states, unwritten,
                   run, storage, left>>
  BY DEF Rpc, GetStorage, GetStorageKeys, Release, chain, work
<1> QED
  BY <1>1 DEF NodeInv, Values, Sums, InForce, Balances, FeesDue, Rewarded, Call, AllPut

LEMMA NextKeeps ==
  ASSUME NodeInv, [Next]_vars
  PROVE  NodeInv'
<1>1. Values' /\ Sums'
  <2>1. CASE UNCHANGED vars
    BY <2>1 DEF vars, chain, work, NodeInv, Values, Sums, InForce, Balances, FeesDue, Rewarded, Call,
            AllPut
  <2>2. CASE Throw
    BY <2>2, DropKeeps DEF Throw, AllPut
  <2> QED
    BY <2>1, <2>2, BeginKeeps, RpcKeeps, TransferKeeps, LoadKeeps, ReadStoreKeeps,
       InstructionKeeps, ReturnKeeps, PayCoinbaseKeeps, FlushKeeps, PutKeysKeeps,
       PutAccountKeeps DEF Next, Node
<1> QED
  BY <1>1, NextPlace DEF NodeInv

LEMMA Numbered == Spec => []NodeInv
<1>1. Init => NodeInv
  BY InitPlace, InitKeeps DEF NodeInv
<1>2. NodeInv /\ [Next]_vars => NodeInv'
  BY NextKeeps
<1> QED
  BY <1>1, <1>2, PTL DEF Spec

\* No balance is ever negative, also not in the middle of a run that pays, and
\* no working set has a contract the ledger does not know.
THEOREM BalancesAreNumbers == Spec => []TypeOK
<1>1. NodeInv => TypeOK
  BY InForceFunds DEF NodeInv, Place, Values, TypeOK, Funds
<1> QED
  BY <1>1, Numbered, PTL

\* At every instruction of every program, and between any two writes, the
\* balances and the fees due are what the initial balances and the rewards
\* make, until a block throws between its accounts.
THEOREM MoneyIsConserved == Spec => []Conserved
<1>1. NodeInv => Conserved
  <2> SUFFICES ASSUME NodeInv, "accounts" \notin Range(torn)
               PROVE  FoldFunction(+, 0, InForce) + FeesDue
                        = FoldFunction(+, 0, InitialBalance) + Rewarded * BLOCK_REWARD
    BY Zenon DEF Conserved
  <2>1. Money(InForce) + FeesDue = Money(InitialBalance) + Rewarded * BLOCK_REWARD
    BY DEF NodeInv, Sums
  <2> QED
    BY <2>1, Zenon DEF Money
<1> QED
  BY <1>1, Numbered, PTL

-----------------------------------------------------------------------------
(* What the calls of a block leave to its writes.                          *)

IsFunction(f) == f = [x \in DOMAIN f |-> f[x]]

\* Putting new over old gives new.
Covers(new, old) == IsFunction(new) /\ DOMAIN old \subseteq DOMAIN new

\* The store of c has been written with what the calls have left.
IsPut(c) == pc \in {"flush", "put"} /\ c \in DOMAIN storage /\ c \notin Range(left)

StoreOf(c) ==
  /\ IsFunction(store[c])
  /\ c \in DOMAIN storage => Covers(storage[c], store[c])
  /\ ~IsPut(c) /\ c \notin stale => store[c] = root[c]
  /\ IsPut(c) => store[c] = storage[c]
  /\ IsPut(c) /\ storage[c] = << >> /\ c \notin stale => root[c] = << >>
  /\ IsPut(c) /\ c \notin unwritten => root[c] = storage[c]

Stores ==
  /\ DOMAIN root = Contract /\ DOMAIN store \subseteq Contract
  /\ DOMAIN storage \subseteq DOMAIN store
  /\ \A c \in Contract \ DOMAIN store : root[c] = << >>
  /\ \A c \in DOMAIN store : StoreOf(c)

\* The contracts a block has called wait in left for their writes.
Queue ==
  /\ \A i, j \in DOMAIN left : left[i] = left[j] => i = j
  /\ Range(left) \subseteq DOMAIN storage
  /\ pc \notin {"flush", "put"} => DOMAIN storage \subseteq Range(left)
  /\ pc = "idle" => left = << >>
  /\ DOMAIN storage \subseteq DOMAIN states
  /\ pc \in {"flush", "put"} /\ ~AllPut => DOMAIN storage \subseteq unwritten

Calls ==
  /\ pc = "read" => Call.to \in DOMAIN store
  /\ pc = "run" => /\ run.address \in DOMAIN store
                   /\ Covers(run.storage, store[run.address])
                   /\ DOMAIN storage \subseteq DOMAIN run.state
  /\ pc \in InCall \cup {"call"} =>
       \A c \in DOMAIN storage : \E j \in DOMAIN block.calls : j < index /\ block.calls[j].to = c

StoresInv == NodeInv /\ Stores /\ Queue /\ Calls

LEMMA EmptyIsFunction == IsFunction(<< >>) /\ DOMAIN << >> = {} /\ Range(<< >>) = {}
  BY DEF IsFunction, Range

LEMMA OverCovered ==
  ASSUME NEW new, NEW old, Covers(new, old)
  PROVE  Over(new, old) = new
  BY DEF Covers, IsFunction, Over

LEMMA PutCovers ==
  ASSUME NEW f, NEW old, NEW k, NEW v, Covers(f, old)
  PROVE  Covers(Put(f, k, v), old)
  BY DEF Covers, IsFunction, Put

LEMMA EmptyCovers ==
  ASSUME NEW old, IsFunction(old), Covers(<< >>, old)
  PROVE  old = << >>
<1>1. DOMAIN old = {}
  BY EmptyIsFunction DEF Covers
<1> QED
  BY <1>1, EmptyIsFunction DEF IsFunction

LEMMA RangeOfAppend ==
  ASSUME NEW S, NEW s \in Seq(S), NEW e \in S
  PROVE  /\ Range(Append(s, e)) = Range(s) \cup {e}
         /\ (\A i, j \in DOMAIN s : s[i] = s[j] => i = j) /\ e \notin Range(s) =>
              \A i, j \in DOMAIN Append(s, e) : Append(s, e)[i] = Append(s, e)[j] => i = j
<1> DEFINE t == Append(s, e)
<1>1. /\ Len(s) \in Nat /\ DOMAIN s = 1..Len(s) /\ DOMAIN t = 1..(Len(s) + 1)
      /\ \A i \in DOMAIN s : t[i] = s[i]
      /\ t[Len(s) + 1] = e
  OBVIOUS
<1> HIDE DEF t
<1>2. DOMAIN t = DOMAIN s \cup {Len(s) + 1}
  BY <1>1
<1>3. Range(t) = Range(s) \cup {e}
  BY <1>1, <1>2 DEF Range
<1>4. ASSUME \A i, j \in DOMAIN s : s[i] = s[j] => i = j, e \notin Range(s)
      PROVE  \A i, j \in DOMAIN t : t[i] = t[j] => i = j
  <2>1. \A i \in DOMAIN s : t[i] # e
    BY <1>1, <1>4 DEF Range
  <2> QED
    BY <1>1, <1>2, <1>4, <2>1
<1> QED
  BY <1>3, <1>4 DEF t

LEMMA RangeOfTail ==
  ASSUME NEW S, NEW s \in Seq(S), s # << >>, \A i, j \in DOMAIN s : s[i] = s[j] => i = j
  PROVE  /\ Range(Tail(s)) = Range(s) \ {Head(s)} /\ Head(s) \in Range(s)
         /\ \A i, j \in DOMAIN Tail(s) : Tail(s)[i] = Tail(s)[j] => i = j
<1> DEFINE t == Tail(s)
<1>1. /\ Len(s) \in Nat \ {0} /\ DOMAIN s = 1..Len(s) /\ DOMAIN t = 1..(Len(s) - 1)
      /\ \A i \in DOMAIN t : t[i] = s[i + 1] /\ i + 1 \in DOMAIN s /\ i + 1 # 1
      /\ Head(s) = s[1] /\ 1 \in DOMAIN s
  OBVIOUS
<1> HIDE DEF t
<1>2. \A i \in DOMAIN s : i # 1 => i - 1 \in DOMAIN t /\ t[i - 1] = s[i]
  <2> SUFFICES ASSUME NEW i \in DOMAIN s, i # 1 PROVE i - 1 \in DOMAIN t /\ t[i - 1] = s[i]
    OBVIOUS
  <2>1. i - 1 \in 1..(Len(s) - 1) /\ (i - 1) + 1 = i
    BY <1>1
  <2> QED
    BY <1>1, <2>1
<1>3. Range(t) = Range(s) \ {Head(s)}
  <2>1. ASSUME NEW x \in Range(t) PROVE x \in Range(s) \ {Head(s)}
    <3>1. PICK i \in DOMAIN t : x = t[i]
      BY DEF Range
    <3>2. x = s[i + 1] /\ i + 1 \in DOMAIN s /\ i + 1 # 1
      BY <1>1, <3>1
    <3>3. x # s[1]
      BY <1>1, <3>2
    <3> QED
      BY <1>1, <3>2, <3>3 DEF Range
  <2>2. ASSUME NEW x \in Range(s) \ {Head(s)} PROVE x \in Range(t)
    <3>1. PICK i \in DOMAIN s : x = s[i]
      BY DEF Range
    <3>2. i # 1
      BY <1>1, <2>2, <3>1
    <3> QED
      BY <1>2, <3>1, <3>2 DEF Range
  <2> QED
    BY <2>1, <2>2
<1>4. \A i, j \in DOMAIN t : t[i] = t[j] => i = j
  <2> SUFFICES ASSUME NEW i \in DOMAIN t, NEW j \in DOMAIN t, t[i] = t[j] PROVE i = j
    OBVIOUS
  <2>1. i + 1 = j + 1
    BY <1>1
  <2> QED
    BY <1>1, <2>1
<1> QED
  BY <1>1, <1>3, <1>4 DEF Range, t

\* The contract that is being called has not been called before.
LEMMA NotBefore ==
  ASSUME OneCallEach, Place, Calls, pc \in InCall
  PROVE  Call.to \in Contract /\ Call.to \notin DOMAIN storage
<1>1. block \in Blocks /\ index \in DOMAIN block.calls /\ Call.to \in Contract /\ index \in Nat
  BY DEF Place, InCall
<1>2. ASSUME NEW j \in DOMAIN block.calls, j < index, block.calls[j].to = Call.to PROVE FALSE
  <2>1. j = index
    BY <1>1, <1>2 DEF OneCallEach, Call
  <2> QED
    BY <1>1, <1>2, <2>1
<1> QED
  BY <1>1, <1>2 DEF Calls

LEMMA InitStores == Init => Stores /\ Queue /\ Calls
  BY EmptyIsFunction DEF Init, Stores, Queue, Calls, InCall

\* A block that leaves has made stale the stores it has put something in.
LEMMA LeaveStores ==
  ASSUME Stores, Leave, UNCHANGED <<root, store>>,
         stale \subseteq stale',
         \A c \in DOMAIN store : IsPut(c) /\ storage[c] # << >> => c \in stale'
  PROVE  Stores' /\ Queue' /\ Calls'
<1>1. /\ pc' = "idle" /\ storage' = << >> /\ left' = << >> /\ states' = << >>
      /\ root' = root /\ store' = store
  BY DEF Leave
<1>2. Queue' /\ Calls'
  BY <1>1, EmptyIsFunction DEF Queue, Calls, InCall
<1>3. ASSUME NEW c \in DOMAIN store PROVE StoreOf(c)'
  <2>1. IsFunction(store[c]) /\ c \notin DOMAIN storage' /\ ~IsPut(c)'
    BY <1>1, EmptyIsFunction DEF Stores, StoreOf, IsPut
  <2>2. ASSUME c \notin stale' PROVE store[c] = root[c]
    BY <2>2 DEF Stores, StoreOf
  <2> QED
    BY <1>1, <2>1, <2>2 DEF StoreOf
<1> QED
  BY <1>1, <1>2, <1>3, EmptyIsFunction DEF Stores

LEMMA DropStores ==
  ASSUME Stores, Drop, UNCHANGED store, \A c \in DOMAIN store : IsPut(c) => storage[c] = << >>
  PROVE  Stores' /\ Queue' /\ Calls'
  BY LeaveStores DEF Drop, chain

\* A step that leaves the stores, the roots and what is put alone.
LEMMA SameStores ==
  ASSUME Stores, UNCHANGED <<root, store, storage, stale>>,
         \A c \in DOMAIN storage : IsPut(c)' <=> IsPut(c),
         \A c \in DOMAIN storage : IsPut(c) => (c \in unwritten <=> c \in unwritten')
  PROVE  Stores'
<1>1. ASSUME NEW c \in DOMAIN store PROVE StoreOf(c)'
  <2>1. IsPut(c)' <=> IsPut(c)
    BY DEF IsPut
  <2>2. IsPut(c) => (c \in unwritten <=> c \in unwritten')
    BY DEF IsPut
  <2> QED
    BY <1>1, <2>1, <2>2 DEF StoreOf, Stores
<1> QED
  BY <1>1 DEF Stores

LEMMA OpenStores ==
  ASSUME Stores, NEW c \in Contract, OpenStore(c),
         UNCHANGED <<root, storage, left, stale, unwritten>>,
         pc \in {"flush", "put"} <=> pc' \in {"flush", "put"}
  PROVE  Stores' /\ c \in DOMAIN store'
<1>1. \A d : IsPut(d)' <=> IsPut(d)
  BY DEF IsPut
<1>2. CASE c \in DOMAIN store
  BY <1>1, <1>2, SameStores DEF OpenStore
<1>3. CASE c \notin DOMAIN store
  <2>1. /\ DOMAIN store' = DOMAIN store \cup {c} /\ store'[c] = << >>
        /\ \A d \in DOMAIN store : store'[d] = store[d]
    BY <1>3 DEF OpenStore, Put
  <2>2. root[c] = << >> /\ c \notin DOMAIN storage
    BY <1>3 DEF Stores
  <2>3. StoreOf(c)'
    BY <2>1, <2>2, EmptyIsFunction DEF StoreOf, IsPut
  <2>4. ASSUME NEW d \in DOMAIN store PROVE StoreOf(d)'
    BY <1>1, <2>1 DEF StoreOf, Stores
  <2> QED
    BY <2>1, <2>3, <2>4 DEF Stores
<1> QED BY <1>2, <1>3

LEMMA TransferStores ==
  ASSUME StoresInv, Transfer
  PROVE  Stores' /\ Queue' /\ Calls'
<1>1. CASE Drop
  BY <1>1, DropStores DEF Transfer, StoresInv, IsPut
<1>2. CASE ~Drop
  <2>1. /\ UNCHANGED <<chain, store, block, storage, left, unwritten>> /\ pc = "call"
        /\ \/ pc' = "load" /\ index' = index
           \/ pc' = "call" /\ index' = index + 1
        /\ states' = Moved(Call)
    BY <1>2 DEF Transfer
  <2>2. block \in Blocks /\ index \in Nat /\ \A j \in DOMAIN block.calls : j \in Nat
    BY <2>1, CallsOfBlock DEF StoresInv, NodeInv, Place
  <2>3. Stores'
    BY <2>1, SameStores DEF StoresInv, IsPut, chain
  <2>4. DOMAIN states \subseteq DOMAIN states'
    BY <2>1 DEF Moved, Put
  <2>5. Queue'
    BY <2>1, <2>4 DEF StoresInv, Queue
  <2>6. Calls'
    BY <2>1, <2>2 DEF StoresInv, Calls, InCall
  <2> QED BY <2>3, <2>5, <2>6
<1> QED BY <1>1, <1>2

LEMMA LoadStores ==
  ASSUME OneCallEach, StoresInv, Load
  PROVE  Stores' /\ Queue' /\ Calls'
<1>1. Call.to \in Contract /\ pc = "load" /\ Call.to \notin DOMAIN storage
  BY NotBefore DEF Load, StoresInv, NodeInv, InCall
<1>2. OriginalStorage(Call.to) = << >>
  BY <1>1 DEF OriginalStorage
<1>3. CASE Drop /\ UNCHANGED store
  BY <1>1, <1>3, DropStores DEF IsPut, StoresInv
<1>4. CASE OpenStore(Call.to) /\ pc' = "read" /\ UNCHANGED <<chain, work, run, storage, left>>
  <2>1. Call' = Call /\ UNCHANGED <<root, storage, left, stale, unwritten, states, block, index>>
    BY <1>4 DEF work, Call, chain
  <2>2. Stores' /\ Call.to \in DOMAIN store'
    BY <1>1, <1>4, <2>1, OpenStores DEF StoresInv
  <2>3. Queue'
    BY <1>1, <1>4, <2>1 DEF StoresInv, Queue
  <2> QED
    BY <1>1, <1>4, <2>1, <2>2, <2>3 DEF Calls, StoresInv, InCall
<1> QED
  BY <1>2, <1>3, <1>4 DEF Load

LEMMA ReadStoreStores ==
  ASSUME StoresInv, ReadStore
  PROVE  Stores' /\ Queue' /\ Calls'
<1>1. /\ pc = "read" /\ pc' = "run" /\ run' = Started(Call.to, store[Call.to])
      /\ UNCHANGED <<root, stale, store, storage, left, states, unwritten, block, index>>
  BY DEF ReadStore, chain, work
<1>2. Call.to \in DOMAIN store /\ IsFunction(store[Call.to])
  BY <1>1 DEF StoresInv, Calls, Stores, StoreOf
<1>3. run'.storage = store[Call.to] /\ run'.address = Call.to /\ run'.state = states
  BY <1>1 DEF Started
<1>4. Stores'
  BY <1>1, SameStores DEF StoresInv, IsPut
<1>5. Queue'
  BY <1>1 DEF StoresInv, Queue
<1>6. Calls'
  BY <1>1, <1>2, <1>3 DEF StoresInv, Queue, Calls, Covers, InCall
<1> QED BY <1>4, <1>5, <1>6

LEMMA InstructionStores ==
  ASSUME StoresInv, Instruction
  PROVE  Stores' /\ Queue' /\ Calls'
<1>1. /\ pc = "run" /\ pc' = "run" /\ Fields \subseteq DOMAIN run
      /\ run' = Paid(run, Execute(Program[run.address], balances, run))
      /\ UNCHANGED <<root, stale, store, storage, left, states, unwritten, block, index>>
  BY DEF Instruction, chain, work, StoresInv, NodeInv, Place
<1>2. /\ run'.address = run.address
      /\ DOMAIN run.state \subseteq DOMAIN run'.state
      /\ run'.storage = run.storage \/ \E k, v : run'.storage = Put(run.storage, k, v)
  BY <1>1, RunKept
<1>3. /\ run.address \in DOMAIN store /\ Covers(run.storage, store[run.address])
      /\ DOMAIN storage \subseteq DOMAIN run.state
  BY <1>1 DEF StoresInv, Calls
<1>4. Covers(run'.storage, store[run.address])
  BY <1>2, <1>3, PutCovers
<1>5. Stores'
  BY <1>1, SameStores DEF StoresInv, IsPut
<1>6. Queue'
  BY <1>1 DEF StoresInv, Queue
<1>7. Calls'
  BY <1>1, <1>2, <1>3, <1>4 DEF StoresInv, Calls, InCall
<1> QED BY <1>5, <1>6, <1>7

LEMMA ReturnStores ==
  ASSUME OneCallEach, StoresInv, Return
  PROVE  Stores' /\ Queue' /\ Calls'
<1>1. /\ pc = "run" /\ pc' = "call" /\ states' = run.state /\ index' = index + 1
      /\ storage' = Put(storage, run.address, run.storage)
      /\ UNCHANGED <<root, stale, store, block, unwritten>>
  BY DEF Return, chain
<1>2. /\ run.address = Call.to /\ Call.to \in Contract /\ Call.to \notin DOMAIN storage
      /\ run.address \in DOMAIN run.state
  BY <1>1, NotBefore DEF StoresInv, NodeInv, Place, Values, RunOK, InCall
<1>3. left' = Append(left, run.address) /\ left \in Seq(Contract)
  BY <1>1, <1>2 DEF Return, StoresInv, NodeInv, Place
<1>4. /\ run.address \in DOMAIN store /\ Covers(run.storage, store[run.address])
      /\ DOMAIN storage \subseteq DOMAIN run.state
  BY <1>1 DEF StoresInv, Calls
<1>5. /\ DOMAIN storage' = DOMAIN storage \cup {run.address}
      /\ storage'[run.address] = run.storage
      /\ \A c \in DOMAIN storage : storage'[c] = storage[c]
  BY <1>1, <1>2 DEF Put
<1>6. Stores'
  <2>1. ASSUME NEW c \in DOMAIN store PROVE StoreOf(c)'
    <3>1. ~IsPut(c) /\ ~IsPut(c)'
      BY <1>1 DEF IsPut
    <3>2. StoreOf(c)
      BY DEF StoresInv, Stores
    <3>3. c \in DOMAIN storage' => Covers(storage'[c], store[c])
      BY <1>4, <1>5, <3>2 DEF StoreOf
    <3> QED
      BY <1>1, <3>1, <3>2, <3>3 DEF StoreOf
  <2> QED
    BY <1>1, <1>4, <1>5, <2>1 DEF StoresInv, Stores
<1>7. Queue'
  <2>1. /\ \A i, j \in DOMAIN left : left[i] = left[j] => i = j
        /\ Range(left) \subseteq DOMAIN storage /\ DOMAIN storage \subseteq Range(left)
    BY <1>1 DEF StoresInv, Queue
  <2>2. /\ Range(left') = Range(left) \cup {run.address}
        /\ \A i, j \in DOMAIN left' : left'[i] = left'[j] => i = j
    BY <1>2, <1>3, <2>1, RangeOfAppend
  <2> QED
    BY <1>1, <1>2, <1>4, <1>5, <2>1, <2>2 DEF Queue
<1>8. Calls'
  <2>1. index \in DOMAIN block.calls /\ index \in Nat /\ \A j \in DOMAIN block.calls : j \in Nat
    BY <1>1, CallsOfBlock DEF StoresInv, NodeInv, Place, InCall
  <2>2. \A c \in DOMAIN storage : \E j \in DOMAIN block.calls : j < index /\ block.calls[j].to = c
    BY <1>1 DEF StoresInv, Calls, InCall
  <2>3. ASSUME NEW c \in DOMAIN storage'
        PROVE  \E j \in DOMAIN block.calls : j < index + 1 /\ block.calls[j].to = c
    <3>1. CASE c = run.address
      BY <1>2, <2>1, <3>1 DEF Call
    <3>2. CASE c \in DOMAIN storage
      BY <2>1, <2>2, <3>2
    <3> QED
      BY <1>5, <3>1, <3>2
  <2> QED
    BY <1>1, <2>3 DEF Calls
<1> QED BY <1>6, <1>7, <1>8

LEMMA PayCoinbaseStores ==
  ASSUME StoresInv, PayCoinbase
  PROVE  Stores' /\ Queue' /\ Calls'
<1>1. /\ pc = "call" /\ pc' = "flush" /\ unwritten' = DOMAIN states'
      /\ DOMAIN states \subseteq DOMAIN states'
      /\ UNCHANGED <<root, stale, store, storage, left>>
  BY DEF PayCoinbase, chain, Put
<1>2. /\ DOMAIN storage \subseteq Range(left) /\ Range(left) \subseteq DOMAIN storage
      /\ DOMAIN storage \subseteq DOMAIN states
  BY <1>1 DEF StoresInv, Queue
<1>3. Stores'
  <2>1. \A c \in DOMAIN storage : ~IsPut(c) /\ ~IsPut(c)'
    BY <1>1, <1>2 DEF IsPut
  <2> QED
    BY <1>1, <2>1, SameStores DEF StoresInv
<1>4. Queue'
  BY <1>1, <1>2 DEF StoresInv, Queue
<1>5. Calls'
  BY <1>1 DEF Calls, InCall
<1> QED BY <1>3, <1>4, <1>5

\* What has been put once the first contract that is left no longer waits.
LEMMA NextIsPut ==
  ASSUME StoresInv, pc \in {"flush", "put"}, pc' \in {"flush", "put"}, left # << >>,
         left' = Tail(left), storage' = storage, NEW c, c = Head(left)
  PROVE  /\ c \in DOMAIN storage /\ c \in DOMAIN store /\ ~IsPut(c) /\ IsPut(c)'
         /\ \A d : d # c => (IsPut(d)' <=> IsPut(d))
         /\ \A i, j \in DOMAIN left' : left'[i] = left'[j] => i = j
         /\ Range(left') \subseteq DOMAIN storage
<1>1. left \in Seq(Contract) /\ \A i, j \in DOMAIN left : left[i] = left[j] => i = j
  BY DEF StoresInv, NodeInv, Place, Queue
<1>2. /\ Range(left') = Range(left) \ {Head(left)} /\ Head(left) \in Range(left)
      /\ \A i, j \in DOMAIN left' : left'[i] = left'[j] => i = j
  BY <1>1, RangeOfTail
<1>3. Range(left) \subseteq DOMAIN storage /\ DOMAIN storage \subseteq DOMAIN store
  BY DEF StoresInv, Queue, Stores
<1> QED
  BY <1>2, <1>3 DEF IsPut

LEMMA FlushStores ==
  ASSUME StoresInv, Flush
  PROVE  Stores' /\ Queue' /\ Calls'
<1>1. /\ Head(left) \in Contract /\ pc = "flush" /\ left # << >> /\ ~AllPut
      /\ DOMAIN storage \subseteq unwritten
  BY DEF Flush, StoresInv, NodeInv, Place, AllPut, Queue
<1>2. CASE OpenStore(Head(left)) /\ pc' = "put" /\ UNCHANGED <<chain, work, run, storage, left>>
  <2>1. UNCHANGED <<root, stale, storage, left, states, unwritten>>
    BY <1>2 DEF chain, work
  <2>2. Stores'
    BY <1>1, <1>2, <2>1, OpenStores DEF StoresInv
  <2>3. Queue'
    BY <1>1, <1>2, <2>1 DEF StoresInv, Queue
  <2> QED
    BY <1>2, <2>2, <2>3 DEF Calls, InCall
<1>3. CASE PutSoFar = {} /\ Drop /\ UNCHANGED store
  <2>1. \A c \in DOMAIN store : IsPut(c) => storage[c] = << >>
    BY <1>3 DEF PutSoFar, IsPut
  <2> QED
    BY <1>3, <2>1, DropStores DEF StoresInv
<1>4. CASE Tear("stores", stale \cup PutSoFar) /\ UNCHANGED <<root, store>>
  <2>1. Leave /\ stale' = stale \cup PutSoFar
    BY <1>4 DEF Tear
  <2>2. \A c \in DOMAIN store : IsPut(c) /\ storage[c] # << >> => c \in stale'
    BY <2>1 DEF PutSoFar, IsPut
  <2> QED
    BY <1>4, <2>1, <2>2, LeaveStores DEF StoresInv
<1>5. CASE /\ storage[Head(left)] = << >> /\ left' = Tail(left)
           /\ UNCHANGED <<chain, store, pc, work, storage>>
  <2> PICK c : c = Head(left)
    OBVIOUS
  <2>1. UNCHANGED <<root, stale, store, pc, storage, states, unwritten>>
    BY <1>5 DEF chain, work
  <2>2. /\ c \in DOMAIN storage /\ c \in DOMAIN store /\ ~IsPut(c) /\ IsPut(c)'
        /\ \A d : d # c => (IsPut(d)' <=> IsPut(d))
        /\ \A i, j \in DOMAIN left' : left'[i] = left'[j] => i = j
        /\ Range(left') \subseteq DOMAIN storage
    BY <1>1, <1>5, NextIsPut
  <2>3. storage[c] = << >>
    BY <1>5
  <2>4. StoreOf(c) /\ store[c] = << >>
    BY <2>2, <2>3, EmptyCovers DEF StoresInv, Stores, StoreOf
  <2>5. StoreOf(c)'
    BY <1>1, <2>1, <2>2, <2>3, <2>4 DEF StoreOf
  <2>6. ASSUME NEW d \in DOMAIN store, d # c PROVE StoreOf(d)'
    <3>1. StoreOf(d) /\ (IsPut(d)' <=> IsPut(d))
      BY <2>2, <2>6 DEF StoresInv, Stores
    <3> QED
      BY <2>1, <3>1 DEF StoreOf
  <2>7. Stores'
    BY <2>1, <2>5, <2>6 DEF StoresInv, Stores
  <2>8. Queue'
    BY <1>1, <2>1, <2>2 DEF StoresInv, Queue
  <2> QED
    BY <1>1, <2>1, <2>7, <2>8 DEF Calls, InCall
<1> QED
  BY <1>2, <1>3, <1>4, <1>5 DEF Flush

LEMMA PutKeysStores ==
  ASSUME StoresInv, PutKeys
  PROVE  Stores' /\ Queue' /\ Calls'
<1> PICK c : c = Head(left)
  OBVIOUS
<1>1. /\ pc = "put" /\ pc' = "flush" /\ left # << >> /\ left' = Tail(left) /\ ~AllPut
      /\ store' = [store EXCEPT ![c] = Over(storage[c], @)]
      /\ UNCHANGED <<root, stale, storage, states, unwritten>>
  BY DEF PutKeys, chain, work, StoresInv, NodeInv, Place, AllPut
<1>2. /\ c \in DOMAIN storage /\ c \in DOMAIN store /\ ~IsPut(c) /\ IsPut(c)'
      /\ \A d : d # c => (IsPut(d)' <=> IsPut(d))
      /\ \A i, j \in DOMAIN left' : left'[i] = left'[j] => i = j
      /\ Range(left') \subseteq DOMAIN storage
  BY <1>1, NextIsPut
<1>3. DOMAIN storage \subseteq unwritten
  BY <1>1 DEF StoresInv, Queue
<1>4. StoreOf(c) /\ Covers(storage[c], store[c])
  BY <1>2 DEF StoresInv, Stores, StoreOf
<1>5. /\ DOMAIN store' = DOMAIN store /\ store'[c] = storage[c]
      /\ \A d \in DOMAIN store : d # c => store'[d] = store[d]
  BY <1>1, <1>2, <1>4, OverCovered
<1>6. storage[c] = << >> /\ c \notin stale => root[c] = << >>
  <2> SUFFICES ASSUME storage[c] = << >>, c \notin stale PROVE root[c] = << >>
    OBVIOUS
  <2>1. store[c] = << >>
    BY <1>4, EmptyCovers DEF StoreOf
  <2> QED
    BY <1>2, <1>4, <2>1 DEF StoreOf
<1>7. StoreOf(c)'
  BY <1>1, <1>2, <1>3, <1>4, <1>5, <1>6 DEF StoreOf, Covers
<1>8. ASSUME NEW d \in DOMAIN store, d # c PROVE StoreOf(d)'
  <2>1. StoreOf(d) /\ (IsPut(d)' <=> IsPut(d)) /\ store'[d] = store[d]
    BY <1>2, <1>5, <1>8 DEF StoresInv, Stores
  <2> QED
    BY <1>1, <2>1 DEF StoreOf
<1>9. Stores'
  BY <1>1, <1>2, <1>5, <1>7, <1>8 DEF StoresInv, Stores
<1>10. Queue'
  BY <1>1, <1>2, <1>3 DEF StoresInv, Queue
<1>11. Calls'
  BY <1>1 DEF Calls, InCall
<1> QED BY <1>9, <1>10, <1>11

LEMMA PutAccountStores ==
  ASSUME StoresInv, PutAccount
  PROVE  Stores' /\ Queue' /\ Calls'
<1>1. PICK a \in unwritten :
        /\ root' = IF a \in DOMAIN storage THEN [root EXCEPT ![a] = storage[a]] ELSE root
        /\ \/ /\ Unloaded(a)
              /\ Tear("accounts", (stale \ DOMAIN storage) \cup (DOMAIN storage \cap (unwritten \ {a})))
           \/ /\ ~Unloaded(a) /\ unwritten = {a}
              /\ accepted' = accepted + 1 /\ stale' = stale \ DOMAIN storage
              /\ Leave /\ UNCHANGED torn
           \/ /\ ~Unloaded(a) /\ unwritten # {a}
              /\ unwritten' = unwritten \ {a}
              /\ UNCHANGED <<accepted, torn, stale, pc, block, index, run, states, code, storage, left>>
  BY DEF PutAccount
<1>2. pc = "flush" /\ left = << >> /\ store' = store /\ AllPut
  BY DEF PutAccount, AllPut
<1>3. /\ DOMAIN storage \subseteq DOMAIN store /\ DOMAIN store \subseteq Contract
      /\ DOMAIN root = Contract /\ \A c \in DOMAIN store : StoreOf(c)
  BY DEF StoresInv, Stores
<1>4. \A c : IsPut(c) <=> c \in DOMAIN storage
  BY <1>2, EmptyIsFunction DEF IsPut
<1>5. /\ DOMAIN root' = Contract
      /\ \A c \in Contract : root'[c] = IF c = a /\ a \in DOMAIN storage THEN storage[a] ELSE root[c]
  BY <1>1, <1>3
<1>6. \A c \in Contract \ DOMAIN store : root'[c] = << >>
  BY <1>3, <1>5 DEF StoresInv, Stores
<1>7. \A c \in DOMAIN storage \ (unwritten \ {a}) : root'[c] = storage[c] /\ store[c] = storage[c]
  BY <1>3, <1>4, <1>5 DEF StoreOf
<1>8. CASE Leave /\ stale' = (stale \ DOMAIN storage) \cup (DOMAIN storage \cap (unwritten \ {a}))
  <2>1. /\ pc' = "idle" /\ storage' = << >> /\ left' = << >> /\ states' = << >>
    BY <1>8 DEF Leave
  <2>2. Queue' /\ Calls'
    BY <2>1, EmptyIsFunction DEF Queue, Calls, InCall
  <2>3. ASSUME NEW c \in DOMAIN store PROVE StoreOf(c)'
    <3>1. IsFunction(store'[c]) /\ c \notin DOMAIN storage' /\ ~IsPut(c)'
      BY <1>2, <1>3, <2>1, EmptyIsFunction DEF StoreOf, IsPut
    <3>2. ASSUME c \notin stale' PROVE store'[c] = root'[c]
      <4>1. CASE c \in DOMAIN storage
        BY <1>2, <1>7, <1>8, <3>2, <4>1
      <4>2. CASE c \notin DOMAIN storage
        <5>1. store[c] = root[c]
          BY <1>3, <1>4, <1>8, <3>2, <4>2 DEF StoreOf
        <5>2. root'[c] = root[c]
          BY <1>3, <1>5, <4>2
        <5> QED
          BY <1>2, <5>1, <5>2
      <4> QED BY <4>1, <4>2
    <3> QED
      BY <3>1, <3>2 DEF StoreOf
  <2>4. Stores'
    BY <1>2, <1>3, <1>5, <1>6, <2>1, <2>3, EmptyIsFunction DEF Stores
  <2> QED BY <2>2, <2>4
<1>9. CASE /\ unwritten' = unwritten \ {a}
           /\ UNCHANGED <<stale, pc, states, storage, left>>
  <2>1. \A c : IsPut(c)' <=> IsPut(c)
    BY <1>9 DEF IsPut
  <2>2. ASSUME NEW c \in DOMAIN store PROVE StoreOf(c)'
    <3>1. CASE c \in DOMAIN storage
      <4>1. IsPut(c) /\ IsPut(c)' /\ StoreOf(c)
        BY <1>3, <1>4, <2>1, <3>1
      <4>2. storage[c] = << >> /\ c \notin stale => root'[c] = << >>
        BY <1>3, <1>5, <4>1 DEF StoreOf
      <4>3. c \notin unwritten' => root'[c] = storage[c]
        BY <1>7, <1>9, <3>1
      <4> QED
        BY <1>2, <1>9, <4>1, <4>2, <4>3 DEF StoreOf
    <3>2. CASE c \notin DOMAIN storage
      <4>1. ~IsPut(c) /\ ~IsPut(c)' /\ StoreOf(c) /\ root'[c] = root[c]
        BY <1>3, <1>4, <1>5, <2>1, <3>2
      <4> QED
        BY <1>2, <1>9, <3>2, <4>1 DEF StoreOf
    <3> QED BY <3>1, <3>2
  <2>3. Stores'
    BY <1>2, <1>3, <1>5, <1>6, <1>9, <2>2 DEF Stores
  <2>4. Queue'
    BY <1>2, <1>9 DEF StoresInv, Queue, AllPut
  <2>5. Calls'
    BY <1>2, <1>9 DEF Calls, InCall
  <2> QED BY <2>3, <2>4, <2>5
<1>10. ASSUME unwritten = {a}, stale' = stale \ DOMAIN storage
       PROVE  stale' = (stale \ DOMAIN storage) \cup (DOMAIN storage \cap (unwritten \ {a}))
  BY <1>10
<1> QED
  BY <1>1, <1>8, <1>9, <1>10 DEF Tear

LEMMA NextStores ==
  ASSUME OneCallEach, StoresInv, [Next]_vars
  PROVE  Stores' /\ Queue' /\ Calls'
<1>1. CASE UNCHANGED vars
  <2>1. Stores'
    BY <1>1, SameStores DEF vars, work, chain, StoresInv, IsPut
  <2> QED
    BY <1>1, <2>1 DEF vars, work, chain, StoresInv, Queue, Calls, AllPut, Call
<1>2. ASSUME NEW b \in Blocks, Begin(b) PROVE Stores' /\ Queue' /\ Calls'
  <2>1. /\ pc = "idle" /\ pc' = "call"
        /\ UNCHANGED <<root, stale, store, storage, left, states, unwritten>>
    BY <1>2 DEF Begin, chain
  <2>2. DOMAIN storage = {}
    BY <2>1, EmptyIsFunction DEF StoresInv, Queue
  <2>3. Stores'
    BY <2>1, SameStores DEF StoresInv, IsPut
  <2> QED
    BY <2>1, <2>2, <2>3 DEF StoresInv, Queue, Calls, InCall
<1>3. ASSUME NEW c \in Contract, Rpc(c) PROVE Stores' /\ Queue' /\ Calls'
  <2>1. UNCHANGED <<root, stale, store, pc, block, index, states, unwritten, run, storage, left>>
    BY <1>3 DEF Rpc, GetStorage, GetStorageKeys, Release, chain, work
  <2>2. Stores'
    BY <2>1, SameStores DEF StoresInv, IsPut
  <2> QED
    BY <2>1, <2>2 DEF StoresInv, Queue, Calls, AllPut, Call
<1>4. CASE Throw
  BY <1>4, DropStores DEF Throw, StoresInv, IsPut
<1> QED
  BY <1>1, <1>2, <1>3, <1>4, TransferStores, LoadStores, ReadStoreStores, InstructionStores,
     ReturnStores, PayCoinbaseStores, FlushStores, PutKeysStores, PutAccountStores
  DEF Next, Node

\* Where no block calls a contract twice, a store is between blocks what the
\* root of its account is of, whatever the contracts do and wherever a block
\* is dropped, but for the contracts that a block dropped in the middle of its
\* writes has left without their root.
THEOREM RootsDescribeStores ==
  ASSUME OneCallEach
  PROVE  Spec => []RootDescribesStore
<1>1. Init => StoresInv
  BY InitPlace, InitKeeps, InitStores DEF StoresInv, NodeInv
<1>2. StoresInv /\ [Next]_vars => StoresInv'
  BY NextKeeps, NextStores DEF StoresInv
<1>3. StoresInv => RootDescribesStore
  BY DEF StoresInv, Stores, StoreOf, IsPut, RootDescribesStore
<1> QED
  BY <1>1, <1>2, <1>3, PTL DEF Spec

=============================================================================
