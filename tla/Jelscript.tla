------------------------------- MODULE Jelscript -------------------------------
(***************************************************************************)
(* The contract language (src/core/runtime.js): what one instruction does  *)
(* to a run.  Only operators; Contracts runs them.                         *)
(*                                                                         *)
(* Values are hex strings without a bound on their length; here they are   *)
(* numbers, and so are addresses, labels, memory slots and storage keys.   *)
(* Two spellings of one number ("0x1", "0x01") are one value here and two   *)
(* slots in the code.  An operand is a literal, a memory slot ("$") or an  *)
(* argument of the call ("%"), and an instruction has at most two: with    *)
(* three the code never leaves the loop that pads them.  Left out: sha256, *)
(* blockhash and log.                                                      *)
(***************************************************************************)
EXTENDS Integers, Sequences, FiniteSets, SequencesExt

CONSTANTS
  STEP_GAS,    \* 10000000 in the code
  WORD         \* bits looked at by and, or and xor

\* db.put(key, value), and object[key] = value
Put(db, key, value) ==
  [k \in DOMAIN db \cup {key} |-> IF k = key THEN value ELSE db[k]]

\* Every pair of new put into old.
Over(new, old) ==
  [k \in DOMAIN new \cup DOMAIN old |-> IF k \in DOMAIN new THEN new[k] ELSE old[k]]

At(db, key) == IF key \in DOMAIN db THEN db[key] ELSE 0

-----------------------------------------------------------------------------
(* Operands.                                                               *)

Hex(v) == [kind |-> "hex", value |-> v]
Mem(k) == [kind |-> "mem", value |-> k]
Arg(i) == [kind |-> "arg", value |-> i]

\* getValue reads each token as one of these.
Token == [kind : {"hex", "mem", "arg"}, value : Nat]

\* getValue: what was never set reads as 0.
Value(run, token) ==
  CASE token.kind = "hex" -> token.value
    [] token.kind = "mem" -> At(run.memory, token.value)
    [] token.kind = "arg" -> At(run.args, token.value)

-----------------------------------------------------------------------------
(* Arithmetic.                                                             *)

Power[n \in Nat] == IF n = 0 THEN 1 ELSE 2 * Power[n - 1]

Bit(n, i) == (n \div Power[i]) % 2
OfBits(f) == FoldFunction(+, 0, [i \in DOMAIN f |-> f[i] * Power[i]])

Arithmetic(op, a, b) ==
  CASE op = "set" -> b
    [] op = "add" -> a + b
    [] op = "sub" -> IF a > b THEN a - b ELSE 0
    [] op = "mul" -> a * b
    [] op = "div" -> IF b = 0 THEN 0 ELSE a \div b
    [] op = "mod" -> IF b = 0 THEN 0 ELSE a % b
    [] op = "and" -> OfBits([i \in 0..(WORD - 1) |-> Bit(a, i) * Bit(b, i)])
    [] op = "or"  -> OfBits([i \in 0..(WORD - 1) |-> (Bit(a, i) + Bit(b, i) + 1) \div 2])
    [] op = "xor" -> OfBits([i \in 0..(WORD - 1) |-> (Bit(a, i) + Bit(b, i)) % 2])
    [] op = "ls"  -> a * Power[b]
    [] op = "rs"  -> a \div Power[b]

ArithmeticOps == {"set", "add", "sub", "mul", "div", "mod", "and", "or", "xor", "ls", "rs"}

\* "0x" + a: the decimal digits of a, read as hexadecimal ones.
Misread[n \in Nat] == IF n < 10 THEN n ELSE 16 * Misread[n \div 10] + (n % 10)

\* In "0x" + a > b the sum is made first, and a string is never === to a
\* number.
Holds(op, a, b) ==
  CASE op = "gtr" -> Misread[a] > b
    [] op = "lss" -> Misread[a] < b
    [] op = "geq" -> Misread[a] >= b
    [] op = "leq" -> Misread[a] <= b
    [] op = "equ" -> FALSE
    [] op = "neq" -> TRUE

ComparisonOps == {"gtr", "lss", "geq", "leq", "equ", "neq"}

-----------------------------------------------------------------------------
(* The environment: the block, the transaction and the accounts.  The       *)
(* amounts of a transaction are strings of decimal digits.                 *)

\* state[address] or else the store.
Balance(run, disk, a) == IF a \in DOMAIN run.state THEN run.state[a] ELSE At(disk, a)

Environment(run, op) ==
  CASE op = "selfbalance" -> run.state[run.address]
    [] op = "address" -> run.address
    [] op = "gas" -> run.gas
    [] op \in {"txvalue", "txgas", "txexecgas"} -> Misread[run.info[op]]
    [] OTHER -> run.info[op]

EnvironmentOps == {"timestamp", "blocknumber", "difficulty", "txvalue", "txsender",
                   "txgas", "txexecgas", "selfbalance", "address", "gas"}

\* What the instruction writes to the memory slot its first operand names.
Written(run, disk, op, c, b) ==
  CASE op \in ArithmeticOps -> Arithmetic(op, At(run.memory, c), b)
    [] op \in ComparisonOps -> IF Holds(op, At(run.memory, c), b) THEN 1 ELSE 0
    [] op \in EnvironmentOps -> Environment(run, op)
    [] op = "pull" -> At(run.storage, b)
    [] op = "balance" -> Balance(run, disk, b)

MemoryOps == ArithmeticOps \cup ComparisonOps \cup EnvironmentOps \cup {"pull", "balance"}

-----------------------------------------------------------------------------
(* Jumps and payments.                                                     *)

\* The line starts with "label " and the target: a longer name will do.
IsLabel(line, target) ==
  /\ line.op = "label"
  /\ \/ line.x.value = target
     \/ target # 0 /\ \E k \in 1..WORD : line.x.value \div 16^k = target

Jump(program, run, c, target) ==
  LET lines == {i \in DOMAIN program : IsLabel(program[i], target)}
  IN  IF c = 1 /\ lines # {} THEN [run EXCEPT !.ptr = Min(lines)] ELSE run

\* Mutant: the balance of the contract is not looked at.
SendAnything(run, disk, target, amount) ==
  LET credited == Put(run.state, target, Balance(run, disk, target) + amount)
  IN  [run EXCEPT !.state = [credited EXCEPT ![run.address] = @ - amount]]

\* Mutant: both balances are read before either is written.
SendFromOld(run, disk, target, amount) ==
  IF run.state[run.address] < amount THEN run
  ELSE [run EXCEPT !.state = Put([@ EXCEPT ![run.address] = @ - amount],
                                 target, Balance(run, disk, target) + amount)]

\* The target is credited before the contract is debited: they may be one.
Send(run, disk, target, amount) ==
  LET credited == Put(run.state, target, Balance(run, disk, target) + amount)
  IN  IF run.state[run.address] < amount THEN run
      ELSE [run EXCEPT !.state = [credited EXCEPT ![run.address] = @ - amount]]

-----------------------------------------------------------------------------
(* One round of the loop; a command it does not know does nothing.         *)

Execute(program, disk, run) ==
  LET line == program[run.ptr]
      c == Value(run, line.x)
      b == Value(run, line.y)
  IN  CASE line.op \in MemoryOps ->
             [run EXCEPT !.memory = Put(@, c, Written(run, disk, line.op, c, b))]
        [] line.op = "store" -> [run EXCEPT !.storage = Put(@, c, b)]
        [] line.op = "jump" -> Jump(program, run, c, b)
        [] line.op = "send" -> Send(run, disk, c, b)
        [] OTHER -> run

\* Mutant: a jump costs nothing.
PaidUnlessJump(run, after) ==
  [after EXCEPT !.ptr = @ + 1, !.gas = IF after.ptr # run.ptr THEN @ ELSE @ - STEP_GAS]

Paid(run, after) == [after EXCEPT !.ptr = @ + 1, !.gas = @ - STEP_GAS]

Verdict(program, run) ==
  CASE run.ptr > Len(program) \/ program[run.ptr].op = "stop" -> "done"
    [] program[run.ptr].op = "revert" -> "reverts"
    [] run.gas < STEP_GAS -> "starves"
    [] OTHER -> "continues"

=============================================================================
