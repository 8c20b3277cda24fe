----------------------------- MODULE MCContracts -----------------------------
(* Programs and blocks for the runs of Contracts.                           *)
EXTENDS Contracts

Line(op, x, y) == [op |-> op, x |-> x, y |-> y]

person == 1
other == 2
counter == 3
splitter == 4

\* Counts its calls, notes the balance of whom the caller names and pays
\* that account 2 when it can.
CounterProgram ==
  <<Line("pull", Hex(1), Hex(1)), Line("add", Hex(1), Hex(1)), Line("store", Hex(1), Mem(1)),
    Line("balance", Hex(2), Arg(0)), Line("store", Hex(2), Mem(2)),
    Line("send", Arg(0), Hex(2))>>

\* Pays half of what it holds to whom the caller names, and then goes on
\* where the caller says: it stores and stops, goes round for as long as the
\* gas lasts (7), reverts (8) or ends (9).
SplitterProgram ==
  <<Line("selfbalance", Hex(1), Hex(0)), Line("rs", Hex(1), Hex(1)), Line("send", Arg(0), Mem(1)),
    Line("jump", Arg(1), Arg(2)), Line("store", Hex(1), Mem(1)), Line("stop", Hex(0), Hex(0)),
    Line("label", Hex(7), Hex(0)), Line("jump", Hex(1), Hex(7)),
    Line("label", Hex(8), Hex(0)), Line("revert", Hex(0), Hex(0)),
    Line("label", Hex(9), Hex(0))>>

MCContract == {counter, splitter}
MCProgram == [c \in MCContract |-> IF c = counter THEN CounterProgram ELSE SplitterProgram]
MCInitialBalance == [a \in {person, counter, splitter} |-> IF a = person THEN 24 ELSE a - 1]

Calling(to, value, gas, args) ==
  [txsender |-> person, to |-> to, txvalue |-> value, txgas |-> 1, txexecgas |-> gas,
   args |-> [i \in 0..(Len(args) - 1) |-> args[i + 1]]]

Mined(by, calls) == [timestamp |-> 1, difficulty |-> 1, coinbase |-> by, calls |-> calls]
Block(calls) == Mined(other, calls)

Count(payee) == Calling(counter, 0, 6, <<payee>>)
Split(payee, jumps, label) == Calling(splitter, 1, 6, <<payee, jumps, label>>)
Transfer2 == [Calling(other, 1, 0, << >>) EXCEPT !.txsender = other]

TwoCalls == {Block(<<Count(person), Count(person)>>)}

\* One call of a contract in a block, or two of one that writes the same
\* keys each time, or of both: a contract pays an account, itself, a contract
\* whose text a call has loaded and one whose text nobody has loaded, which
\* is then written, or called first.
MCBlocks ==
  TwoCalls \cup
  {Block(<<[Count(other) EXCEPT !.txexecgas = 5]>>), Block(<<Transfer2>>),
   Block(<<Calling(other, 1, 0, << >>), Transfer2, Count(splitter)>>),
   Mined(splitter, <<Count(splitter)>>),
   Block(<<Split(person, 0, 7), Count(splitter)>>),
   Block(<<Count(splitter), Split(person, 0, 7)>>)}
  \cup {Block(<<Split(person, 1, label)>>) : label \in {7, 8, 9}}
  \cup {Block(<<Split(payee, 0, 7)>>) : payee \in {other, counter, splitter}}

=============================================================================
