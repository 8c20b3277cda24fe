-------------------------------- MODULE MCWire --------------------------------
(* Transactions and headers for the run of Wire: each field at both ends.   *)
EXTENDS Wire

Pay(recipient, amount, gas, data, signature) ==
  [recipient |-> recipient, amount |-> amount, gas |-> gas, data |-> data,
   signature |-> signature]

Plain == [flag |-> Neither]
Script == [flag |-> Deploy, scBody |-> <<1, 0, 2, 1>>]
CallWith(args) == [flag |-> Call, contractGas |-> 1, txCallArgs |-> args]

MCPayments ==
  {Pay(0, 0, 0, Plain, <<0, 3, 1>>), Pay(8, 7, 1, Plain, <<8, 1, 0>>),
   Pay(1, 1, 1, Script, <<0, 3, 1>>), Pay(2, 0, 0, CallWith(<<9, 0, 2>>), <<3, 0, 0>>)}

MCIncome == {4, 8}

MCHeaders == {<<1, 0, 1, 0, 0, 8, 1, 2>>, <<80, 8, 8, 8, 8, 0, 8, 8>>}

=============================================================================
