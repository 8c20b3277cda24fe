------------------------------- MODULE PoolRules -------------------------------
(***************************************************************************)
(* What the transaction pool admits, what a sweep keeps of it and what the *)
(* miner takes from it (src/core/txPool.js, mine() in src/node/server.js). *)
(* Only operators; TxPool and Mining interleave them.                      *)
(***************************************************************************)
EXTENDS Ledger

\* Mutant: the pool is not searched.
StateNonceOnly(db, pool, tx) == db[tx.sender].nonce

\* The highest nonce a new transaction must follow.  The sender of every
\* transaction in the pool is computed from the new one, so the nonces of
\* all senders count.
MaxNonce(db, pool, tx) ==
  LET nonces == {db[tx.sender].nonce} \cup {pool[i].nonce : i \in DOMAIN pool}
  IN  CHOOSE n \in nonces : \A m \in nonces : m <= n

-----------------------------------------------------------------------------
(* clearDepreciatedTxns: kept is newTxPool, maxNonce the nonce reached for  *)
(* each sender, where 0 counts as not set.                                  *)

EmptySweep == [kept |-> << >>, maxNonce |-> [a \in Account |-> 0]]

Reached(db, sweep, a) ==
  IF sweep.maxNonce[a] = 0 THEN db[a].nonce ELSE sweep.maxNonce[a]

\* Mutant: maxNonce is not advanced past the account's nonce.
KeepsFirst(db, sweep, tx) == tx.nonce = db[tx.sender].nonce + 1

\* isValid is called without await and yields a promise, which is true.
Keeps(db, sweep, tx) == tx.nonce = Reached(db, sweep, tx.sender) + 1

\* One round of the loop.
SweepRound(db, sweep, tx) ==
  IF Keeps(db, sweep, tx)
  THEN [kept |-> Append(sweep.kept, tx), maxNonce |-> [sweep.maxNonce EXCEPT ![tx.sender] = tx.nonce]]
  ELSE [sweep EXCEPT !.maxNonce[tx.sender] = Reached(db, sweep, tx.sender)]

\* The whole sweep when nothing happens between its rounds.
Swept(db, pool) == FoldLeft(LAMBDA sweep, tx : SweepRound(db, sweep, tx), EmptySweep, pool).kept

-----------------------------------------------------------------------------
(* mine(): the transactions of the next block, in pool order.  The working  *)
(* set of verifyTxAndTransit with the selection added to it.                *)

EmptySelection ==
  [status |-> "ok", states |-> << >>, code |-> {}, txs |-> << >>,
   gas |-> 0, skipped |-> {}, full |-> FALSE]

\* Mutant: the sender of a transaction that cannot be paid is not skipped.
SkipNothing(selection, tx) == FALSE

IsSkipped(selection, tx) == tx.sender \in selection.skipped

\* A transaction that does not fit ends the selection, one that cannot be
\* paid excludes its sender.  No nonce is looked at.
Consider(db, codes, selection, tx) ==
  LET cached == CacheAccount(db, codes, selection, tx.sender)
      run    == Execute(db, codes, cached, tx)
  IN  IF selection.status # "ok" \/ selection.full THEN selection
      ELSE IF selection.gas + tx.contractGas >= BLOCK_GAS_LIMIT
      THEN [selection EXCEPT !.full = TRUE]
      ELSE IF IsSkipped(selection, tx) THEN selection
      ELSE IF ~CanPay(cached, tx)
      THEN [cached EXCEPT !.skipped = @ \cup {tx.sender}]
      ELSE [run EXCEPT !.txs = Append(@, tx), !.gas = @ + tx.gas + tx.contractGas]

Select(db, codes, pool) ==
  FoldLeft(LAMBDA selection, tx : Consider(db, codes, selection, tx), EmptySelection, pool)

=============================================================================
