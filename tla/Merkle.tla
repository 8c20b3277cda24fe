-------------------------------- MODULE Merkle --------------------------------
(***************************************************************************)
(* The transaction tree (src/core/merkle.js).  Only operators.              *)
(*                                                                         *)
(* A hash is the term it is the hash of.  The hash of a pair takes the      *)
(* larger of the two first, so that it is the hash of the set of the two;   *)
(* the hash of a leaf is that of its place and its content.                *)
(***************************************************************************)
EXTENDS Integers, Sequences, SequencesExt

Leaf(place, content) == [leaf |-> <<place, content>>, of |-> {}]
Pair(left, right) == [leaf |-> << >>, of |-> {left, right}]

NoLeaf == [leaf |-> << >>, of |-> {}]

\* Mutant: the leaves of a list do not tell where they are.
UnplacedLeaves(list) ==
  IF list = << >> THEN <<NoLeaf>> ELSE [i \in DOMAIN list |-> Leaf(0, list[i])]

\* Without transactions there is one empty hash.
Leaves(list) ==
  IF list = << >> THEN <<NoLeaf>> ELSE [i \in DOMAIN list |-> Leaf(i - 1, list[i])]

\* An odd row is filled up with its last hash.
Even(row) == IF Len(row) % 2 = 0 THEN row ELSE Append(row, Last(row))

Parents(row) == [i \in 1..(Len(row) \div 2) |-> Pair(row[2 * i - 1], row[2 * i])]

\* The rows of the tree from the leaves up, to the one that has one hash.
Rows(list) ==
  LET row[n \in Nat] == IF n = 0 THEN Leaves(list) ELSE Parents(Even(row[n - 1]))
      height == CHOOSE n \in 0..Len(list) :
                  Len(row[n]) = 1 /\ \A m \in 0..(n - 1) : Len(row[m]) > 1
  IN  [i \in 1..(height + 1) |-> row[i - 1]]

\* TxTrie: the root, and the nodes by their hashes.
BuildTxTrie(list) ==
  LET rows == Rows(list)
  IN  [root |-> Head(Last(rows)), nodes |-> UNION {Range(rows[i]) : i \in DOMAIN rows}]

\* Mutant: the path holds the hash itself instead of its sibling.
OwnHash(parent, hash) == hash

\* The hash its parent was made with; twins are each other's.
Sibling(parent, hash) ==
  IF parent.of = {hash} THEN hash ELSE CHOOSE other \in parent.of : other # hash

GetTxTriePath(trie, target) ==
  LET path[hash \in trie.nodes] ==
        IF hash = trie.root THEN << >>
        ELSE LET parent == CHOOSE p \in trie.nodes : hash \in p.of
             IN  <<Sibling(parent, hash)>> \o path[parent]
  IN  path[target]

\* What a reader of a path computes: the root, if the target is in the tree.
RootOfPath(target, path) == FoldLeft(Pair, target, path)

=============================================================================
