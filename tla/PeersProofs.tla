----------------------------- MODULE PeersProofs -----------------------------
(***************************************************************************)
(* For any nodes, configured peers, limits and faults: the two lists a     *)
(* node keeps of its peers stay equal, so that the index "close" takes     *)
(* from one of them is right for the other; and while no HANDSHAKE is      *)
(* ignored for want of room, contacts become mutual and are passed on.     *)
(***************************************************************************)
EXTENDS Peers, FiniteSetTheorems, TLAPS

ListsOK ==
  /\ opened \in [Node -> Seq(Node)]
  /\ connected \in [Node -> Seq(Node)]
  /\ cut \subseteq Node \X Node

\* A dial is to another node, and what is cut is listed.
DialsOthers ==
  /\ dialing \in [Node -> [Node -> Nat]]
  /\ \A n \in Node : dialing[n][n] = 0

PhaseOK == DOMAIN phase = Node

CutIsListed == \A e \in cut : IsOpened(e[1], e[2])

PeersInv == ListsOK /\ DialsOthers /\ CutIsListed /\ ListsAgree

-----------------------------------------------------------------------------
(* Lists without repetitions.                                              *)

LEMMA AppendNew ==
  ASSUME NEW S, NEW s \in Seq(S), NEW x \in S, IsInjective(s), x \notin Range(s)
  PROVE  /\ Append(s, x) \in Seq(S) /\ IsInjective(Append(s, x))
         /\ Range(Append(s, x)) = Range(s) \cup {x}
<1> DEFINE r == Append(s, x)
<1>1. r \in Seq(S) /\ DOMAIN r = 1..(Len(s) + 1) /\ DOMAIN s = 1..Len(s)
  OBVIOUS
<1>2. \A j \in 1..(Len(s) + 1) : r[j] = IF j <= Len(s) THEN s[j] ELSE x
  OBVIOUS
<1> HIDE DEF r
<1>3. \A j \in 1..Len(s) : s[j] # x
  BY <1>1 DEF Range
<1>4. IsInjective(r)
  BY <1>1, <1>2, <1>3 DEF IsInjective
<1>5. Range(r) = Range(s) \cup {x}
  <2>1. ASSUME NEW y \in Range(s) \cup {x}
        PROVE  \E j \in 1..(Len(s) + 1) : r[j] = y
    <3>1. CASE y = x
      BY <1>2, <3>1
    <3>2. CASE y # x
      BY <1>1, <1>2, <2>1, <3>2 DEF Range
    <3> QED
      BY <3>1, <3>2
  <2>2. Range(s) \cup {x} \subseteq Range(r)
    BY <1>1, <2>1 DEF Range
  <2>3. Range(r) \subseteq Range(s) \cup {x}
    BY <1>1, <1>2 DEF Range
  <2> QED
    BY <2>2, <2>3
<1> QED
  BY <1>1, <1>4, <1>5 DEF r

LEMMA Concatenation ==
  ASSUME NEW S, NEW f \in Seq(S), NEW b \in Seq(S)
  PROVE  /\ f \o b \in Seq(S) /\ Len(f \o b) = Len(f) + Len(b)
         /\ \A j \in 1..Len(f \o b) :
              (f \o b)[j] = IF j <= Len(f) THEN f[j] ELSE b[j - Len(f)]
OBVIOUS

\* What RemoveAt leaves of a list without repetitions.
LEMMA RemoveOne ==
  ASSUME NEW S, NEW s \in Seq(S), NEW i \in DOMAIN s, IsInjective(s)
  PROVE  /\ RemoveAt(s, i) \in Seq(S) /\ IsInjective(RemoveAt(s, i))
         /\ Range(RemoveAt(s, i)) = Range(s) \ {s[i]}
<1> DEFINE r == RemoveAt(s, i)
<1>0. i \in 1..Len(s) /\ Len(s) \in Nat
  OBVIOUS
<1>1. /\ r \in Seq(S) /\ Len(r) = Len(s) - 1
      /\ \A j \in 1..Len(r) : r[j] = IF j < i THEN s[j] ELSE s[j + 1]
  <2> DEFINE front == SubSeq(s, 1, i - 1)
             back  == SubSeq(s, i + 1, Len(s))
  <2>1. /\ front \in Seq(S) /\ Len(front) = i - 1
        /\ \A j \in 1..(i - 1) : front[j] = s[j]
    OBVIOUS
  <2>2. /\ back \in Seq(S) /\ Len(back) = Len(s) - i
        /\ \A j \in 1..(Len(s) - i) : back[j] = s[j + i]
    OBVIOUS
  <2>3. r = front \o back
    BY DEF RemoveAt
  <2> HIDE DEF front, back, r
  <2>4. /\ r \in Seq(S) /\ Len(r) = Len(front) + Len(back)
        /\ \A j \in 1..Len(r) : r[j] = IF j <= Len(front) THEN front[j]
                                                       ELSE back[j - Len(front)]
    BY <2>1, <2>2, <2>3, Concatenation
  <2>5. Len(r) = Len(s) - 1
    BY <1>0, <2>1, <2>2, <2>4
  <2>6. ASSUME NEW j \in 1..Len(r)
        PROVE  r[j] = IF j < i THEN s[j] ELSE s[j + 1]
    <3>1. CASE j < i
      BY <1>0, <2>1, <2>4, <3>1
    <3>2. CASE j >= i
      <4>1. r[j] = back[j - (i - 1)] /\ j - (i - 1) \in 1..(Len(s) - i)
        BY <1>0, <2>1, <2>4, <2>5, <3>2
      <4>2. back[j - (i - 1)] = s[(j - (i - 1)) + i]
        BY <2>2, <4>1
      <4>3. (j - (i - 1)) + i = j + 1
        BY <1>0
      <4> QED
        BY <1>0, <3>2, <4>1, <4>2, <4>3
    <3> QED
      BY <1>0, <3>1, <3>2
  <2> QED
    BY <2>4, <2>5, <2>6
<1> HIDE DEF r
<1>2. IsInjective(r)
  <2> DEFINE at(j) == IF j < i THEN j ELSE j + 1
  <2>1. \A j \in 1..Len(r) : at(j) \in DOMAIN s /\ r[j] = s[at(j)]
    BY <1>0, <1>1
  <2>2. \A j, k \in 1..Len(r) : at(j) = at(k) => j = k
    BY <1>0
  <2>3. DOMAIN r = 1..Len(r)
    BY <1>1
  <2> HIDE DEF at
  <2>4. \A j, k \in 1..Len(r) : r[j] = r[k] => at(j) = at(k)
    BY <2>1 DEF IsInjective
  <2> QED
    BY <2>2, <2>3, <2>4 DEF IsInjective
<1>3. ASSUME NEW j \in 1..Len(r)
      PROVE  r[j] \in Range(s) \ {s[i]}
  <2>1. PICK k \in DOMAIN s : r[j] = s[k] /\ k # i
    <3>1. CASE j < i
      <4>1. j \in DOMAIN s /\ r[j] = s[j]
        BY <1>0, <1>1, <3>1
      <4> QED
        BY <3>1, <4>1
    <3>2. CASE j >= i
      <4>1. j + 1 \in DOMAIN s /\ j + 1 # i /\ r[j] = s[j + 1]
        BY <1>0, <1>1, <3>2
      <4> QED
        BY <4>1
    <3> QED
      BY <1>0, <3>1, <3>2
  <2>2. s[k] \in Range(s)
    BY <2>1 DEF Range
  <2>3. s[k] # s[i]
    BY <2>1 DEF IsInjective
  <2> QED
    BY <2>1, <2>2, <2>3
<1>4. ASSUME NEW j \in 1..Len(s), j # i
      PROVE  \E k \in 1..Len(r) : r[k] = s[j]
  <2>1. CASE j < i
    BY <1>1, <2>1
  <2>2. CASE j > i
    <3>1. j - 1 \in 1..Len(r) /\ r[j - 1] = s[j]
      BY <1>1, <2>2
    <3> QED
      BY <3>1
  <2> QED
    BY <1>4, <2>1, <2>2
<1>5. Range(r) = Range(s) \ {s[i]}
  <2>1. Range(r) \subseteq Range(s) \ {s[i]}
    BY <1>1, <1>3 DEF Range
  <2>2. ASSUME NEW y \in Range(s) \ {s[i]}
        PROVE  y \in Range(r)
    <3>1. PICK j \in 1..Len(s) : s[j] = y /\ j # i
      BY <2>2 DEF Range
    <3>2. PICK k \in 1..Len(r) : r[k] = s[j]
      BY <1>4, <3>1
    <3>3. k \in DOMAIN r
      BY <1>1
    <3> QED
      BY <3>1, <3>2, <3>3 DEF Range
  <2> QED
    BY <2>1, <2>2
<1> QED
  BY <1>1, <1>2, <1>5 DEF r

-----------------------------------------------------------------------------
(* The actions.                                                            *)

\* The address that opens is appended to both lists or to neither.
LEMMA OpenKeeps ==
  ASSUME PeersInv, NEW n \in Node, NEW m \in Node, Open(n, m)
  PROVE  PeersInv'
<1>1. m # n /\ dialing' = [dialing EXCEPT ![n][m] = @ - 1] /\ dialing[n][m] > 0
  BY DEF Open, PeersInv, DialsOthers
<1>2. DialsOthers'
  BY <1>1 DEF PeersInv, DialsOthers
<1>3. CASE IsOpened(n, m)
  <2>1. UNCHANGED <<opened, connected, cut>>
    BY <1>3 DEF Open, PeersInv, ListsAgree, IsOpened, IsConnected
  <2> QED
    BY <1>2, <2>1 DEF PeersInv, ListsOK, CutIsListed, ListsAgree, IsOpened
<1>4. CASE ~IsOpened(n, m)
  <2> DEFINE list == Append(opened[n], m)
  <2>1. /\ opened' = [opened EXCEPT ![n] = list]
        /\ connected' = [connected EXCEPT ![n] = list]
        /\ cut' = cut
    BY <1>4 DEF Open, ListConnected, PeersInv, ListsAgree, IsOpened, IsConnected
  <2>2. /\ list \in Seq(Node) /\ IsInjective(list)
        /\ Range(list) = Range(opened[n]) \cup {m}
    BY <1>4, AppendNew DEF PeersInv, ListsOK, ListsAgree, IsOpened
  <2> HIDE DEF list
  <2>3. ListsOK'
    BY <2>1, <2>2 DEF PeersInv, ListsOK
  <2>4. CutIsListed'
    BY <2>1, <2>2 DEF PeersInv, ListsOK, CutIsListed, IsOpened
  <2>5. ListsAgree'
    BY <1>1, <2>1, <2>2 DEF PeersInv, ListsOK, ListsAgree
  <2> QED
    BY <1>2, <2>3, <2>4, <2>5 DEF PeersInv
<1> QED
  BY <1>3, <1>4

\* The address that closes is listed, at one index in both lists.
LEMMA CloseKeeps ==
  ASSUME PeersInv, NEW n \in Node, NEW m \in Node, Close(n, m)
  PROVE  PeersInv' /\ \A k \in Node \ {m} : IsOpened(n, k) => IsOpened(n, k)'
<1> DEFINE i == IndexOf(n, m)
           list == RemoveAt(opened[n], i)
<1>1. IsConnected(n, m) /\ opened[n] = connected[n]
  BY DEF Close, PeersInv, CutIsListed, ListsAgree, IsOpened, IsConnected
<1>2. i \in DOMAIN opened[n] /\ opened[n][i] = m
  BY <1>1 DEF IndexOf, IsConnected, Range
<1>3. i # 0
  BY <1>2 DEF PeersInv, ListsOK
<1>4. /\ opened' = [opened EXCEPT ![n] = list]
      /\ connected' = [connected EXCEPT ![n] = list]
      /\ cut' = cut \ {<<n, m>>} /\ dialing' = dialing
  BY <1>1, <1>3 DEF Close, Splice
<1>5. /\ list \in Seq(Node) /\ IsInjective(list)
      /\ Range(list) = Range(opened[n]) \ {m}
  BY <1>2, RemoveOne DEF PeersInv, ListsOK, ListsAgree
<1> HIDE DEF i, list
<1>6. ListsOK' /\ DialsOthers'
  BY <1>4, <1>5 DEF PeersInv, ListsOK, DialsOthers
<1>7. CutIsListed'
  <2>1. ASSUME NEW e \in cut'
        PROVE  IsOpened(e[1], e[2])'
    <3>1. /\ e \in cut /\ e # <<n, m>> /\ e \in Node \X Node
      BY <1>4, <2>1 DEF PeersInv, ListsOK
    <3>2. e[2] \in Range(opened[e[1]]) /\ (e[1] # n \/ e[2] # m)
      BY <3>1 DEF PeersInv, CutIsListed, IsOpened
    <3> QED
      BY <1>4, <1>5, <3>1, <3>2 DEF PeersInv, ListsOK, IsOpened
  <2> QED
    BY <2>1 DEF CutIsListed
<1>8. ListsAgree'
  BY <1>4, <1>5 DEF PeersInv, ListsOK, ListsAgree
<1>9. \A k \in Node \ {m} : IsOpened(n, k) => IsOpened(n, k)'
  BY <1>4, <1>5 DEF PeersInv, ListsOK, IsOpened
<1> QED
  BY <1>6, <1>7, <1>8, <1>9 DEF PeersInv

LEMMA CrashKeeps ==
  ASSUME PeersInv, NEW n \in Node, Crash(n)
  PROVE  PeersInv'
<1>1. /\ opened' = [opened EXCEPT ![n] = << >>]
      /\ connected' = [connected EXCEPT ![n] = << >>]
      /\ dialing' = [[m \in Node |-> [dialing[m] EXCEPT ![n] = 0]] EXCEPT ![n] = Nobody]
      /\ cut' = {e \in cut : e[1] # n}
                 \cup {<<m, n>> : m \in {k \in Node \ {n} : IsOpened(k, n)}}
  BY DEF Crash
<1>2. ListsOK'
  BY <1>1 DEF PeersInv, ListsOK
<1>3. DialsOthers'
  BY <1>1 DEF PeersInv, DialsOthers, Nobody
<1>4. ASSUME NEW e \in cut'
      PROVE  IsOpened(e[1], e[2])'
  <2>1. e[1] \in Node \ {n} /\ IsOpened(e[1], e[2])
    BY <1>1, <1>4 DEF PeersInv, ListsOK, CutIsListed
  <2> QED
    BY <1>1, <2>1 DEF PeersInv, ListsOK, IsOpened
<1>5. CutIsListed'
  BY <1>4 DEF CutIsListed
<1>6. ListsAgree'
  BY <1>1 DEF PeersInv, ListsOK, ListsAgree, IsInjective, Range
<1> QED
  BY <1>2, <1>3, <1>5, <1>6 DEF PeersInv

\* The other actions leave both lists alone.
LEMMA ListsUntouched ==
  ASSUME PeersInv, UNCHANGED <<opened, connected>>, DialsOthers',
         cut' = cut \/ \E n, m \in Node : IsOpened(n, m) /\ cut' = cut \cup {<<n, m>>}
  PROVE  PeersInv'
BY DEF PeersInv, ListsOK, CutIsListed, ListsAgree, IsOpened

LEMMA OthersKeep ==
  ASSUME PeersInv, NEW n \in Node, NEW m \in Node,
         \/ DialPeers(n) \/ Restart(n)
         \/ Handshake(n, m) \/ Refuse(n, m) \/ Lose(n, m)
  PROVE  PeersInv' /\ UNCHANGED <<opened, connected>>
<1>1. UNCHANGED <<opened, connected>>
  BY DEF DialPeers, Restart, Handshake, Refuse, Lose, lists
<1>2. cut' = cut \/ \E k, l \in Node : IsOpened(k, l) /\ cut' = cut \cup {<<k, l>>}
  BY DEF DialPeers, Restart, Handshake, Refuse, Lose
<1>3. DialsOthers'
  <2>1. CASE DialPeers(n)
    <3> DEFINE row == [k \in Node |-> IF k \in PEERS[n] /\ Dials(n, k)
                                     THEN dialing[n][k] + 1 ELSE dialing[n][k]]
    <3>1. dialing' = [dialing EXCEPT ![n] = row]
      BY <2>1 DEF DialPeers
    <3>2. row \in [Node -> Nat] /\ row[n] = 0
      BY DEF Dials, PeersInv, DialsOthers
    <3> HIDE DEF row
    <3>3. dialing' \in [Node -> [Node -> Nat]]
      BY <3>1, <3>2 DEF PeersInv, DialsOthers
    <3>4. \A k \in Node : dialing'[k][k] = 0
      BY <3>1, <3>2 DEF PeersInv, DialsOthers
    <3> QED
      BY <3>3, <3>4 DEF DialsOthers
  <2>2. CASE Handshake(n, m)
    <3>1. CASE dialing' = dialing
      BY <3>1 DEF PeersInv, DialsOthers
    <3>2. CASE n # m /\ dialing' = [dialing EXCEPT ![n][m] = @ + 1]
      BY <3>2 DEF PeersInv, DialsOthers
    <3> QED
      BY <2>2, <3>1, <3>2 DEF Handshake, Dials
  <2>3. CASE Refuse(n, m)
    <3>1. n # m /\ dialing' = [dialing EXCEPT ![n][m] = @ - 1] /\ dialing[n][m] > 0
      BY <2>3 DEF Refuse, PeersInv, DialsOthers
    <3> QED
      BY <3>1 DEF PeersInv, DialsOthers
  <2>4. CASE Restart(n) \/ Lose(n, m)
    BY <2>4 DEF Restart, Lose, PeersInv, DialsOthers
  <2> QED
    BY <2>1, <2>2, <2>3, <2>4
<1> QED
  BY <1>1, <1>2, <1>3, ListsUntouched

-----------------------------------------------------------------------------
LEMMA InitOK ==
  ASSUME Init
  PROVE  PeersInv
BY PeersAssumption
DEF Init, PeersInv, ListsOK, DialsOthers, CutIsListed, ListsAgree, Nobody, IsInjective, Range

LEMMA NextKeeps ==
  ASSUME PeersInv, [Next]_vars
  PROVE  PeersInv'
<1>1. ASSUME NEW n \in Node, DialPeers(n) \/ Crash(n) \/ Restart(n)
      PROVE  PeersInv'
  BY <1>1, CrashKeeps, OthersKeep
<1>2. ASSUME NEW n \in Node, NEW m \in Node,
             Open(n, m) \/ Handshake(n, m) \/ Close(n, m) \/ Refuse(n, m) \/ Lose(n, m)
      PROVE  PeersInv'
  BY <1>2, OpenKeeps, CloseKeeps, OthersKeep
<1>3. CASE UNCHANGED vars
  BY <1>3 DEF vars, lists, PeersInv, ListsOK, DialsOthers, CutIsListed, ListsAgree, IsOpened
<1> QED
  BY <1>1, <1>2, <1>3 DEF Next

\* opened and connected stay the same list: what "close" removes from one by
\* the index of the other is the address that closed.
THEOREM ListsAlwaysAgree == Spec => []ListsAgree
<1>1. Init => PeersInv
  BY InitOK
<1>2. PeersInv /\ [Next]_vars => PeersInv'
  BY NextKeeps
<1>3. PeersInv => ListsAgree
  BY DEF PeersInv
<1> QED
  BY <1>1, <1>2, <1>3, PTL DEF Spec

\* A peer leaves the list of a node only when its own connection is gone or
\* the node has died.
THEOREM OnlyTheClosedLeaves == Spec => KeepsOthers
<1> DEFINE Kept(n, m) == IsOpened(n, m) /\ ~IsOpened(n, m)'
                           => <<n, m>> \in cut \/ phase'[n] = "down"
<1>1. ASSUME PeersInv, PhaseOK, [Next]_vars, NEW n \in Node, NEW m \in Node
      PROVE  Kept(n, m)
  <2>1. ASSUME NEW k \in Node, NEW l \in Node, Open(k, l)
        PROVE  Kept(n, m)
    <3>1. opened' = opened \/ opened' = [opened EXCEPT ![k] = Append(opened[k], l)]
      BY <2>1 DEF Open
    <3>2. CASE opened' = opened
      BY <3>2 DEF IsOpened
    <3>3. CASE opened' = [opened EXCEPT ![k] = Append(opened[k], l)] /\ ~IsOpened(k, l)
      <4>1. Range(Append(opened[k], l)) = Range(opened[k]) \cup {l}
        BY <1>1, <3>3, AppendNew DEF PeersInv, ListsOK, ListsAgree, IsOpened
      <4> QED
        BY <1>1, <3>3, <4>1 DEF PeersInv, ListsOK, IsOpened
    <3> QED
      BY <2>1, <3>1, <3>2, <3>3 DEF Open
  <2>2. ASSUME NEW k \in Node, NEW l \in Node, Close(k, l)
        PROVE  Kept(n, m)
    <3>1. opened' = [opened EXCEPT ![k] = Splice(@, IndexOf(k, l))] /\ <<k, l>> \in cut
      BY <2>2 DEF Close
    <3>2. CASE n = k /\ m = l
      BY <3>1, <3>2
    <3>3. CASE n = k /\ m # l
      BY <1>1, <2>2, <3>3, CloseKeeps
    <3>4. CASE n # k
      BY <1>1, <3>1, <3>4 DEF PeersInv, ListsOK, IsOpened
    <3> QED
      BY <3>2, <3>3, <3>4
  <2>3. ASSUME NEW k \in Node, Crash(k)
        PROVE  Kept(n, m)
    <3>1. opened' = [opened EXCEPT ![k] = << >>] /\ phase' = [phase EXCEPT ![k] = "down"]
      BY <2>3 DEF Crash
    <3>2. CASE n = k
      BY <1>1, <3>1, <3>2 DEF PhaseOK
    <3>3. CASE n # k
      BY <1>1, <3>1, <3>3 DEF PeersInv, ListsOK, IsOpened
    <3> QED
      BY <3>2, <3>3
  <2>4. CASE UNCHANGED opened
    BY <2>4 DEF IsOpened
  <2> QED
    BY <1>1, <2>1, <2>2, <2>3, <2>4, OthersKeep DEF Next, vars, lists
<1>2. Init => PeersInv /\ PhaseOK
  BY InitOK DEF Init, PhaseOK
<1>3. PhaseOK /\ [Next]_vars => PhaseOK'
  BY DEF PhaseOK, Next, vars, DialPeers, Open, Handshake, Close, Refuse, Lose, Crash, Restart
<1>4. PeersInv /\ [Next]_vars => PeersInv'
  BY NextKeeps
<1>5. PeersInv /\ PhaseOK /\ [Next]_vars => [\A n, m \in Node : Kept(n, m)]_vars
  BY <1>1
<1> QED
  BY <1>2, <1>3, <1>4, <1>5, PTL DEF Spec, KeepsOthers

-----------------------------------------------------------------------------
(* What is announced.                                                      *)

Bags == [Node -> [Node -> Nat]]

\* Nothing that is on its way gets lost.
Covers(new, old) == \A x, y \in Node : old[x][y] > 0 => new[x][y] > 0

LEMMA TellAdds ==
  ASSUME NEW bag \in Bags, NEW m \in Node, NEW told
  PROVE  /\ Tell(bag, m, told) \in Bags /\ Covers(Tell(bag, m, told), bag)
         /\ \A y \in (told \cap Node) \ {m} : Tell(bag, m, told)[m][y] > 0
         /\ \A q \in Node \ {m} : Tell(bag, m, told)[q] = bag[q]
<1> DEFINE row == [a \in Node |-> IF a \in told \ {m} /\ bag[m][a] < MaxCopies
                                  THEN bag[m][a] + 1 ELSE bag[m][a]]
<1>1. Tell(bag, m, told) = [bag EXCEPT ![m] = row]
  BY DEF Tell, Bags
<1>2. bag[m] \in [Node -> Nat] /\ MaxCopies \in Nat \ {0}
  BY PeersAssumption DEF Bags
<1>3. /\ row \in [Node -> Nat]
      /\ \A y \in Node : bag[m][y] > 0 => row[y] > 0
      /\ \A y \in (told \cap Node) \ {m} : row[y] > 0
  BY <1>2
<1> HIDE DEF row
<1> QED
  BY <1>1, <1>3 DEF Bags, Covers

LEMMA TellOne ==
  ASSUME NEW bag \in Bags, NEW m \in Node, NEW a \in Node
  PROVE  /\ Tell(bag, m, {a}) \in Bags /\ Covers(Tell(bag, m, {a}), bag)
         /\ m # a => Tell(bag, m, {a})[m][a] > 0
         /\ \A q \in Node \ {m} : Tell(bag, m, {a})[q] = bag[q]
<1>1. m # a => a \in ({a} \cap Node) \ {m}
  OBVIOUS
<1> QED
  BY <1>1, TellAdds

TellPeer(env, bag, peer) ==
  IF <<env[1], peer>> \in env[3] THEN bag ELSE Tell(bag, peer, {env[2]})

TellFold == INSTANCE FoldTheorems WITH Step <- TellPeer

LEMMA SameFinite == ASSUME NEW t PROVE TellFold!IsFiniteSet(t) <=> IsFiniteSet(t)
BY DEF IsFiniteSet, TellFold!IsFiniteSet

\* The new address reaches every socket in use but the one to itself, whatever
\* the order, and no other node hears of it.
LEMMA TellAll ==
  ASSUME NEW n \in Node, NEW m \in Node, NEW gone, NEW base \in Bags,
         NEW U \in SUBSET Node, IsFiniteSet(U)
  PROVE  LET bag == TellFold!Part(<<n, m, gone>>, base, U, U)
         IN  /\ bag \in Bags /\ Covers(bag, base)
             /\ \A p \in U \ {m} : <<n, p>> \notin gone => bag[p][m] > 0
             /\ \A q \in Node : q \notin U \/ <<n, q>> \in gone => bag[q] = base[q]
<1> DEFINE env == <<n, m, gone>>
           Bag(t) == TellFold!Part(env, base, U, t)
           Good(t) == /\ Bag(t) \in Bags /\ Covers(Bag(t), base)
                      /\ \A p \in t \ {m} : <<n, p>> \notin gone => Bag(t)[p][m] > 0
                      /\ \A q \in Node : q \notin t \/ <<n, q>> \in gone => Bag(t)[q] = base[q]
           S == {k \in Nat : \A t \in SUBSET U : Cardinality(t) = k => Good(t)}
<1>1. ASSUME NEW t \in SUBSET U
      PROVE  IsFiniteSet(t) /\ Cardinality(t) \in Nat
  BY FS_Subset, FS_CardinalityType
<1>2. 0 \in S
  <2>1. \A t \in SUBSET U : Cardinality(t) = 0 => t = {}
    BY <1>1, FS_EmptySet
  <2>2. Bag({}) = base
    BY SameFinite, TellFold!PartBase
  <2>3. Good({})
    BY <2>2 DEF Covers
  <2> HIDE DEF Good
  <2> QED
    BY <2>1, <2>3
<1>3. ASSUME NEW k \in Nat, k \in S
      PROVE  k + 1 \in S
  <2>1. ASSUME NEW t \in SUBSET U, Cardinality(t) = k + 1
        PROVE  Good(t)
    <3> DEFINE x == TellFold!Some(t)
               rest == t \ {x}
    <3>1. t # {}
      BY <2>1, FS_EmptySet
    <3>2. x \in t /\ Bag(t) = TellPeer(env, Bag(rest), x)
      BY <3>1, SameFinite, TellFold!PartStep
    <3> HIDE DEF x
    <3>3. Cardinality(rest) = k /\ rest \in SUBSET U
      <4>1. Cardinality(rest) = Cardinality(t) - 1
        BY <1>1, <3>2, FS_RemoveElement
      <4> QED
        BY <2>1, <4>1
    <3>4. Good(rest)
      BY <1>3, <3>3
    <3> HIDE DEF Bag
    <3>5. CASE <<n, x>> \in gone
      <4>1. Bag(t) = Bag(rest)
        BY <3>2, <3>5 DEF TellPeer
      <4> QED
        BY <3>4, <3>5, <4>1
    <3>6. CASE <<n, x>> \notin gone
      <4>1. Bag(t) = Tell(Bag(rest), x, {m}) /\ x \in Node
        BY <3>2, <3>6 DEF TellPeer
      <4>2. /\ Bag(t) \in Bags /\ Covers(Bag(t), Bag(rest))
            /\ x # m => Bag(t)[x][m] > 0
            /\ \A q \in Node \ {x} : Bag(t)[q] = Bag(rest)[q]
        <5>1. Bag(rest) \in Bags
          BY <3>4
        <5>2. /\ Tell(Bag(rest), x, {m}) \in Bags
              /\ Covers(Tell(Bag(rest), x, {m}), Bag(rest))
              /\ x # m => Tell(Bag(rest), x, {m})[x][m] > 0
              /\ \A q \in Node \ {x} : Tell(Bag(rest), x, {m})[q] = Bag(rest)[q]
          BY <4>1, <5>1, TellOne
        <5> QED
          BY <4>1, <5>2
      <4>3. Covers(Bag(t), base)
        BY <3>4, <4>2 DEF Covers
      <4>4. ASSUME NEW p \in t \ {m}, <<n, p>> \notin gone
            PROVE  Bag(t)[p][m] > 0
        BY <3>4, <4>2, <4>4 DEF Covers
      <4>5. ASSUME NEW q \in Node, q \notin t \/ <<n, q>> \in gone
            PROVE  Bag(t)[q] = base[q]
        <5>1. q # x
          BY <3>2, <3>6, <4>5
        <5> QED
          BY <3>4, <4>2, <4>5, <5>1
      <4> QED
        BY <4>2, <4>3, <4>4, <4>5
    <3> QED
      BY <3>5, <3>6
  <2> HIDE DEF Good
  <2> QED
    BY <2>1
<1>4. Nat \subseteq S
  <2> HIDE DEF S
  <2> QED
    BY <1>2, <1>3, TellFold!Induction
<1>5. Cardinality(U) \in S
  <2> HIDE DEF S
  <2> QED
    BY <1>1, <1>4
<1>6. Good(U)
  BY <1>5
<1> QED
  BY <1>6

LEMMA RangeFinite ==
  ASSUME NEW S, NEW s \in Seq(S)
  PROVE  IsFiniteSet(Range(s)) /\ Range(s) \in SUBSET S
<1>1. IsFiniteSet(DOMAIN s)
  BY FS_Interval
<1>2. s \in Surjection(DOMAIN s, Range(s))
  BY DEF Surjection, Range
<1>3. IsFiniteSet(Range(s))
  BY <1>1, <1>2, FS_Surjection
<1> QED
  BY <1>3 DEF Range

\* What an "open" has announced, to the new peer and on the sockets in use.
LEMMA OpenAnnounces ==
  ASSUME ListsOK, announced \in Bags, NEW n \in Node, NEW m \in Node, n # m
  PROVE  /\ Announced(n, m) \in Bags /\ Covers(Announced(n, m), announced)
         /\ Announced(n, m)[m][n] > 0
         /\ \A k \in Range(connected[n]) \ {m} : Announced(n, m)[m][k] > 0
         /\ \A p \in Range(opened[n]) \ {m} : <<n, p>> \notin cut => Announced(n, m)[p][m] > 0
         /\ \A q \in Node \ {m} : ~IsOpened(n, q) \/ <<n, q>> \in cut
                                    => Announced(n, m)[q] = announced[q]
<1> DEFINE base == Tell(announced, m, {n} \cup Range(connected[n]))
           U == Range(opened[n])
           env == <<n, m, cut>>
           bag == TellFold!Part(env, base, U, U)
<1>1. IsFiniteSet(U) /\ U \in SUBSET Node /\ Range(connected[n]) \in SUBSET Node
  BY RangeFinite DEF ListsOK
<1>2. /\ base \in Bags /\ Covers(base, announced)
      /\ \A y \in ({n} \cup Range(connected[n])) \ {m} : base[m][y] > 0
      /\ \A q \in Node \ {m} : base[q] = announced[q]
  BY <1>1, TellAdds
<1>3. Announced(n, m) = TellFold!Gathered(env, base, U)
  BY DEF Announced, TellFold!Gathered, FoldSet, MapThenFoldSet, TellFold!FoldSet,
         TellFold!MapThenFoldSet, TellPeer
<1>4. Announced(n, m) = bag
  BY <1>3, TellFold!GatheredIsPart
<1> HIDE DEF base, U
<1>5. /\ bag \in Bags /\ Covers(bag, base)
      /\ \A p \in U \ {m} : <<n, p>> \notin cut => bag[p][m] > 0
      /\ \A q \in Node : q \notin U \/ <<n, q>> \in cut => bag[q] = base[q]
  BY <1>1, <1>2, TellAll
<1> HIDE DEF bag
<1>6. Covers(bag, announced)
  BY <1>2, <1>5 DEF Covers
<1>7. \A y \in ({n} \cup Range(connected[n])) \ {m} : bag[m][y] > 0
  BY <1>1, <1>2, <1>5 DEF Covers
<1>8. \A q \in Node \ {m} : ~IsOpened(n, q) \/ <<n, q>> \in cut => bag[q] = announced[q]
  BY <1>2, <1>5 DEF IsOpened, U
<1> QED
  BY <1>4, <1>5, <1>6, <1>7, <1>8 DEF U

-----------------------------------------------------------------------------
(* Contacts become mutual and are passed on.                               *)

\* A node that is down holds nothing and nothing is on its way to it.
DownIsSilent ==
  \A n \in Node : phase[n] = "down" =>
    opened[n] = << >> /\ dialing[n] = Nobody /\ announced[n] = Nobody

\* Who lists a node that is down has its "close" to come, and without harm
\* nobody else has.
DownIsCut == \A n, m \in Node : IsOpened(n, m) /\ phase[m] = "down" => <<n, m>> \in cut
CutIsDown == ~harmed => \A n, m \in Node : <<n, m>> \in cut => phase[m] = "down"

DownOK == PhaseOK /\ announced \in Bags /\ DownIsSilent /\ DownIsCut

IntroInv == PeersInv /\ DownOK /\ CutIsDown /\ Introduces

\* No node has counted so many connections that it ignores a HANDSHAKE.
Room == \A n \in Node : connectedNodes[n] <= MAX_PEERS

Used(n, m) == IsConnected(n, m) /\ <<n, m>> \notin cut

Known(n, m) ==
  /\ WillKnow(m, n)
  /\ \A k \in Node \ {m} : Used(n, k) => WillKnow(m, k)

LEMMA KnownIsIntroduces ==
  ASSUME PeersInv
  PROVE  Introduces <=> (~harmed => \A n, m \in Node : Used(n, m) => Known(n, m))
<1>1. \A n \in Node : Range(connected[n]) \in SUBSET Node
  BY RangeFinite DEF PeersInv, ListsOK
<1> QED
  BY <1>1 DEF Introduces, Used, Known, IsConnected

\* The contacts stay known when none is made and, among the nodes the
\* remaining ones are between, nothing known is lost.
LEMMA StillKnown ==
  ASSUME PeersInv, PeersInv', Introduces, ~harmed' => ~harmed, NEW W \in SUBSET Node,
         \A x, y \in Node : Used(x, y)' => Used(x, y) /\ x \in W /\ y \in W,
         \A x, y \in W : x # y /\ WillKnow(x, y) => WillKnow(x, y)'
  PROVE  Introduces'
<1>1. ASSUME ~harmed', NEW n \in Node, NEW m \in Node, Used(n, m)'
      PROVE  Known(n, m)'
  <2>1. Used(n, m) /\ n \in W /\ m \in W /\ n # m
    BY <1>1 DEF PeersInv, ListsAgree, Used, IsConnected
  <2>2. Known(n, m)
    BY <1>1, <2>1, KnownIsIntroduces
  <2>3. WillKnow(m, n)'
    BY <2>1, <2>2 DEF Known
  <2>4. ASSUME NEW k \in Node \ {m}, Used(n, k)'
        PROVE  WillKnow(m, k)'
    <3>1. Used(n, k) /\ k \in W
      BY <2>4
    <3> QED
      BY <2>1, <2>2, <2>4, <3>1 DEF Known
  <2> QED
    BY <2>3, <2>4 DEF Known
<1>2. Introduces' <=> (~harmed' => \A n, m \in Node : Used(n, m)' => Known(n, m)')
  <2>1. \A n \in Node : Range(connected[n])' \in SUBSET Node
    BY RangeFinite DEF PeersInv, ListsOK
  <2> QED
    BY <2>1 DEF Introduces, Used, Known, IsConnected
<1> QED
  BY <1>1, <1>2

\* Both ends of an "open" are up, and all that is announced is for nodes that
\* are up.
LEMMA OpenIntroduces ==
  ASSUME IntroInv, NEW n \in Node, NEW m \in Node, Open(n, m)
  PROVE  DownOK' /\ CutIsDown' /\ Introduces'
<1> DEFINE list == Append(opened[n], m)
<1>1. /\ phase' = phase /\ cut' = cut /\ harmed' = harmed /\ phase[m] # "down"
      /\ dialing' = [dialing EXCEPT ![n][m] = @ - 1] /\ dialing[n][m] > 0
      /\ announced' = Announced(n, m)
  BY DEF Open
<1>2. n # m /\ phase[n] # "down"
  BY <1>1 DEF IntroInv, PeersInv, DialsOthers, DownOK, DownIsSilent, Nobody
<1>3. PeersInv'
  BY OpenKeeps DEF IntroInv
<1>4. /\ announced' \in Bags /\ Covers(announced', announced)
      /\ announced'[m][n] > 0
      /\ \A k \in Range(connected[n]) \ {m} : announced'[m][k] > 0
      /\ \A p \in Range(opened[n]) \ {m} : <<n, p>> \notin cut => announced'[p][m] > 0
      /\ \A q \in Node \ {m} : ~IsOpened(n, q) \/ <<n, q>> \in cut
                                 => announced'[q] = announced[q]
  BY <1>1, <1>2, OpenAnnounces DEF IntroInv, PeersInv, DownOK
<1>5. /\ \A x \in Node \ {n} : opened'[x] = opened[x]
      /\ Range(opened'[n]) = Range(opened[n]) \cup {m}
  <2>1. CASE IsOpened(n, m)
    <3>1. opened' = opened
      BY <2>1 DEF Open
    <3> QED
      BY <2>1, <3>1 DEF IsOpened
  <2>2. CASE ~IsOpened(n, m)
    <3>1. opened' = [opened EXCEPT ![n] = list]
      BY <2>2 DEF Open
    <3>2. Range(list) = Range(opened[n]) \cup {m}
      BY <2>2, AppendNew DEF IntroInv, PeersInv, ListsOK, ListsAgree, IsOpened
    <3> HIDE DEF list
    <3> QED
      BY <3>1, <3>2 DEF IntroInv, PeersInv, ListsOK
  <2> QED
    BY <2>1, <2>2
<1>6. \A x, y \in Node : IsConnected(x, y)' <=> IsConnected(x, y) \/ (x = n /\ y = m)
  BY <1>3, <1>5 DEF IntroInv, PeersInv, ListsAgree, IsConnected
<1>7. DownIsSilent'
  <2>1. ASSUME NEW q \in Node, phase[q] = "down"
        PROVE  opened'[q] = << >> /\ dialing'[q] = Nobody /\ announced'[q] = Nobody
    <3>1. q # n /\ q # m
      BY <1>1, <1>2, <2>1
    <3>2. opened[q] = << >> /\ dialing[q] = Nobody /\ announced[q] = Nobody
      BY <2>1 DEF IntroInv, DownOK, DownIsSilent
    <3>3. ~IsOpened(n, q) \/ <<n, q>> \in cut
      BY <2>1 DEF IntroInv, DownOK, DownIsCut
    <3>4. dialing'[q] = dialing[q]
      BY <1>1, <3>1 DEF IntroInv, PeersInv, DialsOthers
    <3> QED
      BY <1>4, <1>5, <3>1, <3>2, <3>3, <3>4
  <2> QED
    BY <1>1, <2>1 DEF DownIsSilent, Nobody
<1>8. DownOK' /\ CutIsDown'
  <2>1. PhaseOK'
    BY <1>1 DEF IntroInv, DownOK, PhaseOK
  <2>2. DownIsCut'
    <3>1. ASSUME NEW x \in Node, NEW y \in Node, IsOpened(x, y)', phase[y] = "down"
          PROVE  <<x, y>> \in cut
      <4>1. IsOpened(x, y)
        BY <1>1, <1>5, <3>1 DEF IsOpened
      <4> QED
        BY <3>1, <4>1 DEF IntroInv, DownOK, DownIsCut
    <3> QED
      BY <1>1, <3>1 DEF DownIsCut
  <2>3. CutIsDown'
    BY <1>1 DEF IntroInv, CutIsDown
  <2>4. (announced \in Bags)'
    BY <1>4 DEF Bags
  <2> QED
    BY <1>7, <2>1, <2>2, <2>3, <2>4 DEF DownOK
<1>9. ASSUME NEW x \in Node, NEW y \in Node, WillKnow(x, y)
      PROVE  WillKnow(x, y)'
  <2>1. CASE announced[x][y] > 0
    BY <1>4, <2>1 DEF Covers, WillKnow
  <2>2. CASE dialing[x][y] > 0 /\ ~(x = n /\ y = m)
    <3>1. dialing'[x][y] = dialing[x][y]
      BY <1>1, <2>2 DEF IntroInv, PeersInv, DialsOthers
    <3> QED
      BY <2>2, <3>1 DEF WillKnow
  <2>3. CASE IsConnected(x, y) \/ (x = n /\ y = m)
    BY <1>6, <2>3 DEF WillKnow
  <2> QED
    BY <1>9, <2>1, <2>2, <2>3 DEF WillKnow
<1>10. ASSUME ~harmed', NEW x \in Node, NEW y \in Node, Used(x, y)'
       PROVE  Known(x, y)'
  <2>1. \A k \in Node : Used(x, k)' => Used(x, k) \/ (x = n /\ k = m)
    BY <1>1, <1>6 DEF Used
  <2>2. \A k \in Node : k # m /\ Used(n, k)' =>
          k \in Range(connected[n]) \ {m} /\ k \in Range(opened[n]) \ {m} /\ <<n, k>> \notin cut
    BY <1>1, <1>6 DEF Used, IsConnected, IntroInv, PeersInv, ListsAgree
  <2>3. CASE x = n /\ y = m
    <3>1. WillKnow(m, n)'
      BY <1>4 DEF WillKnow
    <3>2. \A k \in Node \ {m} : Used(n, k)' => WillKnow(m, k)'
      BY <1>4, <2>2 DEF WillKnow
    <3> QED
      BY <2>3, <3>1, <3>2 DEF Known
  <2>4. CASE ~(x = n /\ y = m)
    <3>1. Used(x, y)
      BY <1>10, <2>1, <2>4
    <3>2. Known(x, y)
      BY <1>1, <1>10, <3>1, KnownIsIntroduces DEF IntroInv
    <3>3. WillKnow(y, x)'
      BY <1>9, <3>2 DEF Known
    <3>4. ASSUME NEW k \in Node \ {y}, Used(x, k)'
          PROVE  WillKnow(y, k)'
      <4>1. CASE Used(x, k)
        BY <1>9, <3>2, <3>4, <4>1 DEF Known
      <4>2. CASE x = n /\ k = m
        <5>1. y # m /\ Used(n, y)'
          BY <1>10, <2>4, <4>2
        <5>2. announced'[y][m] > 0
          BY <1>4, <2>2, <5>1
        <5> QED
          BY <4>2, <5>2 DEF WillKnow
      <4> QED
        BY <2>1, <3>4, <4>1, <4>2
    <3> QED
      BY <3>3, <3>4 DEF Known
  <2> QED
    BY <2>3, <2>4
<1>11. Introduces'
  <2>1. \A x \in Node : Range(connected[x])' \in SUBSET Node
    BY <1>3, RangeFinite DEF PeersInv, ListsOK
  <2> QED
    BY <1>10, <2>1 DEF Introduces, Used, Known, IsConnected
<1> QED
  BY <1>8, <1>11

\* Who closes or dies leaves nobody ignorant who is still in contact.
LEMMA CloseIntroduces ==
  ASSUME IntroInv, NEW n \in Node, NEW m \in Node, Close(n, m)
  PROVE  DownOK' /\ CutIsDown' /\ Introduces'
<1>1. /\ UNCHANGED <<phase, dialing, announced, harmed>>
      /\ cut' = cut \ {<<n, m>>} /\ <<n, m>> \in cut
      /\ \A x \in Node \ {n} : opened'[x] = opened[x]
  BY DEF Close, IntroInv, PeersInv, ListsOK
<1>2. PeersInv' /\ \A k \in Node \ {m} : IsOpened(n, k) => IsOpened(n, k)'
  BY CloseKeeps DEF IntroInv
<1>3. IsOpened(n, m) /\ ~IsOpened(n, m)' /\ \A k \in Node : IsOpened(n, k)' => IsOpened(n, k)
  <2> DEFINE i == IndexOf(n, m)
             list == RemoveAt(opened[n], i)
  <2>1. IsConnected(n, m) /\ opened[n] = connected[n]
    BY <1>1 DEF IntroInv, PeersInv, CutIsListed, ListsAgree, IsOpened, IsConnected
  <2>2. i \in DOMAIN opened[n] /\ opened[n][i] = m
    BY <2>1 DEF IndexOf, IsConnected, Range
  <2>3. i # 0
    BY <2>2 DEF IntroInv, PeersInv, ListsOK
  <2>4. opened' = [opened EXCEPT ![n] = list]
    BY <2>3 DEF Close, Splice
  <2>5. Range(list) = Range(opened[n]) \ {m}
    BY <2>2, RemoveOne DEF IntroInv, PeersInv, ListsOK, ListsAgree
  <2> HIDE DEF i, list
  <2> QED
    BY <2>1, <2>4, <2>5 DEF IntroInv, PeersInv, ListsOK, IsOpened, IsConnected
<1>4. \A x, y \in Node : IsConnected(x, y)' <=> IsConnected(x, y) /\ ~(x = n /\ y = m)
  BY <1>1, <1>2, <1>3 DEF IntroInv, PeersInv, ListsAgree, IsConnected, IsOpened
<1>5. DownIsSilent'
  <2>1. phase[n] # "down"
    BY <1>3 DEF IntroInv, DownOK, DownIsSilent, IsOpened, Range
  <2> QED
    BY <1>1, <2>1 DEF IntroInv, DownOK, DownIsSilent, Nobody
<1>6. DownIsCut'
  BY <1>1, <1>3 DEF IntroInv, DownOK, DownIsCut, IsOpened
<1>7. DownOK'
  BY <1>1, <1>5, <1>6 DEF IntroInv, DownOK, PhaseOK, Bags
<1>8. CutIsDown'
  BY <1>1 DEF IntroInv, CutIsDown
<1>9. CASE harmed
  BY <1>1, <1>7, <1>8, <1>9 DEF Introduces
<1>10. CASE ~harmed
  <2> DEFINE W == Node \ {m}
  <2>1. phase[m] = "down" /\ connected[m] = << >>
    BY <1>1, <1>10 DEF IntroInv, CutIsDown, DownOK, DownIsSilent, PeersInv, ListsAgree
  <2>2. ASSUME NEW x \in Node, NEW y \in Node, Used(x, y)'
        PROVE  Used(x, y) /\ x \in W /\ y \in W
    <3>1. Used(x, y)
      BY <1>1, <1>4, <2>2 DEF Used
    <3>2. x # m
      BY <2>1, <3>1 DEF Used, IsConnected, Range
    <3>3. y # m
      BY <2>1, <3>1 DEF Used, IsConnected, IntroInv, DownOK, DownIsCut, PeersInv, ListsAgree,
                        IsOpened
    <3> QED
      BY <3>1, <3>2, <3>3
  <2>3. \A x, y \in W : WillKnow(x, y) => WillKnow(x, y)'
    BY <1>1, <1>4 DEF WillKnow
  <2>4. Introduces'
    BY <1>1, <1>2, <2>2, <2>3, StillKnown DEF IntroInv
  <2> QED
    BY <1>7, <1>8, <2>4
<1> QED
  BY <1>9, <1>10

LEMMA CrashIntroduces ==
  ASSUME IntroInv, NEW n \in Node, Crash(n)
  PROVE  DownOK' /\ CutIsDown' /\ Introduces'
<1>1. /\ opened' = [opened EXCEPT ![n] = << >>]
      /\ connected' = [connected EXCEPT ![n] = << >>]
      /\ dialing' = [[m \in Node |-> [dialing[m] EXCEPT ![n] = 0]] EXCEPT ![n] = Nobody]
      /\ announced' = [announced EXCEPT ![n] = Nobody]
      /\ phase' = [phase EXCEPT ![n] = "down"]
      /\ ~harmed' => ~harmed
      /\ cut' = {e \in cut : e[1] # n}
                 \cup {<<m, n>> : m \in {k \in Node \ {n} : IsOpened(k, n)}}
  BY DEF Crash
<1>2. PeersInv'
  BY CrashKeeps DEF IntroInv
<1>3. \A x, y \in Node :
        /\ <<x, y>> \in cut' <=> x # n /\ (<<x, y>> \in cut \/ (y = n /\ IsOpened(x, n)))
        /\ IsOpened(x, y)' <=> x # n /\ IsOpened(x, y)
        /\ IsConnected(x, y)' <=> x # n /\ IsConnected(x, y)
  BY <1>1 DEF IsOpened, IsConnected, Range, IntroInv, PeersInv, ListsOK
<1>4. /\ dialing'[n] = Nobody /\ announced'[n] = Nobody /\ opened'[n] = << >>
      /\ \A x \in Node \ {n} : /\ dialing'[x] = [dialing[x] EXCEPT ![n] = 0]
                               /\ announced'[x] = announced[x] /\ opened'[x] = opened[x]
                               /\ phase'[x] = phase[x]
  BY <1>1 DEF IntroInv, PeersInv, ListsOK, DialsOthers, DownOK, PhaseOK, Bags
<1>5. DownIsSilent'
  BY <1>4 DEF IntroInv, DownOK, DownIsSilent, Nobody
<1>6. DownIsCut'
  BY <1>3, <1>4 DEF IntroInv, DownOK, DownIsCut
<1>7. PhaseOK' /\ (announced \in Bags)'
  BY <1>1 DEF IntroInv, DownOK, PhaseOK, Bags, Nobody
<1>8. CutIsDown'
  BY <1>1, <1>3, <1>4 DEF IntroInv, CutIsDown, DownOK, PhaseOK
<1>9. Introduces'
  <2> DEFINE W == Node \ {n}
  <2>1. ASSUME NEW x \in Node, NEW y \in Node, Used(x, y)'
        PROVE  Used(x, y) /\ x \in W /\ y \in W
    <3>1. x # n /\ Used(x, y)
      BY <1>3, <2>1 DEF Used
    <3>2. y # n
      BY <1>3, <2>1, <3>1 DEF Used, IsConnected, IsOpened, IntroInv, PeersInv, ListsAgree
    <3> QED
      BY <3>1, <3>2
  <2>2. ASSUME NEW x \in W, NEW y \in W, WillKnow(x, y)
        PROVE  WillKnow(x, y)'
    <3>1. dialing'[x][y] = dialing[x][y] /\ announced'[x][y] = announced[x][y]
      <4>1. dialing[x] \in [Node -> Nat] /\ x \in Node \ {n} /\ y \in Node \ {n}
        BY DEF IntroInv, PeersInv, DialsOthers
      <4>2. dialing'[x] = [dialing[x] EXCEPT ![n] = 0] /\ announced'[x] = announced[x]
        BY <1>4, <4>1
      <4> QED
        BY <4>1, <4>2
    <3> QED
      BY <1>3, <2>2, <3>1 DEF WillKnow
  <2> QED
    BY <1>1, <1>2, <2>1, <2>2, StillKnown DEF IntroInv
<1> QED
  BY <1>5, <1>6, <1>7, <1>8, <1>9 DEF DownOK

\* A HANDSHAKE is taken for a dial unless the sender is known.
LEMMA OthersIntroduce ==
  ASSUME IntroInv, Room, NEW n \in Node, NEW m \in Node,
         \/ DialPeers(n) \/ Restart(n)
         \/ Handshake(n, m) \/ Refuse(n, m) \/ Lose(n, m)
  PROVE  DownOK' /\ CutIsDown' /\ Introduces'
<1>1. PeersInv' /\ UNCHANGED <<opened, connected>>
  BY OthersKeep DEF IntroInv
<1>2. \A x, y \in Node : (IsOpened(x, y)' <=> IsOpened(x, y))
                         /\ (IsConnected(x, y)' <=> IsConnected(x, y))
  BY <1>1 DEF IsOpened, IsConnected
<1>3. CASE DialPeers(n)
  <2> DEFINE row == [k \in Node |-> IF k \in PEERS[n] /\ Dials(n, k)
                                   THEN dialing[n][k] + 1 ELSE dialing[n][k]]
  <2>1. /\ dialing' = [dialing EXCEPT ![n] = row]
        /\ phase' = [phase EXCEPT ![n] = "running"] /\ phase[n] = "listening"
        /\ UNCHANGED <<cut, announced, harmed>>
    BY <1>3 DEF DialPeers
  <2>2. \A y \in Node : dialing[n][y] > 0 => row[y] > 0
    BY DEF IntroInv, PeersInv, DialsOthers
  <2> HIDE DEF row
  <2>3. \A x, y \in Node : WillKnow(x, y) => WillKnow(x, y)'
    BY <1>2, <2>1, <2>2 DEF WillKnow, IntroInv, PeersInv, DialsOthers
  <2>4. \A x, y \in Node : Used(x, y)' => Used(x, y)
    BY <1>2, <2>1 DEF Used
  <2>5. Introduces'
    BY <1>1, <2>1, <2>3, <2>4, StillKnown DEF IntroInv
  <2>6. \A x \in Node : phase'[x] = "down" =>
          phase[x] = "down" /\ dialing'[x] = dialing[x]
    BY <2>1 DEF IntroInv, DownOK, PhaseOK, PeersInv, DialsOthers
  <2>7. DownIsSilent' /\ DownIsCut'
    BY <1>1, <1>2, <2>1, <2>6 DEF IntroInv, DownOK, DownIsSilent, DownIsCut, Nobody
  <2>8. \A x \in Node : phase[x] = "down" => phase'[x] = "down"
    BY <2>1 DEF IntroInv, DownOK, PhaseOK
  <2>9. CutIsDown'
    BY <2>1, <2>8 DEF IntroInv, CutIsDown
  <2> QED
    BY <2>1, <2>5, <2>7, <2>9 DEF IntroInv, DownOK, PhaseOK, Bags
<1>4. CASE Restart(n)
  <2>1. /\ phase' = [phase EXCEPT ![n] = "listening"] /\ phase[n] = "down"
        /\ harmed' = (harmed \/ \E x \in Node : <<x, n>> \in cut)
        /\ UNCHANGED <<dialing, cut, announced>>
    BY <1>4 DEF Restart
  <2>2. ~harmed' => ~harmed
    BY <2>1
  <2>3. Introduces'
    BY <1>1, <1>2, <2>1, <2>2, StillKnown DEF IntroInv, Used, WillKnow
  <2>4. \A x \in Node : phase'[x] = "down" => phase[x] = "down"
    BY <2>1 DEF IntroInv, DownOK, PhaseOK
  <2>5. DownIsSilent' /\ DownIsCut'
    BY <1>1, <1>2, <2>1, <2>4 DEF IntroInv, DownOK, DownIsSilent, DownIsCut, Nobody
  <2>6. CutIsDown'
    BY <2>1, <2>2 DEF IntroInv, CutIsDown, DownOK, PhaseOK
  <2> QED
    BY <2>1, <2>3, <2>5, <2>6 DEF IntroInv, DownOK, PhaseOK, Bags
<1>5. CASE Handshake(n, m)
  <2>1. /\ announced' = [announced EXCEPT ![n][m] = @ - 1] /\ announced[n][m] > 0
        /\ UNCHANGED <<phase, cut, harmed>>
        /\ IF Dials(n, m) THEN dialing' = [dialing EXCEPT ![n][m] = @ + 1]
                          ELSE dialing' = dialing
    BY <1>5 DEF Handshake, Room
  <2>2. phase[n] # "down"
    BY <2>1 DEF IntroInv, DownOK, DownIsSilent, Nobody
  <2>3. /\ announced' \in Bags
        /\ \A x, y \in Node : ~(x = n /\ y = m) => announced'[x][y] = announced[x][y]
        /\ \A x \in Node \ {n} : announced'[x] = announced[x]
    BY <2>1 DEF IntroInv, DownOK, Bags
  <2>4. /\ \A x, y \in Node : dialing[x][y] > 0 => dialing'[x][y] > 0
        /\ Dials(n, m) => dialing'[n][m] > 0
        /\ \A x \in Node \ {n} : dialing'[x] = dialing[x]
    BY <2>1 DEF IntroInv, PeersInv, DialsOthers
  <2>5. \A x, y \in Node : x # y /\ WillKnow(x, y) => WillKnow(x, y)'
    BY <1>2, <2>3, <2>4 DEF WillKnow, Dials
  <2>6. Introduces'
    BY <1>1, <1>2, <2>1, <2>5, StillKnown DEF IntroInv, Used
  <2>7. DownIsSilent' /\ DownIsCut'
    BY <1>1, <1>2, <2>1, <2>2, <2>3, <2>4 DEF IntroInv, DownOK, DownIsSilent, DownIsCut, Nobody
  <2> QED
    BY <2>1, <2>3, <2>6, <2>7 DEF IntroInv, DownOK, PhaseOK, CutIsDown, Bags
<1>6. CASE Refuse(n, m)
  <2>1. /\ dialing' = [dialing EXCEPT ![n][m] = @ - 1] /\ dialing[n][m] > 0
        /\ harmed' = TRUE /\ UNCHANGED <<phase, cut, announced>>
    BY <1>6 DEF Refuse
  <2>2. phase[n] # "down"
    BY <2>1 DEF IntroInv, DownOK, DownIsSilent, Nobody
  <2>3. \A x \in Node \ {n} : dialing'[x] = dialing[x]
    BY <2>1 DEF IntroInv, PeersInv, DialsOthers
  <2>4. DownIsSilent' /\ DownIsCut'
    BY <1>1, <1>2, <2>1, <2>2, <2>3 DEF IntroInv, DownOK, DownIsSilent, DownIsCut, Nobody
  <2> QED
    BY <2>1, <2>4 DEF IntroInv, DownOK, PhaseOK, CutIsDown, Introduces, Bags
<1>7. CASE Lose(n, m)
  <2>1. /\ cut' = cut \cup {<<n, m>>} /\ harmed' = TRUE
        /\ UNCHANGED <<phase, dialing, announced>>
    BY <1>7 DEF Lose
  <2>2. DownIsSilent' /\ DownIsCut'
    BY <1>1, <1>2, <2>1 DEF IntroInv, DownOK, DownIsSilent, DownIsCut, Nobody
  <2> QED
    BY <2>1, <2>2 DEF IntroInv, DownOK, PhaseOK, CutIsDown, Introduces, Bags
<1> QED
  BY <1>3, <1>4, <1>5, <1>6, <1>7

\* While there is room, without harm, contacts become mutual and the peers of
\* a node get to know each other: what would make them do so is under way
\* until it is done, whatever dies and returns and in whatever order HANDSHAKEs,
\* openings and closings come.
THEOREM ContactsAreIntroduced == Spec /\ []Room => []Introduces
<1>1. Init => IntroInv
  <2> SUFFICES ASSUME Init PROVE IntroInv
    OBVIOUS
  <2>1. PeersInv
    BY InitOK
  <2>2. DownOK /\ CutIsDown
    BY DEF Init, DownOK, PhaseOK, Bags, DownIsSilent, DownIsCut, CutIsDown, Nobody
  <2>3. Introduces
    BY DEF Init, Introduces, IsConnected, Range
  <2> QED
    BY <2>1, <2>2, <2>3 DEF IntroInv
<1>2. IntroInv /\ Room /\ [Next]_vars => IntroInv'
  <2> SUFFICES ASSUME IntroInv, Room, [Next]_vars PROVE IntroInv'
    OBVIOUS
  <2>1. PeersInv'
    BY NextKeeps DEF IntroInv
  <2>2. CASE UNCHANGED vars
    BY <2>1, <2>2 DEF vars, lists, IntroInv, DownOK, PhaseOK, Bags, DownIsSilent, DownIsCut,
         CutIsDown, Introduces, WillKnow, IsConnected, IsOpened, Nobody
  <2>3. ASSUME NEW n \in Node, DialPeers(n) \/ Crash(n) \/ Restart(n)
        PROVE  IntroInv'
    BY <2>1, <2>3, CrashIntroduces, OthersIntroduce DEF IntroInv
  <2>4. ASSUME NEW n \in Node, NEW m \in Node,
               Open(n, m) \/ Handshake(n, m) \/ Close(n, m) \/ Refuse(n, m) \/ Lose(n, m)
        PROVE  IntroInv'
    BY <2>1, <2>4, OpenIntroduces, CloseIntroduces, OthersIntroduce DEF IntroInv
  <2> QED
    BY <2>2, <2>3, <2>4 DEF Next
<1>3. IntroInv => Introduces
  BY DEF IntroInv
<1> QED
  BY <1>1, <1>2, <1>3, PTL DEF Spec

=============================================================================
