--------------------------------- MODULE Peers ---------------------------------
(***************************************************************************)
(* How JeChain nodes find each other: the HANDSHAKE handler, connect() and *)
(* its "open" and "close" callbacks in src/node/server.js, and the dialling *)
(* of the configured peers at start-up.                                    *)
(*                                                                         *)
(* A socket carries messages one way, from the node that dialled it to a    *)
(* server, which answers by dialling back.  A node uses the first socket to *)
(* an address that opens and lists it; a later one stays open, is never     *)
(* used and has no "close" listener, so it is not kept here.  HANDSHAKE     *)
(* messages are a bag: the handler does not look at who sent one, and they  *)
(* come from many sockets.  No other message changes this state.           *)
(***************************************************************************)
EXTENDS Naturals, Sequences, FiniteSets, SequencesExt

CONSTANTS
  Node,        \* nodes, each standing for its own address
  PEERS,       \* node -> the addresses it is configured to dial
  MAX_PEERS,
  MaxDials,    \* bound: dials of one address in progress at a node
  MaxCopies,   \* bound: equal HANDSHAKEs on their way to a node
  MaxFaults    \* bound: refused dials, lost connections and crashes

ASSUME PeersAssumption ==
  /\ PEERS \in [Node -> SUBSET Node]
  /\ MAX_PEERS \in Nat /\ MaxDials \in Nat /\ MaxCopies \in Nat \ {0} /\ MaxFaults \in Nat

VARIABLES
  phase,            \* node -> how far startServer has come
  dialing,          \* node -> address -> sockets that are not open yet
  opened,           \* node -> addresses whose socket is used
  connected,        \* node -> addresses
  connectedNodes,   \* node -> connections ever listed by this process
  cut,              \* <<n, m>>: the listed socket from n to m is gone and its
                    \* "close" event has not been handled
  announced,        \* node -> address -> HANDSHAKEs on their way to the node
  faults,           \* faults so far
  harmed            \* was there a fault that start-up does not make good?

lists == <<opened, connected, connectedNodes>>
vars == <<phase, dialing, lists, cut, announced, faults, harmed>>

Nobody == [m \in Node |-> 0]

Init ==
  /\ phase = [n \in Node |-> "listening"]
  /\ dialing = [n \in Node |-> Nobody]
  /\ opened = [n \in Node |-> << >>]
  /\ connected = [n \in Node |-> << >>]
  /\ connectedNodes = [n \in Node |-> 0]
  /\ cut = {}
  /\ announced = [n \in Node |-> Nobody]
  /\ faults = 0
  /\ harmed = FALSE

-----------------------------------------------------------------------------
(* The lists of a node.                                                    *)

IsConnected(n, a) == a \in Range(connected[n])
IsOpened(n, a) == a \in Range(opened[n])

\* connect() dials an address that is neither known nor the node's own.
Dials(n, a) == ~IsConnected(n, a) /\ a # n

\* connected.indexOf(a) from 1 on; 0 stands for -1.
IndexOf(n, a) ==
  IF IsConnected(n, a) THEN CHOOSE i \in DOMAIN connected[n] : connected[n][i] = a ELSE 0

\* list.splice(i - 1, 1): an index of -1 takes the last element.
Splice(list, i) == IF i = 0 THEN Front(list) ELSE RemoveAt(list, i)

\* One HANDSHAKE of each address of told on the socket to m; m ignores its own.
Tell(bag, m, told) ==
  [bag EXCEPT ![m] = [a \in Node |->
     IF a \in told \ {m} /\ @[a] < MaxCopies THEN @[a] + 1 ELSE @[a]]]

-----------------------------------------------------------------------------
(* Start-up: the server listens while the stores are still being read.     *)

DialPeers(n) ==
  /\ phase[n] = "listening"
  /\ \A m \in PEERS[n] : dialing[n][m] < MaxDials
  /\ phase' = [phase EXCEPT ![n] = "running"]
  /\ dialing' = [dialing EXCEPT ![n] =
       [m \in Node |-> IF m \in PEERS[n] /\ Dials(n, m) THEN @[m] + 1 ELSE @[m]]]
  /\ UNCHANGED <<lists, cut, announced, faults, harmed>>

-----------------------------------------------------------------------------
(* Handlers.                                                               *)

\* Mutant: the new address is not announced on the sockets in use.
AnnouncedToNew(n, m) == Tell(announced, m, {n} \cup Range(connected[n]))

\* On the new socket the node announces itself and every address it knows,
\* and on the sockets in use the new address.
Announced(n, m) ==
  FoldSet(LAMBDA peer, bag : IF <<n, peer>> \in cut THEN bag ELSE Tell(bag, peer, {m}),
          Tell(announced, m, {n} \cup Range(connected[n])),
          Range(opened[n]))

ListConnected(n, m) ==
  /\ connected' = [connected EXCEPT ![n] = Append(@, m)]
  /\ connectedNodes' = [connectedNodes EXCEPT ![n] = @ + 1]

\* The "open" callback.
Open(n, m) ==
  /\ dialing[n][m] > 0
  /\ phase[m] # "down"
  /\ dialing' = [dialing EXCEPT ![n][m] = @ - 1]
  /\ announced' = Announced(n, m)
  /\ opened' = IF IsOpened(n, m) THEN opened ELSE [opened EXCEPT ![n] = Append(@, m)]
  /\ IF IsConnected(n, m)
     THEN UNCHANGED <<connected, connectedNodes>>
     ELSE ListConnected(n, m)
  /\ UNCHANGED <<phase, cut, faults, harmed>>

\* HANDSHAKE.
Handshake(n, a) ==
  /\ announced[n][a] > 0
  /\ announced' = [announced EXCEPT ![n][a] = @ - 1]
  /\ IF connectedNodes[n] <= MAX_PEERS /\ Dials(n, a)
     THEN dialing[n][a] < MaxDials /\ dialing' = [dialing EXCEPT ![n][a] = @ + 1]
     ELSE dialing' = dialing
  /\ UNCHANGED <<phase, lists, cut, faults, harmed>>

\* Mutant: connected is spliced first, so that the other index is -1.
CloseInOtherOrder(n, m) ==
  /\ <<n, m>> \in cut
  /\ cut' = cut \ {<<n, m>>}
  /\ opened' = [opened EXCEPT ![n] = Splice(@, 0)]
  /\ connected' = [connected EXCEPT ![n] = Splice(@, IndexOf(n, m))]
  /\ UNCHANGED <<phase, dialing, connectedNodes, announced, faults, harmed>>

\* Mutant: the address stays in connected.
CloseKeepsAddress(n, m) ==
  /\ <<n, m>> \in cut
  /\ cut' = cut \ {<<n, m>>}
  /\ opened' = [opened EXCEPT ![n] = Splice(@, IndexOf(n, m))]
  /\ UNCHANGED <<phase, dialing, connected, connectedNodes, announced, faults, harmed>>

\* The "close" callback of a listed socket.
Close(n, m) ==
  /\ <<n, m>> \in cut
  /\ cut' = cut \ {<<n, m>>}
  /\ opened' = [opened EXCEPT ![n] = Splice(@, IndexOf(n, m))]
  /\ connected' = [connected EXCEPT ![n] = Splice(@, IndexOf(n, m))]
  /\ UNCHANGED <<phase, dialing, connectedNodes, announced, faults, harmed>>

-----------------------------------------------------------------------------
(* Faults.                                                                 *)

\* A dial fails and is not repeated.
Refuse(n, m) ==
  /\ dialing[n][m] > 0
  /\ faults < MaxFaults
  /\ faults' = faults + 1
  /\ harmed' = TRUE
  /\ dialing' = [dialing EXCEPT ![n][m] = @ - 1]
  /\ UNCHANGED <<phase, lists, cut, announced>>

\* A connection in use is lost; what was sent on it may still have arrived.
Lose(n, m) ==
  /\ IsOpened(n, m) /\ <<n, m>> \notin cut
  /\ faults < MaxFaults
  /\ faults' = faults + 1
  /\ harmed' = TRUE
  /\ cut' = cut \cup {<<n, m>>}
  /\ UNCHANGED <<phase, dialing, lists, announced>>

\* A node dies and forgets everything.  What it sent may still arrive.  No
\* harm is done by the crash of a node that has somebody to dial when it is
\* back and is nobody's configured peer.
Crash(n) ==
  /\ phase[n] # "down"
  /\ faults < MaxFaults
  /\ faults' = faults + 1
  /\ harmed' = (harmed \/ PEERS[n] = {} \/ \E m \in Node : n \in PEERS[m])
  /\ phase' = [phase EXCEPT ![n] = "down"]
  /\ opened' = [opened EXCEPT ![n] = << >>]
  /\ connected' = [connected EXCEPT ![n] = << >>]
  /\ connectedNodes' = [connectedNodes EXCEPT ![n] = 0]
  /\ dialing' = [[m \in Node |-> [dialing[m] EXCEPT ![n] = 0]] EXCEPT ![n] = Nobody]
  /\ announced' = [announced EXCEPT ![n] = Nobody]
  /\ cut' = {e \in cut : e[1] # n} \cup {<<m, n>> : m \in {k \in Node \ {n} : IsOpened(k, n)}}

\* The node is started again; harm is done when a peer has not noticed yet.
Restart(n) ==
  /\ phase[n] = "down"
  /\ phase' = [phase EXCEPT ![n] = "listening"]
  /\ harmed' = (harmed \/ \E m \in Node : <<m, n>> \in cut)
  /\ UNCHANGED <<dialing, lists, cut, announced, faults>>

-----------------------------------------------------------------------------
Next ==
  \/ \E n \in Node : DialPeers(n) \/ Crash(n) \/ Restart(n)
  \/ \E n, m \in Node :
       Open(n, m) \/ Handshake(n, m) \/ Close(n, m) \/ Refuse(n, m) \/ Lose(n, m)

Spec == Init /\ [][Next]_vars

\* Nodes start, dials that are not refused succeed, messages and "close"
\* events arrive.
Fairness ==
  /\ \A n \in Node : WF_vars(DialPeers(n)) /\ WF_vars(Restart(n))
  /\ \A n, m \in Node : WF_vars(Open(n, m)) /\ WF_vars(Handshake(n, m)) /\ WF_vars(Close(n, m))

FairSpec == Spec /\ Fairness

-----------------------------------------------------------------------------
(* Correctness.                                                            *)

\* opened and connected list the same addresses in the same order, each once
\* and never the node's own: close removes from one by an index of the other.
ListsAgree ==
  \A n \in Node : /\ opened[n] = connected[n]
                  /\ IsInjective(connected[n])
                  /\ n \notin Range(connected[n])

\* A node stops listing a peer only when its connection is gone or the node
\* itself has died: the close of one connection removes no other one.
KeepsOthers ==
  [][\A n, m \in Node : IsOpened(n, m) /\ ~IsOpened(n, m)'
       => <<n, m>> \in cut \/ phase'[n] = "down"]_vars

Up(n) == phase[n] # "down"

\* n knows m or is about to learn of it.
WillKnow(n, m) == IsConnected(n, m) \/ dialing[n][m] > 0 \/ announced[n][m] > 0

\* Contacts become mutual and are passed on: without harm, a node that is
\* known to a peer knows it in return, and two peers of one node know each
\* other, or a dial or a HANDSHAKE that will bring this about is under way.
Introduces ==
  ~harmed => \A n, m \in Node :
    IsConnected(n, m) /\ <<n, m>> \notin cut =>
      /\ WillKnow(m, n)
      /\ \A k \in Range(connected[n]) \ {m} : <<n, k>> \notin cut => WillKnow(m, k)

\* Every node ends up connected to every other one, a node that died and
\* came back included, unless a fault did harm.
FullMesh == \A n \in Node : Up(n) /\ Range(connected[n]) = Node \ {n}
Heals == <>[](~harmed => FullMesh)

=============================================================================
