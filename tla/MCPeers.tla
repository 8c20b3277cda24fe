------------------------------- MODULE MCPeers -------------------------------
(* The configured peers for the run of Peers.                               *)
EXTENDS Peers

CONSTANTS a, b, c

\* The usual way into the network: b and c know a, a waits to be dialled.
OneSeed == (a :> {}) @@ (b :> {a}) @@ (c :> {a})

=============================================================================
