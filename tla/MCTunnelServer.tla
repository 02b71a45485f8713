--------------------------- MODULE MCTunnelServer ---------------------------
(***************************************************************************)
(* Instances of TunnelServer for TLC: constants and symmetry.              *)
(***************************************************************************)
EXTENDS TunnelServer, TLC

CONSTANTS a1, a2, a3, b1, alice, p1, p2

\* Connections of one client; b1 is a connection whose key has no comment and
\* shares the client's port.
NamesOfAll   == [s \in Sessions |-> IF s = b1 THEN NoName ELSE alice]
AllowedP1    == [s \in Sessions |-> {p1}]

\* Requests the clients send: only "-R p1", or every kind.
ForwardOnly  == [op : {"forward"}, port : {p1}]
AllReqs      == [op : {"forward", "cancel"}, port : Ports] \cup [op : {"other"}, port : {NoPort}]

\* Remote addresses: one per connection, named like the connection.
OwnAddr      == [s \in Sessions |-> s]

\* Connections of the client are interchangeable: OwnAddr maps each to itself.
ClientSymmetry == Permutations({a1, a2, a3})
=============================================================================
