------------------------- MODULE MCSockTransaction -------------------------
(* Instances of SockTransaction for TLC *)
EXTENDS SockTransaction, TLC

CONSTANTS c1, c2, c3

OneConn    == {c1}
TwoConns   == {c1, c2}
ThreeConns == {c1, c2, c3}

\* Connections are interchangeable: none is named in the specification
ConnSymmetry == Permutations(Conns)

=============================================================================
