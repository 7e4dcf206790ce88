----------------------------- MODULE MCP2PChat -----------------------------
(* The peer-to-peer chat for TLC: three nodes. *)
EXTENDS P2PChat

CONSTANTS n1, n2, n3

\* n1 and n2 may greet each other, and then all three in a ring.
Ring == {<<n1, n2>>, <<n2, n1>>, <<n2, n3>>, <<n3, n1>>}
\* Somebody may even add the own address.
Pair == {<<n1, n2>>, <<n2, n3>>, <<n1, n1>>}
Distinct == {<<n, n>> : n \in Node}         \* no address is a part of another
\* "10.0.0.1:5999" is a part of "10.0.0.1:59999".
OneInAnother == Distinct \cup {<<n1, n2>>}
=============================================================================
