------------------------- MODULE MCGraphQueryIndex -------------------------
(* Small instances of GraphQueryIndex for TLC. *)
EXTENDS GraphQueryIndex, TLC

CONSTANTS p1, p2, k1, k2, v1, v2

Nodes1 == 1..1
Nodes2 == 1..2
Edges1 == 1..1
NoEdges == {}
OnlyOne == {[nodes |-> (1 :> [key |-> k1, val |-> v1]), edges |-> NoEntries]}
FourEach == [p \in Proc |-> 4]
OneEach == [p \in Proc |-> 1]

\* Nothing but the cache itself depends on what is in the node cache.
WithoutCache == <<disk, stamp, tmp, lock, pc, seen, journal, cached, cstamp, gen,
                  usedNodes, usedEdges, queryVars>>
=============================================================================
