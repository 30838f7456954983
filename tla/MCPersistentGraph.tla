------------------------- MODULE MCPersistentGraph -------------------------
(* Small instances of PersistentGraph for TLC. *)
EXTENDS PersistentGraph, TLC

CONSTANTS p1, p2, k1, k2, v1, v2

Nodes2 == 1..2
Nodes3 == 1..3
Edges2 == 1..2
NoEdges == {}

\* The empty file, or one node.
OneNode == {EmptyGraph, [nodes |-> (1 :> [key |-> k1, val |-> v1]), edges |-> NoEntries]}
OnlyEmpty == {EmptyGraph}
OnlyOne == OneNode \ {EmptyGraph}

\* Changes per life: two or three each, or two for p1 and one for p2.
TwoEach == [p \in Proc |-> 2]
ThreeEach == [p \in Proc |-> 3]
TwoAndOne == [p \in Proc |-> IF p = p1 THEN 2 ELSE 1]

\* Bound: processes start, or die, only before a second node exists.
EarlyCrash == \A p \in Proc : pc[p] = "down" => stamp <= 1 /\ usedNodes = {1}

\* Nothing but the cache itself depends on what is in the cache: a run about
\* the file need not tell states apart by it.
WithoutCache == <<disk, stamp, tmp, lock, pc, seen, journal, cached, cstamp, gen,
                  usedNodes, usedEdges>>

Symmetry == Permutations(Proc)
=============================================================================
