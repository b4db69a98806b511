------------------------- MODULE MCKnowledgeGraph -------------------------
(* TLC instance of KnowledgeGraph: two nodes, one property key, and three *)
(* caller dicts, one of them empty.                                       *)
EXTENDS KnowledgeGraph

CONSTANTS a, b, t1, r1, r2, k1, v1, v2

MCNodeIds == {a, b}
MCRels == {r1, r2}
MCCallerDicts == << [k \in {k1} |-> v1], [k \in {k1} |-> v2], [k \in {k1} |-> Absent] >>
=============================================================================
