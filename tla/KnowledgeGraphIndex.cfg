\* Any sequence of add_node and add_edge calls: node_edges indexes exactly the edges of each node, and get_related_nodes and query answer from the edges.
CONSTANTS
    a = a
    b = b
    t1 = t1
    r1 = r1
    r2 = r2
    k1 = k1
    v1 = v1
    v2 = v2
    NodeIds <- MCNodeIds
    Types = {t1}
    Rels <- MCRels
    PKeys = {k1}
    PValues = {v1, v2}
    Absent = Absent
    CallerDicts <- MCCallerDicts
    MaxObjs = 5
    MaxEdges = 3
SPECIFICATION Spec
INVARIANT EdgesIndexed
INVARIANT RelatedFollowsEdges
INVARIANT QueryFollowsEdges
