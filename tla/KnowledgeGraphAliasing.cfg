\* One caller dict handed to add_node for two nodes: updating one node changes the other (violation).
CONSTANTS
    a = a
    b = b
    t1 = t1
    r1 = r1
    r2 = r2
    k1 = k1
    v1 = v1
    v2 = v2
    NodeIds <- MCNodeIds
    Types = {t1}
    Rels <- MCRels
    PKeys = {k1}
    PValues = {v1, v2}
    Absent = Absent
    CallerDicts <- MCCallerDicts
    MaxObjs = 5
    MaxEdges = 3
SPECIFICATION Spec

PROPERTY NodesOwnProperties
