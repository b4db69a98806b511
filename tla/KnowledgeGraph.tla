--------------------------- MODULE KnowledgeGraph ---------------------------
(***************************************************************************)
(* KnowledgeGraph (src/bantu_os/memory/knowledge_graph.py): nodes, the    *)
(* edge list and the per-node edge index, under add_node and add_edge.     *)
(*                                                                         *)
(* Python dicts are objects: a node's properties is a reference into a     *)
(* heap of dict objects.  The caller passes one of its own dicts, or None; *)
(* `properties or {}` keeps the caller's dict itself unless it is empty,   *)
(* and then a fresh {} is made.  An edge is identified by its position in  *)
(* self.edges; edge properties are left out.                               *)
(***************************************************************************)
EXTENDS Naturals, Sequences

CONSTANTS
    NodeIds,       \* node ids
    Types,         \* node types
    Rels,          \* relationship names
    PKeys,         \* property keys
    PValues,       \* property values
    Absent,        \* no such key / no such node
    CallerDicts,   \* the caller's dicts, heap objects 1..Len(CallerDicts)
    MaxObjs,       \* bound on the heap
    MaxEdges       \* bound on add_edge

(* The caller's dicts fit the heap, and Absent is no node, list or dict. *)
ASSUME GraphAssumption ==
    /\ MaxObjs \in Nat /\ MaxEdges \in Nat
    /\ CallerDicts \in Seq([PKeys -> PValues \cup {Absent}])
    /\ Len(CallerDicts) <= MaxObjs
    /\ Absent \notin Seq(Nat) \cup [type : Types, props : Nat]

Dict == [PKeys -> PValues \cup {Absent}]
EmptyDict == [k \in PKeys |-> Absent]

VARIABLES
    heap,        \* heap[o]: the dict object o
    nodes,       \* nodes[n]: [type, props] (props an object), or Absent
    edges,       \* self.edges: [src, tgt, rel]
    nodeEdges    \* self.node_edges[n]: positions in edges, or Absent

vars == <<heap, nodes, edges, nodeEdges>>

Present(n) == nodes[n] # Absent
Callers == 1..Len(CallerDicts)

TypeOK ==
    /\ heap \in Seq(Dict)
    /\ nodes \in [NodeIds -> {Absent} \cup [type : Types, props : 1..MaxObjs]]
    /\ edges \in Seq([src : NodeIds, tgt : NodeIds, rel : Rels])
    /\ nodeEdges \in [NodeIds -> {Absent} \cup Seq(1..MaxEdges)]

(* KnowledgeGraph(): empty; the heap holds the caller's dicts. *)
Init ==
    /\ heap = CallerDicts
    /\ nodes = [n \in NodeIds |-> Absent]
    /\ edges = <<>>
    /\ nodeEdges = [n \in NodeIds |-> Absent]

(* dict.update: the keys of d2 override those of d1. *)
Update(d1, d2) == [k \in PKeys |-> IF d2[k] # Absent THEN d2[k] ELSE d1[k]]

(* Mutant: add_node resets node_edges[node_id] for an existing node too. *)
AddNodeResetsEdges(n, t, p) ==
    LET given == IF p = Absent THEN EmptyDict ELSE heap[p]
    IN  IF Present(n)
        THEN /\ heap' = [heap EXCEPT ![nodes[n].props] = Update(@, given)]
             /\ nodeEdges' = [nodeEdges EXCEPT ![n] = <<>>]
             /\ UNCHANGED <<nodes, edges>>
        ELSE IF p # Absent /\ given # EmptyDict
        THEN /\ nodes' = [nodes EXCEPT ![n] = [type |-> t, props |-> p]]
             /\ nodeEdges' = [nodeEdges EXCEPT ![n] = <<>>]
             /\ UNCHANGED <<heap, edges>>
        ELSE /\ Len(heap) < MaxObjs
             /\ heap' = Append(heap, EmptyDict)
             /\ nodes' = [nodes EXCEPT ![n] = [type |-> t, props |-> Len(heap) + 1]]
             /\ nodeEdges' = [nodeEdges EXCEPT ![n] = <<>>]
             /\ UNCHANGED edges

(***************************************************************************)
(* add_node(node_id, node_type, properties): an existing node's properties *)
(* dict is updated in place (its type is kept); a new node keeps           *)
(* `properties or {}` and gets an empty edge list.                         *)
(***************************************************************************)
AddNode(n, t, p) ==
    LET given == IF p = Absent THEN EmptyDict ELSE heap[p]
    IN  IF Present(n)
        THEN /\ heap' = [heap EXCEPT ![nodes[n].props] = Update(@, given)]
             /\ UNCHANGED <<nodes, edges, nodeEdges>>
        ELSE IF p # Absent /\ given # EmptyDict
        THEN /\ nodes' = [nodes EXCEPT ![n] = [type |-> t, props |-> p]]
             /\ nodeEdges' = [nodeEdges EXCEPT ![n] = <<>>]
             /\ UNCHANGED <<heap, edges>>
        ELSE /\ Len(heap) < MaxObjs
             /\ heap' = Append(heap, EmptyDict)
             /\ nodes' = [nodes EXCEPT ![n] = [type |-> t, props |-> Len(heap) + 1]]
             /\ nodeEdges' = [nodeEdges EXCEPT ![n] = <<>>]
             /\ UNCHANGED edges

(***************************************************************************)
(* add_edge(source_id, target_id, relationship): ValueError unless both   *)
(* nodes exist; the edge is appended to self.edges and to the edge lists  *)
(* of its source and of its target (twice to one list for a self-loop).    *)
(***************************************************************************)
AddEdge(s, t, r) ==
    /\ Present(s) /\ Present(t)
    /\ Len(edges) < MaxEdges
    /\ edges' = Append(edges, [src |-> s, tgt |-> t, rel |-> r])
    /\ nodeEdges' = [nodeEdges EXCEPT ![s] = Append(@, Len(edges) + 1),
                                      ![t] = Append(@, Len(edges) + 1)]
    /\ UNCHANGED <<heap, nodes>>

(***************************************************************************)
(* The reads.  A list of results is abstracted to the set of what it      *)
(* holds, a Node to its id, and relationship=None to Absent.               *)
(***************************************************************************)

(* The other end of edge e, seen from node n. *)
OtherEnd(e, n) == IF edges[e].src = n THEN edges[e].tgt ELSE edges[e].src

(* Mutant: the other end is always taken to be the target. *)
GetRelatedNodesTargetOnly(n, r) ==
    IF nodeEdges[n] = Absent THEN {}
    ELSE {edges[nodeEdges[n][j]].tgt :
            j \in {j \in DOMAIN nodeEdges[n] :
                     /\ r = Absent \/ edges[nodeEdges[n][j]].rel = r
                     /\ Present(edges[nodeEdges[n][j]].tgt)}}

(***************************************************************************)
(* get_related_nodes(node_id, relationship): [] for an id without an edge *)
(* list; else the other end of each listed edge of that relationship (of  *)
(* any, for None) that is a node.                                          *)
(***************************************************************************)
GetRelatedNodes(n, r) ==
    IF nodeEdges[n] = Absent THEN {}
    ELSE {OtherEnd(nodeEdges[n][j], n) :
            j \in {j \in DOMAIN nodeEdges[n] :
                     /\ r = Absent \/ edges[nodeEdges[n][j]].rel = r
                     /\ Present(OtherEnd(nodeEdges[n][j], n))}}

(* A query pattern maps "type" and property keys to the values asked for. *)
Patterns == UNION {[D -> Types \cup PValues] : D \in SUBSET ({"type"} \cup PKeys)}

(* Node n matches: its type for "type", else a property it has, equal. *)
Matches(n, pat) ==
    \A key \in DOMAIN pat :
        IF key = "type" THEN nodes[n].type = pat[key]
        ELSE /\ heap[nodes[n].props][key] # Absent
             /\ heap[nodes[n].props][key] = pat[key]

(* Mutant: the direction is "out" when the edge ends at the node. *)
RelationshipsSwapped(n) ==
    [j \in DOMAIN nodeEdges[n] |->
        [edge |-> nodeEdges[n][j],
         direction |-> IF edges[nodeEdges[n][j]].tgt = n THEN "out" ELSE "in"]]

(* The relationships of a result: node n's edge list, each with "out" if *)
(* the edge starts at n and "in" otherwise.                               *)
Relationships(n) ==
    [j \in DOMAIN nodeEdges[n] |->
        [edge |-> nodeEdges[n][j],
         direction |-> IF edges[nodeEdges[n][j]].src = n THEN "out" ELSE "in"]]

(* query(pattern): every node that matches, with its relationships. *)
Query(pat) ==
    {[node |-> n, relationships |-> Relationships(n)] :
        n \in {n \in NodeIds : Present(n) /\ Matches(n, pat)}}

Next ==
    \/ \E n \in NodeIds, t \in Types, p \in {Absent} \cup Callers : AddNode(n, t, p)
    \/ \E s, t \in NodeIds, r \in Rels : AddEdge(s, t, r)

Spec == Init /\ [][Next]_vars

-----------------------------------------------------------------------------
(***************************************************************************)
(* add_node on one node changes the properties of no other node: each node *)
(* owns its properties.  A caller dict handed to two add_node calls is     *)
(* shared by both nodes, and updating one through add_node changes both.   *)
(***************************************************************************)
NodesOwnProperties ==
    [][\A n \in NodeIds, t \in Types, p \in {Absent} \cup Callers :
          AddNode(n, t, p) =>
            \A m \in NodeIds \ {n} :
               Present(m) => heap'[nodes[m].props] = heap[nodes[m].props]]_vars

(* The positions in self.edges that node n's edge list holds, and those   *)
(* of the edges that start or end at n.                                    *)
Listed(n) == {nodeEdges[n][j] : j \in DOMAIN nodeEdges[n]}
Incident(n) == {e \in DOMAIN edges : n \in {edges[e].src, edges[e].tgt}}

(***************************************************************************)
(* get_related_nodes and query read a node's edges from node_edges alone,  *)
(* and get_related_nodes looks the other end up in self.nodes.  So: a node *)
(* has an edge list exactly when it is a node, its list holds exactly the  *)
(* edges of self.edges that start or end at it, and both ends of every     *)
(* edge are nodes.  A second add_node of a node keeps its edges.           *)
(***************************************************************************)
EdgesIndexed ==
    /\ \A n \in NodeIds :
          /\ Present(n) <=> nodeEdges[n] # Absent
          /\ Present(n) => Listed(n) = Incident(n)
    /\ \A e \in DOMAIN edges : Present(edges[e].src) /\ Present(edges[e].tgt)

(***************************************************************************)
(* get_related_nodes(n, r) returns exactly the nodes joined to n by an    *)
(* edge of relationship r (of any, for None), whichever way the edge      *)
(* points: its per-node edge list and its other-end choice lose nothing   *)
(* and invent nothing, for every id, a node or not.                        *)
(***************************************************************************)
RelatedFollowsEdges ==
    \A n \in NodeIds, r \in Rels \cup {Absent} :
        GetRelatedNodes(n, r) =
            {m \in NodeIds :
                \E e \in DOMAIN edges :
                    /\ r = Absent \/ edges[e].rel = r
                    /\ \/ edges[e].src = n /\ edges[e].tgt = m
                       \/ edges[e].tgt = n /\ edges[e].src = m}

(***************************************************************************)
(* Each result of query(pattern) lists the edges of its node, those that  *)
(* start at it as "out" (a self-loop included) and those that only end at *)
(* it as "in", and no others.                                              *)
(***************************************************************************)
QueryFollowsEdges ==
    \A pat \in Patterns : \A res \in Query(pat) :
        LET n == res.node
            rel == res.relationships
        IN  {<<rel[j].edge, rel[j].direction>> : j \in DOMAIN rel} =
                {<<e, "out">> : e \in {e \in DOMAIN edges : edges[e].src = n}}
                \cup {<<e, "in">> : e \in {e \in DOMAIN edges :
                                            edges[e].tgt = n /\ edges[e].src # n}}

=============================================================================
