------------------------ MODULE KnowledgeGraphProofs ------------------------
(***************************************************************************)
(* Proofs about KnowledgeGraph (KnowledgeGraph.tla): for every set of node *)
(* ids, relationships and caller dicts and every bound, the state is well  *)
(* typed and node_edges indexes exactly the edges of each node.            *)
(***************************************************************************)
EXTENDS KnowledgeGraph, SequenceTheorems, TLAPS

(***************************************************************************)
(* Every reference the graph holds points into the heap: the caller's     *)
(* dicts are on it, and so is the properties object of every node.  With   *)
(* it, dict.update and `properties or {}` always read a dict.              *)
(***************************************************************************)
HeapRefs ==
    /\ Len(heap) >= Len(CallerDicts)
    /\ \A n \in NodeIds : Present(n) => nodes[n].props <= Len(heap)

IInv == TypeOK /\ HeapRefs /\ EdgesIndexed
-----------------------------------------------------------------------------
(* Appending x to an edge list adds x, and only x, to what it holds. *)
LEMMA AppendListed ==
  ASSUME NEW q \in Seq(1..MaxEdges), NEW x
  PROVE  {Append(q, x)[j] : j \in DOMAIN Append(q, x)} = {q[j] : j \in DOMAIN q} \cup {x}
  <1>1. /\ DOMAIN Append(q, x) = 1..Len(q) + 1
        /\ \A j \in 1..Len(q) : Append(q, x)[j] = q[j]
        /\ Append(q, x)[Len(q) + 1] = x
        /\ DOMAIN q = 1..Len(q)
    BY AppendProperties
  <1> QED
    BY <1>1

(* Both ends of an edge are node ids. *)
LEMMA EdgeEnds ==
  ASSUME TypeOK, NEW e \in DOMAIN edges
  PROVE  edges[e].src \in NodeIds /\ edges[e].tgt \in NodeIds
  <1>1. edges \in Seq([src : NodeIds, tgt : NodeIds, rel : Rels])
    BY Zenon DEF TypeOK
  <1>2. edges[e] \in [src : NodeIds, tgt : NodeIds, rel : Rels]
    <2>1. e \in 1..Len(edges)
      BY <1>1
    <2> QED
      BY <1>1, <2>1, ElementOfSeq, Zenon
  <1> QED
    BY <1>2

(* A step that leaves nodes, edges and node_edges alone keeps the index. *)
LEMMA UnchangedIndexed ==
  ASSUME EdgesIndexed, UNCHANGED <<nodes, edges, nodeEdges>>
  PROVE  EdgesIndexed'
  BY DEF EdgesIndexed, Present, Listed, Incident

(***************************************************************************)
(* A node created with an empty edge list keeps the index: no edge can     *)
(* start or end at a node that did not exist.                              *)
(***************************************************************************)
LEMMA NewNodeIndexed ==
  ASSUME TypeOK, EdgesIndexed,
         NEW n \in NodeIds, ~Present(n), NEW t \in Types, NEW o \in Nat,
         nodes' = [nodes EXCEPT ![n] = [type |-> t, props |-> o]],
         nodeEdges' = [nodeEdges EXCEPT ![n] = <<>>],
         UNCHANGED edges
  PROVE  EdgesIndexed'
  <1>1. nodes'[n] # Absent /\ nodeEdges'[n] # Absent
    <2>1. [type |-> t, props |-> o] \in [type : Types, props : Nat]
      OBVIOUS
    <2>2. <<>> \in Seq(Nat)
      OBVIOUS
    <2> QED
      BY <2>1, <2>2, GraphAssumption DEF TypeOK
  <1>2. Incident(n) = {}
    BY DEF EdgesIndexed, Incident
  <1>3. \A m \in NodeIds : Present(m) => Present(m)'
    BY <1>1 DEF TypeOK, Present
  <1>4. ASSUME NEW m \in NodeIds
        PROVE  /\ Present(m)' <=> nodeEdges'[m] # Absent
               /\ Present(m)' => Listed(m)' = Incident(m)'
    <2>1. CASE m = n
      <3>1. Listed(n)' = {} /\ Incident(n)' = Incident(n)
        BY <1>1 DEF TypeOK, Listed, Incident
      <3> QED
        BY <1>1, <1>2, <2>1, <3>1 DEF TypeOK, Present
    <2>2. CASE m # n
      BY <2>2 DEF TypeOK, EdgesIndexed, Present, Listed, Incident
    <2> QED
      BY <2>1, <2>2
  <1>5. ASSUME NEW e \in DOMAIN edges
        PROVE  (Present(edges[e].src) /\ Present(edges[e].tgt))'
    <2>1. edges[e].src \in NodeIds /\ edges[e].tgt \in NodeIds
      BY EdgeEnds
    <2>2. Present(edges[e].src) /\ Present(edges[e].tgt)
      BY DEF EdgesIndexed
    <2>3. Present(edges[e].src)' /\ Present(edges[e].tgt)'
      BY <1>3, <2>1, <2>2
    <2> QED
      BY <2>3 DEF Present
  <1> QED
    BY <1>4, <1>5 DEF EdgesIndexed

-----------------------------------------------------------------------------
LEMMA InitIInv == Init => IInv
  <1> SUFFICES ASSUME Init PROVE IInv
    OBVIOUS
  <1>1. TypeOK
    BY GraphAssumption DEF Init, TypeOK, Dict
  <1>2. HeapRefs /\ EdgesIndexed
    BY DEF Init, HeapRefs, EdgesIndexed, Present
  <1> QED
    BY <1>1, <1>2 DEF IInv

(* add_node keeps the invariant. *)
LEMMA AddNodeIInv ==
  ASSUME IInv, NEW n \in NodeIds, NEW t \in Types, NEW p \in {Absent} \cup Callers,
         AddNode(n, t, p)
  PROVE  IInv'
  <1> DEFINE given == IF p = Absent THEN EmptyDict ELSE heap[p]
  <1>0. /\ heap \in Seq(Dict)
        /\ nodes \in [NodeIds -> {Absent} \cup [type : Types, props : 1..MaxObjs]]
        /\ edges \in Seq([src : NodeIds, tgt : NodeIds, rel : Rels])
        /\ nodeEdges \in [NodeIds -> {Absent} \cup Seq(1..MaxEdges)]
        /\ HeapRefs /\ EdgesIndexed
    BY Zenon DEF IInv, TypeOK
  <1>1. MaxObjs \in Nat /\ Len(CallerDicts) <= MaxObjs
    BY GraphAssumption
  <1>2. given \in Dict
    <2>1. CASE p = Absent
      BY <2>1 DEF EmptyDict, Dict
    <2>2. CASE p # Absent
      <3>1. p \in 1..Len(heap)
        BY <1>0, <2>2 DEF Callers, HeapRefs
      <3> QED
        BY <1>0, <2>2, <3>1, ElementOfSeq
    <2> QED
      BY <2>1, <2>2
  <1>3. CASE Present(n)
    <2> DEFINE o == nodes[n].props
    <2>1. /\ heap' = [heap EXCEPT ![o] = Update(@, given)]
          /\ UNCHANGED <<nodes, edges, nodeEdges>>
      BY <1>3, Zenon DEF AddNode
    <2>2. o \in 1..Len(heap)
      <3>1. nodes[n] \in [type : Types, props : 1..MaxObjs]
        BY <1>0, <1>3 DEF Present
      <3> QED
        BY <1>0, <1>3, <3>1 DEF HeapRefs
    <2>3. Update(heap[o], given) \in Dict
      <3>1. heap[o] \in Dict
        BY <1>0, <2>2, ElementOfSeq
      <3> QED
        BY <1>2, <3>1 DEF Update, Dict
    <2>4. heap' \in Seq(Dict) /\ Len(heap') = Len(heap)
      BY <1>0, <2>1, <2>2, <2>3
    <2>5. TypeOK' /\ HeapRefs'
      BY <1>0, <2>1, <2>4 DEF TypeOK, HeapRefs, Present
    <2> QED
      BY <1>0, <2>1, <2>5, UnchangedIndexed DEF IInv
  <1>4. CASE ~Present(n) /\ p # Absent /\ given # EmptyDict
    <2>1. /\ nodes' = [nodes EXCEPT ![n] = [type |-> t, props |-> p]]
          /\ nodeEdges' = [nodeEdges EXCEPT ![n] = <<>>]
          /\ UNCHANGED <<heap, edges>>
      BY <1>4, Zenon DEF AddNode
    <2>2. p \in 1..MaxObjs /\ p <= Len(heap)
      BY <1>0, <1>1, <1>4 DEF Callers, HeapRefs
    <2>3. EdgesIndexed'
      <3>1. TypeOK /\ EdgesIndexed /\ p \in Nat
        BY <2>2 DEF IInv
      <3> QED
        BY <1>4, <2>1, <3>1, NewNodeIndexed
    <2>4. TypeOK'
      BY <1>0, <2>1, <2>2 DEF TypeOK
    <2>5. HeapRefs'
      BY <1>0, <2>1, <2>2 DEF HeapRefs, Present
    <2> QED
      BY <2>3, <2>4, <2>5 DEF IInv
  <1>5. CASE ~Present(n) /\ ~(p # Absent /\ given # EmptyDict)
    <2>1. /\ Len(heap) < MaxObjs
          /\ heap' = Append(heap, EmptyDict)
          /\ nodes' = [nodes EXCEPT ![n] = [type |-> t, props |-> Len(heap) + 1]]
          /\ nodeEdges' = [nodeEdges EXCEPT ![n] = <<>>]
          /\ UNCHANGED edges
      BY <1>5, Zenon DEF AddNode
    <2>2. heap' \in Seq(Dict) /\ Len(heap') = Len(heap) + 1
      BY <1>0, <2>1 DEF EmptyDict, Dict
    <2>3. EdgesIndexed'
      <3>1. TypeOK /\ EdgesIndexed /\ Len(heap) + 1 \in Nat
        BY DEF IInv
      <3> QED
        BY <1>5, <2>1, <3>1, NewNodeIndexed
    <2>4. TypeOK'
      BY <1>0, <1>1, <2>1, <2>2 DEF TypeOK
    <2>5. HeapRefs'
      BY <1>0, <2>1, <2>2 DEF HeapRefs, Present
    <2> QED
      BY <2>3, <2>4, <2>5 DEF IInv
  <1> QED
    BY <1>3, <1>4, <1>5

(***************************************************************************)
(* add_edge keeps the invariant: the new position goes into the lists of   *)
(* its two ends (twice into one for a self-loop) and into no other list.   *)
(***************************************************************************)
LEMMA AddEdgeIInv ==
  ASSUME IInv, NEW s \in NodeIds, NEW t \in NodeIds, NEW r \in Rels, AddEdge(s, t, r)
  PROVE  IInv'
  <1> DEFINE L == Len(edges) + 1
             E == [src |-> s, tgt |-> t, rel |-> r]
             Rec == [src : NodeIds, tgt : NodeIds, rel : Rels]
             Lists == Seq(1..MaxEdges)
  <1>0. /\ nodes \in [NodeIds -> {Absent} \cup [type : Types, props : 1..MaxObjs]]
        /\ edges \in Seq(Rec)
        /\ nodeEdges \in [NodeIds -> {Absent} \cup Lists]
        /\ TypeOK /\ HeapRefs /\ EdgesIndexed
    BY Zenon DEF IInv, TypeOK
  <1>1. /\ Present(s) /\ Present(t) /\ Len(edges) < MaxEdges
        /\ edges' = Append(edges, E)
        /\ nodeEdges' = [nodeEdges EXCEPT ![s] = Append(@, L), ![t] = Append(@, L)]
        /\ UNCHANGED <<heap, nodes>>
    BY Zenon DEF AddEdge
  <1>2. L \in 1..MaxEdges
    BY <1>1, GraphAssumption
  <1>3. nodeEdges[s] \in Lists /\ nodeEdges[t] \in Lists
    BY <1>0, <1>1 DEF EdgesIndexed
  <1>4. \A m \in NodeIds :
          nodeEdges'[m] = IF m = s /\ m = t THEN Append(Append(nodeEdges[m], L), L)
                          ELSE IF m \in {s, t} THEN Append(nodeEdges[m], L)
                          ELSE nodeEdges[m]
    <2>1. CASE s = t
      <3> DEFINE f1 == [nodeEdges EXCEPT ![s] = Append(nodeEdges[s], L)]
      <3>1. f1[t] = Append(nodeEdges[s], L)
        BY <1>0, <2>1
      <3>2. nodeEdges' = [f1 EXCEPT ![t] = Append(f1[t], L)]
        BY <1>0, <1>1, <2>1
      <3> QED
        BY <1>0, <2>1, <3>1, <3>2
    <2>2. CASE s # t
      BY <1>0, <1>1, <2>2
    <2> QED
      BY <2>1, <2>2
  <1>5. /\ edges' \in Seq(Rec)
        /\ DOMAIN edges' = DOMAIN edges \cup {L}
        /\ \A e \in DOMAIN edges : edges'[e] = edges[e]
        /\ edges'[L] = E
        /\ L \notin DOMAIN edges
    BY <1>0, <1>1, AppendProperties
  <1>6. ASSUME NEW m \in NodeIds
        PROVE  /\ nodeEdges'[m] \in {Absent} \cup Lists
               /\ nodeEdges'[m] # Absent <=> nodeEdges[m] # Absent
    <2>1. ASSUME NEW q \in Lists PROVE Append(q, L) \in Lists /\ Append(q, L) # Absent
      <3>1. Append(q, L) \in Lists
        BY <1>2, AppendProperties
      <3>2. Lists \subseteq Seq(Nat)
        BY GraphAssumption
      <3> QED
        BY <3>1, <3>2, GraphAssumption
    <2>2. CASE m = s /\ m = t
      <3>1. nodeEdges[m] \in Lists /\ nodeEdges[m] # Absent
        BY <1>0, <1>1, <1>3, <2>2, <2>1 DEF EdgesIndexed
      <3>2. Append(nodeEdges[m], L) \in Lists
        BY <3>1, <2>1
      <3>3. Append(Append(nodeEdges[m], L), L) \in Lists /\ Append(Append(nodeEdges[m], L), L) # Absent
        BY <3>2, <2>1
      <3> QED
        BY <1>4, <2>2, <3>1, <3>3
    <2>3. CASE ~(m = s /\ m = t) /\ m \in {s, t}
      <3>1. nodeEdges[m] \in Lists /\ nodeEdges[m] # Absent
        BY <1>0, <1>1, <1>3, <2>3, <2>1 DEF EdgesIndexed
      <3>2. Append(nodeEdges[m], L) \in Lists /\ Append(nodeEdges[m], L) # Absent
        BY <3>1, <2>1
      <3> QED
        BY <1>4, <2>3, <3>1, <3>2
    <2>4. CASE m \notin {s, t}
      BY <1>0, <1>4, <2>4
    <2> QED
      BY <2>2, <2>3, <2>4
  <1>7. ASSUME NEW m \in NodeIds
        PROVE  Incident(m)' = Incident(m) \cup (IF m \in {s, t} THEN {L} ELSE {})
    BY <1>5 DEF Incident
  <1>8. ASSUME NEW m \in NodeIds, Present(m)
        PROVE  Listed(m)' = Listed(m) \cup (IF m \in {s, t} THEN {L} ELSE {})
    <2>1. nodeEdges[m] \in Lists
      BY <1>0, <1>8 DEF EdgesIndexed
    <2>2. Listed(m)' = {nodeEdges'[m][j] : j \in DOMAIN nodeEdges'[m]}
      BY DEF Listed
    <2>3. CASE m = s /\ m = t
      <3> DEFINE q1 == Append(nodeEdges[m], L)
      <3>1. q1 \in Lists
        BY <1>2, <2>1, AppendProperties
      <3>2. nodeEdges'[m] = Append(q1, L)
        BY <1>4, <2>3
      <3>3. {Append(q1, L)[j] : j \in DOMAIN Append(q1, L)} = {q1[j] : j \in DOMAIN q1} \cup {L}
        BY <3>1, AppendListed
      <3>4. {q1[j] : j \in DOMAIN q1} = Listed(m) \cup {L}
        BY <2>1, AppendListed DEF Listed
      <3> QED
        BY <2>2, <2>3, <3>2, <3>3, <3>4
    <2>4. CASE ~(m = s /\ m = t) /\ m \in {s, t}
      <3>1. nodeEdges'[m] = Append(nodeEdges[m], L)
        BY <1>4, <2>4
      <3>2. {Append(nodeEdges[m], L)[j] : j \in DOMAIN Append(nodeEdges[m], L)}
              = Listed(m) \cup {L}
        BY <2>1, AppendListed DEF Listed
      <3> QED
        BY <2>2, <2>4, <3>1, <3>2
    <2>5. CASE m \notin {s, t}
      BY <1>4, <2>5 DEF Listed
    <2> QED
      BY <2>3, <2>4, <2>5
  <1>9. EdgesIndexed'
    <2>1. ASSUME NEW m \in NodeIds
          PROVE  /\ Present(m)' <=> nodeEdges'[m] # Absent
                 /\ Present(m)' => Listed(m)' = Incident(m)'
      <3>1. Present(m)' = Present(m)
        BY <1>1 DEF Present
      <3>2. Present(m) <=> nodeEdges[m] # Absent
        BY <1>0 DEF EdgesIndexed
      <3>3. Present(m) => Listed(m) = Incident(m)
        BY <1>0 DEF EdgesIndexed
      <3> QED
        BY <1>6, <1>7, <1>8, <3>1, <3>2, <3>3
    <2>2. ASSUME NEW e \in DOMAIN edges'
          PROVE  (Present(edges[e].src) /\ Present(edges[e].tgt))'
      <3>1. CASE e = L
        BY <1>1, <1>5, <3>1 DEF Present
      <3>2. CASE e # L
        <4>1. e \in DOMAIN edges
          BY <1>5, <3>2
        <4>2. Present(edges[e].src) /\ Present(edges[e].tgt)
          BY <1>0, <4>1 DEF EdgesIndexed
        <4> QED
          BY <1>1, <1>5, <4>1, <4>2 DEF Present
      <3> QED
        BY <3>1, <3>2
    <2> QED
      BY <2>1, <2>2 DEF EdgesIndexed
  <1>11. TypeOK'
    <2>1. nodeEdges' \in [NodeIds -> {Absent} \cup Lists]
      BY <1>0, <1>1, <1>6
    <2> QED
      BY <1>0, <1>1, <1>5, <2>1 DEF TypeOK
  <1>10. HeapRefs'
    BY <1>0, <1>1 DEF HeapRefs, Present
  <1> QED
    BY <1>9, <1>10, <1>11 DEF IInv

LEMMA NextIInv == IInv /\ [Next]_vars => IInv'
  <1> SUFFICES ASSUME IInv, [Next]_vars PROVE IInv'
    OBVIOUS
  <1>1. CASE \E n \in NodeIds, t \in Types, p \in {Absent} \cup Callers : AddNode(n, t, p)
    BY <1>1, AddNodeIInv
  <1>2. CASE \E s, t \in NodeIds, r \in Rels : AddEdge(s, t, r)
    BY <1>2, AddEdgeIInv
  <1>3. CASE UNCHANGED vars
    BY <1>3 DEF vars, IInv, TypeOK, HeapRefs, EdgesIndexed, Present, Listed, Incident
  <1> QED
    BY <1>1, <1>2, <1>3 DEF Next

-----------------------------------------------------------------------------
(* The ends of every edge that starts or ends at n, seen from n. *)
Joined(n, r) ==
    {m \in NodeIds :
        \E e \in DOMAIN edges :
            /\ r = Absent \/ edges[e].rel = r
            /\ \/ edges[e].src = n /\ edges[e].tgt = m
               \/ edges[e].tgt = n /\ edges[e].src = m}

(* An edge list of a node is a sequence of positions of self.edges. *)
LEMMA ListType ==
  ASSUME TypeOK, NEW n \in NodeIds, nodeEdges[n] # Absent
  PROVE  nodeEdges[n] \in Seq(1..MaxEdges)
  BY DEF TypeOK

(***************************************************************************)
(* Where node_edges indexes the edges, get_related_nodes of a node returns *)
(* exactly the other ends of its edges of the relationship asked for.      *)
(***************************************************************************)
LEMMA IndexedRelated ==
  ASSUME TypeOK, EdgesIndexed
  PROVE  RelatedFollowsEdges
  <1> SUFFICES ASSUME NEW n \in NodeIds, NEW r \in Rels \cup {Absent}
               PROVE  GetRelatedNodes(n, r) = Joined(n, r)
    BY DEF RelatedFollowsEdges, Joined
  <1>1. CASE ~Present(n)
    <2>1. nodeEdges[n] = Absent
      BY <1>1 DEF EdgesIndexed
    <2>2. GetRelatedNodes(n, r) = {}
      BY <2>1 DEF GetRelatedNodes
    <2>3. ASSUME NEW e \in DOMAIN edges PROVE n \notin {edges[e].src, edges[e].tgt}
      BY <1>1 DEF EdgesIndexed
    <2> QED
      BY <2>2, <2>3 DEF Joined
  <1>2. CASE Present(n)
    <2> DEFINE L == nodeEdges[n]
    <2>1. L # Absent /\ Listed(n) = Incident(n)
      BY <1>2 DEF EdgesIndexed
    <2>2. L \in Seq(1..MaxEdges)
      BY <2>1, ListType
    <2>3. ASSUME NEW j \in DOMAIN L
          PROVE  /\ L[j] \in DOMAIN edges
                 /\ n \in {edges[L[j]].src, edges[L[j]].tgt}
      BY <2>1 DEF Listed, Incident
    <2>4. GetRelatedNodes(n, r) \subseteq Joined(n, r)
      <3> SUFFICES ASSUME NEW j \in DOMAIN L,
                          r = Absent \/ edges[L[j]].rel = r
                   PROVE  OtherEnd(L[j], n) \in Joined(n, r)
        BY <2>1 DEF GetRelatedNodes
      <3>1. L[j] \in DOMAIN edges /\ n \in {edges[L[j]].src, edges[L[j]].tgt}
        BY <2>3
      <3>2. edges[L[j]].src \in NodeIds /\ edges[L[j]].tgt \in NodeIds
        BY <3>1, EdgeEnds
      <3> QED
        BY <3>1, <3>2 DEF OtherEnd, Joined
    <2>5. Joined(n, r) \subseteq GetRelatedNodes(n, r)
      <3> SUFFICES ASSUME NEW m \in NodeIds, NEW e \in DOMAIN edges,
                          r = Absent \/ edges[e].rel = r,
                          \/ edges[e].src = n /\ edges[e].tgt = m
                          \/ edges[e].tgt = n /\ edges[e].src = m
                   PROVE  m \in GetRelatedNodes(n, r)
        BY DEF Joined
      <3>1. e \in Listed(n)
        BY <2>1 DEF Incident
      <3>2. PICK j \in DOMAIN L : L[j] = e
        BY <3>1 DEF Listed
      <3>3. OtherEnd(e, n) = m
        BY DEF OtherEnd
      <3>4. Present(m)
        BY DEF EdgesIndexed
      <3> QED
        BY <2>1, <3>2, <3>3, <3>4 DEF GetRelatedNodes
    <2> QED
      BY <2>4, <2>5
  <1> QED
    BY <1>1, <1>2

(***************************************************************************)
(* Where node_edges indexes the edges, each result of query lists the     *)
(* edges of its node with the direction they have from it.                 *)
(***************************************************************************)
LEMMA IndexedQuery ==
  ASSUME TypeOK, EdgesIndexed
  PROVE  QueryFollowsEdges
  <1> SUFFICES ASSUME NEW pat \in Patterns, NEW n \in NodeIds,
                      Present(n), Matches(n, pat)
               PROVE  LET rel == Relationships(n)
                      IN  {<<rel[j].edge, rel[j].direction>> : j \in DOMAIN rel} =
                            {<<e, "out">> : e \in {e \in DOMAIN edges : edges[e].src = n}}
                            \cup {<<e, "in">> : e \in {e \in DOMAIN edges :
                                                        edges[e].tgt = n /\ edges[e].src # n}}
    BY DEF QueryFollowsEdges, Query
  <1> DEFINE L == nodeEdges[n]
             Dir(e) == IF edges[e].src = n THEN "out" ELSE "in"
  <1>1. L # Absent /\ Listed(n) = Incident(n)
    BY DEF EdgesIndexed
  <1>2. {<<Relationships(n)[j].edge, Relationships(n)[j].direction>> :
            j \in DOMAIN Relationships(n)}
          = {<<e, Dir(e)>> : e \in Listed(n)}
    BY DEF Relationships, Listed
  <1>3. {<<e, Dir(e)>> : e \in Incident(n)}
          = {<<e, "out">> : e \in {e \in DOMAIN edges : edges[e].src = n}}
            \cup {<<e, "in">> : e \in {e \in DOMAIN edges :
                                        edges[e].tgt = n /\ edges[e].src # n}}
    BY DEF Incident
  <1> QED
    BY <1>1, <1>2, <1>3

-----------------------------------------------------------------------------
(* Every reachable state of the knowledge graph is well typed. *)
THEOREM GraphTypeCorrect == Spec => []TypeOK
  <1>1. IInv => TypeOK
    BY DEF IInv
  <1> QED
    BY InitIInv, NextIInv, <1>1, PTL DEF Spec

(***************************************************************************)
(* For every set of node ids and caller dicts and any sequence of add_node *)
(* and add_edge calls: node_edges lists exactly the edges of each node,    *)
(* and both ends of every edge are nodes.                                  *)
(***************************************************************************)
THEOREM EdgesIndexedHolds == Spec => []EdgesIndexed
  <1>1. IInv => EdgesIndexed
    BY DEF IInv
  <1> QED
    BY InitIInv, NextIInv, <1>1, PTL DEF Spec

(***************************************************************************)
(* For every set of node ids and any sequence of add_node and add_edge    *)
(* calls, get_related_nodes returns exactly the nodes an edge of the      *)
(* relationship asked for joins to the given id, whichever way it points.  *)
(***************************************************************************)
THEOREM RelatedFollowsEdgesHolds == Spec => []RelatedFollowsEdges
  <1>1. IInv => RelatedFollowsEdges
    BY IndexedRelated DEF IInv
  <1> QED
    BY InitIInv, NextIInv, <1>1, PTL DEF Spec

(***************************************************************************)
(* For every set of node ids and any sequence of add_node and add_edge    *)
(* calls, each result of query lists exactly its node's edges, "out" for  *)
(* those that start at it and "in" for the others.                         *)
(***************************************************************************)
THEOREM QueryFollowsEdgesHolds == Spec => []QueryFollowsEdges
  <1>1. IInv => QueryFollowsEdges
    BY IndexedQuery DEF IInv
  <1> QED
    BY InitIInv, NextIInv, <1>1, PTL DEF Spec

=============================================================================
