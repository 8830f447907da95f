----------------------------- MODULE MCDigraph -----------------------------
(***************************************************************************)
(* Every relation with up to MaxEdges edges on four nodes, each node with  *)
(* an element of its own, so that a set says which nodes went into it.     *)
(***************************************************************************)
EXTENDS Digraph
CONSTANT MaxEdges
Edges == {e \in Nodes \X Nodes : e[2] \in rel[e[1]]}
MCInit == Init /\ Cardinality(Edges) <= MaxEdges
MCSpec == MCInit /\ [][Next]_vars /\ WF_vars(Next)
=============================================================================
