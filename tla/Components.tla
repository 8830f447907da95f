----------------------------- MODULE Components -----------------------------
(***************************************************************************)
(* What the digraph traversal promises: nodes are finished in sets, a set  *)
(* only when all its successors are finished before or with it, and a      *)
(* finished node has the union of the initial values of all the nodes it   *)
(* reaches, at once and for good.  How the unions come about is left open. *)
(***************************************************************************)
EXTENDS Integers, FiniteSets

CONSTANTS Node, Elem

VARIABLES
    rel,    \* the relation: a function from nodes to sets of nodes
    base,   \* the initial values F'
    done,   \* the finished nodes
    value   \* the values of the finished nodes

vars == <<rel, base, done, value>>

Closed(r, S) == \A x \in S : r[x] \subseteq S

Reach(r, x) == {y \in DOMAIN r : \A S \in SUBSET DOMAIN r : x \in S /\ Closed(r, S) => y \in S}

Total(r, b, x) == UNION {b[y] : y \in Reach(r, x)}

Init ==
    /\ rel \in [Node -> SUBSET Node]
    /\ base \in [Node -> SUBSET Elem]
    /\ done = {}
    /\ value = [x \in Node |-> {}]

(* A component is finished; its members reach one another.                 *)
Complete(C) ==
    /\ C # {} /\ C \intersect done = {}
    /\ Closed(rel, done \union C)
    /\ \A x, y \in C : y \in Reach(rel, x)
    /\ done' = done \union C
    /\ value' = [x \in DOMAIN value |-> IF x \in C THEN Total(rel, base, x) ELSE value[x]]
    /\ UNCHANGED <<rel, base>>

Next == \E C \in SUBSET DOMAIN rel : Complete(C)
Spec == Init /\ [][Next]_vars /\ WF_vars(Next)
=============================================================================
