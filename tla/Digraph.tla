------------------------------ MODULE Digraph ------------------------------
(***************************************************************************)
(* The digraph algorithm of DeRemer and Pennello as LRTable::digraph and   *)
(* traverse (lalr.cc 34-70) implement it, and DFA::computeAccepts with its *)
(* own traverse (dfa.cc 170-209).  The recursion is the sequence "calls":  *)
(* a frame is an activation of traverse(x), with the depth it noted, the   *)
(* neighbours its loop has not come to, and the one it waits for, if any.  *)
(* The neighbours are a set of pointers: they come in any order.           *)
(***************************************************************************)
EXTENDS Integers, Sequences, FiniteSets

CONSTANTS Node, Elem

ASSUME NodeAssumption == IsFiniteSet(Node)

VARIABLES
    rel,    \* x |-> the nodes y with x R y, what the trav function returns
    base,   \* x |-> F'(x), what F(x) is pre-initialized to
    read,   \* x |-> F(x): LREdge::read, DFAState::postAccepts
    N,      \* x |-> 0 before the visit, a stack depth during it, Infinity after
    stack,  \* the component stack
    calls   \* the activations of traverse, the innermost last

vars == <<rel, base, read, N, stack, calls>>

Nodes == DOMAIN rel
Infinity == Cardinality(Nodes) + 1          \* (unsigned)-1, above every depth
MinOf(m, n) == IF m < n THEN m ELSE n

LastCall == calls[Len(calls)]
Outer == SubSeq(calls, 1, Len(calls) - 1)
-----------------------------------------------------------------------------
Clear ==
    /\ N = [x \in Nodes |-> 0]
    /\ stack = <<>>
    /\ calls = <<>>

Init ==
    /\ rel \in [Node -> SUBSET Node]
    /\ base = [x \in Node |-> {x} \intersect Elem]
    /\ read = base
    /\ Clear

Frame(x) == [node |-> x, depth |-> Len(stack) + 1, todo |-> rel[x], waiting |-> {}]

(* traverse(x) begins: x is pushed and its N is the depth of the stack.    *)
Enter(x) ==
    /\ N[x] = 0
    /\ stack' = Append(stack, x)
    /\ N' = [N EXCEPT ![x] = Len(stack) + 1]
    /\ UNCHANGED <<rel, base, read>>

(* digraph() comes to a node that no traversal has visited.                *)
StartAt(x) == calls = <<>> /\ Enter(x) /\ calls' = <<Frame(x)>>
StartRoot  == \E x \in Nodes : StartAt(x)

(* The loop comes to an unvisited neighbour and calls traverse for it.     *)
Descend ==
    /\ calls # <<>> /\ LastCall.waiting = {}
    /\ \E y \in LastCall.todo :
        /\ Enter(y)
        /\ calls' = Append(Append(Outer, [LastCall EXCEPT !.todo = @ \ {y}, !.waiting = {y}]),
                           Frame(y))

(* The two statements after the call: N and the set of y go into those of  *)
(* x.  The neighbour had been visited, or its call has just returned.      *)
Neighbour(y) ==
    IF LastCall.waiting = {} THEN y \in LastCall.todo /\ N[y] # 0 ELSE y \in LastCall.waiting

Absorb(x, y) ==
    /\ N' = [N EXCEPT ![x] = MinOf(N[x], N[y])]
    /\ read' = [read EXCEPT ![x] = @ \union read[y]]

(* mutant: the loop does not advance                                       *)
MergeInPlace ==
    /\ calls # <<>>
    /\ \E y \in Nodes : Neighbour(y) /\ Absorb(LastCall.node, y)
    /\ UNCHANGED <<rel, base, stack, calls>>

Merge ==
    /\ calls # <<>>
    /\ \E y \in Nodes :
        /\ Neighbour(y)
        /\ Absorb(LastCall.node, y)
        /\ calls' = Append(Outer, [LastCall EXCEPT !.todo = @ \ {y}, !.waiting = {}])
    /\ UNCHANGED <<rel, base, stack>>

LoopDone == calls # <<>> /\ LastCall.waiting = {} /\ LastCall.todo = {}

(* The loop is over and x reaches a node below it: x stays on the stack.   *)
ReturnInside ==
    /\ LoopDone
    /\ N[LastCall.node] # LastCall.depth
    /\ calls' = Outer
    /\ UNCHANGED <<rel, base, read, N, stack>>

(* The loop is over and x is the root of its component: all of it, from    *)
(* the top of the stack down to x, gets the set of x and is popped.        *)
Component == {stack[k] : k \in LastCall.depth .. Len(stack)}

(* mutant: the members of the component keep the sets they had             *)
ReturnWithoutCopy ==
    /\ LoopDone
    /\ N[LastCall.node] = LastCall.depth
    /\ N' = [y \in Nodes |-> IF y \in Component THEN Infinity ELSE N[y]]
    /\ stack' = SubSeq(stack, 1, LastCall.depth - 1)
    /\ calls' = Outer
    /\ UNCHANGED <<rel, base, read>>

ReturnComponent ==
    /\ LoopDone
    /\ N[LastCall.node] = LastCall.depth
    /\ read' = [y \in Nodes |-> IF y \in Component THEN read[LastCall.node] ELSE read[y]]
    /\ N' = [y \in Nodes |-> IF y \in Component THEN Infinity ELSE N[y]]
    /\ stack' = SubSeq(stack, 1, LastCall.depth - 1)
    /\ calls' = Outer
    /\ UNCHANGED <<rel, base>>

Next == StartRoot \/ Descend \/ Merge \/ ReturnInside \/ ReturnComponent
Spec == Init /\ [][Next]_vars /\ WF_vars(Next)

Done == calls = <<>> /\ \A x \in Nodes : N[x] # 0
-----------------------------------------------------------------------------
Finished == {x \in Nodes : N[x] = Infinity}

Abstract == INSTANCE Components
    WITH done <- Finished,
         value <- [x \in Nodes |-> IF x \in Finished THEN read[x] ELSE {}]

(* The fields of the edges and of the activations in their ranges.         *)
TypeOK ==
    /\ rel \in [Nodes -> SUBSET Nodes]
    /\ base \in [Nodes -> SUBSET Elem] /\ read \in [Nodes -> SUBSET Elem]
    /\ N \in [Nodes -> 0 .. Infinity]
    /\ stack \in Seq(Nodes)
    /\ calls \in Seq([node : Nodes, depth : 1 .. Infinity - 1,
                      todo : SUBSET Nodes, waiting : SUBSET Nodes])

(* The value of a finished node is final, and the traversal implements     *)
(* Components: it finishes the components in an order of the condensation, *)
(* with the totals of DeRemer and Pennello.                                *)
FinishesComponents == Abstract!Spec

(* Every node is finished.                                                 *)
Terminates == <>(Done /\ Finished = Nodes)
=============================================================================
