------------------------------ MODULE PredSets ------------------------------
(***************************************************************************)
(* DFA::computePredSets and its recursion computePredSetsSub (dfa.cc): the *)
(* states from which each state can be reached.  The recursion carries the *)
(* set of a state along its moves and turns back where it adds nothing.  A *)
(* call is the state and the number of the move its loop has come to.      *)
(***************************************************************************)
EXTENDS Integers, Sequences, FiniteSets

VARIABLES
    moves,      \* moves[x][m]: the state after x on class m, 0 for none
    predStates, \* DFAState::predStates
    predCalls   \* the activations of computePredSetsSub, the innermost last

predVars == <<moves, predStates, predCalls>>

Call(x) == [state |-> x, move |-> 0]
InnerCall == predCalls[Len(predCalls)]
OuterCalls == SubSeq(predCalls, 1, Len(predCalls) - 1)
Advanced == Append(OuterCalls, [InnerCall EXCEPT !.move = @ + 1])
Classes(x) == DOMAIN moves[x]

(* computePredSets sets every state in its own set and calls for state 1.  *)
StartPredSets ==
    /\ predStates' = [x \in DOMAIN moves |-> {x}]
    /\ predCalls' = <<Call(1)>>
    /\ UNCHANGED moves

AtMove == predCalls # <<>> /\ InnerCall.move \in Classes(InnerCall.state)
Destination == moves[InnerCall.state][InnerCall.move]

(* No move, or the set is contained already: the loop goes on.             *)
PassMove ==
    /\ AtMove
    /\ Destination # 0 => predStates[InnerCall.state] \subseteq predStates[Destination]
    /\ predCalls' = Advanced
    /\ UNCHANGED <<moves, predStates>>

(* mutant: a state that has been reached before is not entered again       *)
MutCarryOnce ==
    /\ AtMove /\ Destination # 0
    /\ ~(predStates[InnerCall.state] \subseteq predStates[Destination])
    /\ predStates' = [predStates EXCEPT ![Destination] = @ \union predStates[InnerCall.state]]
    /\ predCalls' = IF 1 \in predStates[Destination] THEN Advanced
                    ELSE Append(Advanced, Call(Destination))
    /\ UNCHANGED moves

(* The set goes into that of the destination, which is entered (again).    *)
CarryOver ==
    /\ AtMove /\ Destination # 0
    /\ ~(predStates[InnerCall.state] \subseteq predStates[Destination])
    /\ predStates' = [predStates EXCEPT ![Destination] = @ \union predStates[InnerCall.state]]
    /\ predCalls' = Append(Advanced, Call(Destination))
    /\ UNCHANGED moves

ReturnPred ==
    /\ predCalls # <<>> /\ InnerCall.move \notin Classes(InnerCall.state)
    /\ predCalls' = OuterCalls
    /\ UNCHANGED <<moves, predStates>>

PredNext == PassMove \/ CarryOver \/ ReturnPred

(* The traversal of any automaton.                                         *)
PredInit ==
    \E n \in Nat \ {0}, c \in Nat :
        /\ moves \in [1 .. n -> [0 .. c - 1 -> 0 .. n]]
        /\ predStates = [x \in 1 .. n |-> {x}]
        /\ predCalls = <<Call(1)>>
PredSpec == PredInit /\ [][PredNext]_predVars
-----------------------------------------------------------------------------
(* When the recursion is over the set of every state the start reaches     *)
(* contains those of the states with a move to it (copyStartStateMin takes *)
(* the union of such sets for closed under predecessors).                  *)
PredSetsClosed ==
    predCalls = <<>> =>
        \A x \in DOMAIN predStates : 1 \in predStates[x] =>
            \A m \in Classes(x) :
                moves[x][m] # 0 => predStates[x] \subseteq predStates[moves[x][m]]
=============================================================================
