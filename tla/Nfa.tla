-------------------------------- MODULE Nfa --------------------------------
(***************************************************************************)
(* The class NFA (nfa.cc) without its regular expression parser.  A state  *)
(* has at most one move on characters: to "dest", 0 for none, on the set   *)
(* "on".  State 1 is the start; the null state 0 is left out.              *)
(***************************************************************************)
EXTENDS Integers, Sequences, FiniteSets, SequencesExt, EquivClasses

IsNfa(nfa, size) ==
    /\ nfa # <<>>
    /\ nfa \in Seq([on : SUBSET (0 .. size - 1), dest : 0 .. Len(nfa), eps : SUBSET (1 .. Len(nfa)), accept : Nat])

NewState == [on |-> {}, dest |-> 0, eps |-> {}, accept |-> 0]
FromEmpty == <<NewState>>

AddEmptyMove(nfa, from, to) == [nfa EXCEPT ![from].eps = @ \union {to}]
AddCharMove(nfa, from, set, to) == [nfa EXCEPT ![from].on = set, ![from].dest = to]

(* addAlternation: the states of the other automaton are appended, their   *)
(* numbers shifted; the start state gets an empty move to its first.       *)
AddAlternation(nfa, other) ==
    LET start == Len(nfa)
        shifted(st) == [on |-> st.on, accept |-> st.accept,
                        dest |-> IF st.dest = 0 THEN 0 ELSE st.dest + start,
                        eps |-> {e + start : e \in st.eps}]
    IN  AddEmptyMove(nfa, 1, start + 1) \o [i \in DOMAIN other |-> shifted(other[i])]

(* What steps lead to from the elements of a set, the set included: as     *)
(* many times as there are elements a step is made from all of them.       *)
Closure(step, S) ==
    LET close[i \in 0 .. Cardinality(DOMAIN step)] ==
            IF i = 0 THEN S ELSE UNION {{q} \union step[q] : q \in close[i - 1]}
    IN  close[Cardinality(DOMAIN step)]

(* epsilonClosure from every state of a set.                               *)
EpsilonClosure(nfa, S) == Closure([q \in DOMAIN nfa |-> nfa[q].eps], S)

(* move: the states reached on a character, or class of characters.        *)
Move(nfa, S, ch) ==
    EpsilonClosure(nfa, {nfa[q].dest : q \in {p \in S : nfa[p].dest > 0 /\ ch \in nfa[p].on}})

(* The end of computeEquivClasses: the moves on classes of characters.     *)
MutOnCharacters(nfa, ecs) == nfa
OnClasses(nfa, ecs) ==
    [i \in DOMAIN nfa |->
        IF nfa[i].dest > 0 THEN [nfa[i] EXCEPT !.on = ConvertToEquivSet(ecs, @)] ELSE nfa[i]]
=============================================================================
