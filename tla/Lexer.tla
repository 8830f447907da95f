------------------------------- MODULE Lexer -------------------------------
(***************************************************************************)
(* DFA::minimize (dfa.cc 104-164), and with it the whole lexer generator   *)
(* from the NFA to the table.  The states, the null state 0 among them,    *)
(* are put into classes by the token they accept; a class is split until   *)
(* no move tells two members apart; then the table is packed in place.     *)
(***************************************************************************)
EXTENDS LexConflicts

VARIABLES
    ecs,        \* the classes of states
    changed     \* whether the sweep has split a class

vars == <<predVars, dfaVars, lexVars, ecs, changed>>

Goal(q, m) == IF q = 0 THEN 0 ELSE moves[q][m]
Token(q) == IF q = 0 THEN 0 ELSE accept[q]
Init == LexInit /\ ecs = AllInOne(1) /\ changed = FALSE

(* The number of a token is the index of its class: as many states as that *)
(* there are (an index beyond the arrays is undefined).                    *)
StartMinimize ==
    /\ phase = "classes"
    /\ \A x \in DOMAIN accept : accept[x] <= Len(moves)
    /\ ecs' = AllInOne(Len(moves) + 1)
    /\ phase' = "tokens" /\ at' = 0
    /\ UNCHANGED <<predVars, lexVars, input, ch, nfa, equivs, oldGroups, nfaStates, accepts, postAccepts, changed>>

ClassOfToken ==
    /\ phase = "tokens" /\ at <= Len(moves)
    /\ ecs' = SetChar(ecs, at, Token(at))
    /\ at' = at + 1
    /\ UNCHANGED <<predVars, lexVars, input, phase, ch, nfa, equivs, oldGroups, nfaStates, accepts, postAccepts,
                   changed>>

ClassesTidy ==
    /\ phase = "tokens" /\ at > Len(moves)
    /\ ecs' = Tidy(ecs)
    /\ phase' = "sweep" /\ at' = 0 /\ ch' = 0
    /\ UNCHANGED <<predVars, lexVars, input, nfa, equivs, oldGroups, nfaStates, accepts, postAccepts, changed>>

(* A class and a class of characters: the members whose move does not lead *)
(* where that of the representative leads are split off.                   *)
Disagreeing(k, m) ==
    LET rep == ecs.repelems[k]
    IN  {q \in ToSet(Members(ecs, k)) : ecs.group[Goal(q, m)] # ecs.group[Goal(rep, m)]}

SweepMove ==
    /\ phase = "sweep" /\ at < ecs.nGroups /\ ch < NumEquivs
    /\ \E set \in {Disagreeing(at, ch)} :
        /\ ecs' = SplitClass(ecs, at, set)
        /\ changed' = (changed \/ set # {})
    /\ ch' = ch + 1
    /\ UNCHANGED <<predVars, lexVars, input, phase, at, nfa, equivs, oldGroups, nfaStates, accepts, postAccepts>>

SweepClass ==
    /\ phase = "sweep" /\ at < ecs.nGroups /\ ch = NumEquivs
    /\ at' = at + 1 /\ ch' = 0
    /\ UNCHANGED <<predVars, lexVars, input, phase, nfa, equivs, oldGroups, nfaStates, accepts, postAccepts, ecs,
                   changed>>

(* mutant: one sweep is enough                                             *)
MutOneSweep ==
    /\ phase = "sweep" /\ at = ecs.nGroups
    /\ IF FALSE THEN phase' = "sweep" /\ at' = 0 ELSE phase' = "pack" /\ at' = at
    /\ changed' = FALSE
    /\ UNCHANGED <<predVars, lexVars, input, ch, nfa, equivs, oldGroups, nfaStates, accepts, postAccepts, ecs>>

(* mutant: a change is remembered for ever                                 *)
MutChangeKept ==
    /\ phase = "sweep" /\ at = ecs.nGroups
    /\ IF changed THEN phase' = "sweep" /\ at' = 0 ELSE phase' = "pack" /\ at' = at
    /\ changed' = changed
    /\ UNCHANGED <<predVars, lexVars, input, ch, nfa, equivs, oldGroups, nfaStates, accepts, postAccepts, ecs>>

(* Sweeps are made until one changes nothing.                              *)
SweepAgain ==
    /\ phase = "sweep" /\ at = ecs.nGroups
    /\ IF changed THEN phase' = "sweep" /\ at' = 0 ELSE phase' = "pack" /\ at' = at
    /\ changed' = FALSE
    /\ UNCHANGED <<predVars, lexVars, input, ch, nfa, equivs, oldGroups, nfaStates, accepts, postAccepts, ecs>>

(* mutant: the classes are not sorted before the table is packed           *)
MutUnsorted == ecs
Sorted == SortClasses(ecs)

(* State k is made from the representative of class k, one after the       *)
(* other, in the table the representatives are read from.                  *)
Packed(e) ==
    LET made(state) ==
            [accept |-> state.accept, moves |-> [m \in 0 .. NumEquivs - 1 |-> e.group[state.moves[m]]]]
        table[k \in 0 .. e.nGroups - 1] ==
            IF k = 0 THEN [x \in DOMAIN moves |-> [accept |-> accept[x], moves |-> moves[x]]]
            ELSE Then(table[k - 1], LAMBDA t : [t EXCEPT ![k] = made(t[e.repelems[k]])])
    IN  Then(table[e.nGroups - 1], LAMBDA t : [k \in 1 .. e.nGroups - 1 |-> t[k]])

Pack ==
    /\ phase = "pack"
    /\ phase' = "done"
    /\ IF ecs.nGroups = Len(moves) + 1
       THEN UNCHANGED <<moves, accept, startStates, ecs, accepts, predStates>>
       ELSE \E sorted \in {Sorted} : \E table \in {Packed(sorted)} :
            /\ ecs' = sorted
            /\ moves' = [k \in DOMAIN table |-> table[k].moves]
            /\ accept' = [k \in DOMAIN table |-> table[k].accept]
            /\ startStates' = [s \in DOMAIN startStates |-> sorted.group[startStates[s]]]
            /\ accepts' = [k \in DOMAIN table |-> {}]
            /\ predStates' = <<>>     \* of the old states, not read any more
    /\ UNCHANGED <<predCalls, input, at, ch, nfa, equivs, oldGroups, nfaStates, postAccepts, parser, identity,
                   edgeRow, changed>>

Next ==
    \/ LexNext /\ UNCHANGED <<ecs, changed>>
    \/ StartMinimize \/ ClassOfToken \/ ClassesTidy
    \/ SweepMove \/ SweepClass \/ SweepAgain \/ Pack
Spec == Init /\ [][Next]_vars /\ WF_vars(Next)
-----------------------------------------------------------------------------
(* The fields in their ranges; the facts the theorem about the conflicts   *)
(* takes from the construction; and the invariant of the classes, asserted *)
(* after tidy() ("paranoia yes", dfa.cc:113), through splitCharClass too.  *)
TypeOK ==
    /\ phase \in {"characters", "subsets", "predecessors", "parser", "edges", "classes",
                 "tokens", "sweep", "pack", "done"}
    /\ moves \in Seq([0 .. NumEquivs - 1 -> 0 .. Len(moves)])
    /\ accepts \in Seq(SUBSET DOMAIN input.lang)
    /\ Len(accept) \in {0, Len(moves)}
    /\ accept \in Seq({0} \union DOMAIN input.lang)
    /\ startStates \in Seq(1 .. Len(moves))
    /\ Len(startStates) <= Len(parser)
    /\ Len(predCalls) > 0 => phase = "predecessors"
    /\ phase \in {"parser", "edges"} => TableFacts
    /\ phase = "sweep" /\ ch = 0 => ListsHold(ecs)

(* When the sweeps are over the members of a class have one token and      *)
(* moves into the same classes, and some string leads two classes to       *)
(* different tokens: no table with fewer states does the same.             *)
Distinguished ==
    LET K == 0 .. ecs.nGroups - 1
        rep(k) == ecs.repelems[k]
        goal(k, m) == ecs.group[Goal(rep(k), m)]
        before(D) == {p \in K \X K :
                        \E m \in 0 .. NumEquivs - 1 : <<goal(p[1], m), goal(p[2], m)>> \in D}
        grown[i \in 0 .. Cardinality(K \X K)] ==
            IF i = 0 THEN {p \in K \X K : Token(rep(p[1])) # Token(rep(p[2]))}
            ELSE Then(grown[i - 1], LAMBDA D : D \union before(D))
    IN  grown[Cardinality(K \X K)]

ClassesAreEquivalence ==
    phase = "pack" =>
        /\ \A k \in 0 .. ecs.nGroups - 1 : \A q \in ToSet(Members(ecs, k)) :
            /\ Token(q) = Token(ecs.repelems[k])
            /\ \A m \in 0 .. NumEquivs - 1 : q \notin Disagreeing(k, m)
        /\ \A D \in {Distinguished} : \A k, l \in 0 .. ecs.nGroups - 1 : k # l => <<k, l>> \in D

(* Packing changes the token of no string in any parser state.             *)
PackKeepsTokens ==
    [][phase = "pack" =>
        \A s \in ParserStates : \A w \in Strings : TokenAfter(s, w)' = TokenAfter(s, w)]_vars

(* Every loop of the lexer generator ends.                                 *)
LexerEnds == <>(phase = "done")
=============================================================================
