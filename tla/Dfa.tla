-------------------------------- MODULE Dfa --------------------------------
(***************************************************************************)
(* The class DFA (dfa.cc) up to the conflicts, in the order of main():     *)
(* character classes and subset construction, the tokens to come, the      *)
(* predecessor sets.  The fields of DFAState are functions of the state;   *)
(* the null state 0 is left out.                                           *)
(***************************************************************************)
EXTENDS PredSets, Nfa

CONSTANTS
    Size,   \* the characters are 0 .. Size - 1
    StringBound,
    Inputs  \* what is given: the automaton of the tokens, the strings (up to
            \* StringBound) each of them describes, the parser tables, the options

ASSUME SizeAssumption == Size \in Nat \ {0} /\ StringBound \in Nat
ASSUME InputsAssumption ==
    \A i \in Inputs :
        /\ IsNfa(i.nfa, Size)
        /\ DOMAIN i.lang \subseteq Nat \ {0} /\ IsFiniteSet(DOMAIN i.lang)
        /\ {st.accept : st \in ToSet(i.nfa)} \subseteq {0} \union DOMAIN i.lang
        /\ \A p \in i.parsers : p \in Seq(ToSet(p))

VARIABLES
    input,
    phase,      \* the part of main() that runs
    at, ch,     \* the loop counters of that part
    nfa,
    equivs,     \* the classes of characters
    oldGroups,  \* of them, those a call of addCharClass has to look at
    nfaStates,  \* DFAState::nfaStates
    accepts,    \* DFAState::accepts, a set of tokens
    postAccepts \* DFAState::postAccepts

dfaVars == <<input, phase, at, ch, nfa, equivs, oldGroups, nfaStates, accepts, postAccepts>>

Strings == UNION {[1 .. n -> 0 .. Size - 1] : n \in 0 .. StringBound}
States == DOMAIN nfaStates
NumEquivs == equivs.nGroups
AcceptedBy(S) == {nfa[q].accept : q \in S} \ {0}
-----------------------------------------------------------------------------
DfaInit ==
    /\ input \in Inputs
    /\ phase = "characters" /\ at = 1 /\ ch = 0
    /\ nfa = input.nfa
    /\ equivs = AllInOne(Size) /\ oldGroups = 1
    /\ moves = <<>> /\ predStates = <<>> /\ predCalls = <<>>
    /\ nfaStates = <<>> /\ accepts = <<>> /\ postAccepts = <<>>

(* computeEquivClasses: the characters no move tells apart make a class.   *)
(* addCharClass splits the classes there were when it was called.          *)
MutSplitFirstOnly ==
    /\ phase = "characters" /\ at \in DOMAIN nfa
    /\ nfa[at].dest > 0 /\ ch < oldGroups
    /\ equivs' = SplitClass(equivs, ch, nfa[at].on)
    /\ ch' = oldGroups
    /\ UNCHANGED <<predVars, input, phase, at, nfa, oldGroups, nfaStates, accepts, postAccepts>>
AddCharClass ==
    /\ phase = "characters" /\ at \in DOMAIN nfa
    /\ nfa[at].dest > 0 /\ ch < oldGroups
    /\ equivs' = SplitClass(equivs, ch, nfa[at].on)
    /\ ch' = ch + 1
    /\ UNCHANGED <<predVars, input, phase, at, nfa, oldGroups, nfaStates, accepts, postAccepts>>

NextCharMove ==
    /\ phase = "characters" /\ at \in DOMAIN nfa
    /\ nfa[at].dest > 0 => ch = oldGroups
    /\ at' = at + 1 /\ ch' = 0
    /\ oldGroups' = equivs.nGroups
    /\ UNCHANGED <<predVars, input, phase, nfa, equivs, nfaStates, accepts, postAccepts>>

(* addState: a set of NFA states becomes a state without moves.            *)
NoMoves == [m \in 0 .. NumEquivs - 1 |-> 0]

(* The rest of computeEquivClasses, and the start state of fromNFA.        *)
StartConstruction ==
    /\ phase = "characters" /\ at \notin DOMAIN nfa
    /\ nfa' = OnClasses(nfa, equivs)
    /\ nfaStates' = <<EpsilonClosure(nfa, {1})>>
    /\ accepts' = <<AcceptedBy(EpsilonClosure(nfa, {1}))>>
    /\ moves' = <<NoMoves>>
    /\ phase' = "subsets" /\ at' = 1
    /\ UNCHANGED <<predStates, predCalls, input, ch, equivs, oldGroups, postAccepts>>

(* fromNFA: the move of a state on a class of characters leads to the set  *)
(* of states found; one that is not in nfaMap becomes a new state.         *)
NumberOf(S) == CHOOSE i \in DOMAIN nfaStates : nfaStates[i] = S

ConstructMove ==
    /\ phase = "subsets" /\ at \in States /\ ch < NumEquivs
    /\ \E dest \in {Move(nfa, nfaStates[at], ch)} :
        \/ dest = {} /\ UNCHANGED <<nfaStates, accepts, moves>>
        \/ /\ dest \in ToSet(nfaStates)
           /\ moves' = [moves EXCEPT ![at][ch] = NumberOf(dest)]
           /\ UNCHANGED <<nfaStates, accepts>>
        \/ /\ dest \notin ToSet(nfaStates) \union {{}}
           /\ nfaStates' = Append(nfaStates, dest)
           /\ accepts' = Append(accepts, AcceptedBy(dest))
           /\ moves' = Append([moves EXCEPT ![at][ch] = Len(moves) + 1], NoMoves)
    /\ ch' = ch + 1
    /\ UNCHANGED <<predStates, predCalls, input, phase, at, nfa, equivs, oldGroups, postAccepts>>

ConstructNext ==
    /\ phase = "subsets" /\ at \in States /\ ch = NumEquivs
    /\ at' = at + 1 /\ ch' = 0
    /\ UNCHANGED <<predVars, input, phase, nfa, equivs, oldGroups, nfaStates, accepts, postAccepts>>

(* computeAccepts: what the digraph traversal makes of accepts, namely the *)
(* tokens of all the states a state reaches (module Digraph).              *)
TokensToCome ==
    LET before == [y \in States |-> {x \in States : \E m \in Classes(x) : moves[x][m] = y}]
        from == [t \in UNION {accepts[x] : x \in States} |->
                    Closure(before, {x \in States : t \in accepts[x]})]
    IN  [x \in States |-> {t \in DOMAIN from : x \in from[t]}]

ComputeAccepts ==
    /\ phase = "subsets" /\ at \notin States
    /\ postAccepts' = TokensToCome
    /\ phase' = "predecessors"
    /\ StartPredSets
    /\ UNCHANGED <<input, at, ch, nfa, equivs, oldGroups, nfaStates, accepts>>

FindPredecessors ==
    /\ phase = "predecessors"
    /\ PredNext
    /\ UNCHANGED dfaVars

DfaNext ==
    \/ AddCharClass \/ NextCharMove \/ StartConstruction \/ ConstructMove \/ ConstructNext
    \/ ComputeAccepts \/ FindPredecessors
-----------------------------------------------------------------------------
(* The state after a string, of an automaton given by its next states.     *)
Run(next, start, w) ==
    LET run[i \in 0 .. Len(w)] == IF i = 0 THEN start ELSE next[<<run[i - 1], w[i]>>]
    IN  run[Len(w)]

(* The state of the table after a string, 0 where there is none.           *)
StatesAndChars == (0 .. Len(moves)) \X (0 .. Size - 1)
After(start, w) ==
    Run([p \in StatesAndChars |-> IF p[1] = 0 THEN 0 ELSE moves[p[1]][equivs.group[p[2]]]], start, w)

Matching(w) == {t \in DOMAIN input.lang : w \in input.lang[t]}

(* What the start of the lexer generator is given: an automaton that is in *)
(* a state of a token after the strings its expression describes, and in   *)
(* which every state leads to the end of a token.                          *)
Reads(a, w) ==
    Run([p \in (SUBSET DOMAIN a) \X (0 .. Size - 1) |-> Move(a, p[1], p[2])], EpsilonClosure(a, {1}), w)
Describes(a, lang) ==
    \A w \in Strings, t \in DOMAIN lang : w \in lang[t] <=> \E q \in Reads(a, w) : a[q].accept = t
InputsDescribed == \A i \in Inputs : Describes(i.nfa, i.lang)

LeadsToToken(a) ==
    LET before == [q \in DOMAIN a |-> {p \in DOMAIN a : q \in a[p].eps \/ (q = a[p].dest /\ a[p].on # {})}]
    IN  Closure(before, {q \in DOMAIN a : a[q].accept # 0}) = DOMAIN a
TokensAhead == \A i \in Inputs : LeadsToToken(i.nfa)

(* Two characters are in one class exactly if no move tells them apart:    *)
(* addCharClass splits every class, and splits none for nothing.           *)
ClassesAreCoarsest ==
    phase = "subsets" =>
        LET on == {st.on : st \in {s \in ToSet(input.nfa) : s.dest > 0}}
        IN  /\ ListsHold(equivs)
            /\ \A c, d \in 0 .. Size - 1 :
                (equivs.group[c] = equivs.group[d]) = (\A S \in on : (c \in S) = (d \in S))

(* The table accepts after a string the tokens whose expressions describe  *)
(* it, through parser, character classes, alternation and subsets.         *)
DfaAcceptsLanguage ==
    phase = "predecessors" =>
        \A w \in Strings :
            LET x == After(1, w) IN Matching(w) = IF x = 0 THEN {} ELSE accepts[x]

=============================================================================
