------------------------------ MODULE LRTable ------------------------------
(***************************************************************************)
(* LRTable::constructPDA (lr.cc): the LR(0) automaton of a grammar, built  *)
(* with a growing vector of states.  State q of the code is index q of the *)
(* sequences below (state 0 of the code is a dummy that stands for "not in *)
(* stateHash").  The two loop counters of constructPDA are "state" and     *)
(* "sym"; sym = numSymbols + 1 is the part of the loop body that looks for *)
(* reduce moves.                                                           *)
(***************************************************************************)
EXTENDS Grammar

CONSTANTS
    Grammars,       \* the grammars tables are built for
    PrefixBound     \* how long the viable prefixes of StatesHoldValidItems may be

ASSUME GrammarsAssumption == \A g \in Grammars : IsGrammar(g)
ASSUME BoundAssumption == PrefixBound \in Nat

VARIABLES
    grammar,    \* LRTable::grammar
    items,      \* LRState::items, a sequence of sets of items
    accessSym,  \* LRState::accessSym, 0 for NULL (the start state)
    pred,       \* LRState::pred
    goto,       \* LRState::edges[1..numSymbols], 0 for NULL, else LRShiftEdge::dest
    reduces,    \* the rules of the LRState::edges[0] chain of reductions
    isAdequate, \* LRState::isAdequate
    state, sym  \* the loop counters

tableVars == <<items, accessSym, pred, goto, reduces, isAdequate>>
vars == <<grammar, tableVars, state, sym>>

NoEdges(g) == [x \in Symbols(g) |-> 0]

(***************************************************************************)
(* closure(): the rules, at position 0, of every nonterminal a derivation  *)
(* from a seed can begin with.  The recursion of the code stops at an item *)
(* already present, so what it collects is the least closed set.           *)
(***************************************************************************)
LeftCornerClosed(g, S) ==
    \A r \in RuleIds(g) :
        (g.rules[r].nonterm \in S /\ RuleLength(g, r) > 0) =>
            g.rules[r].syms[1] \in S \union Terminals(g)

(* mutant: closure() adds the rules of the seeds and does not recurse      *)
SeedsOnly(g, seeds) == seeds \intersect Nonterminals(g)

LeftCorners(g, seeds) ==
    {A \in Nonterminals(g) : \A S \in SUBSET Nonterminals(g) :
        (seeds \intersect Nonterminals(g) \subseteq S /\ LeftCornerClosed(g, S)) => A \in S}

Closure(g, seeds) ==
    {[rule |-> r, pos |-> 0] :
        r \in {q \in RuleIds(g) : g.rules[q].nonterm \in LeftCorners(g, seeds)}}

StartItems(g) ==
    {[rule |-> StartRule(g), pos |-> 0]} \union
        Closure(g, {g.rules[StartRule(g)].syms[1]})

Kernel(g, from, x) ==
    {[rule |-> i.rule, pos |-> i.pos + 1] :
        i \in {j \in from : ~IsEnd(g, j) /\ NextSym(g, j) = x}}

Shift(g, from, x) ==
    LET kernel == Kernel(g, from, x)
    IN  kernel \union Closure(g, {NextSym(g, i) : i \in {j \in kernel : ~IsEnd(g, j)}})

(* The rules of the edges[0] chain.                                        *)
ReduceRules(g, from) == {i.rule : i \in {j \in from : j.pos = RuleLength(g, j.rule)}}

HasShifts(q) == \E x \in Symbols(grammar) : goto[q][x] # 0
-----------------------------------------------------------------------------
Init ==
    /\ grammar \in Grammars
    /\ items = <<StartItems(grammar)>>
    /\ accessSym = <<0>>
    /\ pred = <<{}>>
    /\ goto = <<NoEdges(grammar)>>
    /\ reduces = <<{}>>
    /\ isAdequate = <<TRUE>>
    /\ state = 1
    /\ sym = 1

Target == Shift(grammar, items[state], sym)
InShiftLoop == state <= Len(items) /\ sym <= grammar.numSymbols

(* The symbol cannot be shifted: the loop goes on.                         *)
NoShift ==
    /\ InShiftLoop
    /\ Target = {}
    /\ sym' = sym + 1
    /\ UNCHANGED <<grammar, tableVars, state>>

(* stateHash[items] = 0: addState(), then the edge and the predecessor.    *)
ShiftToNewState ==
    /\ InShiftLoop
    /\ Target # {}
    /\ \A q \in DOMAIN items : items[q] # Target
    /\ LET next == Len(items) + 1 IN
       /\ items' = Append(items, Target)
       /\ accessSym' = Append(accessSym, sym)
       /\ pred' = Append(pred, {state})
       /\ goto' = Append([goto EXCEPT ![state][sym] = next], NoEdges(grammar))
       /\ reduces' = Append(reduces, {})
       /\ isAdequate' = Append(isAdequate, TRUE)
    /\ sym' = sym + 1
    /\ UNCHANGED <<grammar, state>>

(* mutant: a known state is found, its pred is not extended                *)
ShiftWithoutPred ==
    /\ InShiftLoop
    /\ Target # {}
    /\ \E next \in DOMAIN items :
       /\ items[next] = Target
       /\ goto' = [goto EXCEPT ![state][sym] = next]
    /\ sym' = sym + 1
    /\ UNCHANGED <<grammar, items, accessSym, pred, reduces, isAdequate, state>>

(* stateHash[items] = next.                                                *)
ShiftToKnownState ==
    /\ InShiftLoop
    /\ Target # {}
    /\ \E next \in DOMAIN items :
       /\ items[next] = Target
       /\ pred' = [pred EXCEPT ![next] = @ \union {state}]
       /\ goto' = [goto EXCEPT ![state][sym] = next]
    /\ sym' = sym + 1
    /\ UNCHANGED <<grammar, items, accessSym, reduces, isAdequate, state>>

(* The reduce moves of the state, then the next state of the vector.       *)
ReduceMoves ==
    /\ state <= Len(items)
    /\ sym = grammar.numSymbols + 1
    /\ LET rules == ReduceRules(grammar, items[state]) IN
       /\ reduces' = [reduces EXCEPT ![state] = rules]
       /\ isAdequate' = [isAdequate EXCEPT ![state] =
             ~(Cardinality(rules) > 1 \/ (rules # {} /\ HasShifts(state)))]
    /\ state' = state + 1
    /\ sym' = 1
    /\ UNCHANGED <<grammar, items, accessSym, pred, goto>>

Next == NoShift \/ ShiftToNewState \/ ShiftToKnownState \/ ReduceMoves
Spec == Init /\ [][Next]_vars /\ WF_vars(Next)

Constructed == state > Len(items)
-----------------------------------------------------------------------------
(* Every field of a state in its range; the vectors grow together.         *)
TypeOK ==
    /\ grammar \in Grammars
    /\ items \in Seq(SUBSET Items(grammar))
    /\ Len(items) > 0
    /\ accessSym \in Seq(0 .. grammar.numSymbols) /\ Len(accessSym) = Len(items)
    /\ pred \in Seq(SUBSET (1 .. Len(items))) /\ Len(pred) = Len(items)
    /\ goto \in Seq([Symbols(grammar) -> 0 .. Len(items)]) /\ Len(goto) = Len(items)
    /\ reduces \in Seq(SUBSET RuleIds(grammar)) /\ Len(reduces) = Len(items)
    /\ isAdequate \in Seq(BOOLEAN) /\ Len(isAdequate) = Len(items)
    /\ state \in 1 .. Len(items) + 1
    /\ sym \in 1 .. grammar.numSymbols + 1

(***************************************************************************)
(* The assertion of constructPDA (lr.cc:158): when a shift leads to a      *)
(* state that exists, that state was first reached by the same symbol.     *)
(* The code keys its states by their items alone.                          *)
(***************************************************************************)
AccessSymAgrees ==
    InShiftLoop => \A q \in DOMAIN items : Target # {} /\ items[q] = Target => accessSym[q] = sym

(***************************************************************************)
(* pred is the converse of the shift edges: includes() (lalr.cc:112-119)   *)
(* finds the state an edge leaves by looking through pred of the state it  *)
(* enters, and asserts that it succeeds.                                   *)
(***************************************************************************)
PredIsConverse ==
    \A p, q \in DOMAIN items :
        /\ p \in pred[q] => accessSym[q] # 0 /\ goto[p][accessSym[q]] = q
        /\ \A x \in Symbols(grammar) : goto[p][x] = q => p \in pred[q] /\ accessSym[q] = x

(***************************************************************************)
(* A predecessor of a state with an item past position 0 holds the same    *)
(* item one position back, so that backtrack() reaches, position by        *)
(* position, the states where a rule was begun (lalr.cc:128-149, 203-205). *)
(***************************************************************************)
PredHoldsOrigin ==
    \A q \in DOMAIN items : \A i \in items[q] : i.pos > 0 =>
        \A p \in pred[q] : [i EXCEPT !.pos = i.pos - 1] \in items[p]

(***************************************************************************)
(* What the automaton is for.  "A is expected after w" when the start      *)
(* symbol derives w A z, rightmost, for some z; the item A -> a . b is     *)
(* valid after w a when A is expected after w.  Both up to length k.       *)
(***************************************************************************)
Begin(A, w) == [nonterm |-> A, after |-> w]

ExpectedIn(g, k, r, e) ==
    LET syms == g.rules[r].syms
    IN  {Begin(syms[j], e.after \o SubSeq(syms, 1, j - 1)) :
            j \in {l \in DOMAIN syms : syms[l] \in Nonterminals(g) /\ Len(e.after) + l - 1 <= k}}

Expected(g, k) ==
    LET E[n \in 0 .. (k + 1) * g.numSymbols] ==
            IF n = 0 THEN {Begin(StartSymbol(g), <<>>)}
            ELSE LET found == E[n - 1]
                 IN  found \union UNION {UNION {ExpectedIn(g, k, r, e) :
                                                    r \in RulesOf(g, e.nonterm)} : e \in found}
    IN  E[(k + 1) * g.numSymbols]

ValidItems(g, k) ==
    {v \in UNION {UNION {{[after |-> e.after \o SubSeq(g.rules[r].syms, 1, p),
                          item |-> [rule |-> r, pos |-> p]] : p \in 0 .. RuleLength(g, r)} :
                        r \in RulesOf(g, e.nonterm)} : e \in Expected(g, k)} :
        Len(v.after) <= k}

Paths(k) ==
    LET P[n \in 0 .. k] ==
            IF n = 0 THEN {[after |-> <<>>, to |-> 1]}
            ELSE LET found == P[n - 1]
                 IN  found \union UNION {{[after |-> Append(p.after, x), to |-> goto[p.to][x]] :
                                             x \in {y \in Symbols(grammar) : goto[p.to][y] # 0}} :
                                        p \in found}
    IN  P[k]

(***************************************************************************)
(* The finished automaton reads exactly the viable prefixes, and the state *)
(* it reaches holds exactly the items valid there (prefixes up to length   *)
(* PrefixBound).                                                           *)
(***************************************************************************)
StatesHoldValidItems ==
    Constructed =>
        ValidItems(grammar, PrefixBound) =
            UNION {{[after |-> p.after, item |-> i] : i \in items[p.to]} : p \in Paths(PrefixBound)}

=============================================================================
