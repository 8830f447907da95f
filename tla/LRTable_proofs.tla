--------------------------- MODULE LRTable_proofs ---------------------------
(***************************************************************************)
(* Proofs about LRTable, Lalr and ParserTables, for every set of grammars  *)
(* and without a bound on the number of states.  The inductive invariant   *)
(* of constructPDA adds what the access symbol says about the              *)
(* items of a state, that the edges the loop has not come to are NULL, and *)
(* that an edge leads to the shift of the state it leaves; for the         *)
(* assertions of includes() also that the edges behind the loop are set,   *)
(* and that a rule begins only in states that want its left side.  That of *)
(* computeLALRSets says which sets each traversal starts from, and leaves  *)
(* the traversals to Digraph_proofs and the nullable marks to              *)
(* Nullable_proofs; that the sets it ends with are the lookaheads of the   *)
(* reference for these marks is a matter of the finished automaton.  The   *)
(* generator of ParserTables implements both; its invariant adds what the  *)
(* entries of the states left behind are.                                  *)
(***************************************************************************)
EXTENDS ParserTables, SequenceTheorems, FiniteSetTheorems, TLAPS

AccessSymOfItems ==
    \A q \in DOMAIN items :
        /\ accessSym[q] = 0 <=> \A i \in items[q] : i.pos = 0
        /\ \A i \in items[q] : i.pos > 0 =>
              /\ i.pos <= RuleLength(grammar, i.rule)
              /\ grammar.rules[i.rule].syms[i.pos] = accessSym[q]

EdgesAheadAreNull ==
    \A p \in DOMAIN items, x \in Symbols(grammar) :
        p > state \/ (p = state /\ x >= sym) => goto[p][x] = 0

EdgesAreShifts ==
    \A p, q \in DOMAIN items, x \in Symbols(grammar) :
        goto[p][x] = q => items[q] = Shift(grammar, items[p], x)

IInv == /\ TypeOK
        /\ AccessSymOfItems
        /\ EdgesAheadAreNull
        /\ EdgesAreShifts
        /\ PredIsConverse

(* The facts about types that the steps below need one by one.             *)
LEMMA GrammarFacts ==
    ASSUME TypeOK
    PROVE  IsGrammar(grammar) /\ grammar.numSymbols \in Nat
BY GrammarsAssumption DEF TypeOK, IsGrammar

LEMMA TableFacts ==
    ASSUME TypeOK
    PROVE  /\ DOMAIN items = 1 .. Len(items) /\ Len(items) \in Nat \ {0}
           /\ \A q \in 1 .. Len(items) :
                 /\ items[q] \in SUBSET Items(grammar)
                 /\ accessSym[q] \in 0 .. grammar.numSymbols
                 /\ pred[q] \in SUBSET (1 .. Len(items))
                 /\ goto[q] \in [Symbols(grammar) -> 0 .. Len(items)]
<1> USE DEF TypeOK
<1>1. DOMAIN items = 1 .. Len(items) /\ Len(items) \in Nat
  BY LenProperties
<1>2. \A q \in 1 .. Len(items) : items[q] \in SUBSET Items(grammar)
  BY ElementOfSeq
<1>3. \A q \in 1 .. Len(items) : accessSym[q] \in 0 .. grammar.numSymbols
  BY ElementOfSeq
<1>4. \A q \in 1 .. Len(items) : pred[q] \in SUBSET (1 .. Len(items))
  BY ElementOfSeq
<1>5. \A q \in 1 .. Len(items) : goto[q] \in [Symbols(grammar) -> 0 .. Len(items)]
  BY ElementOfSeq
<1> QED
  BY <1>1, <1>2, <1>3, <1>4, <1>5

LEMMA SeqOfSuperset ==
    ASSUME NEW S, NEW T, S \subseteq T, NEW s \in Seq(S)
    PROVE  s \in Seq(T)
<1>1. Len(s) \in Nat /\ s \in [1 .. Len(s) -> S]
  BY LenProperties
<1>2. s \in [1 .. Len(s) -> T]
  BY <1>1
<1> QED
  BY <1>1, <1>2

(* What closure() adds are beginnings of rules.                            *)
LEMMA ClosureItems ==
    ASSUME NEW g, NEW seeds
    PROVE  Closure(g, seeds) \subseteq Items(g) /\ \A i \in Closure(g, seeds) : i.pos = 0
<1> SUFFICES ASSUME NEW i \in Closure(g, seeds) PROVE i \in Items(g) /\ i.pos = 0
  OBVIOUS
<1>1. PICK r \in RuleIds(g) : i = [rule |-> r, pos |-> 0]
  BY DEF Closure
<1> QED
  BY <1>1 DEF Items

(* Nothing begins with nothing.                                            *)
LEMMA ClosureOfNothing ==
    ASSUME NEW g
    PROVE  Closure(g, {}) = {}
<1>1. LeftCornerClosed(g, {})
  BY DEF LeftCornerClosed
<1>2. LeftCorners(g, {}) = {}
  <2> SUFFICES ASSUME NEW A \in LeftCorners(g, {}) PROVE FALSE
    OBVIOUS
  <2>1. {} \in SUBSET Nonterminals(g) /\ {} \intersect Nonterminals(g) \subseteq {}
    OBVIOUS
  <2> QED
    BY <1>1, <2>1 DEF LeftCorners
<1> QED
  BY <1>2 DEF Closure

(* The right side of a rule has a length.                                  *)
LEMMA RuleLengthType ==
    ASSUME NEW g, IsGrammar(g), NEW r \in RuleIds(g)
    PROVE  RuleLength(g, r) \in Nat
<1> DEFINE Rules == [nonterm : Nonterminals(g), syms : Seq(Symbols(g))]
<1>1. g.rules \in Seq(Rules)
  BY DEF IsGrammar
<1>2. r \in 1 .. Len(g.rules)
  BY DEF RuleIds
<1>3. g.rules[r] \in Rules
  <2> HIDE DEF Rules
  <2> QED BY <1>1, <1>2
<1>4. g.rules[r].syms \in Seq(Symbols(g))
  BY <1>3
<1> HIDE DEF Rules
<1> QED
  BY <1>4 DEF RuleLength

(* The right side of a rule consists of symbols.                           *)
LEMMA RightSideSymbols ==
    ASSUME NEW g, IsGrammar(g), NEW r \in RuleIds(g), NEW k \in 1 .. RuleLength(g, r)
    PROVE  g.rules[r].syms[k] \in Symbols(g)
<1> DEFINE Rules == [nonterm : Nonterminals(g), syms : Seq(Symbols(g))]
<1>1. g.rules \in Seq(Rules) /\ r \in 1 .. Len(g.rules)
  BY DEF IsGrammar, RuleIds
<1>2. g.rules[r] \in Rules
  <2> HIDE DEF Rules
  <2> QED BY <1>1
<1>3. g.rules[r].syms \in Seq(Symbols(g))
  BY <1>2
<1> HIDE DEF Rules
<1> QED
  BY <1>3 DEF RuleLength

LEMMA RuleNonterm ==
    ASSUME NEW g, IsGrammar(g), NEW r \in RuleIds(g)
    PROVE  g.rules[r].nonterm \in Nonterminals(g)
<1> DEFINE Rules == [nonterm : Nonterminals(g), syms : Seq(Symbols(g))]
<1>1. g.rules \in Seq(Rules) /\ r \in 1 .. Len(g.rules)
  BY DEF IsGrammar, RuleIds
<1>2. g.rules[r] \in Rules
  <2> HIDE DEF Rules
  <2> QED BY <1>1
<1> QED
  BY <1>2

LEMMA SymbolKinds ==
    ASSUME NEW g, IsGrammar(g)
    PROVE  Symbols(g) = Terminals(g) \union Nonterminals(g) /\ Terminals(g) \intersect Nonterminals(g) = {}
<1>1. g.lastTerminal \in Nat /\ g.numSymbols \in Nat /\ g.lastTerminal < g.numSymbols
  BY DEF IsGrammar
<1> QED
  BY <1>1 DEF Symbols, Terminals, Nonterminals

(* An item of a shift is either a kernel item, moved over the symbol, or   *)
(* the beginning of a rule.                                                *)
LEMMA ShiftItems ==
    ASSUME NEW g, IsGrammar(g), NEW from \in SUBSET Items(g), NEW x \in Symbols(g)
    PROVE  /\ Shift(g, from, x) \in SUBSET Items(g)
           /\ \A i \in Shift(g, from, x) : i.pos > 0 =>
                 /\ i.pos <= RuleLength(g, i.rule)
                 /\ g.rules[i.rule].syms[i.pos] = x
                 /\ [i EXCEPT !.pos = i.pos - 1] \in from
<1>1. \A seeds : Closure(g, seeds) \subseteq {i \in Items(g) : i.pos = 0}
  BY ClosureItems
<1>2. ASSUME NEW i \in Kernel(g, from, x)
      PROVE  /\ i \in Items(g)
             /\ i.pos > 0
             /\ i.pos <= RuleLength(g, i.rule)
             /\ g.rules[i.rule].syms[i.pos] = x
             /\ [i EXCEPT !.pos = i.pos - 1] \in from
  <2>1. PICK j \in from : /\ ~IsEnd(g, j) /\ NextSym(g, j) = x
                          /\ i = [rule |-> j.rule, pos |-> j.pos + 1]
    BY <1>2 DEF Kernel
  <2>2. j = [rule |-> j.rule, pos |-> j.pos] /\ j.rule \in RuleIds(g) /\ j.pos \in Nat
    BY DEF Items
  <2>3. i \in Items(g) /\ i.pos = j.pos + 1 /\ i.rule = j.rule
    BY <2>1, <2>2 DEF Items
  <2>4. [i EXCEPT !.pos = i.pos - 1] = j
    BY <2>1, <2>2
  <2>5. RuleLength(g, j.rule) \in Nat
    BY <2>2, RuleLengthType
  <2> QED
    BY <2>1, <2>2, <2>3, <2>4, <2>5 DEF IsEnd, NextSym
<1>3. \A i \in Shift(g, from, x) :
         i \in Kernel(g, from, x) \/ i \in {j \in Items(g) : j.pos = 0}
  BY <1>1 DEF Shift
<1>4. ASSUME NEW i \in Shift(g, from, x), i.pos > 0
      PROVE  i \in Kernel(g, from, x)
  BY <1>3, <1>4
<1>5. Shift(g, from, x) \subseteq Items(g)
  BY <1>2, <1>3
<1> QED
  BY <1>2, <1>4, <1>5

(* A shift that has an item has a kernel item.                             *)
LEMMA ShiftHasKernel ==
    ASSUME NEW g, IsGrammar(g), NEW from \in SUBSET Items(g), NEW x \in Symbols(g),
           Shift(g, from, x) # {}
    PROVE  \E i \in Shift(g, from, x) : i.pos > 0
<1>1. Kernel(g, from, x) # {}
  <2>1. SUFFICES ASSUME Kernel(g, from, x) = {} PROVE FALSE
    OBVIOUS
  <2>2. {NextSym(g, i) : i \in {j \in Kernel(g, from, x) : ~IsEnd(g, j)}} = {}
    BY <2>1
  <2> QED
    BY <2>1, <2>2, ClosureOfNothing DEF Shift
<1>2. PICK i \in Kernel(g, from, x) : TRUE
  BY <1>1
<1>3. PICK j \in from : i = [rule |-> j.rule, pos |-> j.pos + 1]
  BY <1>2 DEF Kernel
<1>4. j.pos \in Nat
  BY DEF Items
<1>5. Kernel(g, from, x) \subseteq Shift(g, from, x)
  BY DEF Shift
<1> QED
  BY <1>2, <1>3, <1>4, <1>5

LEMMA LoopFacts ==
    ASSUME TypeOK, InShiftLoop
    PROVE  /\ state \in 1 .. Len(items) /\ sym \in Symbols(grammar)
           /\ Target \in SUBSET Items(grammar)
           /\ \A i \in Target : i.pos > 0 =>
                 /\ i.pos <= RuleLength(grammar, i.rule)
                 /\ grammar.rules[i.rule].syms[i.pos] = sym
                 /\ [i EXCEPT !.pos = i.pos - 1] \in items[state]
           /\ Target # {} => \E i \in Target : i.pos > 0
<1>1. state \in 1 .. Len(items) /\ sym \in Symbols(grammar)
  BY GrammarFacts, TableFacts DEF TypeOK, InShiftLoop, Symbols
<1>2. items[state] \in SUBSET Items(grammar)
  BY <1>1, TableFacts
<1> QED
  BY <1>1, <1>2, GrammarFacts, ShiftItems, ShiftHasKernel DEF Target

(* The start state holds only beginnings of rules.                         *)
LEMMA StartItemsType ==
    ASSUME NEW g, IsGrammar(g)
    PROVE  StartItems(g) \in SUBSET Items(g) /\ \A i \in StartItems(g) : i.pos = 0
<1>1. [rule |-> StartRule(g), pos |-> 0] \in Items(g)
  BY DEF StartRule, RuleIds, IsGrammar, Items
<1> QED
  BY <1>1, ClosureItems DEF StartItems

(* The assertion of lr.cc:158 follows from what the items say.             *)
LEMMA AccessSymFromItems ==
    ASSUME TypeOK, AccessSymOfItems
    PROVE  AccessSymAgrees
<1> SUFFICES ASSUME InShiftLoop, NEW q \in DOMAIN items, Target # {}, items[q] = Target
             PROVE  accessSym[q] = sym
  BY DEF AccessSymAgrees
<1>1. PICK i \in Target : i.pos > 0
  BY LoopFacts
<1>2. grammar.rules[i.rule].syms[i.pos] = sym
  BY <1>1, LoopFacts
<1> QED
  BY <1>1, <1>2 DEF AccessSymOfItems

LEMMA InitIInv == Init => IInv
<1> SUFFICES ASSUME Init PROVE IInv
  OBVIOUS
<1> USE DEF Init
<1>1. IsGrammar(grammar)
  BY GrammarsAssumption
<1>2. /\ DOMAIN items = {1} /\ items[1] = StartItems(grammar)
      /\ accessSym[1] = 0 /\ pred[1] = {} /\ goto[1] = NoEdges(grammar)
  OBVIOUS
<1>3. TypeOK
  <2>1. Len(items) = 1 /\ Len(accessSym) = 1 /\ Len(pred) = 1 /\ Len(goto) = 1
        /\ Len(reduces) = 1 /\ Len(isAdequate) = 1
    OBVIOUS
  <2>2. items \in Seq(SUBSET Items(grammar))
    BY <1>1, StartItemsType
  <2>3. grammar.numSymbols \in Nat
    BY <1>1 DEF IsGrammar
  <2>4. accessSym \in Seq(0 .. grammar.numSymbols)
    BY <2>3
  <2>5. pred \in Seq(SUBSET (1 .. Len(items)))
    BY <2>1
  <2>6. NoEdges(grammar) \in [Symbols(grammar) -> 0 .. Len(items)]
    BY <2>1 DEF NoEdges
  <2>7. goto \in Seq([Symbols(grammar) -> 0 .. Len(items)])
    BY <2>6
  <2>8. reduces \in Seq(SUBSET RuleIds(grammar)) /\ isAdequate \in Seq(BOOLEAN)
    OBVIOUS
  <2>9. state \in 1 .. Len(items) + 1 /\ sym \in 1 .. grammar.numSymbols + 1
    BY <2>1, <2>3
  <2> QED
    BY <2>1, <2>2, <2>4, <2>5, <2>7, <2>8, <2>9 DEF TypeOK
<1>4. AccessSymOfItems
  BY <1>1, <1>2, StartItemsType DEF AccessSymOfItems
<1>5. EdgesAheadAreNull /\ EdgesAreShifts /\ PredIsConverse
  BY <1>2 DEF EdgesAheadAreNull, EdgesAreShifts, PredIsConverse, NoEdges
<1> QED
  BY <1>3, <1>4, <1>5 DEF IInv

LEMMA NoShiftIInv == IInv /\ NoShift => IInv'
<1> SUFFICES ASSUME IInv, NoShift PROVE IInv'
  OBVIOUS
<1> USE DEF IInv
<1>1. UNCHANGED <<grammar, items, accessSym, pred, goto, reduces, isAdequate, state>>
  BY DEF NoShift, tableVars
<1>2. sym \in Nat /\ sym' = sym + 1 /\ sym <= grammar.numSymbols /\ state \in Nat
  BY GrammarFacts, TableFacts, LoopFacts DEF NoShift, InShiftLoop, Symbols
<1>3. TypeOK'
  BY <1>1, <1>2, GrammarFacts DEF TypeOK
<1>4. EdgesAheadAreNull'
  BY <1>1, <1>2, GrammarFacts DEF EdgesAheadAreNull, Symbols
<1> QED
  BY <1>1, <1>3, <1>4 DEF AccessSymOfItems, EdgesAreShifts, PredIsConverse

LEMMA ReduceMovesIInv == IInv /\ ReduceMoves => IInv'
<1> SUFFICES ASSUME IInv, ReduceMoves PROVE IInv'
  OBVIOUS
<1> USE DEF IInv
<1>1. UNCHANGED <<grammar, items, accessSym, pred, goto>>
  BY DEF ReduceMoves
<1>2. /\ Len(items) \in Nat \ {0} /\ state \in 1 .. Len(items) /\ state' = state + 1
      /\ sym = grammar.numSymbols + 1 /\ sym' = 1
  BY TableFacts DEF ReduceMoves, TypeOK
<1>3. TypeOK'
  <2>1. ReduceRules(grammar, items[state]) \in SUBSET RuleIds(grammar)
    BY <1>2, TableFacts DEF ReduceRules, Items
  <2>2. reduces' \in Seq(SUBSET RuleIds(grammar)) /\ Len(reduces') = Len(items)
    BY <1>2, <2>1, ExceptSeq DEF TypeOK, ReduceMoves
  <2>3. isAdequate' \in Seq(BOOLEAN) /\ Len(isAdequate') = Len(items)
    <3> DEFINE a == ~(Cardinality(ReduceRules(grammar, items[state])) > 1 \/
                     (ReduceRules(grammar, items[state]) # {} /\ HasShifts(state)))
    <3>1. a \in BOOLEAN /\ isAdequate' = [isAdequate EXCEPT ![state] = a]
      BY DEF ReduceMoves
    <3> HIDE DEF a
    <3> QED
      BY <1>2, <3>1, ExceptSeq DEF TypeOK
  <2> QED
    BY <1>1, <1>2, <2>2, <2>3, GrammarFacts DEF TypeOK
<1>4. EdgesAheadAreNull'
  BY <1>1, <1>2, TableFacts DEF EdgesAheadAreNull
<1> QED
  BY <1>1, <1>3, <1>4 DEF AccessSymOfItems, EdgesAreShifts, PredIsConverse

LEMMA ShiftToNewStateIInv == IInv /\ ShiftToNewState => IInv'
<1> SUFFICES ASSUME IInv, ShiftToNewState PROVE IInv'
  OBVIOUS
<1> USE DEF IInv
<1> DEFINE Size == Len(items)
<1>1. /\ Size \in Nat \ {0} /\ state \in 1 .. Size /\ sym \in Symbols(grammar)
      /\ grammar.numSymbols \in Nat /\ sym \in Nat \ {0}
      /\ Target \in SUBSET Items(grammar) /\ \E i \in Target : i.pos > 0
      /\ \A i \in Target : i.pos > 0 =>
            /\ i.pos <= RuleLength(grammar, i.rule)
            /\ grammar.rules[i.rule].syms[i.pos] = sym
  <2>1. InShiftLoop /\ Target # {}
    BY DEF ShiftToNewState
  <2>2. grammar.numSymbols \in Nat /\ Size \in Nat \ {0}
    BY GrammarFacts, TableFacts
  <2>3. sym \in Symbols(grammar)
    BY <2>1, LoopFacts
  <2>4. sym \in Nat \ {0}
    BY <2>2, <2>3 DEF Symbols
  <2> QED
    BY <2>1, <2>2, <2>3, <2>4, LoopFacts
<1>2. grammar' = grammar /\ state' = state /\ sym' = sym + 1
  BY DEF ShiftToNewState
<1>3. /\ items' \in Seq(SUBSET Items(grammar)) /\ Len(items') = Size + 1
      /\ items'[Size + 1] = Target /\ \A q \in 1 .. Size : items'[q] = items[q]
  BY <1>1, AppendProperties DEF ShiftToNewState, TypeOK
<1>4. /\ accessSym' \in Seq(0 .. grammar.numSymbols) /\ Len(accessSym') = Size + 1
      /\ accessSym'[Size + 1] = sym /\ \A q \in 1 .. Size : accessSym'[q] = accessSym[q]
  <2>1. sym \in 0 .. grammar.numSymbols
    BY <1>1 DEF Symbols
  <2> QED
    BY <2>1, <1>1, AppendProperties DEF ShiftToNewState, TypeOK
<1>5. /\ pred' \in Seq(SUBSET (1 .. Size + 1)) /\ Len(pred') = Size + 1
      /\ pred'[Size + 1] = {state} /\ \A q \in 1 .. Size : pred'[q] = pred[q]
  <2>1. {state} \in SUBSET (1 .. Size + 1) /\ SUBSET (1 .. Size) \subseteq SUBSET (1 .. Size + 1)
    BY <1>1
  <2>2. pred \in Seq(SUBSET (1 .. Size + 1)) /\ Len(pred) = Size
    BY <2>1, SeqOfSuperset DEF TypeOK
  <2> QED
    BY <2>1, <2>2, AppendProperties DEF ShiftToNewState
<1>6. /\ goto' \in Seq([Symbols(grammar) -> 0 .. Size + 1]) /\ Len(goto') = Size + 1
      /\ \A x \in Symbols(grammar) : goto'[Size + 1][x] = 0
      /\ \A p \in 1 .. Size, x \in Symbols(grammar) :
            goto'[p][x] = IF p = state /\ x = sym THEN Size + 1 ELSE goto[p][x]
  <2> DEFINE E == [Symbols(grammar) -> 0 .. Size + 1]
             e == [goto[state] EXCEPT ![sym] = Size + 1]
  <2>1. NoEdges(grammar) \in E /\ \A x \in Symbols(grammar) : NoEdges(grammar)[x] = 0
    BY <1>1 DEF NoEdges
  <2>2. goto \in Seq(E) /\ Len(goto) = Size
    <3>1. [Symbols(grammar) -> 0 .. Size] \subseteq E
      BY <1>1
    <3> QED
      BY <3>1, SeqOfSuperset DEF TypeOK
  <2>3. e \in E /\ \A x \in Symbols(grammar) : e[x] = IF x = sym THEN Size + 1 ELSE goto[state][x]
    BY <1>1, TableFacts
  <2>4. goto' = Append([goto EXCEPT ![state] = e], NoEdges(grammar))
    BY DEF ShiftToNewState
  <2>5. /\ [goto EXCEPT ![state] = e] \in Seq(E)
        /\ Len([goto EXCEPT ![state] = e]) = Size
        /\ \A p \in 1 .. Size : [goto EXCEPT ![state] = e][p] = IF p = state THEN e ELSE goto[p]
    <3> HIDE DEF E, e
    <3> QED
      BY <2>2, <2>3, <1>1, ExceptSeq
  <2>6. /\ goto' \in Seq(E) /\ Len(goto') = Size + 1 /\ goto'[Size + 1] = NoEdges(grammar)
        /\ \A p \in 1 .. Size : goto'[p] = [goto EXCEPT ![state] = e][p]
    <3> HIDE DEF E, e
    <3> QED
      BY <2>1, <2>4, <2>5, AppendProperties
  <2>7. ASSUME NEW p \in 1 .. Size, NEW x \in Symbols(grammar)
        PROVE  goto'[p][x] = IF p = state /\ x = sym THEN Size + 1 ELSE goto[p][x]
    <3> HIDE DEF E, e
    <3>1. CASE p = state
      BY <3>1, <2>3, <2>5, <2>6
    <3>2. CASE p # state
      BY <3>2, <2>5, <2>6
    <3> QED
      BY <3>1, <3>2
  <2> QED
    BY <2>1, <2>6, <2>7
<1>7. TypeOK'
  <2>1. reduces' \in Seq(SUBSET RuleIds(grammar)) /\ Len(reduces') = Size + 1
    BY AppendProperties DEF ShiftToNewState, TypeOK
  <2>2. isAdequate' \in Seq(BOOLEAN) /\ Len(isAdequate') = Size + 1
    BY AppendProperties DEF ShiftToNewState, TypeOK
  <2>3. state' \in 1 .. Size + 2 /\ sym' \in 1 .. grammar.numSymbols + 1
    BY <1>1, <1>2 DEF Symbols
  <2> QED
    BY <1>1, <1>2, <1>3, <1>4, <1>5, <1>6, <2>1, <2>2, <2>3 DEF TypeOK
<1>8. DOMAIN items = 1 .. Size /\ DOMAIN items' = 1 .. Size + 1
  BY <1>3, LenProperties, TableFacts
<1> HIDE DEF Size
<1>13. /\ \A x \in Symbols(grammar) : goto'[Size + 1][x] = 0
       /\ goto'[state][sym] = Size + 1
       /\ \A p \in 1 .. Size, x \in Symbols(grammar) :
             p # state \/ x # sym => goto'[p][x] = goto[p][x]
  <2>1. \A x \in Symbols(grammar) : goto'[Size + 1][x] = 0
    BY <1>6
  <2>2. goto'[state][sym] = Size + 1
    BY <1>1, <1>6
  <2>3. \A p \in 1 .. Size, x \in Symbols(grammar) :
            p # state \/ x # sym => goto'[p][x] = goto[p][x]
    BY <1>6
  <2> QED
    BY <2>1, <2>2, <2>3
<1>14. Size \in Nat \ {0} /\ state \in 1 .. Size /\ sym \in Symbols(grammar)
  BY <1>1
<1>9. AccessSymOfItems'
  <2> SUFFICES ASSUME NEW q \in 1 .. Size + 1
               PROVE  /\ accessSym'[q] = 0 <=> \A i \in items'[q] : i.pos = 0
                      /\ \A i \in items'[q] : i.pos > 0 =>
                           /\ i.pos <= RuleLength(grammar, i.rule)
                           /\ grammar.rules[i.rule].syms[i.pos] = accessSym'[q]
    BY <1>2, <1>8 DEF AccessSymOfItems
  <2>1. CASE q \in 1 .. Size
    BY <2>1, <1>3, <1>4, <1>8 DEF AccessSymOfItems
  <2>2. CASE q = Size + 1
    BY <2>2, <1>1, <1>3, <1>4
  <2> QED
    BY <1>1, <2>1, <2>2
<1>10. EdgesAheadAreNull'
  BY <1>1, <1>2, <1>13, <1>8 DEF EdgesAheadAreNull, Symbols
<1>11. EdgesAreShifts'
  <2> SUFFICES ASSUME NEW p \in 1 .. Size + 1, NEW q \in 1 .. Size + 1, NEW x \in Symbols(grammar),
                      goto'[p][x] = q
               PROVE  items'[q] = Shift(grammar, items'[p], x)
    BY <1>2, <1>8 DEF EdgesAreShifts
  <2>1. p \in 1 .. Size
    BY <1>14, <1>13
  <2>2. CASE p = state /\ x = sym
    BY <2>1, <2>2, <1>1, <1>3, <1>13 DEF Target
  <2>3. CASE ~(p = state /\ x = sym)
    <3>1. goto[p][x] = q /\ goto[p][x] \in 0 .. Size
      BY <2>1, <2>3, <1>13, TableFacts DEF Size
    <3>2. q \in 1 .. Size
      BY <3>1, <1>1
    <3> QED
      BY <3>1, <3>2, <2>1, <1>3, <1>8 DEF EdgesAreShifts
  <2> QED
    BY <2>2, <2>3
<1>12. PredIsConverse'
  <2> SUFFICES ASSUME NEW p \in 1 .. Size + 1, NEW q \in 1 .. Size + 1
               PROVE  /\ p \in pred'[q] => accessSym'[q] # 0 /\ goto'[p][accessSym'[q]] = q
                      /\ \A x \in Symbols(grammar) :
                            goto'[p][x] = q => p \in pred'[q] /\ accessSym'[q] = x
    BY <1>2, <1>8 DEF PredIsConverse
  <2>1. goto[state][sym] = 0
    BY <1>1, <1>8 DEF EdgesAheadAreNull
  <2>2. CASE q = Size + 1
    <3>1. ASSUME NEW x \in Symbols(grammar), goto'[p][x] = q PROVE p = state /\ x = sym
      <4>1. p \in 1 .. Size
        BY <3>1, <2>2, <1>14, <1>13
      <4>2. goto[p][x] \in 0 .. Size
        BY <4>1, TableFacts DEF Size
      <4> QED
        BY <4>1, <4>2, <3>1, <2>2, <1>14, <1>13
    <3> QED
      BY <3>1, <2>2, <1>1, <1>4, <1>5, <1>13
  <2>3. CASE q \in 1 .. Size
    <3>1. accessSym'[q] = accessSym[q] /\ pred'[q] = pred[q] /\ pred[q] \subseteq 1 .. Size
          /\ accessSym[q] \in 0 .. grammar.numSymbols
      BY <2>3, <1>4, <1>5, TableFacts DEF Size
    <3>2. ASSUME p \in pred[q] PROVE accessSym[q] # 0 /\ goto'[p][accessSym[q]] = q
      <4>1. p \in 1 .. Size
        BY <3>1, <3>2
      <4>2. accessSym[q] # 0 /\ goto[p][accessSym[q]] = q
        BY <3>2, <4>1, <2>3, <1>8 DEF PredIsConverse
      <4>3. accessSym[q] \in Symbols(grammar)
        BY <4>2, <3>1, <1>1 DEF Symbols
      <4>4. ~(p = state /\ accessSym[q] = sym)
        BY <4>2, <2>1, <2>3, <1>1
      <4> QED
        BY <4>1, <4>2, <4>3, <4>4, <1>13
    <3>3. ASSUME NEW x \in Symbols(grammar), goto'[p][x] = q
          PROVE  p \in pred[q] /\ accessSym[q] = x
      <4>1. p \in 1 .. Size
        BY <3>3, <2>3, <1>14, <1>13
      <4>2. goto[p][x] = q
        BY <4>1, <3>3, <2>3, <1>14, <1>13
      <4> QED
        BY <4>1, <4>2, <2>3, <1>8 DEF PredIsConverse
    <3> QED
      BY <3>1, <3>2, <3>3
  <2> QED
    BY <1>1, <2>2, <2>3
<1> QED
  BY <1>7, <1>9, <1>10, <1>11, <1>12

LEMMA ShiftToKnownStateIInv == IInv /\ ShiftToKnownState => IInv'
<1> SUFFICES ASSUME IInv, ShiftToKnownState PROVE IInv'
  OBVIOUS
<1> USE DEF IInv
<1> DEFINE Size == Len(items)
<1>1. InShiftLoop /\ Target # {}
  BY DEF ShiftToKnownState
<1>2. /\ Size \in Nat \ {0} /\ state \in 1 .. Size /\ sym \in Symbols(grammar)
      /\ grammar.numSymbols \in Nat /\ DOMAIN items = 1 .. Size
  BY <1>1, GrammarFacts, TableFacts, LoopFacts
<1>3. PICK next \in 1 .. Size :
         /\ items[next] = Target
         /\ pred' = [pred EXCEPT ![next] = @ \union {state}]
         /\ goto' = [goto EXCEPT ![state][sym] = next]
  BY <1>2 DEF ShiftToKnownState
<1>4. /\ UNCHANGED <<grammar, items, accessSym, reduces, isAdequate, state>>
      /\ sym' = sym + 1
  BY DEF ShiftToKnownState
<1>5. accessSym[next] = sym
  BY <1>1, <1>2, <1>3, AccessSymFromItems DEF AccessSymAgrees
<1>6. sym # 0 /\ sym \in Nat
  BY <1>2 DEF Symbols
<1>7. /\ pred' \in Seq(SUBSET (1 .. Size)) /\ Len(pred') = Size
      /\ \A q \in 1 .. Size : pred'[q] = IF q = next THEN pred[q] \union {state} ELSE pred[q]
  <2>1. pred[next] \union {state} \in SUBSET (1 .. Size)
    BY <1>2, TableFacts
  <2> DEFINE E == SUBSET (1 .. Size)
             e == pred[next] \union {state}
  <2>2. pred \in Seq(E) /\ Len(pred) = Size /\ pred' = [pred EXCEPT ![next] = e] /\ e \in E
    BY <1>3, <2>1 DEF TypeOK
  <2> HIDE DEF E, e
  <2>3. /\ pred' \in Seq(E) /\ Len(pred') = Size
        /\ \A q \in 1 .. Size : pred'[q] = IF q = next THEN e ELSE pred[q]
    BY <2>2, ExceptSeq
  <2> QED
    BY <2>3 DEF E, e
<1>8. /\ goto' \in Seq([Symbols(grammar) -> 0 .. Size]) /\ Len(goto') = Size
      /\ goto'[state][sym] = next
      /\ \A p \in 1 .. Size, x \in Symbols(grammar) :
            p # state \/ x # sym => goto'[p][x] = goto[p][x]
  <2> DEFINE E == [Symbols(grammar) -> 0 .. Size]
             e == [goto[state] EXCEPT ![sym] = next]
  <2>1. goto[state] \in E
    BY <1>2, TableFacts
  <2>2. /\ e \in E /\ e[sym] = next
        /\ \A x \in Symbols(grammar) : x # sym => e[x] = goto[state][x]
    BY <1>2, <2>1
  <2>3. goto \in Seq(E) /\ Len(goto) = Size /\ goto' = [goto EXCEPT ![state] = e]
    BY <1>3 DEF TypeOK
  <2> HIDE DEF E, e
  <2>4. /\ goto' \in Seq(E) /\ Len(goto') = Size
        /\ \A p \in 1 .. Size : goto'[p] = IF p = state THEN e ELSE goto[p]
    BY <1>2, <2>2, <2>3, ExceptSeq
  <2>5. goto'[state] = e /\ \A p \in 1 .. Size : p # state => goto'[p] = goto[p]
    BY <1>2, <2>4
  <2> QED
    BY <2>2, <2>4, <2>5 DEF E
<1>9. TypeOK'
  <2>1. sym' \in 1 .. grammar.numSymbols + 1
    BY <1>2, <1>4 DEF Symbols
  <2> QED
    BY <1>4, <1>7, <1>8, <2>1 DEF TypeOK
<1> HIDE DEF Size
<1>10. AccessSymOfItems'
  BY <1>4 DEF AccessSymOfItems
<1>11. EdgesAheadAreNull'
  BY <1>2, <1>4, <1>6, <1>8 DEF EdgesAheadAreNull, Symbols
<1>12. EdgesAreShifts'
  <2> SUFFICES ASSUME NEW p \in 1 .. Size, NEW q \in 1 .. Size, NEW x \in Symbols(grammar),
                      goto'[p][x] = q
               PROVE  items[q] = Shift(grammar, items[p], x)
    BY <1>2, <1>4 DEF EdgesAreShifts
  <2>1. CASE p = state /\ x = sym
    BY <2>1, <1>3, <1>8 DEF Target
  <2>2. CASE p # state \/ x # sym
    <3>1. goto[p][x] = q
      BY <2>2, <1>8
    <3> QED
      BY <3>1, <1>2 DEF EdgesAreShifts
  <2> QED
    BY <2>1, <2>2
<1>13. PredIsConverse'
  <2> SUFFICES ASSUME NEW p \in 1 .. Size, NEW q \in 1 .. Size
               PROVE  /\ p \in pred'[q] => accessSym[q] # 0 /\ goto'[p][accessSym[q]] = q
                      /\ \A x \in Symbols(grammar) :
                            goto'[p][x] = q => p \in pred'[q] /\ accessSym[q] = x
    BY <1>2, <1>4 DEF PredIsConverse
  <2>1. goto[state][sym] = 0
    BY <1>2, <1>6 DEF EdgesAheadAreNull
  <2>2. pred[q] \subseteq pred'[q] /\ pred'[q] \subseteq pred[q] \union {state}
        /\ (q = next => state \in pred'[q]) /\ (q # next => pred'[q] = pred[q])
    BY <1>7
  <2>3. ASSUME p \in pred'[q] PROVE accessSym[q] # 0 /\ goto'[p][accessSym[q]] = q
    <3>1. CASE p \in pred[q]
      <4>1. accessSym[q] # 0 /\ goto[p][accessSym[q]] = q
        BY <3>1, <1>2 DEF PredIsConverse
      <4>2. accessSym[q] \in Symbols(grammar)
        <5>1. accessSym[q] \in 0 .. grammar.numSymbols
          BY TableFacts DEF Size
        <5> QED
          BY <4>1, <5>1, <1>2 DEF Symbols
      <4>3. p # state \/ accessSym[q] # sym
        BY <4>1, <2>1
      <4> QED
        BY <4>1, <4>2, <4>3, <1>8
    <3>2. CASE p \notin pred[q]
      <4>1. q = next /\ p = state
        BY <2>2, <2>3, <3>2
      <4> QED
        BY <4>1, <1>5, <1>6, <1>8
    <3> QED
      BY <3>1, <3>2
  <2>4. ASSUME NEW x \in Symbols(grammar), goto'[p][x] = q
        PROVE  p \in pred'[q] /\ accessSym[q] = x
    <3>1. CASE p = state /\ x = sym
      BY <3>1, <2>2, <2>4, <1>5, <1>8
    <3>2. CASE p # state \/ x # sym
      <4>1. goto[p][x] = q
        BY <3>2, <2>4, <1>8
      <4> QED
        BY <4>1, <2>2, <1>2 DEF PredIsConverse
    <3> QED
      BY <3>1, <3>2
  <2> QED
    BY <2>3, <2>4
<1> QED
  BY <1>9, <1>10, <1>11, <1>12, <1>13

LEMMA NextIInv == IInv /\ [Next]_vars => IInv'
<1> SUFFICES ASSUME IInv, [Next]_vars PROVE IInv'
  OBVIOUS
<1>1. CASE UNCHANGED vars
  BY <1>1 DEF vars, tableVars, IInv, TypeOK, AccessSymOfItems, EdgesAheadAreNull,
              EdgesAreShifts, PredIsConverse
<1> QED
  BY <1>1, NoShiftIInv, ShiftToNewStateIInv, ShiftToKnownStateIInv, ReduceMovesIInv DEF Next

LEMMA OriginFromIInv == IInv => PredHoldsOrigin
<1> SUFFICES ASSUME IInv, NEW q \in DOMAIN items, NEW i \in items[q], i.pos > 0, NEW p \in pred[q]
             PROVE  [i EXCEPT !.pos = i.pos - 1] \in items[p]
  BY DEF PredHoldsOrigin
<1>1. /\ DOMAIN items = 1 .. Len(items) /\ p \in 1 .. Len(items)
      /\ items[p] \in SUBSET Items(grammar) /\ accessSym[q] \in 0 .. grammar.numSymbols
  BY TableFacts DEF IInv
<1>2. accessSym[q] # 0 /\ goto[p][accessSym[q]] = q
  BY <1>1 DEF IInv, PredIsConverse
<1>3. accessSym[q] \in Symbols(grammar)
  BY <1>1, <1>2, GrammarFacts DEF IInv, Symbols
<1>4. items[q] = Shift(grammar, items[p], accessSym[q])
  BY <1>1, <1>2, <1>3 DEF IInv, EdgesAreShifts
<1> QED
  BY <1>1, <1>3, <1>4, ShiftItems, GrammarFacts DEF IInv

(* The inductive invariant holds in every reachable state.                 *)
LEMMA SpecIInv == Spec => []IInv
<1>1. Init => IInv
  BY InitIInv
<1>2. IInv /\ [Next]_vars => IInv'
  BY NextIInv
<1> QED
  BY <1>1, <1>2, PTL DEF Spec

(* Every field of the table keeps its type, for every set of grammars.     *)
THEOREM TypeCorrect == Spec => []TypeOK
<1>1. IInv => TypeOK
  BY DEF IInv
<1> QED
  BY <1>1, SpecIInv, PTL

(* The assertion of constructPDA (lr.cc:158) cannot fail, whatever the     *)
(* grammar.                                                                *)
THEOREM AccessSymAssertion == Spec => []AccessSymAgrees
<1>1. IInv => AccessSymAgrees
  BY AccessSymFromItems DEF IInv
<1> QED
  BY <1>1, SpecIInv, PTL

(* The edge that includes() looks for in pred is there: its first          *)
(* assertion (lalr.cc:119) cannot fail.                                    *)
THEOREM PredIsTheConverse == Spec => []PredIsConverse
<1>1. IInv => PredIsConverse
  BY DEF IInv
<1> QED
  BY <1>1, SpecIInv, PTL

(* Backtracking over pred moves every item that is not a beginning one     *)
(* position back (lalr.cc:167-173).                                        *)
THEOREM BacktrackingFollowsItems == Spec => []PredHoldsOrigin
<1>1. IInv => PredHoldsOrigin
  BY OriginFromIInv
<1> QED
  BY <1>1, SpecIInv, PTL
-----------------------------------------------------------------------------
(* Induction by least counterexample: a set of natural numbers that is not *)
(* empty has a least element.                                              *)
LEMMA LeastFinite ==
    ASSUME NEW S, NEW T, T # {}, T \subseteq FiniteSubsetsOf(S)
    PROVE  \E x \in T : \A y \in T : ~(y \subseteq x /\ y # x)
<1> DEFINE R == StrictSubsetOrdering(S)
           F == FiniteSubsetsOf(S)
<1>1. \A x, y \in F : y \subseteq x /\ y # x => <<y, x>> \in R
  BY DEF StrictSubsetOrdering, FiniteSubsetsOf
<1>2. IsWellFoundedOn(R, F) /\ T \subseteq F
  BY FS_StrictSubsetOrderingWellFounded
<1> HIDE DEF R, F
<1>3. PICK x \in T : \A y \in T : ~(<<y, x>> \in R)
  BY <1>2, WFMin
<1> QED
  BY <1>1, <1>2, <1>3

LEMMA LeastNat ==
    ASSUME NEW T \in SUBSET Nat, T # {}
    PROVE  \E n \in T : \A m \in T : n <= m
<1> DEFINE U == {1 .. n : n \in T}
<1>1. U # {} /\ U \subseteq FiniteSubsetsOf(Nat)
  <2>1. ASSUME NEW n \in T PROVE 1 .. n \in FiniteSubsetsOf(Nat)
    <3>1. n \in Int /\ 1 .. n \subseteq Nat
      OBVIOUS
    <3>2. IsFiniteSet(1 .. n)
      BY <3>1, FS_Interval
    <3> QED
      BY <3>1, <3>2 DEF FiniteSubsetsOf
  <2>2. U # {}
    OBVIOUS
  <2> QED
    BY <2>1, <2>2
<1>2. PICK x \in U : \A y \in U : ~(y \subseteq x /\ y # x)
  <2> HIDE DEF U
  <2> QED
    BY <1>1, LeastFinite
<1>3. PICK n \in T : x = 1 .. n
  OBVIOUS
<1>4. ASSUME NEW m \in T PROVE n <= m
  <2>1. SUFFICES ASSUME m < n PROVE FALSE
    OBVIOUS
  <2>2. m \in Nat /\ n \in Nat
    OBVIOUS
  <2>3. 1 .. m \subseteq 1 .. n /\ n \in 1 .. n /\ n \notin 1 .. m
    BY <2>1, <2>2
  <2>4. 1 .. m \in U
    OBVIOUS
  <2> QED
    BY <1>2, <1>3, <2>3, <2>4
<1> QED
  BY <1>4

(* The function that backtrack() iterates exists for any number of steps.  *)
IsStepsBack(B, S, n) ==
    B = [k \in 0 .. n |-> IF k = 0 THEN S ELSE UNION {pred[p] : p \in B[k - 1]}]

LEMMA StepsBackExist ==
    ASSUME NEW S, NEW n \in Nat
    PROVE  \E B : IsStepsBack(B, S, n)
<1> DEFINE Exists(m) == \E B : IsStepsBack(B, S, m)
           T == {m \in Nat : ~Exists(m)}
<1>1. SUFFICES ASSUME T # {} PROVE FALSE
  OBVIOUS
<1>2. PICK m \in T : \A l \in T : m <= l
  BY <1>1, LeastNat
<1>3. m \in Nat /\ ~Exists(m)
  OBVIOUS
<1>4. CASE m = 0
  <2> DEFINE B == [k \in 0 .. 0 |-> S]
  <2>1. IsStepsBack(B, S, 0)
    BY DEF IsStepsBack
  <2> HIDE DEF B
  <2> QED
    BY <1>3, <1>4, <2>1
<1>5. CASE m # 0
  <2>1. m - 1 \in Nat /\ m - 1 \notin T
    <3> HIDE DEF T
    <3>1. m - 1 \in Nat /\ ~(m <= m - 1)
      BY <1>3, <1>5
    <3> QED
      BY <1>2, <3>1
  <2>2. PICK A : IsStepsBack(A, S, m - 1)
    BY <2>1
  <2> DEFINE B == [k \in 0 .. m |-> IF k = m THEN UNION {pred[p] : p \in A[m - 1]} ELSE A[k]]
             C == [k \in 0 .. m |-> IF k = 0 THEN S ELSE UNION {pred[p] : p \in B[k - 1]}]
  <2>3. ASSUME NEW k \in 0 .. m PROVE B[k] = C[k]
    <3>1. CASE k = m
      <4>1. B[m - 1] = A[m - 1] /\ B[m] = UNION {pred[p] : p \in A[m - 1]}
        BY <1>3, <1>5, <2>1
      <4>2. C[m] = UNION {pred[p] : p \in B[m - 1]}
        <5> HIDE DEF B
        <5>1. m \in 0 .. m /\ m # 0
          BY <1>3, <1>5
        <5> QED
          BY <5>1
      <4> QED
        BY <3>1, <4>1, <4>2
    <3>2. CASE k # m
      <4>1. k \in 0 .. m - 1 /\ B[k] = A[k]
        BY <1>3, <2>1, <3>2
      <4>2. A[k] = IF k = 0 THEN S ELSE UNION {pred[p] : p \in A[k - 1]}
        BY <2>2, <4>1 DEF IsStepsBack
      <4>3. k # 0 => B[k - 1] = A[k - 1]
        BY <1>3, <4>1
      <4>4. C[k] = IF k = 0 THEN S ELSE UNION {pred[p] : p \in B[k - 1]}
        OBVIOUS
      <4> QED
        BY <4>1, <4>2, <4>3, <4>4
    <3> QED
      BY <3>1, <3>2
  <2>4. IsStepsBack(B, S, m)
    <3>1. B = C
      BY <2>3
    <3> QED
      BY <3>1 DEF IsStepsBack
  <2> HIDE DEF B
  <2> QED
    BY <1>3, <2>4
<1> QED
  BY <1>4, <1>5

(* No step back is the set itself, one more is the predecessors.           *)
LEMMA BackSteps ==
    ASSUME NEW S, NEW n \in Nat
    PROVE  \E B : /\ Back(S, n) = B[n] /\ B[0] = S
                  /\ \A k \in 1 .. n : B[k] = UNION {pred[p] : p \in B[k - 1]}
<1> DEFINE B == CHOOSE A : IsStepsBack(A, S, n)
<1>1. IsStepsBack(B, S, n)
  BY StepsBackExist
<1>2. Back(S, n) = B[n]
  BY DEF Back, IsStepsBack
<1>3. B[0] = S /\ \A k \in 1 .. n : B[k] = UNION {pred[p] : p \in B[k - 1]}
  <2> HIDE DEF B
  <2>1. 0 \in 0 .. n /\ \A k \in 1 .. n : k \in 0 .. n /\ k # 0
    OBVIOUS
  <2> QED
    BY <1>1, <2>1 DEF IsStepsBack
<1> QED
  BY <1>2, <1>3

(* From a state that holds an item every state n steps back holds the item *)
(* n positions further left.                                               *)
LEMMA BackHoldsItem ==
    ASSUME IInv, NEW p \in DOMAIN items, NEW r, NEW pos \in Nat, NEW n \in Nat, n <= pos,
           [rule |-> r, pos |-> pos] \in items[p],
           NEW q \in Back({p}, n)
    PROVE  q \in DOMAIN items /\ [rule |-> r, pos |-> pos - n] \in items[q]
<1>1. PICK B : /\ Back({p}, n) = B[n] /\ B[0] = {p}
               /\ \A k \in 1 .. n : B[k] = UNION {pred[s] : s \in B[k - 1]}
  BY BackSteps
<1> DEFINE Good(k) == \A s \in B[k] : s \in DOMAIN items /\ [rule |-> r, pos |-> pos - k] \in items[s]
           T == {k \in 0 .. n : ~Good(k)}
<1>2. Good(0)
  <2>1. pos - 0 = pos
    OBVIOUS
  <2> QED
    BY <1>1, <2>1
<1>3. ASSUME NEW k \in 1 .. n, Good(k - 1) PROVE Good(k)
  <2> SUFFICES ASSUME NEW s \in B[k]
               PROVE  s \in DOMAIN items /\ [rule |-> r, pos |-> pos - k] \in items[s]
    OBVIOUS
  <2>1. PICK o \in B[k - 1] : s \in pred[o]
    BY <1>1
  <2>2. o \in DOMAIN items /\ [rule |-> r, pos |-> pos - (k - 1)] \in items[o]
    BY <1>3
  <2>3. s \in DOMAIN items
    BY <2>1, <2>2, TableFacts DEF IInv
  <2>4. pos - (k - 1) > 0 /\ pos - (k - 1) - 1 = pos - k
    OBVIOUS
  <2>5. PredHoldsOrigin
    BY OriginFromIInv
  <2> DEFINE i == [rule |-> r, pos |-> pos - (k - 1)]
  <2>6. [i EXCEPT !.pos = i.pos - 1] \in items[s]
    <3>1. i \in items[o] /\ i.pos > 0
      BY <2>2, <2>4
    <3> HIDE DEF i
    <3> QED
      BY <2>1, <2>2, <2>5, <3>1 DEF PredHoldsOrigin
  <2>7. [i EXCEPT !.pos = i.pos - 1] = [rule |-> r, pos |-> pos - k]
    BY <2>4
  <2> QED
    BY <2>3, <2>6, <2>7
<1>4. T = {}
  <2>1. SUFFICES ASSUME T # {} PROVE FALSE
    OBVIOUS
  <2>2. T \in SUBSET Nat
    OBVIOUS
  <2>3. PICK k \in T : \A l \in T : k <= l
    <3> HIDE DEF T
    <3> QED
      BY <2>1, <2>2, LeastNat
  <2>4. k \in 0 .. n /\ ~Good(k)
    OBVIOUS
  <2> HIDE DEF Good
  <2>5. k # 0 /\ k \in 1 .. n /\ k - 1 \in 0 .. n
    BY <1>2, <2>4
  <2>6. k - 1 \notin T
    <3> HIDE DEF T
    <3>1. ~(k <= k - 1)
      BY <2>5
    <3> QED
      BY <2>3, <3>1
  <2> QED
    BY <1>3, <2>4, <2>5, <2>6
<1>5. Good(n)
  <2> HIDE DEF Good
  <2>1. n \in 0 .. n
    OBVIOUS
  <2> QED
    BY <1>4, <2>1
<1> QED
  BY <1>1, <1>5
-----------------------------------------------------------------------------
(* The states left behind have an edge for every symbol they can shift,    *)
(* and a rule that begins in a state is begun for an item of that state.   *)
EdgesBehindAreSet ==
    \A p \in DOMAIN items, x \in Symbols(grammar) :
        (p < state \/ (p = state /\ x < sym)) /\ Shift(grammar, items[p], x) # {} => goto[p][x] # 0

BegunFor(g, I, A) == \E j \in I : ~IsEnd(g, j) /\ NextSym(g, j) = A

BeginningsAreWanted ==
    \A q \in DOMAIN items : \A i \in items[q] :
        i.pos = 0 => \/ i.rule = StartRule(grammar)
                     \/ BegunFor(grammar, items[q], grammar.rules[i.rule].nonterm)

Complete == EdgesBehindAreSet /\ BeginningsAreWanted

(* What a derivation begins with is a seed, or begins the right side of a  *)
(* rule that another derivation begins with.                               *)
LEMMA CornerIsWanted ==
    ASSUME NEW g, IsGrammar(g), NEW seeds, NEW A \in LeftCorners(g, seeds), A \notin seeds
    PROVE  \E r \in RuleIds(g) : /\ g.rules[r].nonterm \in LeftCorners(g, seeds)
                                 /\ RuleLength(g, r) > 0 /\ g.rules[r].syms[1] = A
<1> SUFFICES ASSUME \A r \in RuleIds(g) : g.rules[r].nonterm \in LeftCorners(g, seeds)
                       /\ RuleLength(g, r) > 0 => g.rules[r].syms[1] # A
             PROVE  FALSE
  OBVIOUS
<1> DEFINE L == LeftCorners(g, seeds)
           S == L \ {A}
<1>1. L \subseteq Nonterminals(g) /\ S \in SUBSET Nonterminals(g)
  BY DEF LeftCorners
<1>2. seeds \intersect Nonterminals(g) \subseteq S
  <2> SUFFICES ASSUME NEW B \in seeds \intersect Nonterminals(g) PROVE B \in L
    OBVIOUS
  <2> QED
    BY DEF LeftCorners
<1>3. LeftCornerClosed(g, S)
  <2> SUFFICES ASSUME NEW r \in RuleIds(g), g.rules[r].nonterm \in S, RuleLength(g, r) > 0
               PROVE  g.rules[r].syms[1] \in S \union Terminals(g)
    BY DEF LeftCornerClosed
  <2>1. g.rules[r].syms[1] # A
    OBVIOUS
  <2>2. g.rules[r].syms[1] \in L \union Terminals(g)
    <3>1. g.rules[r].syms[1] \in Symbols(g)
      BY RightSideSymbols, RuleLengthType
    <3>2. ASSUME g.rules[r].syms[1] \notin Terminals(g) PROVE g.rules[r].syms[1] \in L
      <4>1. g.rules[r].syms[1] \in Nonterminals(g)
        BY <3>1, <3>2, SymbolKinds
      <4>2. ASSUME NEW U \in SUBSET Nonterminals(g),
                   seeds \intersect Nonterminals(g) \subseteq U, LeftCornerClosed(g, U)
            PROVE  g.rules[r].syms[1] \in U
        <5>1. g.rules[r].nonterm \in U
          BY <4>2 DEF LeftCorners
        <5> QED
          BY <3>2, <4>2, <5>1 DEF LeftCornerClosed
      <4> QED
        BY <4>1, <4>2 DEF LeftCorners
    <3> QED
      BY <3>2
  <2> QED
    BY <2>1, <2>2
<1>4. A \in S
  <2> HIDE DEF S
  <2> QED
    BY <1>1, <1>2, <1>3 DEF LeftCorners
<1> QED
  BY <1>4
(* What closure() adds is begun for a seed or for what it adds.            *)
LEMMA ClosureIsWanted ==
    ASSUME NEW g, IsGrammar(g), NEW seeds, NEW I, Closure(g, seeds) \subseteq I,
           \A A \in seeds : BegunFor(g, I, A),
           NEW i \in Closure(g, seeds)
    PROVE  BegunFor(g, I, g.rules[i.rule].nonterm)
<1>1. i.rule \in RuleIds(g) /\ g.rules[i.rule].nonterm \in LeftCorners(g, seeds)
  BY DEF Closure
<1> DEFINE A == g.rules[i.rule].nonterm
<1>2. CASE A \in seeds
  BY <1>2
<1>3. CASE A \notin seeds
  <2>1. PICK r \in RuleIds(g) : /\ g.rules[r].nonterm \in LeftCorners(g, seeds)
                                /\ RuleLength(g, r) > 0 /\ g.rules[r].syms[1] = A
    <3> HIDE DEF A
    <3> QED
      BY <1>1, <1>3, CornerIsWanted DEF A
  <2> DEFINE j == [rule |-> r, pos |-> 0]
  <2>2. j \in I
    BY <2>1 DEF Closure
  <2>3. ~IsEnd(g, j) /\ NextSym(g, j) = A
    <3>1. RuleLength(g, r) \in Nat
      BY RuleLengthType
    <3>2. j.rule = r /\ j.pos = 0 /\ 0 + 1 = 1
      OBVIOUS
    <3> HIDE DEF j, A
    <3> QED
      BY <2>1, <3>1, <3>2 DEF IsEnd, NextSym
  <2> QED
    BY <2>2, <2>3 DEF BegunFor
<1> QED
  BY <1>2, <1>3

LEMMA ShiftIsWanted ==
    ASSUME NEW g, IsGrammar(g), NEW from \in SUBSET Items(g), NEW x \in Symbols(g),
           NEW i \in Shift(g, from, x), i.pos = 0
    PROVE  BegunFor(g, Shift(g, from, x), g.rules[i.rule].nonterm)
<1> DEFINE K == Kernel(g, from, x)
           seeds == {NextSym(g, j) : j \in {l \in K : ~IsEnd(g, l)}}
<1>1. Shift(g, from, x) = K \union Closure(g, seeds)
  BY DEF Shift
<1>2. i \notin K
  <2> SUFFICES ASSUME i \in K PROVE FALSE
    OBVIOUS
  <2>1. PICK j \in from : i = [rule |-> j.rule, pos |-> j.pos + 1]
    BY DEF Kernel
  <2> QED
    BY <2>1 DEF Items
<1>3. ASSUME NEW A \in seeds PROVE BegunFor(g, Shift(g, from, x), A)
  <2>1. PICK j \in K : ~IsEnd(g, j) /\ A = NextSym(g, j)
    BY <1>3
  <2> QED
    BY <1>1, <2>1 DEF BegunFor
<1> HIDE DEF K, seeds
<1> QED
  BY <1>1, <1>2, <1>3, ClosureIsWanted

LEMMA StartIsWanted ==
    ASSUME NEW g, IsGrammar(g), NEW i \in StartItems(g), i.rule # StartRule(g)
    PROVE  BegunFor(g, StartItems(g), g.rules[i.rule].nonterm)
<1> DEFINE s == [rule |-> StartRule(g), pos |-> 0]
           A == g.rules[StartRule(g)].syms[1]
<1>1. StartItems(g) = {s} \union Closure(g, {A}) /\ i \in Closure(g, {A})
  BY DEF StartItems
<1>2. BegunFor(g, StartItems(g), A)
  <2>1. s \in StartItems(g) /\ s.rule = StartRule(g) /\ s.pos = 0 /\ 0 + 1 = 1
    BY DEF StartItems
  <2>2. RuleLength(g, StartRule(g)) = 2
    BY DEF RuleLength, IsGrammar
  <2>3. ~IsEnd(g, s) /\ NextSym(g, s) = A
    <3> HIDE DEF s
    <3> QED
      BY <2>1, <2>2 DEF IsEnd, NextSym
  <2> HIDE DEF s, A
  <2> QED
    BY <2>1, <2>3 DEF BegunFor
<1> HIDE DEF s, A
<1> QED
  BY <1>1, <1>2, ClosureIsWanted

LEMMA CompleteInit == Init => Complete
<1> SUFFICES ASSUME Init PROVE Complete
  OBVIOUS
<1>1. IsGrammar(grammar) /\ grammar.numSymbols \in Nat
  BY GrammarsAssumption DEF Init, IsGrammar
<1>2. DOMAIN items = {1} /\ items[1] = StartItems(grammar) /\ state = 1 /\ sym = 1
  BY DEF Init
<1>3. EdgesBehindAreSet
  BY <1>1, <1>2 DEF EdgesBehindAreSet, Symbols
<1>4. BeginningsAreWanted
  BY <1>1, <1>2, StartIsWanted DEF BeginningsAreWanted
<1> QED
  BY <1>3, <1>4 DEF Complete

(* What a step that shifts does to the edges and the items.                *)
LEMMA NewStateStep ==
    ASSUME IInv, ShiftToNewState
    PROVE  /\ DOMAIN items = 1 .. Len(items) /\ DOMAIN items' = 1 .. Len(items) + 1
           /\ items'[Len(items) + 1] = Target /\ \A q \in DOMAIN items : items'[q] = items[q]
           /\ \A p \in DOMAIN items, x \in Symbols(grammar) :
                 goto'[p][x] = IF p = state /\ x = sym THEN Len(items) + 1 ELSE goto[p][x]
<1> DEFINE n == Len(items)
           e == [goto[state] EXCEPT ![sym] = n + 1]
           E == [Symbols(grammar) -> Nat]
           G == [goto EXCEPT ![state] = e]
<1>1. /\ state \in 1 .. n /\ sym \in Symbols(grammar) /\ n \in Nat /\ DOMAIN items = 1 .. n
      /\ Target \in SUBSET Items(grammar)
  BY LoopFacts, TableFacts DEF IInv, ShiftToNewState
<1>2. goto[state] \in [Symbols(grammar) -> 0 .. n]
  BY <1>1, TableFacts DEF IInv
<1>3. /\ items' \in Seq(SUBSET Items(grammar)) /\ Len(items') = n + 1 /\ items'[n + 1] = Target
      /\ \A q \in 1 .. n : items'[q] = items[q]
  BY <1>1, AppendProperties DEF ShiftToNewState, IInv, TypeOK
<1>4. e \in E /\ \A x \in Symbols(grammar) : e[x] = IF x = sym THEN n + 1 ELSE goto[state][x]
  BY <1>1, <1>2
<1>5. goto \in Seq(E) /\ Len(goto) = n
  <2>1. [Symbols(grammar) -> 0 .. n] \subseteq E
    BY <1>1
  <2> QED
    BY <2>1, SeqOfSuperset DEF IInv, TypeOK
<1>6. goto' = Append(G, NoEdges(grammar))
  BY DEF ShiftToNewState
<1>7. NoEdges(grammar) \in E
  BY DEF NoEdges
<1> HIDE DEF n, e, E
<1>8. /\ G \in Seq(E) /\ Len(G) = n /\ \A p \in 1 .. n : G[p] = IF p = state THEN e ELSE goto[p]
  BY <1>1, <1>4, <1>5, ExceptSeq
<1> HIDE DEF G
<1>9. \A p \in 1 .. n : goto'[p] = G[p]
  BY <1>6, <1>7, <1>8, AppendProperties
<1>10. ASSUME NEW p \in 1 .. n, NEW x \in Symbols(grammar)
       PROVE  goto'[p][x] = IF p = state /\ x = sym THEN n + 1 ELSE goto[p][x]
  <2>1. CASE p = state
    BY <1>4, <1>8, <1>9, <2>1
  <2>2. CASE p # state
    BY <1>8, <1>9, <2>2
  <2> QED
    BY <2>1, <2>2
<1>11. DOMAIN items' = 1 .. n + 1
  BY <1>3, LenProperties
<1> QED
  BY <1>1, <1>3, <1>10, <1>11 DEF n

LEMMA KnownStateStep ==
    ASSUME IInv, ShiftToKnownState
    PROVE  /\ goto'[state][sym] # 0
           /\ \A p \in DOMAIN items, x \in Symbols(grammar) :
                 ~(p = state /\ x = sym) => goto'[p][x] = goto[p][x]
<1> DEFINE n == Len(items)
           E == [Symbols(grammar) -> 0 .. n]
<1>1. state \in 1 .. n /\ sym \in Symbols(grammar) /\ n \in Nat /\ DOMAIN items = 1 .. n
  BY LoopFacts, TableFacts DEF IInv, ShiftToKnownState
<1>2. goto[state] \in E /\ goto \in Seq(E) /\ Len(goto) = n
  BY <1>1, TableFacts DEF IInv, TypeOK
<1>3. PICK next \in 1 .. n : goto' = [goto EXCEPT ![state][sym] = next]
  BY <1>1 DEF ShiftToKnownState
<1> DEFINE e == [goto[state] EXCEPT ![sym] = next]
<1>4. /\ e \in E /\ e[sym] = next /\ \A x \in Symbols(grammar) : x # sym => e[x] = goto[state][x]
  BY <1>1, <1>2
<1>5. goto' = [goto EXCEPT ![state] = e]
  BY <1>3
<1> HIDE DEF n, e, E
<1>6. \A p \in 1 .. n : goto'[p] = IF p = state THEN e ELSE goto[p]
  BY <1>1, <1>2, <1>4, <1>5, ExceptSeq
<1>7. next # 0
  BY <1>1
<1>8. goto'[state] = e /\ \A p \in 1 .. n : p # state => goto'[p] = goto[p]
  BY <1>1, <1>6
<1> QED
  BY <1>1, <1>4, <1>7, <1>8

LEMMA CompleteInductive == IInv /\ Complete /\ [Next]_vars => Complete'
<1> SUFFICES ASSUME IInv, Complete, [Next]_vars PROVE Complete'
  OBVIOUS
<1> USE DEF Complete
<1>1. /\ grammar.numSymbols \in Nat /\ state \in Nat /\ sym \in Nat /\ IsGrammar(grammar)
      /\ DOMAIN items = 1 .. Len(items) /\ Len(items) \in Nat
  BY GrammarFacts, TableFacts DEF IInv, TypeOK
<1>2. \A x \in Symbols(grammar) : x \in Nat /\ x <= grammar.numSymbols
  BY <1>1 DEF Symbols
<1>3. CASE NoShift
  <2>1. UNCHANGED <<grammar, items, goto, state>> /\ sym' = sym + 1
    BY <1>3 DEF NoShift, tableVars
  <2>2. Shift(grammar, items[state], sym) = {}
    BY <1>3 DEF NoShift, Target
  <2>3. EdgesBehindAreSet'
    <3> SUFFICES ASSUME NEW p \in DOMAIN items, NEW x \in Symbols(grammar),
                        p < state \/ (p = state /\ x < sym + 1), Shift(grammar, items[p], x) # {}
                 PROVE  goto[p][x] # 0
      BY <2>1 DEF EdgesBehindAreSet
    <3>1. p < state \/ (p = state /\ x < sym)
      BY <1>1, <1>2, <2>2
    <3> QED
      BY <3>1 DEF EdgesBehindAreSet
  <2> QED
    BY <2>1, <2>3 DEF BeginningsAreWanted
<1>4. CASE ShiftToNewState
  <2>1. grammar' = grammar /\ state' = state /\ sym' = sym + 1
    BY <1>4 DEF ShiftToNewState
  <2>2. state \in DOMAIN items /\ sym \in Symbols(grammar) /\ items[state] \in SUBSET Items(grammar)
    BY <1>1, <1>4, LoopFacts, TableFacts DEF IInv, ShiftToNewState
  <2>3. EdgesBehindAreSet'
    <3> SUFFICES ASSUME NEW p \in DOMAIN items', NEW x \in Symbols(grammar),
                        p < state \/ (p = state /\ x < sym + 1), Shift(grammar, items'[p], x) # {}
                 PROVE  goto'[p][x] # 0
      BY <2>1 DEF EdgesBehindAreSet
    <3>1. p \in DOMAIN items /\ items'[p] = items[p]
      <4>1. p \in 1 .. Len(items) + 1 /\ p <= state /\ state <= Len(items)
        BY <1>1, <1>4, <2>2, NewStateStep
      <4>2. p \in DOMAIN items
        BY <1>1, <4>1
      <4> QED
        BY <1>4, <4>2, NewStateStep
    <3>2. CASE p = state /\ x = sym
      BY <1>1, <1>4, <3>1, <3>2, NewStateStep
    <3>3. CASE ~(p = state /\ x = sym)
      <4>1. p < state \/ (p = state /\ x < sym)
        BY <1>1, <1>2, <3>3
      <4>2. goto[p][x] # 0
        BY <3>1, <4>1 DEF EdgesBehindAreSet
      <4> QED
        BY <1>4, <3>1, <3>3, <4>2, NewStateStep
    <3> QED
      BY <3>2, <3>3
  <2>4. BeginningsAreWanted'
    <3> SUFFICES ASSUME NEW q \in DOMAIN items', NEW i \in items'[q], i.pos = 0
                 PROVE  \/ i.rule = StartRule(grammar)
                        \/ BegunFor(grammar, items'[q], grammar.rules[i.rule].nonterm)
      BY <2>1 DEF BeginningsAreWanted
    <3>1. CASE q \in DOMAIN items
      <4>1. items'[q] = items[q]
        BY <1>4, <3>1, NewStateStep
      <4> QED
        BY <3>1, <4>1 DEF BeginningsAreWanted
    <3>2. CASE q = Len(items) + 1
      <4>1. items'[q] = Shift(grammar, items[state], sym)
        BY <1>4, <3>2, NewStateStep DEF Target
      <4> QED
        BY <1>1, <2>2, <4>1, ShiftIsWanted
    <3>3. q \in DOMAIN items \/ q = Len(items) + 1
      BY <1>1, <1>4, NewStateStep
    <3> QED
      BY <3>1, <3>2, <3>3
  <2> QED
    BY <2>3, <2>4
<1>5. CASE ShiftToKnownState
  <2>1. UNCHANGED <<grammar, items, state>> /\ sym' = sym + 1
    BY <1>5 DEF ShiftToKnownState
  <2>2. EdgesBehindAreSet'
    <3> SUFFICES ASSUME NEW p \in DOMAIN items, NEW x \in Symbols(grammar),
                        p < state \/ (p = state /\ x < sym + 1), Shift(grammar, items[p], x) # {}
                 PROVE  goto'[p][x] # 0
      BY <2>1 DEF EdgesBehindAreSet
    <3>1. CASE p = state /\ x = sym
      BY <1>5, <3>1, KnownStateStep
    <3>2. CASE ~(p = state /\ x = sym)
      <4>1. p < state \/ (p = state /\ x < sym)
        BY <1>1, <1>2, <3>2
      <4>2. goto[p][x] # 0
        BY <4>1 DEF EdgesBehindAreSet
      <4> QED
        BY <1>5, <3>2, <4>2, KnownStateStep
    <3> QED
      BY <3>1, <3>2
  <2> QED
    BY <2>1, <2>2 DEF BeginningsAreWanted
<1>6. CASE ReduceMoves
  <2>1. UNCHANGED <<grammar, items, goto>> /\ state' = state + 1 /\ sym' = 1
        /\ sym = grammar.numSymbols + 1
    BY <1>6 DEF ReduceMoves
  <2>2. EdgesBehindAreSet'
    <3> SUFFICES ASSUME NEW p \in DOMAIN items, NEW x \in Symbols(grammar),
                        p < state + 1 \/ (p = state + 1 /\ x < 1), Shift(grammar, items[p], x) # {}
                 PROVE  goto[p][x] # 0
      BY <2>1 DEF EdgesBehindAreSet
    <3>1. x \in 1 .. grammar.numSymbols
      BY DEF Symbols
    <3>2. p < state \/ (p = state /\ x < sym)
      BY <1>1, <2>1, <3>1
    <3> QED
      BY <3>2 DEF EdgesBehindAreSet
  <2> QED
    BY <2>1, <2>2 DEF BeginningsAreWanted
<1>7. CASE UNCHANGED vars
  BY <1>7 DEF vars, tableVars, EdgesBehindAreSet, BeginningsAreWanted
<1> QED
  BY <1>3, <1>4, <1>5, <1>6, <1>7 DEF Next
(* "$" is at the end of the start rule: only the whole rule is its tail.   *)
LEMMA StartRuleHasNoTail ==
    ASSUME NEW g, IsGrammar(g), NEW nullable \in SUBSET Nonterminals(g),
           NEW i \in Items(g), i.rule = StartRule(g),
           i.pos > 0, i.pos <= RuleLength(g, i.rule), MinLength(g, i.rule, nullable) <= i.pos
    PROVE  g.rules[i.rule].syms[i.pos] \in Terminals(g)
<1> DEFINE r == StartRule(g)
           IsMin(n) == /\ \A k \in (n + 1) .. RuleLength(g, r) : g.rules[r].syms[k] \in nullable
                       /\ n > 0 => g.rules[r].syms[n] \notin nullable
<1>1. RuleLength(g, r) = 2 /\ g.rules[r].syms[2] = EofSymbol(g)
  BY DEF RuleLength, IsGrammar
<1>2. EofSymbol(g) \in Terminals(g) /\ EofSymbol(g) \notin nullable
  <2>1. g.lastTerminal \in Nat \ {0}
    BY DEF IsGrammar
  <2>2. EofSymbol(g) \in Terminals(g) /\ EofSymbol(g) \notin Nonterminals(g)
    BY <2>1 DEF EofSymbol, Terminals, Nonterminals
  <2> QED
    BY <2>2
<1>3. IsMin(2)
  BY <1>1, <1>2
<1>4. \A n \in 0 .. 2 : IsMin(n) => n = 2
  <2> SUFFICES ASSUME NEW n \in 0 .. 2, IsMin(n), n # 2 PROVE FALSE
    OBVIOUS
  <2>1. 2 \in (n + 1) .. RuleLength(g, r)
    BY <1>1
  <2> QED
    BY <1>1, <1>2, <2>1
<1>5. MinLength(g, r, nullable) = CHOOSE n \in 0 .. RuleLength(g, r) : IsMin(n)
  BY DEF MinLength
<1> HIDE DEF IsMin
<1>6. MinLength(g, r, nullable) = 2
  BY <1>1, <1>3, <1>4, <1>5
<1>7. i.pos = 2
  <2>1. i.pos \in Nat
    BY DEF Items
  <2> QED
    BY <1>1, <1>6, <2>1
<1> QED
  BY <1>1, <1>2, <1>7

(* What finalize() hands on: every nonterminal that can produce nothing is *)
(* marked, and the lengths go by the marks.                                *)
MarksSet ==
    /\ isNullable \subseteq Nonterminals(grammar)
    /\ NullableSet(grammar) \subseteq isNullable
    /\ minLength = [r \in RuleIds(grammar) |-> MinLength(grammar, r, isNullable)]

LEMMA IncludesFindsEdges ==
    ASSUME IInv, Complete, Constructed, MarksSet, NEW x \in Transitions
    PROVE  /\ x.from \in pred[Dest(x)]
           /\ Includes(x) \subseteq Transitions
<1>1. /\ IsGrammar(grammar) /\ DOMAIN items = 1 .. Len(items) /\ Len(items) \in Nat
      /\ DOMAIN goto = DOMAIN items /\ state \in Nat /\ state > Len(items)
  BY GrammarFacts, TableFacts, LenProperties DEF IInv, TypeOK, Constructed
<1>2. Nonterminals(grammar) \subseteq Symbols(grammar)
  BY <1>1, SymbolKinds
<1>3. /\ x.from \in DOMAIN items /\ x.sym \in Nonterminals(grammar) /\ goto[x.from][x.sym] # 0
  BY <1>1 DEF Transitions, Edges
<1>4. Dest(x) \in DOMAIN items
  <2>1. goto[x.from][x.sym] \in 0 .. Len(items)
    BY <1>1, <1>2, <1>3, TableFacts DEF IInv
  <2> QED
    BY <1>1, <1>3, <2>1 DEF Dest
<1>5. x.from \in pred[Dest(x)] /\ accessSym[Dest(x)] = x.sym
  BY <1>2, <1>3, <1>4 DEF IInv, PredIsConverse, Dest
<1>6. ASSUME NEW y \in Includes(x) PROVE y \in Transitions
  <2>1. PICK i \in TailItems(x) : \E q \in Back({x.from}, i.pos - 1) :
           y = [from |-> q, sym |-> grammar.rules[i.rule].nonterm]
    BY <1>6 DEF Includes
  <2>2. PICK q \in Back({x.from}, i.pos - 1) : y = [from |-> q, sym |-> grammar.rules[i.rule].nonterm]
    BY <2>1
  <2> DEFINE A == grammar.rules[i.rule].nonterm
  <2>3. /\ i \in items[Dest(x)] /\ i.pos > 0
        /\ minLength[i.rule] <= i.pos
    BY DEF TailItems
  <2>4. i \in Items(grammar) /\ i.pos \in Nat /\ i.rule \in RuleIds(grammar)
    BY <1>1, <1>4, <2>3, TableFacts DEF IInv, Items
  <2>5. i.pos <= RuleLength(grammar, i.rule) /\ grammar.rules[i.rule].syms[i.pos] = x.sym
    BY <1>4, <1>5, <2>3 DEF IInv, AccessSymOfItems
  <2>6. i.rule # StartRule(grammar)
    <3>1. x.sym \notin Terminals(grammar)
      BY <1>1, <1>3, SymbolKinds
    <3> QED
      BY <1>1, <2>3, <2>4, <2>5, <3>1, StartRuleHasNoTail DEF MarksSet
  <2>7. [rule |-> i.rule, pos |-> i.pos - 1] \in items[x.from]
    <3>1. [i EXCEPT !.pos = i.pos - 1] \in items[x.from]
      BY <1>4, <1>5, <2>3, OriginFromIInv DEF PredHoldsOrigin
    <3>2. [i EXCEPT !.pos = i.pos - 1] = [rule |-> i.rule, pos |-> i.pos - 1]
      BY <2>4 DEF Items
    <3> QED
      BY <3>1, <3>2
  <2>8. q \in DOMAIN items /\ [rule |-> i.rule, pos |-> 0] \in items[q]
    <3>1. i.pos - 1 \in Nat /\ (i.pos - 1) - (i.pos - 1) = 0 /\ i.pos - 1 <= i.pos - 1
      BY <2>3, <2>4
    <3>2. /\ q \in DOMAIN items
          /\ [rule |-> i.rule, pos |-> (i.pos - 1) - (i.pos - 1)] \in items[q]
      BY <1>3, <2>7, <3>1, BackHoldsItem
    <3> QED
      BY <3>1, <3>2
  <2>9. BegunFor(grammar, items[q], A)
    BY <2>6, <2>8 DEF Complete, BeginningsAreWanted
  <2>10. A \in Nonterminals(grammar)
    BY <1>1, <2>4, RuleNonterm
  <2>11. Shift(grammar, items[q], A) # {}
    <3>1. PICK j \in items[q] : ~IsEnd(grammar, j) /\ NextSym(grammar, j) = A
      BY <2>9 DEF BegunFor
    <3>2. [rule |-> j.rule, pos |-> j.pos + 1] \in Kernel(grammar, items[q], A)
      BY <3>1 DEF Kernel
    <3> HIDE DEF A
    <3> QED
      BY <3>2 DEF Shift
  <2>12. goto[q][A] # 0
    <3>1. q < state
      BY <1>1, <2>8
    <3> HIDE DEF A
    <3> QED
      BY <1>2, <2>8, <2>10, <2>11, <3>1 DEF Complete, EdgesBehindAreSet
  <2> HIDE DEF A
  <2> QED
    BY <1>1, <2>2, <2>8, <2>10, <2>12 DEF A, Transitions, Edges
<1> QED
  BY <1>5, <1>6

(* Until the marks are set Nullable_proofs speaks of them.                 *)
Np == INSTANCE Nullable_proofs WITH calls <- nullCalls

MInv == IF phase = "nullable" THEN Np!IInv ELSE MarksSet

(* Grammars are grammars there too.                                        *)
LEMMA GrammarsThere == \A g \in Grammars : Np!IsGrammar(g)
BY GrammarsAssumption DEF IsGrammar, Np!IsGrammar, Terminals, Np!Terminals, Nonterminals, Np!Nonterminals,
   Symbols, Np!Symbols, StartRule, Np!StartRule, StartSymbol, Np!StartSymbol, EofSymbol, Np!EofSymbol,
   RuleIds, Np!RuleIds, RuleLength, Np!RuleLength, RulesOf, Np!RulesOf

LEMMA MInvInit == LalrInit => MInv
<1> SUFFICES ASSUME LalrInit PROVE Np!IInv
  BY DEF LalrInit, MInv
<1>1. Np!Init
  BY DEF LalrInit, Marks!Init, Np!Init, Marks!RuleIds, Np!RuleIds, Marks!RuleLength, Np!RuleLength
<1> QED
  BY <1>1, GrammarsThere, Np!InitInv

(* A step of the marking in Lalr is a step of Nullable.                    *)
LEMMA MarkingGoesOn ==
    ASSUME Np!IInv, [Marks!Next]_(Marks!vars)
    PROVE  Np!IInv'
<1>1. /\ \A A : Marks!Used(A) = Np!Used(A)
      /\ \A A : Marks!HasEmptyRule(A) = Np!HasEmptyRule(A)
      /\ \A o, p : Marks!Before(o, p) = Np!Before(o, p)
      /\ Marks!LastCall = Np!LastCall /\ Marks!Outer = Np!Outer /\ Marks!InLoop = Np!InLoop
  BY DEF Marks!Used, Np!Used, Marks!HasEmptyRule, Np!HasEmptyRule, Marks!Before, Np!Before, Marks!LastCall,
     Np!LastCall, Marks!Outer, Np!Outer, Marks!InLoop, Np!InLoop, Marks!RuleIds, Np!RuleIds, Marks!RuleLength,
     Np!RuleLength, Marks!RulesOf, Np!RulesOf
<1>2. Marks!NullifyNext => Np!Next
  BY <1>1 DEF Marks!NullifyNext, Np!NullifyNext, Np!Next
<1>3. Marks!SkipNext => Np!Next
  BY <1>1 DEF Marks!SkipNext, Np!SkipNext, Np!Next
<1>4. Marks!Decrement => Np!Next
  BY <1>1 DEF Marks!Decrement, Np!Decrement, Marks!TakeOccurrence, Np!TakeOccurrence, Np!Next
<1>5. Marks!Return => Np!Next
  BY <1>1 DEF Marks!Return, Np!Return, Np!Next
<1>6. [Np!Next]_(Np!vars)
  BY <1>2, <1>3, <1>4, <1>5 DEF Marks!Next, Marks!vars, Np!vars
<1> QED
  BY <1>6, GrammarsThere, Np!Inductive

(* When the lengths are set the marks cover all cases.                     *)
LEMMA MarksComplete ==
    ASSUME Np!IInv, ComputeMinRuleLengths
    PROVE  MarksSet'
<1>1. Np!Done /\ grammar' = grammar /\ isNullable' = isNullable
  BY DEF ComputeMinRuleLengths, Marks!Done, Np!Done, vars
<1>2. Np!NullableSet(grammar) \subseteq isNullable
  BY <1>1, GrammarsThere, Np!DoneCovers
<1>3. Np!NullableSet(grammar) = NullableSet(grammar)
  BY DEF NullableSet, Np!NullableSet, DerivesWithin, Np!DerivesWithin, RuleIds, Np!RuleIds, RuleLength,
     Np!RuleLength, Nonterminals, Np!Nonterminals
<1>4. isNullable \subseteq Nonterminals(grammar)
  BY DEF Np!IInv, Np!TypeOK, Nonterminals, Np!Nonterminals
<1> QED
  BY <1>1, <1>2, <1>3, <1>4 DEF ComputeMinRuleLengths, MarksSet

LEMMA MarksStay ==
    ASSUME MarksSet, grammar' = grammar, UNCHANGED marks
    PROVE  MarksSet'
BY DEF MarksSet, marks

LEMMA MInvInductive == MInv /\ [LalrNext]_allVars => MInv'
<1> SUFFICES ASSUME MInv, [LalrNext]_allVars PROVE MInv'
  OBVIOUS
<1>1. CASE ComputeNullable
  BY <1>1, MarkingGoesOn DEF ComputeNullable, MInv
<1>2. CASE ComputeMinRuleLengths
  <2>1. Np!IInv /\ phase' # "nullable"
    BY <1>2 DEF ComputeMinRuleLengths, MInv
  <2> QED
    BY <1>2, <2>1, MarksComplete DEF MInv
<1>3. CASE Construct \/ StartReads \/ Traverse \/ StartIncludes \/ ComputeLookahead
  <2>1. UNCHANGED marks /\ phase # "nullable" /\ phase' # "nullable" /\ grammar' = grammar
    BY <1>3 DEF Construct, StartReads, Traverse, StartIncludes, ComputeLookahead, Next, ReduceMoves,
       NoShift, ShiftToNewState, ShiftToKnownState, vars
  <2> QED
    BY <2>1, MarksStay DEF MInv
<1>4. CASE UNCHANGED allVars
  <2>1. phase' = phase /\ grammar' = grammar /\ UNCHANGED marks /\ UNCHANGED Marks!vars
    BY <1>4 DEF allVars, vars, marks, Marks!vars
  <2> QED
    BY <2>1, MarksStay, MarkingGoesOn DEF MInv
<1> QED
  BY <1>1, <1>2, <1>3, <1>4 DEF LalrNext

LEMMA AssertionsFromInv == IInv /\ Complete /\ MInv => IncludesAssertions
BY IncludesFindsEdges DEF IncludesAssertions, MInv

(* The automaton changes by the steps of constructPDA only.                *)
LEMMA LalrKeepsTable == [LalrNext]_allVars => [Next]_vars
BY DEF LalrNext, allVars, ComputeNullable, ComputeMinRuleLengths, Construct, StartReads, Traverse,
   StartIncludes, ComputeLookahead

(* The assertions of includes() cannot fail: the one its author saw fail   *)
(* "repeatedly" (lalr.cc:119), and that wherever backtracking along the    *)
(* predecessors ends there is an edge for the rule's left side (139).      *)
THEOREM IncludesNeverFails == LalrSpec => []IncludesAssertions
<1>1. LalrInit => IInv /\ Complete /\ MInv
  BY InitIInv, CompleteInit, MInvInit DEF LalrInit
<1>2. IInv /\ Complete /\ [Next]_vars => (IInv /\ Complete)'
  BY NextIInv, CompleteInductive
<1> QED
  BY <1>1, <1>2, LalrKeepsTable, MInvInductive, AssertionsFromInv, PTL DEF LalrSpec
-----------------------------------------------------------------------------
(* Induction up to a bound, for a property given as a set of numbers.      *)
LEMMA UpTo ==
    ASSUME NEW n \in Nat, NEW T, 0 \in T, \A i, j \in 0 .. n : i \in T /\ j = i + 1 => j \in T
    PROVE  0 .. n \subseteq T
<1> DEFINE U == 0 .. n \ T
<1>1. SUFFICES ASSUME U # {} PROVE FALSE
  OBVIOUS
<1>2. PICK j \in U : \A l \in U : j <= l
  <2>1. U \in SUBSET Nat
    OBVIOUS
  <2> HIDE DEF U
  <2> QED
    BY <1>1, <2>1, LeastNat
<1>3. j # 0 /\ j - 1 \in 0 .. n /\ j = (j - 1) + 1 /\ ~(j <= j - 1)
  OBVIOUS
<1>4. j - 1 \in T
  BY <1>2, <1>3
<1> QED
  BY <1>3, <1>4

(* The function that applies a step again and again exists.                *)
IsIteration(F, n, V, v, f) ==
    /\ F \in [0 .. n -> V]
    /\ F[0] = v
    /\ \A i, j \in 0 .. n : j = i + 1 => F[j] = f[F[i]]

LEMMA IterationExists ==
    ASSUME NEW n \in Nat, NEW V, NEW v \in V, NEW f \in [V -> V]
    PROVE  \E F : IsIteration(F, n, V, v, f)
<1> DEFINE Exists(m) == \E F : IsIteration(F, m, V, v, f)
           T == {m \in 0 .. n : Exists(m)}
<1>1. 0 \in T
  <2> DEFINE F == [i \in 0 .. 0 |-> v]
  <2>1. IsIteration(F, 0, V, v, f)
    BY DEF IsIteration
  <2> HIDE DEF F
  <2> QED
    BY <2>1
<1>2. ASSUME NEW m \in 0 .. n, NEW j \in 0 .. n, m \in T, j = m + 1 PROVE j \in T
  <2>1. PICK F : IsIteration(F, m, V, v, f)
    BY <1>2
  <2>2. /\ F \in [0 .. m -> V] /\ F[0] = v
        /\ \A i, l \in 0 .. m : l = i + 1 => F[l] = f[F[i]]
    BY <2>1 DEF IsIteration
  <2>3. f[F[m]] \in V
    BY <2>2
  <2> DEFINE G == [i \in 0 .. j |-> IF i = j THEN f[F[m]] ELSE F[i]]
  <2>4. G \in [0 .. j -> V] /\ G[0] = v
    BY <1>2, <2>2, <2>3
  <2>5. ASSUME NEW i \in 0 .. j, NEW l \in 0 .. j, l = i + 1 PROVE G[l] = f[G[i]]
    <3>1. i \in 0 .. m /\ i # j /\ G[i] = F[i]
      BY <1>2, <2>5
    <3>2. CASE l = j
      BY <1>2, <2>5, <3>1, <3>2
    <3>3. CASE l # j
      <4>1. l \in 0 .. m /\ G[l] = F[l]
        BY <1>2, <2>5, <3>3
      <4> QED
        BY <2>2, <2>5, <3>1, <4>1
    <3> QED
      BY <3>2, <3>3
  <2> HIDE DEF G
  <2>6. IsIteration(G, j, V, v, f)
    BY <2>4, <2>5 DEF IsIteration
  <2> QED
    BY <2>6
<1>3. n \in T
  <2> HIDE DEF T
  <2>1. 0 .. n \subseteq T
    BY ONLY <1>1, <1>2, n \in Nat, UpTo
  <2> QED
    BY <2>1
<1> QED
  BY <1>3

(* A set that grows step by step, as the recursive sets of LRTable do.     *)
Grows(A, origin, step) ==
    /\ origin \in SUBSET A
    /\ step \in [SUBSET A -> SUBSET A]
    /\ \A X \in SUBSET A : X \subseteq step[X]

IsGrowth(F, n, A, origin, step) ==
    /\ F \in [0 .. n -> SUBSET A]
    /\ F[0] = origin
    /\ \A i, j \in 0 .. n : j = i + 1 => F[j] = step[F[i]]

(* It grows for any number of steps.                                       *)
LEMMA GrowthExists ==
    ASSUME NEW n \in Nat, NEW A, NEW origin, NEW step, Grows(A, origin, step)
    PROVE  \E F : IsGrowth(F, n, A, origin, step)
<1>1. origin \in SUBSET A /\ step \in [SUBSET A -> SUBSET A]
  BY DEF Grows
<1>2. PICK F : IsIteration(F, n, SUBSET A, origin, step)
  BY <1>1, IterationExists
<1> QED
  BY <1>2 DEF IsIteration, IsGrowth

(* Once in it, always in it.                                               *)
LEMMA GrowthKeeps ==
    ASSUME NEW n \in Nat, NEW A, NEW origin, NEW step, Grows(A, origin, step),
           NEW F, IsGrowth(F, n, A, origin, step), NEW i \in 0 .. n, NEW j \in 0 .. n, i <= j
    PROVE  F[i] \subseteq F[j]
<1> DEFINE T == {m \in 0 .. n : m < i \/ F[i] \subseteq F[m]}
<1>1. 0 \in T
  BY DEF IsGrowth
<1>2. ASSUME NEW m \in 0 .. n, NEW l \in 0 .. n, m \in T, l = m + 1 PROVE l \in T
  <2>1. CASE l <= i
    BY <1>2, <2>1
  <2>2. CASE l > i
    <3>1. F[i] \subseteq F[m]
      BY <1>2, <2>2
    <3>2. F[m] \subseteq F[l]
      BY <1>2 DEF IsGrowth, Grows
    <3> QED
      BY <3>1, <3>2
  <2> QED
    BY <2>1, <2>2
<1>3. 0 .. n \subseteq T
  <2> HIDE DEF T
  <2> QED
    BY ONLY <1>1, <1>2, n \in Nat, UpTo
<1> QED
  BY <1>3

(* What is grown is inside every set that the step does not leave.         *)
LEMMA GrowthIsLeast ==
    ASSUME NEW n \in Nat, NEW A, NEW origin, NEW step, Grows(A, origin, step),
           NEW F, IsGrowth(F, n, A, origin, step),
           NEW C, origin \subseteq C, \A X \in SUBSET A : X \subseteq C => step[X] \subseteq C
    PROVE  F[n] \subseteq C
<1> DEFINE T == {m \in 0 .. n : F[m] \subseteq C}
<1>1. 0 \in T
  BY DEF IsGrowth
<1>2. ASSUME NEW m \in 0 .. n, NEW l \in 0 .. n, m \in T, l = m + 1 PROVE l \in T
  <2>1. F[m] \in SUBSET A /\ F[l] = step[F[m]]
    BY <1>2 DEF IsGrowth
  <2> QED
    BY <1>2, <2>1
<1>3. 0 .. n \subseteq T
  <2> HIDE DEF T
  <2> QED
    BY ONLY <1>1, <1>2, n \in Nat, UpTo
<1> QED
  BY <1>3

(* As many steps as a finite part of the whole has elements are enough to  *)
(* complete that part, when what a step adds there depends on that part.   *)
LEMMA GrowthCompletes ==
    ASSUME NEW n \in Nat, NEW A, NEW origin, NEW step, Grows(A, origin, step),
           NEW F, IsGrowth(F, n, A, origin, step),
           NEW B, IsFiniteSet(B), Cardinality(B) <= n,
           \A X, Y \in SUBSET A : X \intersect B = Y \intersect B
               => step[X] \intersect B = step[Y] \intersect B
    PROVE  step[F[n]] \intersect B \subseteq F[n]
<1> DEFINE In(X) == X \intersect B
           Stopped(m) == In(step[F[m]]) = In(F[m])
           T == {m \in 0 .. n : Stopped(m) \/ m <= Cardinality(In(F[m]))}
<1>1. \A X : IsFiniteSet(In(X)) /\ Cardinality(In(X)) \in Nat
  BY FS_Intersection, FS_CardinalityType
<1>2. \A m \in 0 .. n : F[m] \in SUBSET A /\ step[F[m]] \in SUBSET A /\ F[m] \subseteq step[F[m]]
  BY DEF IsGrowth, Grows
<1>3. 0 \in T
  <2>1. Cardinality(In(F[0])) >= 0
    <3> HIDE DEF In
    <3> QED BY <1>1
  <2> QED BY <2>1
<1>4. ASSUME NEW m \in 0 .. n, NEW l \in 0 .. n, m \in T, l = m + 1 PROVE l \in T
  <2>1. F[l] = step[F[m]]
    BY <1>4 DEF IsGrowth
  <2>2. CASE Stopped(m)
    <3>1. In(F[l]) = In(F[m])
      BY <2>1, <2>2
    <3>2. In(step[F[l]]) = In(step[F[m]])
      BY <1>2, <3>1
    <3>3. Stopped(l)
      BY <2>1, <3>1, <3>2
    <3> QED
      BY <3>3
  <2>3. CASE ~Stopped(m)
    <3>1. In(F[m]) \subseteq In(F[l]) /\ In(F[m]) # In(F[l])
      BY <1>2, <2>1, <2>3
    <3>2. m <= Cardinality(In(F[m]))
      BY <1>4, <2>3
    <3> HIDE DEF In
    <3>3. Cardinality(In(F[m])) < Cardinality(In(F[l]))
      BY <1>1, <3>1, FS_Subset
    <3>4. l <= Cardinality(In(F[l]))
      BY <1>1, <1>4, <3>2, <3>3
    <3> QED
      BY <3>4
  <2> QED
    BY <2>2, <2>3
<1>5. n \in T
  <2> HIDE DEF T
  <2>1. 0 .. n \subseteq T
    BY ONLY <1>3, <1>4, n \in Nat, UpTo
  <2> QED
    BY <2>1
<1>6. CASE Stopped(n)
  BY <1>6
<1>7. CASE n <= Cardinality(In(F[n]))
  <2>1. In(F[n]) \subseteq B /\ Cardinality(B) \in Nat
    BY FS_CardinalityType
  <2>2. In(F[n]) = B
    <3> HIDE DEF In
    <3>1. /\ Cardinality(In(F[n])) <= Cardinality(B)
          /\ Cardinality(B) = Cardinality(In(F[n])) => B = In(F[n])
      BY <2>1, FS_Subset
    <3> QED
      BY <1>1, <1>7, <2>1, <3>1
  <2> QED
    BY <2>2
<1> QED
  BY <1>5, <1>6, <1>7
-----------------------------------------------------------------------------
Words(g, k) == {w \in Seq(Symbols(g)) : Len(w) <= k}
Begins(g, k) == [nonterm : Nonterminals(g), after : Words(g, k)]

RightSide(g, r) == g.rules[r].syms

(* The right side of a rule is a word of symbols.                          *)
LEMMA RightSideIs ==
    ASSUME NEW g, IsGrammar(g), NEW r \in RuleIds(g)
    PROVE  /\ RightSide(g, r) \in Seq(Symbols(g)) /\ RuleLength(g, r) \in Nat
           /\ RuleLength(g, r) = Len(RightSide(g, r))
           /\ DOMAIN RightSide(g, r) = 1 .. RuleLength(g, r)
<1> DEFINE Rules == [nonterm : Nonterminals(g), syms : Seq(Symbols(g))]
<1>1. g.rules \in Seq(Rules) /\ r \in 1 .. Len(g.rules)
  BY DEF IsGrammar, RuleIds
<1>2. g.rules[r] \in Rules
  <2> HIDE DEF Rules
  <2> QED BY <1>1
<1>3. g.rules[r].syms \in Seq(Symbols(g))
  BY <1>2
<1> HIDE DEF Rules
<1> QED
  BY <1>3, LenProperties DEF RightSide, RuleLength

(* What a right side begins with is a word, a symbol longer at each step.  *)
LEMMA RightSidePrefix ==
    ASSUME NEW g, IsGrammar(g), NEW r \in RuleIds(g), NEW p \in 0 .. RuleLength(g, r)
    PROVE  /\ SubSeq(RightSide(g, r), 1, p) \in Seq(Symbols(g))
           /\ Len(SubSeq(RightSide(g, r), 1, p)) = p
<1>1. \A i \in 1 .. p : RightSide(g, r)[i] \in Symbols(g)
  <2>1. \A i \in 1 .. p : i \in 1 .. RuleLength(g, r)
    BY RightSideIs
  <2> QED
    BY <2>1, RightSideSymbols DEF RightSide
<1>2. p \in Nat
  BY RightSideIs
<1>3. /\ SubSeq(RightSide(g, r), 1, p) \in Seq(Symbols(g))
      /\ Len(SubSeq(RightSide(g, r), 1, p)) = IF 1 <= p THEN p - 1 + 1 ELSE 0
  <2>1. p \in Int /\ 1 \in Int
    BY <1>2
  <2> QED
    BY ONLY <1>1, <2>1, SubSeqProperties
<1> QED
  BY <1>2, <1>3

(* The beginning of a word that begins another is the other's beginning.   *)
LEMMA PrefixOfPrefix ==
    ASSUME NEW S, NEW u \in Seq(S), NEW v \in Seq(S), NEW w \in Seq(S), NEW j \in 0 .. Len(w),
           u \o v = SubSeq(w, 1, j)
    PROVE  Len(u) \in 0 .. Len(w) /\ u = SubSeq(w, 1, Len(u))
<1>1. /\ Len(u) \in Nat /\ Len(v) \in Nat /\ Len(w) \in Nat
      /\ Len(u \o v) = Len(u) + Len(v)
      /\ \A i \in 1 .. Len(u) + Len(v) : (u \o v)[i] = IF i <= Len(u) THEN u[i] ELSE v[i - Len(u)]
  BY LenProperties, ConcatProperties
<1>2. \A i \in 1 .. Len(w) : w[i] \in S
  BY ElementOfSeq
<1>3. ASSUME NEW l \in 0 .. Len(w)
      PROVE  /\ SubSeq(w, 1, l) \in Seq(S) /\ Len(SubSeq(w, 1, l)) = l
             /\ \A i \in 1 .. l : SubSeq(w, 1, l)[i] = w[i]
  <2>1. l \in Int /\ 1 \in Int /\ \A i \in 1 .. l : w[i] \in S
    BY <1>1, <1>2
  <2>2. /\ SubSeq(w, 1, l) \in Seq(S)
        /\ Len(SubSeq(w, 1, l)) = IF 1 <= l THEN l - 1 + 1 ELSE 0
        /\ \A i \in 1 .. l - 1 + 1 : SubSeq(w, 1, l)[i] = w[1 + i - 1]
    BY ONLY <2>1, SubSeqProperties
  <2> QED
    BY <1>1, <2>2
<1>4. j = Len(u) + Len(v) /\ j \in Nat
  BY <1>1, <1>3
<1>5. Len(u) \in 0 .. Len(w) /\ Len(u) <= j
  BY <1>1, <1>4
<1>6. \A i \in 1 .. Len(u) : u[i] = SubSeq(w, 1, Len(u))[i]
  <2> SUFFICES ASSUME NEW i \in 1 .. Len(u) PROVE u[i] = SubSeq(w, 1, Len(u))[i]
    OBVIOUS
  <2>1. i \in 1 .. Len(u) + Len(v) /\ i \in 1 .. j /\ i <= Len(u)
    BY <1>1, <1>4
  <2>2. u[i] = (u \o v)[i]
    BY <1>1, <2>1
  <2>3. (u \o v)[i] = w[i]
    BY <1>3, <2>1
  <2> QED
    BY <1>3, <1>5, <2>2, <2>3
<1>7. SubSeq(w, 1, Len(u)) \in Seq(S) /\ Len(SubSeq(w, 1, Len(u))) = Len(u)
  BY <1>3, <1>5
<1> QED
  BY ONLY <1>5, <1>6, <1>7, SeqEqual, u \in Seq(S)

(* What is expected in a rule is expected after what the rule is after and *)
(* a beginning of its right side.                                          *)
LEMMA ExpectedInIs ==
    ASSUME NEW g, IsGrammar(g), NEW k \in Nat, NEW e \in Begins(g, k), NEW r \in RuleIds(g),
           NEW x \in ExpectedIn(g, k, r, e)
    PROVE  /\ x \in Begins(g, k)
           /\ \E v \in Seq(Symbols(g)) : x.after = e.after \o v
<1> DEFINE s == RightSide(g, r)
<1>1. PICK j \in {l \in DOMAIN s : s[l] \in Nonterminals(g) /\ Len(e.after) + l - 1 <= k} :
         x = Begin(s[j], e.after \o SubSeq(s, 1, j - 1))
  BY DEF ExpectedIn, RightSide
<1>2. j \in 1 .. RuleLength(g, r) /\ RuleLength(g, r) \in Nat
  BY RightSideIs
<1>3. j - 1 \in 0 .. RuleLength(g, r)
  BY <1>2
<1> DEFINE v == SubSeq(s, 1, j - 1)
<1>4. v \in Seq(Symbols(g)) /\ Len(v) = j - 1
  BY <1>3, RightSidePrefix
<1>5. e.after \in Seq(Symbols(g)) /\ Len(e.after) \in Nat
  BY LenProperties DEF Begins, Words
<1> HIDE DEF v
<1>6. e.after \o v \in Seq(Symbols(g)) /\ Len(e.after \o v) = Len(e.after) + (j - 1)
  BY <1>4, <1>5, ConcatProperties
<1>7. Len(e.after \o v) <= k
  BY <1>1, <1>2, <1>5, <1>6
<1>8. x = [nonterm |-> s[j], after |-> e.after \o v] /\ s[j] \in Nonterminals(g)
  BY <1>1 DEF Begin, v
<1>9. x \in Begins(g, k)
  BY <1>6, <1>7, <1>8 DEF Begins, Words
<1> QED
  BY <1>4, <1>8, <1>9
-----------------------------------------------------------------------------
ExpectMore(g, k, X) ==
    X \union UNION {UNION {ExpectedIn(g, k, r, e) : r \in RulesOf(g, e.nonterm)} : e \in X}

ExpectStep(g, k) == [X \in SUBSET Begins(g, k) |-> ExpectMore(g, k, X)]

First(g) == {Begin(StartSymbol(g), <<>>)}

(* What is expected after the beginnings of a word.                        *)
Along(g, w) == {Begin(A, SubSeq(w, 1, j)) : A \in Nonterminals(g), j \in 0 .. Len(w)}

(* There are finitely many of them, not more than the bound of Expected.   *)
LEMMA AlongIsFinite ==
    ASSUME NEW g, IsGrammar(g), NEW k \in Nat, NEW w \in Words(g, k)
    PROVE  IsFiniteSet(Along(g, w)) /\ Cardinality(Along(g, w)) <= (k + 1) * g.numSymbols
<1> DEFINE NT == Nonterminals(g)
           J == 0 .. Len(w)
           f == [p \in NT \X J |-> Begin(p[1], SubSeq(w, 1, p[2]))]
<1>1. /\ g.lastTerminal \in Nat /\ g.numSymbols \in Nat /\ g.lastTerminal < g.numSymbols
      /\ Len(w) \in Nat /\ Len(w) <= k
  BY LenProperties DEF IsGrammar, Words
<1>2. IsFiniteSet(NT) /\ Cardinality(NT) = g.numSymbols - g.lastTerminal
  <2>1. g.lastTerminal + 1 \in Int /\ g.numSymbols \in Int
    BY <1>1
  <2>2. IsFiniteSet((g.lastTerminal + 1) .. g.numSymbols) /\ Cardinality((g.lastTerminal + 1) .. g.numSymbols) =
          IF g.lastTerminal + 1 > g.numSymbols THEN 0 ELSE g.numSymbols - (g.lastTerminal + 1) + 1
    BY ONLY <2>1, FS_Interval
  <2> QED
    BY <1>1, <2>2 DEF Nonterminals
<1>3. IsFiniteSet(J) /\ Cardinality(J) = Len(w) + 1
  <2>1. 0 \in Int /\ Len(w) \in Int
    BY <1>1
  <2>2. IsFiniteSet(0 .. Len(w)) /\ Cardinality(0 .. Len(w)) = IF 0 > Len(w) THEN 0 ELSE Len(w) - 0 + 1
    BY ONLY <2>1, FS_Interval
  <2> QED
    BY <1>1, <2>2
<1>4. f \in Surjection(NT \X J, Along(g, w))
  <2>1. f \in [NT \X J -> Along(g, w)]
    BY DEF Along
  <2>2. ASSUME NEW x \in Along(g, w) PROVE \E p \in NT \X J : f[p] = x
    <3>1. PICK A \in NT, j \in J : x = Begin(A, SubSeq(w, 1, j))
      BY DEF Along
    <3>2. <<A, j>> \in NT \X J /\ f[<<A, j>>] = x
      BY <3>1
    <3> QED
      BY <3>2
  <2> HIDE DEF f
  <2> QED
    BY <2>1, <2>2 DEF Surjection
<1> HIDE DEF NT, J, f
<1>5. IsFiniteSet(NT \X J) /\ Cardinality(NT \X J) = Cardinality(NT) * Cardinality(J)
  BY <1>2, <1>3, FS_Product
<1>6. /\ IsFiniteSet(Along(g, w)) /\ Cardinality(Along(g, w)) <= Cardinality(NT \X J)
      /\ Cardinality(Along(g, w)) \in Nat
  BY <1>4, <1>5, FS_Surjection, FS_CardinalityType
<1>7. ASSUME NEW a \in Nat, NEW b \in Nat, NEW c \in Nat, NEW d \in Nat, a <= c, b <= d
      PROVE  a * b <= d * c
  <2>1. a * b <= c * b
    BY <1>7
  <2>2. c * b <= c * d
    BY <1>7
  <2>3. c * d = d * c /\ a * b \in Nat /\ c * b \in Nat /\ c * d \in Nat
    OBVIOUS
  <2> QED
    BY <2>1, <2>2, <2>3
<1> DEFINE a == g.numSymbols - g.lastTerminal
           b == Len(w) + 1
<1>8. a \in Nat /\ b \in Nat /\ k + 1 \in Nat /\ a <= g.numSymbols /\ b <= k + 1
  BY <1>1
<1>9. Cardinality(NT \X J) = a * b
  BY <1>2, <1>3, <1>5
<1> HIDE DEF a, b
<1>10. a * b <= (k + 1) * g.numSymbols
  BY <1>1, <1>7, <1>8
<1>11. a * b \in Nat /\ (k + 1) * g.numSymbols \in Nat
  BY <1>1, <1>8
<1> QED
  BY <1>6, <1>9, <1>10, <1>11

(* The sets of Expected grow.                                              *)
LEMMA ExpectedGrows ==
    ASSUME NEW g, IsGrammar(g), NEW k \in Nat
    PROVE  Grows(Begins(g, k), First(g), ExpectStep(g, k))
<1>1. First(g) \in SUBSET Begins(g, k)
  <2>1. StartSymbol(g) \in Nonterminals(g)
    BY DEF StartSymbol, Nonterminals, IsGrammar
  <2>2. <<>> \in Seq(Symbols(g)) /\ Len(<<>>) = 0
    BY EmptySeq
  <2> QED
    BY <2>1, <2>2 DEF First, Begin, Begins, Words
<1>2. ASSUME NEW X \in SUBSET Begins(g, k) PROVE ExpectMore(g, k, X) \in SUBSET Begins(g, k)
  <2> SUFFICES ASSUME NEW e \in X, NEW r \in RulesOf(g, e.nonterm), NEW x \in ExpectedIn(g, k, r, e)
               PROVE  x \in Begins(g, k)
    BY DEF ExpectMore
  <2> QED
    BY ExpectedInIs DEF RulesOf
<1>3. \A X \in SUBSET Begins(g, k) : X \subseteq ExpectMore(g, k, X)
  BY DEF ExpectMore
<1> QED
  BY <1>1, <1>2, <1>3 DEF Grows, ExpectStep

(* Expected is what has grown after the number of steps it takes.          *)
LEMMA ExpectedIsGrown ==
    ASSUME NEW g, IsGrammar(g), NEW k \in Nat
    PROVE  \E F : /\ IsGrowth(F, (k + 1) * g.numSymbols, Begins(g, k), First(g), ExpectStep(g, k))
                  /\ Expected(g, k) = F[(k + 1) * g.numSymbols]
<1> DEFINE n == (k + 1) * g.numSymbols
           Is(E) == E = [i \in 0 .. n |->
                       IF i = 0 THEN First(g) ELSE ExpectMore(g, k, E[i - 1])]
           C == CHOOSE E : Is(E)
<1>1. n \in Nat
  BY DEF IsGrammar
<1>2. Expected(g, k) = C[n]
  BY DEF Expected, ExpectMore, First
<1>3. PICK F : IsGrowth(F, n, Begins(g, k), First(g), ExpectStep(g, k))
  <2> HIDE DEF n
  <2> QED
    BY <1>1, ExpectedGrows, GrowthExists
<1> HIDE DEF n
<1>4. /\ F \in [0 .. n -> SUBSET Begins(g, k)] /\ F[0] = First(g)
      /\ \A i, j \in 0 .. n : j = i + 1 => F[j] = ExpectMore(g, k, F[i])
  BY <1>3 DEF IsGrowth, ExpectStep
<1>5. Is(F)
  <2>1. ASSUME NEW i \in 0 .. n
        PROVE  F[i] = IF i = 0 THEN First(g) ELSE ExpectMore(g, k, F[i - 1])
    <3>1. CASE i = 0
      BY <1>4, <3>1
    <3>2. CASE i # 0
      <4>1. i - 1 \in 0 .. n /\ i = (i - 1) + 1
        BY <1>1, <3>2
      <4> QED
        BY <1>4, <3>2, <4>1
    <3> QED
      BY <3>1, <3>2
  <2>2. F = [i \in 0 .. n |-> F[i]]
    BY <1>4
  <2> QED
    BY <2>1, <2>2
<1>6. Is(C)
  BY <1>5
<1> HIDE DEF C
<1>7. C[0] = First(g) /\ \A i, j \in 0 .. n : j = i + 1 => C[j] = ExpectMore(g, k, C[i])
  <2>1. C[0] = First(g)
    BY <1>1, <1>6
  <2>2. ASSUME NEW i \in 0 .. n, NEW j \in 0 .. n, j = i + 1 PROVE C[j] = ExpectMore(g, k, C[i])
    <3>1. j # 0 /\ j - 1 = i
      BY <1>1, <2>2
    <3> QED
      BY <1>6, <3>1
  <2> QED
    BY <2>1, <2>2
<1> HIDE DEF Is
<1> DEFINE T == {i \in 0 .. n : C[i] = F[i]}
<1>8. 0 \in T
  BY <1>1, <1>4, <1>7
<1>9. \A i, j \in 0 .. n : i \in T /\ j = i + 1 => j \in T
  BY <1>4, <1>7
<1>10. 0 .. n \subseteq T
  <2> HIDE DEF T
  <2> QED
    BY ONLY <1>1, <1>8, <1>9, UpTo
<1>11. C[n] = F[n]
  <2>1. n \in 0 .. n
    BY <1>1
  <2> QED
    BY <1>10, <2>1
<1> QED
  BY <1>2, <1>3, <1>11 DEF n
-----------------------------------------------------------------------------
(* What is expected somewhere: the start symbol at the beginning, what a   *)
(* rule of something expected expects, and nothing else.                   *)
IsExpected(g, k, E) ==
    /\ E \in SUBSET Begins(g, k)
    /\ First(g) \subseteq E
    /\ \A e \in E : \A r \in RulesOf(g, e.nonterm) : ExpectedIn(g, k, r, e) \subseteq E
    /\ \A C \in SUBSET Begins(g, k) :
          First(g) \subseteq C /\ (\A e \in C : \A r \in RulesOf(g, e.nonterm) : ExpectedIn(g, k, r, e) \subseteq C)
              => E \subseteq C

(* What is added along a word depends on what is there along the word.     *)
LEMMA StepAlong ==
    ASSUME NEW g, IsGrammar(g), NEW k \in Nat, NEW w \in Words(g, k),
           NEW X \in SUBSET Begins(g, k), NEW Y \in SUBSET Begins(g, k),
           X \intersect Along(g, w) \subseteq Y
    PROVE  ExpectMore(g, k, X) \intersect Along(g, w) \subseteq ExpectMore(g, k, Y)
<1> SUFFICES ASSUME NEW x \in ExpectMore(g, k, X), x \in Along(g, w), x \notin X
             PROVE  x \in ExpectMore(g, k, Y)
  BY DEF ExpectMore
<1>1. PICK e \in X : \E r \in RulesOf(g, e.nonterm) : x \in ExpectedIn(g, k, r, e)
  BY DEF ExpectMore
<1>2. PICK r \in RulesOf(g, e.nonterm) : x \in ExpectedIn(g, k, r, e)
  BY <1>1
<1>3. r \in RuleIds(g) /\ e \in Begins(g, k)
  BY DEF RulesOf
<1>4. PICK v \in Seq(Symbols(g)) : x.after = e.after \o v
  BY <1>2, <1>3, ExpectedInIs
<1>5. PICK A \in Nonterminals(g), j \in 0 .. Len(w) : x = Begin(A, SubSeq(w, 1, j))
  BY DEF Along
<1>6. e.after \o v = SubSeq(w, 1, j)
  BY <1>4, <1>5 DEF Begin
<1>7. /\ e.after \in Seq(Symbols(g)) /\ w \in Seq(Symbols(g)) /\ e.nonterm \in Nonterminals(g)
      /\ e = Begin(e.nonterm, e.after)
  <2>1. e \in [nonterm : Nonterminals(g), after : Words(g, k)]
    BY <1>3 DEF Begins
  <2>2. e = [nonterm |-> e.nonterm, after |-> e.after] /\ e.nonterm \in Nonterminals(g)
        /\ e.after \in Words(g, k)
    BY <2>1
  <2> QED
    BY <2>2 DEF Words, Begin
<1>8. Len(e.after) \in 0 .. Len(w) /\ e.after = SubSeq(w, 1, Len(e.after))
  <2>1. \A u, t, z \in Seq(Symbols(g)) : \A l \in 0 .. Len(z) : u \o t = SubSeq(z, 1, l)
           => Len(u) \in 0 .. Len(z) /\ u = SubSeq(z, 1, Len(u))
    BY PrefixOfPrefix
  <2> QED
    BY <1>6, <1>7, <2>1
<1>9. e \in Along(g, w)
  <2> DEFINE l == Len(e.after)
  <2>1. e = Begin(e.nonterm, SubSeq(w, 1, l)) /\ l \in 0 .. Len(w)
    BY <1>7, <1>8
  <2> HIDE DEF l
  <2> QED
    BY <1>7, <2>1 DEF Along
<1> QED
  BY <1>2, <1>9 DEF ExpectMore

(* The bound of Expected is enough: along a word nothing is added later.   *)
LEMMA ExpectedIs ==
    ASSUME NEW g, IsGrammar(g), NEW k \in Nat
    PROVE  IsExpected(g, k, Expected(g, k))
<1> DEFINE n == (k + 1) * g.numSymbols
           B == Begins(g, k)
           step == ExpectStep(g, k)
<1>1. n \in Nat
  BY DEF IsGrammar
<1>2. PICK F : IsGrowth(F, n, B, First(g), step) /\ Expected(g, k) = F[n]
  BY ExpectedIsGrown
<1>3. Grows(B, First(g), step)
  BY ExpectedGrows
<1>a. n \in 0 .. n /\ 0 \in 0 .. n /\ 0 <= n
  BY <1>1
<1>4. F[n] \in SUBSET B /\ F[0] = First(g)
  <2> HIDE DEF n
  <2> QED
    BY <1>2, <1>a DEF IsGrowth
<1>5. First(g) \subseteq F[n]
  <2> HIDE DEF n, B, step
  <2>1. F[0] \subseteq F[n]
    BY <1>1, <1>2, <1>3, <1>a, GrowthKeeps
  <2> QED
    BY <1>4, <2>1
<1>6. ASSUME NEW e \in F[n], NEW r \in RulesOf(g, e.nonterm), NEW x \in ExpectedIn(g, k, r, e)
      PROVE  x \in F[n]
  <2> DEFINE w == x.after
  <2>1. x \in B
    BY <1>4, ExpectedInIs DEF RulesOf
  <2>2. w \in Words(g, k) /\ x.nonterm \in Nonterminals(g) /\ x = Begin(x.nonterm, w)
    BY <2>1 DEF Begins, Begin
  <2>3. x \in Along(g, w)
    <3>1. w \in Seq(Symbols(g)) /\ Len(w) \in Nat
      BY <2>2, LenProperties DEF Words
    <3>2. SubSeq(w, 1, Len(w)) = w /\ Len(w) \in 0 .. Len(w)
      BY <3>1, SubSeqFull
    <3> HIDE DEF w
    <3>3. x = Begin(x.nonterm, SubSeq(w, 1, Len(w)))
      BY <2>2, <3>2
    <3> QED
      BY <2>2, <3>2, <3>3 DEF Along
  <2>4. x \in step[F[n]]
    BY <1>4, <1>6 DEF ExpectStep, ExpectMore
  <2>5. IsFiniteSet(Along(g, w)) /\ Cardinality(Along(g, w)) <= n
    BY <2>2, AlongIsFinite
  <2>6. \A X, Y \in SUBSET B : X \intersect Along(g, w) = Y \intersect Along(g, w)
            => step[X] \intersect Along(g, w) = step[Y] \intersect Along(g, w)
    <3> SUFFICES ASSUME NEW X \in SUBSET B, NEW Y \in SUBSET B,
                        X \intersect Along(g, w) = Y \intersect Along(g, w)
                 PROVE  step[X] \intersect Along(g, w) = step[Y] \intersect Along(g, w)
      OBVIOUS
    <3>1. step[X] = ExpectMore(g, k, X) /\ step[Y] = ExpectMore(g, k, Y)
      BY DEF ExpectStep
    <3> HIDE DEF w
    <3>2. /\ ExpectMore(g, k, X) \intersect Along(g, w) \subseteq ExpectMore(g, k, Y)
          /\ ExpectMore(g, k, Y) \intersect Along(g, w) \subseteq ExpectMore(g, k, X)
      BY <2>2, StepAlong
    <3> QED
      BY <3>1, <3>2
  <2>7. step[F[n]] \intersect Along(g, w) \subseteq F[n]
    <3> HIDE DEF n, B, step, w
    <3> QED
      BY <1>1, <1>2, <1>3, <2>5, <2>6, GrowthCompletes
  <2> QED
    BY <2>3, <2>4, <2>7
<1>7. ASSUME NEW C \in SUBSET B, First(g) \subseteq C,
             \A e \in C : \A r \in RulesOf(g, e.nonterm) : ExpectedIn(g, k, r, e) \subseteq C
      PROVE  F[n] \subseteq C
  <2>1. \A X \in SUBSET B : X \subseteq C => step[X] \subseteq C
    BY <1>7 DEF ExpectStep, ExpectMore
  <2> HIDE DEF n, B, step
  <2> QED
    BY <1>1, <1>2, <1>3, <1>7, <2>1, GrowthIsLeast
<1> HIDE DEF n
<1> QED
  BY <1>2, <1>4, <1>5, <1>6, <1>7 DEF IsExpected
-----------------------------------------------------------------------------
Places == [after : Seq(Symbols(grammar)), to : 1 .. Len(items)]
Origin == {[after |-> <<>>, to |-> 1]}
Extend(p, x) == [after |-> Append(p.after, x), to |-> goto[p.to][x]]
Continuations(p) == {Extend(p, x) : x \in {y \in Symbols(grammar) : goto[p.to][y] # 0}}
PathMore(X) == X \union UNION {Continuations(p) : p \in X}
PathStep == [X \in SUBSET Places |-> PathMore(X)]

(* A path goes from state to state.                                        *)
LEMMA ContinuationIs ==
    ASSUME TypeOK, NEW p \in Places, NEW q \in Continuations(p)
    PROVE  q \in Places /\ Len(q.after) = Len(p.after) + 1
<1>1. PICK x \in Symbols(grammar) : goto[p.to][x] # 0 /\ q = Extend(p, x)
  BY DEF Continuations
<1>2. p.to \in 1 .. Len(items) /\ p.after \in Seq(Symbols(grammar)) /\ Len(items) \in Nat
  BY TableFacts DEF Places
<1>3. goto[p.to][x] \in 1 .. Len(items)
  <2>1. goto[p.to][x] \in 0 .. Len(items)
    BY <1>2, TableFacts
  <2> QED
    BY <1>1, <1>2, <2>1
<1>4. Append(p.after, x) \in Seq(Symbols(grammar)) /\ Len(Append(p.after, x)) = Len(p.after) + 1
  BY <1>2, AppendProperties
<1> QED
  BY <1>1, <1>3, <1>4 DEF Extend, Places

(* The sets of Paths grow.                                                 *)
LEMMA PathsGrow ==
    ASSUME TypeOK
    PROVE  Grows(Places, Origin, PathStep)
<1>1. Origin \in SUBSET Places
  <2>1. <<>> \in Seq(Symbols(grammar)) /\ 1 \in 1 .. Len(items)
    BY TableFacts, EmptySeq
  <2> QED
    BY <2>1 DEF Origin, Places
<1>2. \A X \in SUBSET Places : PathMore(X) \in SUBSET Places
  BY ContinuationIs DEF PathMore
<1>3. \A X \in SUBSET Places : X \subseteq PathMore(X)
  BY DEF PathMore
<1> QED
  BY <1>1, <1>2, <1>3 DEF Grows, PathStep

(* Paths is what has grown after as many steps as a path is long.          *)
LEMMA PathsAreGrown ==
    ASSUME TypeOK, NEW k \in Nat
    PROVE  \E F : IsGrowth(F, k, Places, Origin, PathStep) /\ Paths(k) = F[k]
<1> DEFINE Is(P) == P = [i \in 0 .. k |-> IF i = 0 THEN Origin ELSE PathMore(P[i - 1])]
           C == CHOOSE P : Is(P)
<1>2. Paths(k) = C[k]
  BY DEF Paths, PathMore, Origin, Continuations, Extend
<1>3. PICK F : IsGrowth(F, k, Places, Origin, PathStep)
  BY PathsGrow, GrowthExists
<1>4. /\ F \in [0 .. k -> SUBSET Places] /\ F[0] = Origin
      /\ \A i, j \in 0 .. k : j = i + 1 => F[j] = PathMore(F[i])
  BY <1>3 DEF IsGrowth, PathStep
<1>5. Is(F)
  <2>1. ASSUME NEW i \in 0 .. k
        PROVE  F[i] = IF i = 0 THEN Origin ELSE PathMore(F[i - 1])
    <3>1. CASE i = 0
      BY <1>4, <3>1
    <3>2. CASE i # 0
      <4>1. i - 1 \in 0 .. k /\ i = (i - 1) + 1
        BY <3>2
      <4> QED
        BY <1>4, <3>2, <4>1
    <3> QED
      BY <3>1, <3>2
  <2>2. F = [i \in 0 .. k |-> F[i]]
    BY <1>4
  <2> QED
    BY <2>1, <2>2
<1>6. Is(C)
  BY <1>5
<1> HIDE DEF C
<1>7. C[0] = Origin /\ \A i, j \in 0 .. k : j = i + 1 => C[j] = PathMore(C[i])
  <2>1. C[0] = Origin
    BY <1>6
  <2>2. ASSUME NEW i \in 0 .. k, NEW j \in 0 .. k, j = i + 1 PROVE C[j] = PathMore(C[i])
    <3>1. j # 0 /\ j - 1 = i
      BY <2>2
    <3> QED
      BY <1>6, <3>1
  <2> QED
    BY <2>1, <2>2
<1> HIDE DEF Is
<1> DEFINE T == {i \in 0 .. k : C[i] = F[i]}
<1>8. 0 \in T
  BY <1>4, <1>7
<1>9. \A i, j \in 0 .. k : i \in T /\ j = i + 1 => j \in T
  BY <1>4, <1>7
<1>10. 0 .. k \subseteq T
  <2> HIDE DEF T
  <2> QED
    BY ONLY <1>8, <1>9, k \in Nat, UpTo
<1> QED
  BY <1>2, <1>3, <1>10

(* The paths of the automaton: from the start state, along the edges, up   *)
(* to a length, and nothing else.                                          *)
ArePaths(k, P) ==
    /\ P \in SUBSET Places
    /\ Origin \subseteq P
    /\ \A p \in P : Len(p.after) <= k
    /\ \A p \in P : Len(p.after) < k => Continuations(p) \subseteq P
    /\ \A C \in SUBSET Places :
          Origin \subseteq C /\ (\A p \in C : Continuations(p) \subseteq C) => P \subseteq C

(* Paths has all of them: a path of length n is there after n steps.       *)
LEMMA PathsAre ==
    ASSUME TypeOK, NEW k \in Nat
    PROVE  ArePaths(k, Paths(k))
<1>1. PICK F : IsGrowth(F, k, Places, Origin, PathStep) /\ Paths(k) = F[k]
  BY PathsAreGrown
<1>2. Grows(Places, Origin, PathStep)
  BY PathsGrow
<1>3. /\ F \in [0 .. k -> SUBSET Places] /\ F[0] = Origin
      /\ \A i, j \in 0 .. k : j = i + 1 => F[j] = PathMore(F[i])
  BY <1>1 DEF IsGrowth, PathStep
<1>4. F[k] \in SUBSET Places /\ k \in 0 .. k /\ 0 \in 0 .. k
  BY <1>3
<1>a. \A i, j \in 0 .. k : i <= j => F[i] \subseteq F[j]
  BY <1>1, <1>2, GrowthKeeps
<1>5. Origin \subseteq F[k]
  BY <1>3, <1>4, <1>a
<1>6. \A p \in F[k] : Len(p.after) \in 0 .. k /\ p \in F[Len(p.after)]
  <2> DEFINE Early(i) == \A p \in F[i] : Len(p.after) \in 0 .. i /\ p \in F[Len(p.after)]
             T == {i \in 0 .. k : Early(i)}
  <2>1. 0 \in T
    <3>1. \A p \in F[0] : p.after = <<>>
      BY <1>3 DEF Origin
    <3>2. \A p \in F[0] : Len(p.after) = 0
      BY <3>1, EmptySeq
    <3> QED
      BY <3>2
  <2>2. ASSUME NEW i \in 0 .. k, NEW j \in 0 .. k, i \in T, j = i + 1 PROVE j \in T
    <3>1. F[j] = PathMore(F[i]) /\ F[i] \in SUBSET Places
      BY <1>3, <2>2
    <3> SUFFICES ASSUME NEW q \in F[j] PROVE Len(q.after) \in 0 .. j /\ q \in F[Len(q.after)]
      OBVIOUS
    <3>2. CASE q \in F[i]
      BY <2>2, <3>2
    <3>3. CASE q \notin F[i]
      <4>1. PICK p \in F[i] : q \in Continuations(p)
        BY <3>1, <3>3 DEF PathMore
      <4>2. Len(p.after) \in 0 .. i /\ p \in F[Len(p.after)]
        BY <2>2
      <4>3. Len(q.after) = Len(p.after) + 1
        BY <3>1, <4>1, ContinuationIs
      <4> DEFINE a == Len(p.after)
                 b == Len(q.after)
      <4>4. a \in 0 .. k /\ b \in 0 .. k /\ b = a + 1 /\ b \in 0 .. j /\ p \in F[a]
        BY <2>2, <4>2, <4>3
      <4> HIDE DEF a, b
      <4>5. F[b] = PathMore(F[a])
        BY <1>3, <4>4
      <4>6. q \in F[b]
        BY <4>1, <4>4, <4>5 DEF PathMore
      <4> QED
        BY <4>4, <4>6 DEF b
    <3> QED
      BY <3>2, <3>3
  <2>3. 0 .. k \subseteq T
    <3> HIDE DEF T
    <3> QED
      BY ONLY <2>1, <2>2, k \in Nat, UpTo
  <2> QED
    BY <1>4, <2>3
<1>7. ASSUME NEW p \in F[k], Len(p.after) < k, NEW q \in Continuations(p) PROVE q \in F[k]
  <2> DEFINE a == Len(p.after)
  <2>1. a \in 0 .. k /\ a + 1 \in 0 .. k /\ p \in F[a] /\ a + 1 <= k
    BY <1>6, <1>7
  <2> HIDE DEF a
  <2>2. F[a + 1] = PathMore(F[a])
    BY <1>3, <2>1
  <2>3. q \in F[a + 1]
    BY <1>7, <2>1, <2>2 DEF PathMore
  <2>4. F[a + 1] \subseteq F[k]
    BY <1>4, <1>a, <2>1
  <2> QED
    BY <2>3, <2>4
<1>8. ASSUME NEW C \in SUBSET Places, Origin \subseteq C, \A p \in C : Continuations(p) \subseteq C
      PROVE  F[k] \subseteq C
  <2>1. \A X \in SUBSET Places : X \subseteq C => PathStep[X] \subseteq C
    BY <1>8 DEF PathStep, PathMore
  <2> QED
    BY <1>1, <1>2, <1>8, <2>1, GrowthIsLeast
<1>9. \A p \in F[k] : Len(p.after) <= k
  BY <1>6
<1> QED
  BY <1>1, <1>4, <1>5, <1>7, <1>8, <1>9 DEF ArePaths
-----------------------------------------------------------------------------
(* Every rule of a nonterminal an item stands before begins in the state.  *)
IsClosed(g, I) ==
    \A i \in I : ~IsEnd(g, i) /\ NextSym(g, i) \in Nonterminals(g) =>
        \A r \in RulesOf(g, NextSym(g, i)) : [rule |-> r, pos |-> 0] \in I

(* closure() collects what a derivation from the seeds can begin with.     *)
LEMMA LeftCornersAre ==
    ASSUME NEW g, IsGrammar(g), NEW seeds
    PROVE  /\ seeds \intersect Nonterminals(g) \subseteq LeftCorners(g, seeds)
           /\ \A r \in RuleIds(g) :
                 /\ g.rules[r].nonterm \in LeftCorners(g, seeds)
                 /\ RuleLength(g, r) > 0
                 /\ g.rules[r].syms[1] \in Nonterminals(g)
                 => g.rules[r].syms[1] \in LeftCorners(g, seeds)
<1>1. seeds \intersect Nonterminals(g) \subseteq LeftCorners(g, seeds)
  BY DEF LeftCorners
<1>2. ASSUME NEW r \in RuleIds(g), g.rules[r].nonterm \in LeftCorners(g, seeds),
             RuleLength(g, r) > 0, g.rules[r].syms[1] \in Nonterminals(g)
      PROVE  g.rules[r].syms[1] \in LeftCorners(g, seeds)
  <2>1. ASSUME NEW S \in SUBSET Nonterminals(g),
               seeds \intersect Nonterminals(g) \subseteq S, LeftCornerClosed(g, S)
        PROVE  g.rules[r].syms[1] \in S
    <3>1. g.rules[r].nonterm \in S
      BY <1>2, <2>1 DEF LeftCorners
    <3>2. g.rules[r].syms[1] \in S \union Terminals(g)
      BY <1>2, <2>1, <3>1 DEF LeftCornerClosed
    <3> QED
      BY <1>2, <3>2, SymbolKinds
  <2> QED
    BY <1>2, <2>1 DEF LeftCorners
<1> QED
  BY <1>1, <1>2

(* A state whose closure() starts from all its next symbols is closed.     *)
LEMMA ClosureCloses ==
    ASSUME NEW g, IsGrammar(g), NEW seeds, NEW K,
           \A i \in K : ~IsEnd(g, i) => NextSym(g, i) \in seeds
    PROVE  IsClosed(g, K \union Closure(g, seeds))
<1> SUFFICES ASSUME NEW i \in K \union Closure(g, seeds), ~IsEnd(g, i),
                    NextSym(g, i) \in Nonterminals(g), NEW r \in RulesOf(g, NextSym(g, i))
             PROVE  [rule |-> r, pos |-> 0] \in Closure(g, seeds)
  BY DEF IsClosed
<1>1. NextSym(g, i) \in LeftCorners(g, seeds)
  <2>1. CASE i \in K
    BY <2>1, LeftCornersAre
  <2>2. CASE i \in Closure(g, seeds)
    <3>1. PICK q \in RuleIds(g) : /\ g.rules[q].nonterm \in LeftCorners(g, seeds)
                                  /\ i = [rule |-> q, pos |-> 0]
      BY <2>2 DEF Closure
    <3>2. i.rule = q /\ i.pos = 0 /\ 0 + 1 = 1
      BY <3>1
    <3>3. RuleLength(g, q) > 0 /\ NextSym(g, i) = g.rules[q].syms[1]
      BY <3>2, RuleLengthType DEF IsEnd, NextSym
    <3> QED
      BY <3>1, <3>3, LeftCornersAre
  <2> QED
    BY <2>1, <2>2
<1>2. r \in RuleIds(g) /\ g.rules[r].nonterm = NextSym(g, i)
  BY DEF RulesOf
<1> QED
  BY <1>1, <1>2 DEF Closure

(* So are the states shifts lead to.                                       *)
LEMMA ShiftIsClosed ==
    ASSUME NEW g, IsGrammar(g), NEW from, NEW x
    PROVE  IsClosed(g, Shift(g, from, x))
<1> DEFINE K == Kernel(g, from, x)
           seeds == {NextSym(g, i) : i \in {j \in K : ~IsEnd(g, j)}}
<1>1. Shift(g, from, x) = K \union Closure(g, seeds)
  BY DEF Shift
<1>2. \A i \in K : ~IsEnd(g, i) => NextSym(g, i) \in seeds
  OBVIOUS
<1> HIDE DEF K, seeds
<1> QED
  BY <1>1, <1>2, ClosureCloses

(* So is the start state.                                                  *)
LEMMA StartIsClosed ==
    ASSUME NEW g, IsGrammar(g)
    PROVE  IsClosed(g, StartItems(g))
<1> DEFINE s == [rule |-> StartRule(g), pos |-> 0]
           K == {s}
           seeds == {g.rules[StartRule(g)].syms[1]}
<1>1. StartItems(g) = K \union Closure(g, seeds)
  BY DEF StartItems
<1>2. \A i \in K : NextSym(g, i) \in seeds
  <2>1. s.rule = StartRule(g) /\ s.pos + 1 = 1
    OBVIOUS
  <2> HIDE DEF s
  <2> QED
    BY <2>1 DEF NextSym
<1> HIDE DEF K, seeds
<1> QED
  BY <1>1, <1>2, ClosureCloses
-----------------------------------------------------------------------------
(* An item is valid after a word: its rule is expected somewhere, and what *)
(* it has behind it leads from there to the word.                          *)
Valid(g, E, w, i) ==
    \E e \in E : /\ e.nonterm = g.rules[i.rule].nonterm
                 /\ w = e.after \o SubSeq(RightSide(g, i.rule), 1, i.pos)

(* The nonterminal a valid item stands before is expected.                 *)
LEMMA NextIsExpected ==
    ASSUME NEW g, IsGrammar(g), NEW k \in Nat, NEW E, IsExpected(g, k, E),
           NEW w \in Words(g, k), NEW i \in Items(g), Valid(g, E, w, i),
           ~IsEnd(g, i), NextSym(g, i) \in Nonterminals(g)
    PROVE  Begin(NextSym(g, i), w) \in E
<1>1. PICK e \in E : /\ e.nonterm = g.rules[i.rule].nonterm
                     /\ w = e.after \o SubSeq(RightSide(g, i.rule), 1, i.pos)
  BY DEF Valid
<1> DEFINE r == i.rule
           p == i.pos
           s == RightSide(g, r)
<1>2. r \in RulesOf(g, e.nonterm) /\ r \in RuleIds(g) /\ p \in Nat
  BY <1>1 DEF Items, RulesOf
<1>3. RuleLength(g, r) \in Nat /\ p < RuleLength(g, r) /\ DOMAIN s = 1 .. RuleLength(g, r)
  BY <1>2, RightSideIs DEF IsEnd
<1>4. p \in 0 .. RuleLength(g, r) /\ p + 1 \in DOMAIN s /\ (p + 1) - 1 = p
  BY <1>2, <1>3
<1>5. e.after \in Seq(Symbols(g)) /\ Len(e.after) \in Nat
  <2>1. e \in Begins(g, k)
    BY DEF IsExpected
  <2> QED
    BY <2>1, LenProperties DEF Begins, Words
<1>6. SubSeq(s, 1, p) \in Seq(Symbols(g)) /\ Len(SubSeq(s, 1, p)) = p
  BY <1>2, <1>4, RightSidePrefix
<1>7. Len(w) = Len(e.after) + p /\ Len(w) <= k
  <2> HIDE DEF r, p, s
  <2>1. w = e.after \o SubSeq(s, 1, p)
    BY <1>1 DEF r, p, s
  <2> QED
    BY <1>5, <1>6, <2>1, ConcatProperties DEF Words
<1>8. s[p + 1] = NextSym(g, i)
  BY DEF NextSym, RightSide
<1>9. Begin(s[p + 1], e.after \o SubSeq(s, 1, (p + 1) - 1)) \in ExpectedIn(g, k, r, e)
  <2>1. Len(e.after) + (p + 1) - 1 <= k
    BY <1>2, <1>5, <1>7
  <2>2. s[p + 1] \in Nonterminals(g)
    BY <1>8
  <2>3. s = g.rules[r].syms
    BY DEF RightSide
  <2> HIDE DEF r, p, s
  <2> QED
    BY <1>4, <2>1, <2>2, <2>3 DEF ExpectedIn
<1>10. e.after \o SubSeq(s, 1, (p + 1) - 1) = w
  BY <1>1, <1>4
<1> QED
  BY <1>2, <1>8, <1>9, <1>10 DEF IsExpected
-----------------------------------------------------------------------------
(* A rule of an expected nonterminal is valid before its first symbol.     *)
LEMMA BeginningIsValid ==
    ASSUME NEW g, IsGrammar(g), NEW k \in Nat, NEW E, IsExpected(g, k, E),
           NEW w \in Words(g, k), NEW r \in RuleIds(g), Begin(g.rules[r].nonterm, w) \in E
    PROVE  Valid(g, E, w, [rule |-> r, pos |-> 0])
<1>1. SubSeq(RightSide(g, r), 1, 0) = <<>>
  BY SubSeqEmpty
<1>2. w \o <<>> = w
  BY ConcatEmptySeq DEF Words
<1> DEFINE e == Begin(g.rules[r].nonterm, w)
<1>3. e.nonterm = g.rules[r].nonterm /\ e.after = w
  BY DEF Begin
<1> HIDE DEF e
<1> QED
  BY <1>1, <1>2, <1>3 DEF Valid, e

(* closure() adds only valid items.                                        *)
LEMMA ClosureIsValid ==
    ASSUME NEW g, IsGrammar(g), NEW k \in Nat, NEW E, IsExpected(g, k, E),
           NEW w \in Words(g, k), NEW seeds,
           \A A \in seeds : A \in Nonterminals(g) => Begin(A, w) \in E,
           NEW i \in Closure(g, seeds)
    PROVE  Valid(g, E, w, i)
<1> DEFINE S == {A \in Nonterminals(g) : Begin(A, w) \in E}
<1>1. LeftCornerClosed(g, S)
  <2> SUFFICES ASSUME NEW r \in RuleIds(g), g.rules[r].nonterm \in S, RuleLength(g, r) > 0,
                      g.rules[r].syms[1] \notin Terminals(g)
               PROVE  g.rules[r].syms[1] \in S
    BY DEF LeftCornerClosed
  <2> DEFINE j == [rule |-> r, pos |-> 0]
  <2>1. Valid(g, E, w, j)
    BY BeginningIsValid
  <2>2. j \in Items(g) /\ ~IsEnd(g, j) /\ NextSym(g, j) = g.rules[r].syms[1]
    <3>1. j.rule = r /\ j.pos = 0 /\ j.pos + 1 = 1 /\ j \in Items(g)
      BY DEF Items
    <3> HIDE DEF j
    <3> QED
      BY <3>1, RuleLengthType DEF IsEnd, NextSym
  <2>3. g.rules[r].syms[1] \in Nonterminals(g)
    <3>1. g.rules[r].syms[1] \in Symbols(g)
      BY RightSideSymbols, RuleLengthType
    <3> QED
      BY <3>1, SymbolKinds
  <2> HIDE DEF j
  <2> QED
    BY <2>1, <2>2, <2>3, NextIsExpected
<1>2. S \in SUBSET Nonterminals(g) /\ seeds \intersect Nonterminals(g) \subseteq S
  OBVIOUS
<1>3. LeftCorners(g, seeds) \subseteq S
  <2> HIDE DEF S
  <2> QED
    BY <1>1, <1>2 DEF LeftCorners
<1>4. PICK r \in RuleIds(g) : /\ g.rules[r].nonterm \in LeftCorners(g, seeds)
                              /\ i = [rule |-> r, pos |-> 0]
  BY DEF Closure
<1>5. Begin(g.rules[r].nonterm, w) \in E
  BY <1>3, <1>4
<1> QED
  BY <1>4, <1>5, BeginningIsValid

(* The start state holds items that are valid at the beginning.            *)
LEMMA StartIsValid ==
    ASSUME NEW g, IsGrammar(g), NEW k \in Nat, NEW E, IsExpected(g, k, E),
           NEW i \in StartItems(g)
    PROVE  Valid(g, E, <<>>, i)
<1> DEFINE s == [rule |-> StartRule(g), pos |-> 0]
           A == g.rules[StartRule(g)].syms[1]
<1>1. StartItems(g) = {s} \union Closure(g, {A})
  BY DEF StartItems
<1>2. StartRule(g) \in RuleIds(g) /\ g.rules[StartRule(g)].nonterm = StartSymbol(g)
  BY DEF StartRule, RuleIds, IsGrammar
<1>3. <<>> \in Words(g, k)
  BY EmptySeq DEF Words
<1>4. Valid(g, E, <<>>, s)
  <2>1. Begin(StartSymbol(g), <<>>) \in E
    BY DEF IsExpected, First
  <2> QED
    BY <1>2, <1>3, <2>1, BeginningIsValid
<1>5. Begin(A, <<>>) \in E \/ A \notin Nonterminals(g)
  <2>1. s \in Items(g) /\ s.rule = StartRule(g) /\ s.pos = 0 /\ s.pos + 1 = 1
    BY <1>2 DEF Items
  <2>2. RuleLength(g, StartRule(g)) = 2
    BY DEF RuleLength, IsGrammar
  <2> HIDE DEF s
  <2>3. ~IsEnd(g, s) /\ NextSym(g, s) = A
    BY <2>1, <2>2 DEF IsEnd, NextSym
  <2> HIDE DEF A
  <2> QED
    BY <1>3, <1>4, <2>1, <2>3, NextIsExpected
<1> HIDE DEF s, A
<1>6. CASE i = s
  BY <1>4, <1>6
<1>7. CASE i \in Closure(g, {A})
  <2>1. \A B \in {A} : B \in Nonterminals(g) => Begin(B, <<>>) \in E
    BY <1>5
  <2> QED
    BY <1>3, <1>7, <2>1, ClosureIsValid
<1> QED
  BY <1>1, <1>6, <1>7

(* A shift over a symbol holds items valid after the word and the symbol.  *)
LEMMA ShiftIsValid ==
    ASSUME NEW g, IsGrammar(g), NEW k \in Nat, NEW E, IsExpected(g, k, E),
           NEW from \in SUBSET Items(g), NEW w \in Words(g, k), NEW x \in Symbols(g),
           \A i \in from : Valid(g, E, w, i),
           Append(w, x) \in Words(g, k),
           NEW i \in Shift(g, from, x)
    PROVE  Valid(g, E, Append(w, x), i)
<1> DEFINE K == Kernel(g, from, x)
           seeds == {NextSym(g, j) : j \in {l \in K : ~IsEnd(g, l)}}
<1>1. Shift(g, from, x) = K \union Closure(g, seeds)
  BY DEF Shift
<1>2. ASSUME NEW j \in K PROVE j \in Items(g) /\ Valid(g, E, Append(w, x), j)
  <2>1. PICK l \in from : /\ ~IsEnd(g, l) /\ NextSym(g, l) = x
                          /\ j = [rule |-> l.rule, pos |-> l.pos + 1]
    BY DEF Kernel
  <2>2. l.rule \in RuleIds(g) /\ l.pos \in Nat /\ j.rule = l.rule /\ j.pos = l.pos + 1
    BY <2>1 DEF Items
  <2>3. j \in Items(g)
    BY <2>1, <2>2 DEF Items
  <2>4. PICK e \in E : /\ e.nonterm = g.rules[l.rule].nonterm
                       /\ w = e.after \o SubSeq(RightSide(g, l.rule), 1, l.pos)
    BY DEF Valid
  <2> DEFINE s == RightSide(g, l.rule)
             p == l.pos
             m == l.pos + 1
  <2>5. /\ s \in Seq(Symbols(g)) /\ Len(s) = RuleLength(g, l.rule) /\ RuleLength(g, l.rule) \in Nat
        /\ p < RuleLength(g, l.rule) /\ s[m] = x
    BY <2>1, <2>2, RightSideIs DEF IsEnd, NextSym, RightSide
  <2>6. m \in 1 .. Len(s) /\ 1 \in 1 .. Len(s) /\ m \in 1 .. m /\ m - 1 = p /\ p \in 0 .. RuleLength(g, l.rule)
    BY <2>2, <2>5
  <2>7. SubSeq(s, 1, p) \in Seq(Symbols(g))
    BY <2>2, <2>6, RightSidePrefix
  <2>8. e.after \in Seq(Symbols(g))
    BY DEF IsExpected, Begins, Words
  <2>9. SubSeq(s, 1, m) = SubSeq(s, 1, p) \o <<x>>
    <3>1. m \in 1 .. Len(s) /\ 1 \in 1 .. Len(s) /\ s \in Seq(Symbols(g)) /\ m - 1 = p /\ s[m] = x
      BY <2>5, <2>6
    <3> HIDE DEF s, m, p
    <3>2. SubSeq(s, 1, m) = SubSeq(s, 1, m - 1) \o <<s[m]>>
      BY <3>1, SubSeqRecursiveSecond
    <3> QED
      BY <3>1, <3>2
  <2>10. Append(w, x) = w \o <<x>>
    BY AppendIsConcat DEF Words
  <2>11. <<x>> \in Seq(Symbols(g))
    OBVIOUS
  <2>12. w = e.after \o SubSeq(s, 1, p)
    BY <2>4
  <2>13. Append(w, x) = e.after \o SubSeq(s, 1, m)
    <3> HIDE DEF s, m, p
    <3>1. (e.after \o SubSeq(s, 1, p)) \o <<x>> = e.after \o (SubSeq(s, 1, p) \o <<x>>)
      <4>1. \A a, b, c \in Seq(Symbols(g)) : (a \o b) \o c = a \o (b \o c)
        BY ConcatAssociative
      <4> QED
        BY <2>7, <2>8, <2>11, <4>1
    <3> QED
      BY <2>9, <2>10, <2>12, <3>1
  <2>14. Append(w, x) = e.after \o SubSeq(RightSide(g, j.rule), 1, j.pos)
    BY <2>2, <2>13
  <2> QED
    BY <2>2, <2>3, <2>4, <2>14 DEF Valid
<1>3. \A A \in seeds : A \in Nonterminals(g) => Begin(A, Append(w, x)) \in E
  <2> SUFFICES ASSUME NEW j \in K, ~IsEnd(g, j), NextSym(g, j) \in Nonterminals(g)
               PROVE  Begin(NextSym(g, j), Append(w, x)) \in E
    OBVIOUS
  <2> HIDE DEF K
  <2> QED
    BY <1>2, NextIsExpected
<1> HIDE DEF K, seeds
<1>4. CASE i \in K
  BY <1>2, <1>4
<1>5. CASE i \in Closure(g, seeds)
  BY <1>3, <1>5, ClosureIsValid
<1> QED
  BY <1>1, <1>4, <1>5
-----------------------------------------------------------------------------
(* The start state stays what it was.                                      *)
StartKept == items[1] = StartItems(grammar)

(* States are only added.                                                  *)
LEMMA StartKeptInductive == IInv /\ StartKept /\ [Next]_vars => StartKept'
<1> SUFFICES ASSUME IInv, StartKept, [Next]_vars PROVE StartKept'
  OBVIOUS
<1>1. 1 \in DOMAIN items
  BY TableFacts DEF IInv
<1>2. CASE ShiftToNewState
  <2>1. items'[1] = items[1] /\ grammar' = grammar
    BY <1>1, <1>2, NewStateStep DEF ShiftToNewState
  <2> QED
    BY <2>1 DEF StartKept
<1>3. CASE ~ShiftToNewState
  <2>1. items' = items /\ grammar' = grammar
    BY <1>3 DEF Next, NoShift, ShiftToKnownState, ReduceMoves, vars, tableVars
  <2> QED
    BY <2>1 DEF StartKept
<1> QED
  BY <1>2, <1>3

(* Wherever a path arrives, the state is closed.                           *)
LEMMA PathStatesAreClosed ==
    ASSUME IInv, StartKept, NEW k \in Nat, NEW p \in Paths(k)
    PROVE  p \in Places /\ IsClosed(grammar, items[p.to])
<1> DEFINE C == {q \in Places : IsClosed(grammar, items[q.to])}
<1>1. TypeOK /\ IsGrammar(grammar) /\ DOMAIN items = 1 .. Len(items)
  BY GrammarFacts, TableFacts DEF IInv
<1>2. ArePaths(k, Paths(k)) /\ Grows(Places, Origin, PathStep)
  BY <1>1, PathsAre, PathsGrow
<1>3. Origin \subseteq C
  <2>1. \A q \in Origin : q.to = 1
    BY DEF Origin
  <2>2. IsClosed(grammar, items[1])
    BY <1>1, StartIsClosed DEF StartKept
  <2> QED
    BY <1>2, <2>1, <2>2 DEF Grows
<1>4. ASSUME NEW q \in C, NEW t \in Continuations(q) PROVE t \in C
  <2>1. t \in Places /\ q \in Places
    BY <1>1, ContinuationIs
  <2>2. PICK x \in Symbols(grammar) : t = Extend(q, x)
    BY DEF Continuations
  <2>3. t.to = goto[q.to][x] /\ t.to \in DOMAIN items /\ q.to \in DOMAIN items
    BY <1>1, <2>1, <2>2 DEF Extend, Places
  <2>4. items[t.to] = Shift(grammar, items[q.to], x)
    BY <2>3 DEF IInv, EdgesAreShifts
  <2> QED
    BY <1>1, <2>1, <2>4, ShiftIsClosed
<1>5. Paths(k) \subseteq C
  <2>1. C \in SUBSET Places /\ \A q \in C : Continuations(q) \subseteq C
    BY <1>4
  <2> HIDE DEF C
  <2> QED
    BY <1>2, <1>3, <2>1 DEF ArePaths
<1> QED
  BY <1>5

(* What a state holds is valid after every path to it.                     *)
LEMMA PathItemsAreValid ==
    ASSUME IInv, StartKept, NEW k \in Nat, NEW p \in Paths(k), NEW i \in items[p.to]
    PROVE  Valid(grammar, Expected(grammar, k), p.after, i)
<1> DEFINE E == Expected(grammar, k)
           C == {q \in Places : Len(q.after) <= k => \A j \in items[q.to] : Valid(grammar, E, q.after, j)}
<1>1. TypeOK /\ IsGrammar(grammar) /\ DOMAIN items = 1 .. Len(items)
  BY GrammarFacts, TableFacts DEF IInv
<1>2. ArePaths(k, Paths(k)) /\ Grows(Places, Origin, PathStep) /\ IsExpected(grammar, k, E)
  BY <1>1, PathsAre, PathsGrow, ExpectedIs
<1> HIDE DEF E
<1>3. Origin \subseteq C
  <2>1. \A q \in Origin : q.to = 1 /\ q.after = <<>>
    BY DEF Origin
  <2>2. \A j \in items[1] : Valid(grammar, E, <<>>, j)
    BY <1>1, <1>2, StartIsValid DEF StartKept
  <2> QED
    BY <1>2, <2>1, <2>2 DEF Grows
<1>4. ASSUME NEW q \in C, NEW t \in Continuations(q) PROVE t \in C
  <2>1. t \in Places /\ q \in Places /\ Len(t.after) = Len(q.after) + 1
    BY <1>1, ContinuationIs
  <2>2. PICK x \in Symbols(grammar) : t = Extend(q, x)
    BY DEF Continuations
  <2>3. t.to = goto[q.to][x] /\ t.to \in DOMAIN items /\ q.to \in DOMAIN items /\ t.after = Append(q.after, x)
    BY <1>1, <2>1, <2>2 DEF Extend, Places
  <2>4. items[t.to] = Shift(grammar, items[q.to], x) /\ items[q.to] \in SUBSET Items(grammar)
    BY <1>1, <2>3, TableFacts DEF IInv, EdgesAreShifts
  <2> SUFFICES ASSUME Len(t.after) <= k, NEW j \in items[t.to] PROVE Valid(grammar, E, t.after, j)
    BY <2>1
  <2>5. q.after \in Seq(Symbols(grammar)) /\ Len(q.after) \in Nat /\ t.after \in Seq(Symbols(grammar))
    BY <2>1, LenProperties DEF Places
  <2>6. Len(q.after) <= k
    BY <2>1, <2>5
  <2>7. q.after \in Words(grammar, k) /\ Append(q.after, x) \in Words(grammar, k)
    BY <2>3, <2>5, <2>6 DEF Words
  <2>8. \A l \in items[q.to] : Valid(grammar, E, q.after, l)
    BY <2>6
  <2>9. j \in Shift(grammar, items[q.to], x)
    BY <2>4
  <2> HIDE DEF C
  <2> QED
    BY <1>1, <1>2, <2>3, <2>4, <2>7, <2>8, <2>9, ShiftIsValid
<1>5. Paths(k) \subseteq C
  <2>1. C \in SUBSET Places /\ \A q \in C : Continuations(q) \subseteq C
    BY <1>4
  <2> HIDE DEF C
  <2> QED
    BY <1>2, <1>3, <2>1 DEF ArePaths
<1>6. Len(p.after) <= k /\ p \in C
  BY <1>2, <1>5 DEF ArePaths
<1> QED
  BY <1>6 DEF E

(* From a state where a rule begins the automaton reads the rule.          *)
LEMMA RuleIsRead ==
    ASSUME IInv, Complete, Constructed, NEW k \in Nat, NEW p \in Paths(k),
           NEW r \in RuleIds(grammar), [rule |-> r, pos |-> 0] \in items[p.to],
           NEW n \in 0 .. RuleLength(grammar, r), Len(p.after) + n <= k
    PROVE  \E q \in Paths(k) : /\ q.after = p.after \o SubSeq(RightSide(grammar, r), 1, n)
                               /\ [rule |-> r, pos |-> n] \in items[q.to]
<1> DEFINE P == Paths(k)
           s == RightSide(grammar, r)
           Read(q, m) == q.after = p.after \o SubSeq(s, 1, m) /\ [rule |-> r, pos |-> m] \in items[q.to]
           T == {m \in 0 .. n : \E q \in P : Read(q, m)}
<1>1. TypeOK /\ IsGrammar(grammar) /\ DOMAIN items = 1 .. Len(items) /\ Len(items) \in Nat
  BY GrammarFacts, TableFacts DEF IInv
<1>2. ArePaths(k, P) /\ p \in Places
  BY <1>1, PathsAre DEF ArePaths
<1>3. p.after \in Seq(Symbols(grammar)) /\ Len(p.after) \in Nat
  BY <1>2, LenProperties DEF Places
<1>4. /\ s \in Seq(Symbols(grammar)) /\ RuleLength(grammar, r) \in Nat /\ Len(s) = RuleLength(grammar, r)
      /\ n \in Nat /\ n <= RuleLength(grammar, r)
  BY <1>1, RightSideIs
<1>5. 0 \in T
  <2>1. SubSeq(s, 1, 0) = <<>> /\ p.after \o <<>> = p.after
    BY <1>3, SubSeqEmpty, ConcatEmptySeq
  <2>2. Read(p, 0)
    BY <2>1
  <2> HIDE DEF Read
  <2> QED
    BY <1>4, <2>2
<1>6. ASSUME NEW m \in 0 .. n, NEW l \in 0 .. n, m \in T, l = m + 1 PROVE l \in T
  <2>1. PICK q \in P : Read(q, m)
    BY <1>6
  <2> DEFINE i == [rule |-> r, pos |-> m]
             x == s[l]
             I == items[q.to]
  <2>2. l \in 1 .. RuleLength(grammar, r) /\ m < RuleLength(grammar, r) /\ m \in 0 .. RuleLength(grammar, r)
    BY <1>4, <1>6
  <2>3. x \in Symbols(grammar)
    BY <1>1, <2>2, RightSideSymbols DEF RightSide
  <2>4. i \in I /\ ~IsEnd(grammar, i) /\ NextSym(grammar, i) = x
    <3>1. i.rule = r /\ i.pos = m /\ i.pos + 1 = l /\ i \in I /\ ~(m >= RuleLength(grammar, r))
      BY <1>4, <1>6, <2>1, <2>2
    <3> HIDE DEF i, I
    <3> QED
      BY <3>1 DEF IsEnd, NextSym, RightSide
  <2>5. [rule |-> r, pos |-> l] \in Shift(grammar, I, x)
    <3>1. [rule |-> i.rule, pos |-> i.pos + 1] \in Kernel(grammar, I, x)
      <4> HIDE DEF I, x, i
      <4> QED
        BY <2>4 DEF Kernel
    <3>2. i.rule = r /\ i.pos + 1 = l
      BY <1>6
    <3> HIDE DEF I, x, i
    <3> QED
      BY <3>1, <3>2 DEF Shift
  <2>6. q \in Places /\ q.to \in DOMAIN items
    BY <1>1, <1>2 DEF ArePaths, Places
  <2>7. goto[q.to][x] # 0
    <3>1. q.to < state
      BY <1>1, <2>6 DEF Constructed, IInv, TypeOK
    <3> HIDE DEF x
    <3> QED
      BY <2>3, <2>5, <2>6, <3>1 DEF Complete, EdgesBehindAreSet, I
  <2> DEFINE t == Extend(q, x)
  <2>8. t \in Continuations(q) /\ t.after = Append(q.after, x) /\ t.to = goto[q.to][x]
    <3> HIDE DEF x
    <3> QED
      BY <2>3, <2>7 DEF Continuations, Extend
  <2> HIDE DEF t, x
  <2>9. t \in Places /\ t.to \in DOMAIN items
    BY <1>1, <2>6, <2>8, ContinuationIs DEF Places
  <2>10. items[t.to] = Shift(grammar, I, x)
    BY <2>3, <2>6, <2>8, <2>9 DEF IInv, EdgesAreShifts, I
  <2>11. SubSeq(s, 1, m) \in Seq(Symbols(grammar)) /\ Len(SubSeq(s, 1, m)) = m
    BY <1>1, <2>2, RightSidePrefix
  <2>12. Len(q.after) = Len(p.after) + m
    <3>1. q.after = p.after \o SubSeq(s, 1, m)
      BY <2>1
    <3> HIDE DEF s, Read
    <3> QED
      BY <1>3, <2>11, <3>1, ConcatProperties
  <2>13. Len(q.after) < k
    BY <1>3, <1>6, <2>12
  <2>14. t \in P
    BY <1>2, <2>8, <2>13 DEF ArePaths
  <2>15. t.after = p.after \o SubSeq(s, 1, l)
    <3>1. q.after = p.after \o SubSeq(s, 1, m) /\ q.after \in Seq(Symbols(grammar))
      BY <2>1, <2>6 DEF Places
    <3>2. l \in 1 .. Len(s) /\ 1 \in 1 .. Len(s) /\ l - 1 = m /\ s[l] = x /\ l \in 1 .. l
      BY <1>4, <1>6, <2>2 DEF x
    <3> HIDE DEF s, Read
    <3>3. SubSeq(s, 1, l) = SubSeq(s, 1, m) \o <<x>>
      <4>1. SubSeq(s, 1, l) = SubSeq(s, 1, l - 1) \o <<s[l]>>
        BY <1>4, <3>2, SubSeqRecursiveSecond
      <4> QED
        BY <3>2, <4>1
    <3>4. Append(q.after, x) = q.after \o <<x>>
      BY <2>3, <3>1, AppendIsConcat
    <3>5. \A a, b, c \in Seq(Symbols(grammar)) : (a \o b) \o c = a \o (b \o c)
      BY ONLY ConcatAssociative
    <3>6. <<x>> \in Seq(Symbols(grammar))
      BY <2>3
    <3> DEFINE v == SubSeq(s, 1, m)
               w == p.after
    <3>7. v \in Seq(Symbols(grammar)) /\ w \in Seq(Symbols(grammar)) /\ q.after = w \o v
      BY <1>3, <2>11, <3>1
    <3>8. SubSeq(s, 1, l) = v \o <<x>>
      BY <3>3
    <3> HIDE DEF v, w
    <3>9. (w \o v) \o <<x>> = w \o (v \o <<x>>)
      BY <3>5, <3>6, <3>7
    <3>10. t.after = w \o SubSeq(s, 1, l)
      BY <2>8, <3>4, <3>7, <3>8, <3>9
    <3> QED
      BY <3>10 DEF w
  <2>16. Read(t, l)
    BY <2>5, <2>10, <2>15
  <2> HIDE DEF Read
  <2> QED
    BY <2>14, <2>16
<1>7. n \in T
  <2>1. n \in Nat
    BY <1>4
  <2> HIDE DEF T
  <2>2. 0 .. n \subseteq T
    BY ONLY <1>5, <1>6, <2>1, UpTo
  <2> QED
    BY <2>1, <2>2
<1> QED
  BY <1>7
-----------------------------------------------------------------------------
(* Whatever is expected after a word, a path reads the word and ends where *)
(* its rules begin.                                                        *)
IsReached(k, e) ==
    \E p \in Paths(k) : /\ p.after = e.after
                        /\ \A r \in RulesOf(grammar, e.nonterm) : [rule |-> r, pos |-> 0] \in items[p.to]

(* The least set with what is expected is inside what is reached.          *)
LEMMA ExpectedIsReached ==
    ASSUME IInv, Complete, StartKept, Constructed, NEW k \in Nat, NEW e \in Expected(grammar, k)
    PROVE  IsReached(k, e)
<1> DEFINE g == grammar
           B == Begins(g, k)
           C == {b \in B : IsReached(k, b)}
<1>1. TypeOK /\ IsGrammar(g) /\ DOMAIN items = 1 .. Len(items)
  BY GrammarFacts, TableFacts DEF IInv
<1>2. ArePaths(k, Paths(k)) /\ IsExpected(g, k, Expected(g, k))
  BY <1>1, PathsAre, ExpectedIs
<1>3. First(g) \subseteq C
  <2> DEFINE b == Begin(StartSymbol(g), <<>>)
             p == [after |-> <<>>, to |-> 1]
  <2>1. b \in B
    BY <1>2 DEF IsExpected, First
  <2>2. p \in Paths(k) /\ p.after = b.after /\ p.to = 1
    BY <1>2 DEF ArePaths, Origin, Begin
  <2>3. \A r \in RulesOf(g, b.nonterm) : [rule |-> r, pos |-> 0] \in items[1]
    BY <1>1 DEF IsGrammar, Begin, StartKept, StartItems
  <2> HIDE DEF b, p
  <2>4. IsReached(k, b)
    BY <2>2, <2>3 DEF IsReached
  <2> QED
    BY <2>1, <2>4 DEF First, b
<1>4. ASSUME NEW b \in C, NEW r \in RulesOf(g, b.nonterm), NEW x \in ExpectedIn(g, k, r, b) PROVE x \in C
  <2> DEFINE s == RightSide(g, r)
  <2>1. r \in RuleIds(g) /\ b \in B
    BY DEF RulesOf
  <2>2. x \in B
    BY <1>1, <2>1, ExpectedInIs
  <2>3. PICK j \in {l \in DOMAIN s : s[l] \in Nonterminals(g) /\ Len(b.after) + l - 1 <= k} :
           x = Begin(s[j], b.after \o SubSeq(s, 1, j - 1))
    BY DEF ExpectedIn, RightSide
  <2>4. PICK p \in Paths(k) : /\ p.after = b.after
                              /\ \A q \in RulesOf(g, b.nonterm) : [rule |-> q, pos |-> 0] \in items[p.to]
    BY DEF IsReached
  <2> DEFINE n == j - 1
  <2>5. /\ j \in 1 .. RuleLength(g, r) /\ RuleLength(g, r) \in Nat /\ n \in 0 .. RuleLength(g, r)
        /\ n < RuleLength(g, r) /\ n + 1 = j /\ s[j] \in Nonterminals(g)
    BY <1>1, <2>1, <2>3, RightSideIs
  <2>6. Len(p.after) \in Nat /\ Len(p.after) + n <= k
    <3>1. Len(p.after) \in Nat
      BY <1>2, LenProperties DEF ArePaths, Places
    <3> QED
      BY <2>3, <2>4, <2>5, <3>1
  <2> HIDE DEF n
  <2>7. PICK q \in Paths(k) : /\ q.after = p.after \o SubSeq(s, 1, n)
                              /\ [rule |-> r, pos |-> n] \in items[q.to]
    BY <2>1, <2>4, <2>5, <2>6, RuleIsRead
  <2> DEFINE i == [rule |-> r, pos |-> n]
  <2>8. ~IsEnd(g, i) /\ NextSym(g, i) = s[j] /\ i \in items[q.to]
    <3>1. i.rule = r /\ i.pos = n /\ i.pos + 1 = j /\ i \in items[q.to] /\ ~(n >= RuleLength(g, r))
      BY <2>5, <2>7
    <3> HIDE DEF i
    <3> QED
      BY <3>1 DEF IsEnd, NextSym, RightSide
  <2>9. IsClosed(g, items[q.to])
    BY PathStatesAreClosed
  <2>10. x.nonterm = s[j] /\ x.after = q.after
    BY <2>3, <2>4, <2>7 DEF Begin, n
  <2>11. \A l \in RulesOf(g, x.nonterm) : [rule |-> l, pos |-> 0] \in items[q.to]
    <3> HIDE DEF i, s, g
    <3> QED
      BY <2>5, <2>8, <2>9, <2>10 DEF IsClosed
  <2>12. IsReached(k, x)
    BY <2>7, <2>10, <2>11 DEF IsReached
  <2> QED
    BY <2>2, <2>12
<1>5. Expected(g, k) \subseteq C
  <2>1. C \in SUBSET B /\ \A b \in C : \A r \in RulesOf(g, b.nonterm) : ExpectedIn(g, k, r, b) \subseteq C
    BY <1>4
  <2> HIDE DEF C, g
  <2> QED
    BY <1>2, <1>3, <2>1 DEF IsExpected
<1> QED
  BY <1>5

(* The items of the states paths end in, with the words the paths read.    *)
Held(k) == UNION {{[after |-> p.after, item |-> i] : i \in items[p.to]} : p \in Paths(k)}

(* Every item that is valid after a word is in the state the word leads to.*)
LEMMA ValidItemsAreHeld ==
    ASSUME IInv, Complete, StartKept, Constructed, NEW k \in Nat
    PROVE  ValidItems(grammar, k) \subseteq Held(k)
<1> SUFFICES ASSUME NEW v \in ValidItems(grammar, k) PROVE v \in Held(k)
  OBVIOUS
<1>1. TypeOK /\ IsGrammar(grammar)
  BY GrammarFacts DEF IInv
<1> DEFINE Of(d, q, m) == [after |-> d.after \o SubSeq(grammar.rules[q].syms, 1, m),
                           item |-> [rule |-> q, pos |-> m]]
           InRule(d, q) == {Of(d, q, m) : m \in 0 .. RuleLength(grammar, q)}
           InRules(d) == UNION {InRule(d, q) : q \in RulesOf(grammar, d.nonterm)}
<1>2. v \in UNION {InRules(d) : d \in Expected(grammar, k)}
  BY DEF ValidItems
<1> HIDE DEF InRules
<1>3. PICK e \in Expected(grammar, k) : v \in InRules(e)
  BY <1>2
<1>4. v \in UNION {InRule(e, q) : q \in RulesOf(grammar, e.nonterm)}
  BY <1>3 DEF InRules
<1> HIDE DEF InRule
<1>5. PICK r \in RulesOf(grammar, e.nonterm) : v \in InRule(e, r)
  BY <1>4
<1>6. PICK n \in 0 .. RuleLength(grammar, r) : v = Of(e, r, n)
  BY <1>5 DEF InRule
<1>7. v = [after |-> e.after \o SubSeq(grammar.rules[r].syms, 1, n),
           item |-> [rule |-> r, pos |-> n]]
  BY <1>6
<1> HIDE DEF Of
<1>8. Len(v.after) <= k
  BY DEF ValidItems
<1> DEFINE s == RightSide(grammar, r)
<1>9. r \in RuleIds(grammar) /\ v.after = e.after \o SubSeq(s, 1, n)
  BY <1>7 DEF RulesOf, RightSide
<1>10. PICK p \in Paths(k) : /\ p.after = e.after
                            /\ \A q \in RulesOf(grammar, e.nonterm) : [rule |-> q, pos |-> 0] \in items[p.to]
  BY ExpectedIsReached DEF IsReached
<1>11. p.after \in Seq(Symbols(grammar)) /\ Len(p.after) \in Nat
  BY PathStatesAreClosed, LenProperties DEF Places
<1>12. SubSeq(s, 1, n) \in Seq(Symbols(grammar)) /\ Len(SubSeq(s, 1, n)) = n
  BY <1>1, <1>9, RightSidePrefix
<1>13. Len(p.after) + n <= k
  <2> HIDE DEF s
  <2>1. Len(p.after \o SubSeq(s, 1, n)) = Len(p.after) + n
    BY <1>11, <1>12, ConcatProperties
  <2> QED
    BY <1>8, <1>9, <1>10, <2>1
<1>14. PICK q \in Paths(k) : /\ q.after = p.after \o SubSeq(s, 1, n)
                            /\ [rule |-> r, pos |-> n] \in items[q.to]
  BY <1>9, <1>10, <1>13, RuleIsRead
<1>15. v = [after |-> q.after, item |-> [rule |-> r, pos |-> n]]
  BY <1>7, <1>10, <1>14 DEF RightSide
<1> DEFINE i == [rule |-> r, pos |-> n]
<1>16. i \in items[q.to] /\ v = [after |-> q.after, item |-> i]
  BY <1>14, <1>15
<1> HIDE DEF i
<1>17. v \in {[after |-> q.after, item |-> j] : j \in items[q.to]}
  BY <1>16
<1> QED
  BY <1>17 DEF Held

(* What is in that state is valid after the word.                          *)
LEMMA HeldItemsAreValid ==
    ASSUME IInv, StartKept, NEW k \in Nat
    PROVE  Held(k) \subseteq ValidItems(grammar, k)
<1> SUFFICES ASSUME NEW p \in Paths(k), NEW i \in items[p.to]
             PROVE  [after |-> p.after, item |-> i] \in ValidItems(grammar, k)
  BY DEF Held
<1>1. TypeOK /\ IsGrammar(grammar) /\ DOMAIN items = 1 .. Len(items)
  BY GrammarFacts, TableFacts DEF IInv
<1>2. p \in Places /\ Len(p.after) <= k
  BY <1>1, PathsAre DEF ArePaths
<1>3. p.to \in DOMAIN items /\ i \in Items(grammar)
  BY <1>1, <1>2, TableFacts DEF Places
<1>4. PICK e \in Expected(grammar, k) :
         /\ e.nonterm = grammar.rules[i.rule].nonterm
         /\ p.after = e.after \o SubSeq(RightSide(grammar, i.rule), 1, i.pos)
  BY PathItemsAreValid DEF Valid
<1> DEFINE r == i.rule
           n == i.pos
<1>5. r \in RuleIds(grammar) /\ n \in Nat /\ i = [rule |-> r, pos |-> n]
  BY <1>3 DEF Items
<1>6. RuleLength(grammar, r) \in Nat /\ r \in RulesOf(grammar, e.nonterm)
  BY <1>1, <1>4, <1>5, RuleLengthType DEF RulesOf
<1>7. n \in 0 .. RuleLength(grammar, r)
  <2>1. CASE n > 0
    BY <1>3, <1>5, <1>6, <2>1 DEF IInv, AccessSymOfItems
  <2>2. CASE n = 0
    BY <1>6, <2>2
  <2> QED
    BY <1>5, <2>1, <2>2
<1> DEFINE Of(d, q, m) == [after |-> d.after \o SubSeq(grammar.rules[q].syms, 1, m),
                           item |-> [rule |-> q, pos |-> m]]
           InRule(d, q) == {Of(d, q, m) : m \in 0 .. RuleLength(grammar, q)}
           v == Of(e, r, n)
<1>8. v = [after |-> p.after, item |-> i] /\ v.after = p.after
  BY <1>4, <1>5 DEF RightSide
<1>9. v \in ValidItems(grammar, k)
  <2>1. Len(v.after) <= k
    BY <1>2, <1>8
  <2>2. v \in InRule(e, r)
    <3> HIDE DEF r, n, Of
    <3> QED
      BY <1>7
  <2>3. ValidItems(grammar, k) =
          {y \in UNION {UNION {InRule(d, q) : q \in RulesOf(grammar, d.nonterm)} :
                           d \in Expected(grammar, k)} : Len(y.after) <= k}
    BY DEF ValidItems
  <2> HIDE DEF r, n, v, Of, InRule
  <2>4. v \in UNION {InRule(e, q) : q \in RulesOf(grammar, e.nonterm)}
    BY <1>6, <2>2
  <2>5. v \in UNION {UNION {InRule(d, q) : q \in RulesOf(grammar, d.nonterm)} : d \in Expected(grammar, k)}
    BY <2>4
  <2> QED
    BY <2>1, <2>3, <2>5
<1> QED
  BY <1>8, <1>9

(* The finished automaton is the automaton of the viable prefixes.         *)
LEMMA ViablePrefixes == IInv /\ Complete /\ StartKept => StatesHoldValidItems
<1> SUFFICES ASSUME IInv, Complete, StartKept, Constructed
             PROVE  ValidItems(grammar, PrefixBound) = Held(PrefixBound)
  BY DEF StatesHoldValidItems, Held
<1> QED
  BY BoundAssumption, ValidItemsAreHeld, HeldItemsAreValid

(* constructPDA (lr.cc) ends with an automaton that reads exactly the      *)
(* words after which an item is valid, and the state it reaches holds      *)
(* exactly these items: for every grammar, up to every length.             *)
THEOREM AutomatonOfViablePrefixes == Spec => []StatesHoldValidItems
<1>1. Init => IInv /\ Complete /\ StartKept
  BY InitIInv, CompleteInit DEF Init, StartKept
<1>2. IInv /\ Complete /\ StartKept /\ [Next]_vars => (IInv /\ Complete /\ StartKept)'
  BY NextIInv, CompleteInductive, StartKeptInductive
<1> QED
  BY <1>1, <1>2, ViablePrefixes, PTL DEF Spec

(* It is that automaton the lookaheads are computed for (lalr.cc).         *)
THEOREM LookaheadsOfThatAutomaton == LalrSpec => []AutomatonIsValid
<1>1. LalrInit => IInv /\ Complete /\ StartKept
  BY InitIInv, CompleteInit DEF LalrInit, Init, StartKept
<1>2. [LalrNext]_allVars => [Next]_vars
  BY LalrKeepsTable
<1>3. IInv /\ Complete /\ StartKept /\ [Next]_vars => (IInv /\ Complete /\ StartKept)'
  BY NextIInv, CompleteInductive, StartKeptInductive
<1>4. IInv /\ Complete /\ StartKept => AutomatonIsValid
  BY ViablePrefixes DEF AutomatonIsValid
<1> QED
  BY <1>1, <1>2, <1>3, <1>4, PTL DEF LalrSpec
-----------------------------------------------------------------------------
(* BeginsWith of the reference: what grows, and what it grows to.          *)
BeginsAfter(g, nullable, S, Y) ==
    \E r \in RuleIds(g) : \E k \in 1 .. RuleLength(g, r) :
        /\ g.rules[r].nonterm \in S /\ g.rules[r].syms[k] = Y
        /\ \A l \in 1 .. k - 1 : g.rules[r].syms[l] \in nullable

BeginMore(g, nullable, S) == S \union {Y \in Symbols(g) : BeginsAfter(g, nullable, S, Y)}
BeginStep(g, nullable) == [S \in SUBSET Symbols(g) |-> BeginMore(g, nullable, S)]

BeginClosed(g, nullable, S) == \A Y \in Symbols(g) : BeginsAfter(g, nullable, S, Y) => Y \in S

(* It grows as the sets above do.                                          *)
LEMMA BeginsWithIsGrown ==
    ASSUME NEW g, IsGrammar(g), NEW nullable, NEW X \in Symbols(g)
    PROVE  \E F : /\ IsGrowth(F, g.numSymbols, Symbols(g), {X}, BeginStep(g, nullable))
                  /\ BeginsWith(g, X, nullable) = F[g.numSymbols] \intersect Terminals(g)
<1> DEFINE n == g.numSymbols
           Is(B) == B = [i \in 0 .. n |-> IF i = 0 THEN {X} ELSE BeginMore(g, nullable, B[i - 1])]
           C == CHOOSE B : Is(B)
<1>1. n \in Nat
  BY DEF IsGrammar
<1>2. BeginsWith(g, X, nullable) = C[n] \intersect Terminals(g)
  BY DEF BeginsWith, BeginMore, BeginsAfter
<1>3. Grows(Symbols(g), {X}, BeginStep(g, nullable))
  BY DEF Grows, BeginStep, BeginMore
<1>4. PICK F : IsGrowth(F, n, Symbols(g), {X}, BeginStep(g, nullable))
  <2> HIDE DEF n
  <2> QED
    BY <1>1, <1>3, GrowthExists
<1> HIDE DEF n
<1>5. /\ F \in [0 .. n -> SUBSET Symbols(g)] /\ F[0] = {X}
      /\ \A i, j \in 0 .. n : j = i + 1 => F[j] = BeginMore(g, nullable, F[i])
  BY <1>4 DEF IsGrowth, BeginStep
<1>6. Is(F)
  <2>1. ASSUME NEW i \in 0 .. n
        PROVE  F[i] = IF i = 0 THEN {X} ELSE BeginMore(g, nullable, F[i - 1])
    <3>1. CASE i = 0
      BY <1>5, <3>1
    <3>2. CASE i # 0
      <4>1. i - 1 \in 0 .. n /\ i = (i - 1) + 1
        BY <1>1, <3>2
      <4> QED
        BY <1>5, <3>2, <4>1
    <3> QED
      BY <3>1, <3>2
  <2>2. F = [i \in 0 .. n |-> F[i]]
    BY <1>5
  <2> QED
    BY <2>1, <2>2
<1>7. Is(C)
  BY <1>6
<1> HIDE DEF C
<1>8. C[0] = {X} /\ \A i, j \in 0 .. n : j = i + 1 => C[j] = BeginMore(g, nullable, C[i])
  <2>1. C[0] = {X}
    BY <1>1, <1>7
  <2>2. ASSUME NEW i \in 0 .. n, NEW j \in 0 .. n, j = i + 1
        PROVE  C[j] = BeginMore(g, nullable, C[i])
    <3>1. j # 0 /\ j - 1 = i
      BY <1>1, <2>2
    <3> QED
      BY <1>7, <3>1
  <2> QED
    BY <2>1, <2>2
<1> HIDE DEF Is
<1> DEFINE T == {i \in 0 .. n : C[i] = F[i]}
<1>9. 0 \in T
  <2>1. 0 \in 0 .. n
    BY <1>1
  <2> QED
    BY <1>5, <1>8, <2>1
<1>10. \A i, j \in 0 .. n : i \in T /\ j = i + 1 => j \in T
  BY <1>5, <1>8
<1>11. 0 .. n \subseteq T
  <2> HIDE DEF T
  <2> QED
    BY ONLY <1>1, <1>9, <1>10, UpTo
<1>12. C[n] = F[n]
  <2>1. n \in 0 .. n
    BY <1>1
  <2> QED
    BY <1>11, <2>1
<1> QED
  BY <1>2, <1>4, <1>12 DEF n

(* It is the terminals of the least set of symbols that has the symbol and *)
(* all that its members begin with.                                        *)
LEMMA BeginsWithIs ==
    ASSUME NEW g, IsGrammar(g), NEW nullable, NEW X \in Symbols(g)
    PROVE  \E S \in SUBSET Symbols(g) :
              /\ BeginsWith(g, X, nullable) = S \intersect Terminals(g)
              /\ X \in S /\ BeginClosed(g, nullable, S)
              /\ \A C \in SUBSET Symbols(g) : X \in C /\ BeginClosed(g, nullable, C) => S \subseteq C
<1> DEFINE n == g.numSymbols
           A == Symbols(g)
           step == BeginStep(g, nullable)
<1>1. PICK F : /\ IsGrowth(F, n, A, {X}, step)
               /\ BeginsWith(g, X, nullable) = F[n] \intersect Terminals(g)
  BY BeginsWithIsGrown
<1>2. n \in Nat /\ 0 \in 0 .. n /\ n \in 0 .. n /\ 0 <= n
  BY DEF IsGrammar
<1>3. Grows(A, {X}, step)
  BY DEF Grows, BeginStep, BeginMore
<1>4. IsFiniteSet(A) /\ Cardinality(A) <= n
  <2>1. 1 \in Int /\ n \in Int
    BY <1>2
  <2>2. IsFiniteSet(1 .. n) /\ Cardinality(1 .. n) = IF 1 > n THEN 0 ELSE n - 1 + 1
    BY ONLY <2>1, FS_Interval
  <2> QED
    BY <1>2, <2>2 DEF Symbols
<1>5. \A U, V \in SUBSET A : U \intersect A = V \intersect A => step[U] \intersect A = step[V] \intersect A
  <2>1. \A U \in SUBSET A : U \intersect A = U
    OBVIOUS
  <2> QED
    BY <2>1
<1>6. \A S \in SUBSET A : step[S] = BeginMore(g, nullable, S)
  BY DEF BeginStep
<1> HIDE DEF n, A, step
<1>7. F[n] \in SUBSET A
  BY <1>1, <1>2 DEF IsGrowth
<1>8. X \in F[n]
  <2>1. F[0] \subseteq F[n]
    BY <1>1, <1>2, <1>3, GrowthKeeps
  <2>2. F[0] = {X}
    BY <1>1 DEF IsGrowth
  <2> QED
    BY <2>1, <2>2
<1>9. BeginClosed(g, nullable, F[n])
  <2>1. step[F[n]] \intersect A \subseteq F[n]
    BY <1>1, <1>2, <1>3, <1>4, <1>5, GrowthCompletes
  <2>2. BeginMore(g, nullable, F[n]) \intersect A \subseteq F[n]
    BY <1>6, <1>7, <2>1
  <2> QED
    BY <2>2 DEF BeginClosed, BeginMore, A
<1>10. ASSUME NEW C \in SUBSET A, X \in C, BeginClosed(g, nullable, C) PROVE F[n] \subseteq C
  <2>1. ASSUME NEW S \in SUBSET A, S \subseteq C PROVE step[S] \subseteq C
    <3> SUFFICES ASSUME NEW Y \in Symbols(g), BeginsAfter(g, nullable, S, Y) PROVE Y \in C
      BY <1>6, <2>1 DEF BeginMore
    <3>1. BeginsAfter(g, nullable, C, Y)
      BY <2>1 DEF BeginsAfter
    <3> QED
      BY <1>10, <3>1 DEF BeginClosed
  <2>2. {X} \subseteq C
    BY <1>10
  <2> QED
    BY <1>1, <1>2, <1>3, <2>1, <2>2, GrowthIsLeast
<1> QED
  BY <1>1, <1>7, <1>8, <1>9, <1>10 DEF A

(* The three uses of it.                                                   *)
LEMMA BeginsWithin ==
    ASSUME NEW g, IsGrammar(g), NEW nullable, NEW X \in Symbols(g),
           NEW C \in SUBSET Symbols(g), X \in C, BeginClosed(g, nullable, C)
    PROVE  BeginsWith(g, X, nullable) \subseteq C /\ BeginsWith(g, X, nullable) \subseteq Terminals(g)
BY BeginsWithIs

LEMMA BeginsItself ==
    ASSUME NEW g, IsGrammar(g), NEW nullable, NEW t \in Terminals(g)
    PROVE  t \in BeginsWith(g, t, nullable)
<1>1. t \in Symbols(g)
  BY SymbolKinds
<1> QED
  BY <1>1, BeginsWithIs

LEMMA BeginsForRule ==
    ASSUME NEW g, IsGrammar(g), NEW nullable, NEW r \in RuleIds(g), NEW k \in 1 .. RuleLength(g, r),
           \A l \in 1 .. k - 1 : g.rules[r].syms[l] \in nullable
    PROVE  BeginsWith(g, g.rules[r].syms[k], nullable) \subseteq BeginsWith(g, g.rules[r].nonterm, nullable)
<1> DEFINE A == g.rules[r].nonterm
           Y == g.rules[r].syms[k]
<1>1. A \in Symbols(g) /\ Y \in Symbols(g)
  BY RuleNonterm, RightSideSymbols, SymbolKinds
<1>2. \A S : A \in S => BeginsAfter(g, nullable, S, Y)
  BY DEF BeginsAfter
<1> HIDE DEF A, Y
<1>3. PICK S \in SUBSET Symbols(g) : /\ BeginsWith(g, A, nullable) = S \intersect Terminals(g)
                                     /\ A \in S /\ BeginClosed(g, nullable, S)
  BY <1>1, BeginsWithIs
<1>4. Y \in S
  BY <1>1, <1>2, <1>3 DEF BeginClosed
<1>5. BeginsWith(g, Y, nullable) \subseteq S \intersect Terminals(g)
  BY <1>1, <1>3, <1>4, BeginsWithin
<1> QED
  BY <1>3, <1>5 DEF A, Y
-----------------------------------------------------------------------------
(* The reference of the lookaheads.                                        *)
FirstTriple == [st |-> 1, item |-> [rule |-> StartRule(grammar), pos |-> 0], la |-> 0]

Found(X, nullable) == UNION {Successors(tr, nullable) : tr \in X}
PropagateMore(v, nullable) ==
    [all |-> v.all \union Found(v.new, nullable), new |-> Found(v.new, nullable) \ v.all]

PropagatesIn(T, nullable) == FirstTriple \in T /\ \A tr \in T : Successors(tr, nullable) \subseteq T

(* When nothing new comes, it is the least set of triples that has the     *)
(* first one and what each of its members is followed by.                  *)
LEMMA PropagatedIs ==
    ASSUME NEW nullable, Propagated(nullable).new = {}, NEW T, PropagatesIn(T, nullable)
    PROVE  Propagated(nullable).all \subseteq T /\ PropagatesIn(Propagated(nullable).all, nullable)
<1> DEFINE n == PropagationBound
           start == [all |-> {FirstTriple}, new |-> {FirstTriple}]
           Is(P) == P = [i \in 0 .. n |-> IF i = 0 THEN start ELSE PropagateMore(P[i - 1], nullable)]
           C == CHOOSE P : Is(P)
           V == [all : SUBSET T, new : SUBSET T]
           step == [v \in V |-> PropagateMore(v, nullable)]
<1>1. n \in Nat
  BY PropagationAssumption
<1>2. Propagated(nullable) = C[n]
  BY DEF Propagated, PropagateMore, Found, FirstTriple
<1>3. start \in V /\ step \in [V -> V]
  <2>1. ASSUME NEW v \in V PROVE PropagateMore(v, nullable) \in V
    <3>1. Found(v.new, nullable) \subseteq T
      BY DEF PropagatesIn, Found
    <3> QED
      BY <3>1 DEF PropagateMore
  <2> QED
    BY <2>1 DEF PropagatesIn
<1>4. PICK F : IsIteration(F, n, V, start, step)
  <2> HIDE DEF n, V, start, step
  <2> QED
    BY <1>1, <1>3, IterationExists
<1>5. \A v \in V : step[v] = PropagateMore(v, nullable)
  OBVIOUS
<1>6. start.all = {FirstTriple} /\ start.new = {FirstTriple} /\ \A v \in V : v.all \subseteq T
  OBVIOUS
<1> HIDE DEF n, V, start, step
<1>7. /\ F \in [0 .. n -> V] /\ F[0] = start
      /\ \A i, j \in 0 .. n : j = i + 1 => F[j] = PropagateMore(F[i], nullable)
  BY <1>4, <1>5 DEF IsIteration
<1>8. Is(F)
  <2>1. ASSUME NEW i \in 0 .. n
        PROVE  F[i] = IF i = 0 THEN start ELSE PropagateMore(F[i - 1], nullable)
    <3>1. CASE i = 0
      BY <1>7, <3>1
    <3>2. CASE i # 0
      <4>1. i - 1 \in 0 .. n /\ i = (i - 1) + 1
        BY <1>1, <3>2
      <4> QED
        BY <1>7, <3>2, <4>1
    <3> QED
      BY <3>1, <3>2
  <2>2. F = [i \in 0 .. n |-> F[i]]
    BY <1>7
  <2> QED
    BY <2>1, <2>2
<1>9. Is(C)
  BY <1>8
<1> HIDE DEF C
<1>10. C[0] = start /\ \A i, j \in 0 .. n : j = i + 1 => C[j] = PropagateMore(C[i], nullable)
  <2>1. C[0] = start
    BY <1>1, <1>9
  <2>2. ASSUME NEW i \in 0 .. n, NEW j \in 0 .. n, j = i + 1
        PROVE  C[j] = PropagateMore(C[i], nullable)
    <3>1. j # 0 /\ j - 1 = i
      BY <1>1, <2>2
    <3> QED
      BY <1>9, <3>1
  <2> QED
    BY <2>1, <2>2
<1> HIDE DEF Is
<1> DEFINE Good(v) == /\ FirstTriple \in v.all /\ v.new \subseteq v.all
                      /\ \A tr \in v.all \ v.new : Successors(tr, nullable) \subseteq v.all
           U == {i \in 0 .. n : C[i] = F[i] /\ Good(F[i])}
<1>11. 0 \in U
  <2>1. 0 \in 0 .. n
    BY <1>1
  <2>2. Good(start)
    BY <1>6
  <2> QED
    BY <1>7, <1>10, <2>1, <2>2
<1>12. ASSUME NEW i \in 0 .. n, NEW j \in 0 .. n, i \in U, j = i + 1 PROVE j \in U
  <2>1. C[j] = PropagateMore(F[i], nullable) /\ F[j] = PropagateMore(F[i], nullable) /\ Good(F[i])
    BY <1>7, <1>10, <1>12
  <2>2. Good(PropagateMore(F[i], nullable))
    <3> DEFINE v == F[i]
               w == PropagateMore(v, nullable)
    <3>1. w.all = v.all \union Found(v.new, nullable) /\ w.new = Found(v.new, nullable) \ v.all
      BY DEF PropagateMore
    <3>2. \A tr \in v.new : Successors(tr, nullable) \subseteq Found(v.new, nullable)
      BY DEF Found
    <3> HIDE DEF w, v
    <3>3. Good(v)
      BY <2>1 DEF v
    <3>4. Good(w)
      BY <3>1, <3>2, <3>3
    <3> QED
      BY <3>4 DEF v, w
  <2> HIDE DEF Good
  <2> QED
    BY <2>1, <2>2
<1>13. 0 .. n \subseteq U
  <2> HIDE DEF U
  <2> QED
    BY ONLY <1>1, <1>11, <1>12, UpTo
<1>14. Propagated(nullable) = F[n] /\ Good(F[n]) /\ F[n].all \subseteq T
  <2>1. n \in 0 .. n
    BY <1>1
  <2> QED
    BY <1>2, <1>6, <1>7, <1>13, <2>1
<1> QED
  BY <1>14 DEF PropagatesIn
-----------------------------------------------------------------------------
(* A state was reached from one before it; the reductions of the states    *)
(* left behind are set.                                                    *)
ReachedEarlier ==
    \A q \in DOMAIN items : q > 1 =>
        \E p \in DOMAIN items, x \in Symbols(grammar) : p < q /\ goto[p][x] = q

ReducesSet == \A q \in DOMAIN items : q < state => reduces[q] = ReduceRules(grammar, items[q])

(* A new state gets its number after the state it is reached from.         *)
LEMMA ReachedEarlierInductive == IInv /\ ReachedEarlier /\ [Next]_vars => ReachedEarlier'
<1> SUFFICES ASSUME IInv, ReachedEarlier, [Next]_vars PROVE ReachedEarlier'
  OBVIOUS
<1>1. DOMAIN items = 1 .. Len(items) /\ Len(items) \in Nat
  BY TableFacts DEF IInv
<1>2. CASE InShiftLoop /\ grammar' = grammar /\ DOMAIN items \subseteq DOMAIN items'
           /\ (\A p \in DOMAIN items, x \in Symbols(grammar) : ~(p = state /\ x = sym) => goto'[p][x] = goto[p][x])
           /\ (\A q \in DOMAIN items' : q \in DOMAIN items \/ (q = Len(items) + 1 /\ goto'[state][sym] = q))
  <2> SUFFICES ASSUME NEW q \in DOMAIN items', q > 1
               PROVE  \E p \in DOMAIN items', x \in Symbols(grammar) : p < q /\ goto'[p][x] = q
    BY <1>2 DEF ReachedEarlier
  <2>1. state \in DOMAIN items /\ sym \in Symbols(grammar) /\ state <= Len(items)
    BY <1>1, <1>2, LoopFacts DEF IInv
  <2>2. goto[state][sym] = 0
    BY <2>1, <1>1 DEF IInv, EdgesAheadAreNull, Symbols
  <2>3. CASE q \in DOMAIN items
    <3>1. PICK p \in DOMAIN items, x \in Symbols(grammar) : p < q /\ goto[p][x] = q
      BY <2>3 DEF ReachedEarlier
    <3>2. ~(p = state /\ x = sym)
      BY <1>1, <2>2, <2>3, <3>1
    <3> QED
      BY <1>2, <3>1, <3>2
  <2>4. CASE q = Len(items) + 1 /\ goto'[state][sym] = q
    <3>1. state < q
      BY <1>1, <2>1, <2>4
    <3> QED
      BY <1>2, <2>1, <2>4, <3>1
  <2> QED
    BY <1>2, <2>3, <2>4
<1>3. CASE ShiftToNewState
  <2>1. InShiftLoop /\ grammar' = grammar
    BY <1>3 DEF ShiftToNewState
  <2>2. state \in DOMAIN items /\ sym \in Symbols(grammar)
    BY <1>1, <2>1, LoopFacts DEF IInv
  <2> QED
    BY <1>1, <1>2, <1>3, <2>1, <2>2, NewStateStep
<1>4. CASE ShiftToKnownState
  <2>1. InShiftLoop /\ grammar' = grammar /\ items' = items
    BY <1>4 DEF ShiftToKnownState
  <2> QED
    BY <1>1, <1>2, <1>4, <2>1, KnownStateStep
<1>5. CASE UNCHANGED <<grammar, items, goto>>
  BY <1>5 DEF ReachedEarlier
<1> QED
  BY <1>3, <1>4, <1>5 DEF Next, NoShift, ReduceMoves, vars, tableVars

(* The reductions of a state are set when the loop leaves it.              *)
LEMMA ReducesSetInductive == IInv /\ ReducesSet /\ [Next]_vars => ReducesSet'
<1> SUFFICES ASSUME IInv, ReducesSet, [Next]_vars PROVE ReducesSet'
  OBVIOUS
<1>1. /\ DOMAIN items = 1 .. Len(items) /\ Len(items) \in Nat /\ state \in Nat
      /\ reduces \in Seq(SUBSET RuleIds(grammar)) /\ Len(reduces) = Len(items)
  BY TableFacts DEF IInv, TypeOK
<1>2. CASE ShiftToNewState
  <2>1. grammar' = grammar /\ state' = state /\ reduces' = Append(reduces, {}) /\ state \in DOMAIN items
    BY <1>1, <1>2, LoopFacts DEF IInv, ShiftToNewState
  <2>2. \A q \in DOMAIN items : items'[q] = items[q] /\ reduces'[q] = reduces[q]
    BY <1>1, <1>2, <2>1, NewStateStep, AppendProperties
  <2>3. \A q \in DOMAIN items' : q < state => q \in DOMAIN items
    BY <1>1, <1>2, <2>1, NewStateStep
  <2> QED
    BY <2>1, <2>2, <2>3 DEF ReducesSet
<1>3. CASE ReduceMoves
  <2>1. UNCHANGED <<grammar, items>> /\ state' = state + 1 /\ state \in DOMAIN items
    BY <1>1, <1>3 DEF ReduceMoves, IInv, TypeOK
  <2> DEFINE rules == ReduceRules(grammar, items[state])
  <2>2. reduces' = [reduces EXCEPT ![state] = rules]
    BY <1>3 DEF ReduceMoves
  <2>3. reduces'[state] = rules /\ \A q \in DOMAIN items : q # state => reduces'[q] = reduces[q]
    <3> HIDE DEF rules
    <3>1. DOMAIN reduces = DOMAIN items
      BY <1>1, LenProperties
    <3> QED
      BY <2>1, <2>2, <3>1
  <2> SUFFICES ASSUME NEW q \in DOMAIN items, q < state + 1
               PROVE  reduces'[q] = ReduceRules(grammar, items[q])
    BY <2>1 DEF ReducesSet
  <2>4. q = state \/ q < state
    BY <1>1
  <2> QED
    BY <2>3, <2>4 DEF ReducesSet
<1>4. CASE UNCHANGED <<grammar, items, reduces, state>>
  BY <1>4 DEF ReducesSet
<1> QED
  BY <1>2, <1>3, <1>4 DEF Next, NoShift, ShiftToKnownState, vars, tableVars

(* The finished automaton.                                                 *)
TInv == IInv /\ Complete /\ StartKept /\ ReachedEarlier /\ ReducesSet
Built == TInv /\ Constructed /\ MarksSet

(* It holds at the start ...                                               *)
LEMMA TInvInit == Init => TInv
<1> SUFFICES ASSUME Init PROVE TInv
  OBVIOUS
<1>1. DOMAIN items = {1} /\ state = 1
  BY DEF Init
<1> QED
  BY <1>1, InitIInv, CompleteInit DEF TInv, StartKept, ReachedEarlier, ReducesSet, Init

(* ... and every step of constructPDA keeps it.                            *)
LEMMA TInvInductive == TInv /\ [Next]_vars => TInv'
BY NextIInv, CompleteInductive, StartKeptInductive, ReachedEarlierInductive, ReducesSetInductive DEF TInv

(* The facts about the finished automaton that the steps below need.       *)
LEMMA BuiltFacts ==
    ASSUME Built
    PROVE  /\ IsGrammar(grammar) /\ TypeOK
           /\ DOMAIN items = 1 .. Len(items) /\ Len(items) \in Nat /\ 1 \in DOMAIN items
           /\ DOMAIN goto = DOMAIN items
           /\ Symbols(grammar) = Terminals(grammar) \union Nonterminals(grammar)
           /\ Terminals(grammar) \intersect Nonterminals(grammar) = {}
           /\ \A q \in DOMAIN items : items[q] \in SUBSET Items(grammar) /\ q < state
           /\ \A q \in DOMAIN items : pred[q] \in SUBSET DOMAIN items
           /\ \A q \in DOMAIN items : \A x \in Symbols(grammar) :
                 goto[q][x] # 0 => goto[q][x] \in DOMAIN items
<1>1. TypeOK /\ IInv /\ state > Len(items)
  BY DEF Built, TInv, IInv, Constructed
<1>2. IsGrammar(grammar) /\ state \in Nat /\ DOMAIN goto = DOMAIN items
  BY <1>1, GrammarFacts, LenProperties DEF TypeOK
<1>3. DOMAIN items = 1 .. Len(items) /\ Len(items) \in Nat \ {0}
  BY <1>1, TableFacts
<1>4. \A q \in DOMAIN items : q < state /\ items[q] \in SUBSET Items(grammar) /\ pred[q] \in SUBSET DOMAIN items
  BY <1>1, <1>2, <1>3, TableFacts
<1>5. \A q \in DOMAIN items : \A x \in Symbols(grammar) : goto[q][x] \in 0 .. Len(items)
  BY <1>1, <1>3, TableFacts
<1> QED
  BY <1>1, <1>2, <1>3, <1>4, <1>5, SymbolKinds

(* Where a state wants a nonterminal, its rules begin.                     *)
LEMMA StateIsClosed ==
    ASSUME Built, NEW q \in DOMAIN items
    PROVE  IsClosed(grammar, items[q])
<1>1. CASE q = 1
  BY <1>1, BuiltFacts, StartIsClosed DEF Built, TInv, StartKept
<1>2. CASE q # 1
  <2>1. PICK p \in DOMAIN items, x \in Symbols(grammar) : goto[p][x] = q
    BY <1>2, BuiltFacts DEF Built, TInv, ReachedEarlier
  <2>2. items[q] = Shift(grammar, items[p], x)
    BY <2>1 DEF Built, TInv, IInv, EdgesAreShifts
  <2> QED
    BY <2>2, BuiltFacts, ShiftIsClosed
<1> QED
  BY <1>1, <1>2

(* An item that is not at its end leads on.                                *)
Moved(i) == [rule |-> i.rule, pos |-> i.pos + 1]

LEMMA ItemLeadsOn ==
    ASSUME Built, NEW p \in DOMAIN items, NEW i \in items[p], ~IsEnd(grammar, i)
    PROVE  LET X == NextSym(grammar, i)
           IN  /\ X \in Symbols(grammar) /\ goto[p][X] \in DOMAIN items
               /\ Moved(i) \in items[goto[p][X]] /\ p \in pred[goto[p][X]]
<1> DEFINE X == NextSym(grammar, i)
           S == Shift(grammar, items[p], X)
<1>1. i.rule \in RuleIds(grammar) /\ i.pos \in Nat /\ RuleLength(grammar, i.rule) \in Nat
  BY BuiltFacts, RuleLengthType DEF Items
<1>2. i.pos + 1 \in 1 .. RuleLength(grammar, i.rule)
  BY <1>1 DEF IsEnd
<1>3. X \in Symbols(grammar)
  BY <1>1, <1>2, BuiltFacts, RightSideSymbols DEF NextSym
<1>4. Moved(i) \in S
  BY DEF Shift, Kernel, Moved
<1> HIDE DEF X, S
<1>5. goto[p][X] # 0
  BY <1>3, <1>4, BuiltFacts DEF Built, TInv, Complete, EdgesBehindAreSet, S
<1>6. goto[p][X] \in DOMAIN items
  BY <1>3, <1>5, BuiltFacts
<1>7. items[goto[p][X]] = S
  BY <1>3, <1>6 DEF Built, TInv, IInv, EdgesAreShifts, S
<1>8. p \in pred[goto[p][X]]
  BY <1>3, <1>6 DEF Built, TInv, IInv, PredIsConverse
<1> QED
  BY <1>3, <1>4, <1>6, <1>7, <1>8 DEF X

(* What can be shifted, an item stands before.                             *)
LEMMA EdgeIsWanted ==
    ASSUME Built, NEW p \in DOMAIN items, NEW x \in Symbols(grammar), goto[p][x] # 0
    PROVE  /\ goto[p][x] \in DOMAIN items /\ p \in pred[goto[p][x]] /\ accessSym[goto[p][x]] = x
           /\ \E i \in items[p] : ~IsEnd(grammar, i) /\ NextSym(grammar, i) = x
<1> DEFINE d == goto[p][x]
<1>1. d \in DOMAIN items
  BY BuiltFacts
<1> HIDE DEF d
<1>2. p \in pred[d] /\ accessSym[d] = x
  BY <1>1 DEF Built, TInv, IInv, PredIsConverse, d
<1>3. PICK j \in items[d] : j.pos # 0
  <2>1. x # 0
    BY DEF Symbols
  <2> QED
    BY <1>1, <1>2, <2>1 DEF Built, TInv, IInv, AccessSymOfItems
<1>4. j.rule \in RuleIds(grammar) /\ j.pos \in Nat /\ j.pos > 0
  BY <1>1, <1>3, BuiltFacts DEF Items
<1>5. j.pos <= RuleLength(grammar, j.rule) /\ grammar.rules[j.rule].syms[j.pos] = x
  BY <1>1, <1>2, <1>4 DEF Built, TInv, IInv, AccessSymOfItems
<1> DEFINE i == [j EXCEPT !.pos = j.pos - 1]
<1>6. i \in items[p]
  BY <1>1, <1>2, <1>4, OriginFromIInv DEF Built, TInv, PredHoldsOrigin
<1>7. j = [rule |-> j.rule, pos |-> j.pos]
  BY <1>1, BuiltFacts DEF Items
<1>8. i.rule = j.rule /\ i.pos = j.pos - 1 /\ i.pos + 1 = j.pos
  BY <1>4, <1>7
<1> HIDE DEF i
<1>9. ~IsEnd(grammar, i) /\ NextSym(grammar, i) = x
  <2>1. RuleLength(grammar, j.rule) \in Nat
    BY <1>4, BuiltFacts, RuleLengthType
  <2>2. NextSym(grammar, i) = x
    BY <1>5, <1>8 DEF NextSym
  <2> QED
    BY <1>4, <1>5, <1>8, <2>1, <2>2 DEF IsEnd
<1> QED
  BY <1>1, <1>2, <1>6, <1>9 DEF d
-----------------------------------------------------------------------------
(* Steps back can be taken from the other end: the first of them leads to  *)
(* a predecessor, the others on from there.                                *)
LEMMA BackNone ==
    ASSUME NEW S
    PROVE  Back(S, 0) = S
BY BackSteps

StepsBack(S, n) == CHOOSE B : IsStepsBack(B, S, n)

(* The sets on the way back, one by one.                                   *)
LEMMA StepsBackIs ==
    ASSUME NEW S, NEW n \in Nat
    PROVE  /\ Back(S, n) = StepsBack(S, n)[n] /\ StepsBack(S, n)[0] = S
           /\ \A i, j \in 0 .. n : j = i + 1 => StepsBack(S, n)[j] = UNION {pred[p] : p \in StepsBack(S, n)[i]}
<1> DEFINE B == StepsBack(S, n)
<1>1. IsStepsBack(B, S, n)
  BY StepsBackExist DEF StepsBack
<1>2. Back(S, n) = B[n]
  BY DEF Back, IsStepsBack, StepsBack
<1> HIDE DEF B
<1>3. \A k \in 0 .. n : B[k] = IF k = 0 THEN S ELSE UNION {pred[p] : p \in B[k - 1]}
  BY <1>1 DEF IsStepsBack
<1>4. B[0] = S
  <2>1. 0 \in 0 .. n
    OBVIOUS
  <2> QED
    BY <1>3, <2>1
<1>5. ASSUME NEW i \in 0 .. n, NEW j \in 0 .. n, j = i + 1 PROVE B[j] = UNION {pred[p] : p \in B[i]}
  <2>1. j # 0 /\ j - 1 = i
    BY <1>5
  <2> QED
    BY <1>3, <2>1
<1> QED
  BY <1>2, <1>4, <1>5 DEF B

LEMMA BackFirst ==
    ASSUME NEW q, NEW n \in Nat
    PROVE  Back({q}, n + 1) = UNION {Back({o}, n) : o \in pred[q]}
<1> DEFINE B == StepsBack({q}, n + 1)
           C(o) == StepsBack({o}, n)
           T == {k \in 0 .. n : B[k + 1] = UNION {C(o)[k] : o \in pred[q]}}
<1>1. n + 1 \in Nat
  OBVIOUS
<1>2. /\ Back({q}, n + 1) = B[n + 1] /\ B[0] = {q}
      /\ \A i, j \in 0 .. n + 1 : j = i + 1 => B[j] = UNION {pred[p] : p \in B[i]}
  <2> DEFINE m == n + 1
             S == {q}
  <2>1. m \in Nat
    OBVIOUS
  <2> HIDE DEF m, S
  <2>2. /\ Back(S, m) = StepsBack(S, m)[m] /\ StepsBack(S, m)[0] = S
        /\ \A i, j \in 0 .. m : j = i + 1 =>
              StepsBack(S, m)[j] = UNION {pred[p] : p \in StepsBack(S, m)[i]}
    BY <2>1, StepsBackIs
  <2> QED
    BY <2>2 DEF m, S
<1>3. \A o : /\ Back({o}, n) = C(o)[n] /\ C(o)[0] = {o}
             /\ \A i, j \in 0 .. n : j = i + 1 => C(o)[j] = UNION {pred[p] : p \in C(o)[i]}
  <2> SUFFICES ASSUME NEW o
               PROVE  /\ Back({o}, n) = C(o)[n] /\ C(o)[0] = {o}
                      /\ \A i, j \in 0 .. n : j = i + 1 => C(o)[j] = UNION {pred[p] : p \in C(o)[i]}
    OBVIOUS
  <2> DEFINE S == {o}
  <2> HIDE DEF S, C
  <2>1. /\ Back(S, n) = StepsBack(S, n)[n] /\ StepsBack(S, n)[0] = S
        /\ \A i, j \in 0 .. n : j = i + 1 =>
              StepsBack(S, n)[j] = UNION {pred[p] : p \in StepsBack(S, n)[i]}
    BY StepsBackIs
  <2>2. C(o) = StepsBack(S, n)
    BY DEF C, S
  <2> QED
    BY <2>1, <2>2 DEF S
<1> HIDE DEF B, C
<1>4. 0 \in T
  <2>1. 0 \in 0 .. n + 1 /\ 1 \in 0 .. n + 1 /\ 0 + 1 = 1 /\ 0 \in 0 .. n
    OBVIOUS
  <2>2. B[1] = UNION {pred[p] : p \in B[0]}
    BY ONLY <1>2, <2>1
  <2>3. B[1] = pred[q]
    BY <1>2, <2>2
  <2>4. UNION {C(o)[0] : o \in pred[q]} = pred[q]
    BY <1>3
  <2> QED
    BY <2>1, <2>3, <2>4
<1>5. ASSUME NEW i \in 0 .. n, NEW j \in 0 .. n, i \in T, j = i + 1 PROVE j \in T
  <2>1. i + 1 \in 0 .. n + 1 /\ j + 1 \in 0 .. n + 1 /\ j + 1 = (i + 1) + 1
    BY <1>5
  <2>2. B[j + 1] = UNION {pred[p] : p \in B[i + 1]}
    BY ONLY <1>2, <2>1
  <2>3. B[i + 1] = UNION {C(o)[i] : o \in pred[q]}
    BY <1>5
  <2>4. \A o : C(o)[j] = UNION {pred[p] : p \in C(o)[i]}
    BY <1>3, <1>5
  <2>5. UNION {pred[p] : p \in UNION {C(o)[i] : o \in pred[q]}} = UNION {C(o)[j] : o \in pred[q]}
    <3>1. ASSUME NEW s PROVE s \in UNION {pred[p] : p \in UNION {C(o)[i] : o \in pred[q]}}
                             <=> \E o \in pred[q] : \E p \in C(o)[i] : s \in pred[p]
      OBVIOUS
    <3>2. ASSUME NEW s PROVE s \in UNION {C(o)[j] : o \in pred[q]}
                             <=> \E o \in pred[q] : \E p \in C(o)[i] : s \in pred[p]
      BY <2>4
    <3> QED
      BY <3>1, <3>2
  <2> QED
    BY <2>2, <2>3, <2>5
<1>6. 0 .. n \subseteq T
  <2> HIDE DEF T
  <2> QED
    BY ONLY <1>4, <1>5, n \in Nat, UpTo
<1>7. n \in T
  BY <1>6
<1>8. {C(o)[n] : o \in pred[q]} = {Back({o}, n) : o \in pred[q]}
  BY <1>3
<1> QED
  BY <1>2, <1>7, <1>8
-----------------------------------------------------------------------------
(* What comes after an item: a terminal that what is left of its right     *)
(* side begins with, or all that is left can vanish.                       *)
Vanishes(g, nullable, r, p) == \A k \in p + 1 .. RuleLength(g, r) : g.rules[r].syms[k] \in nullable

ComesFirst(g, nullable, i, t) ==
    \E k \in i.pos + 1 .. RuleLength(g, i.rule) :
        /\ \A m \in i.pos + 1 .. k - 1 : g.rules[i.rule].syms[m] \in nullable
        /\ t \in BeginsWith(g, g.rules[i.rule].syms[k], nullable)

(* minLength is the position from which on everything can vanish.          *)
LEMMA MinLengthIs ==
    ASSUME NEW g, IsGrammar(g), NEW nullable, NEW r \in RuleIds(g), NEW p \in 0 .. RuleLength(g, r)
    PROVE  MinLength(g, r, nullable) <= p <=> Vanishes(g, nullable, r, p)
<1> DEFINE n == RuleLength(g, r)
           s == g.rules[r].syms
           Is(l) == (\A k \in (l + 1) .. n : s[k] \in nullable) /\ (l > 0 => s[l] \notin nullable)
           T == {l \in 0 .. n : \A k \in (l + 1) .. n : s[k] \in nullable}
           m == CHOOSE l \in 0 .. n : Is(l)
<1>1. n \in Nat
  BY RuleLengthType
<1>2. m = MinLength(g, r, nullable)
  BY DEF MinLength
<1> HIDE DEF n, s
<1>3. T \in SUBSET Nat /\ n \in T
  BY <1>1
<1>4. PICK l \in T : \A k \in T : l <= k
  <2> HIDE DEF T
  <2> QED
    BY <1>3, LeastNat
<1>5. Is(l)
  <2> SUFFICES ASSUME l > 0, s[l] \in nullable PROVE FALSE
    OBVIOUS
  <2>1. l - 1 \in 0 .. n /\ \A k \in (l - 1) + 1 .. n : k = l \/ k \in (l + 1) .. n
    BY <1>1
  <2>2. l - 1 \in T
    BY <2>1
  <2> HIDE DEF T
  <2>3. l <= l - 1 /\ l \in Nat
    BY <1>3, <1>4, <2>2
  <2> QED
    BY <2>3
<1>6. m \in 0 .. n /\ Is(m)
  <2> HIDE DEF Is
  <2>1. l \in 0 .. n
    OBVIOUS
  <2> QED
    BY <1>5, <2>1
<1>7. p \in 0 .. n
  BY DEF n
<1> HIDE DEF m
<1>8. ASSUME m <= p PROVE \A k \in p + 1 .. n : s[k] \in nullable
  <2>1. \A k \in p + 1 .. n : k \in m + 1 .. n
    BY <1>1, <1>6, <1>7, <1>8
  <2> QED
    BY <1>6, <2>1
<1>9. ASSUME \A k \in p + 1 .. n : s[k] \in nullable PROVE m <= p
  <2> SUFFICES ASSUME ~(m <= p) PROVE FALSE
    OBVIOUS
  <2>1. m \in p + 1 .. n /\ m > 0
    BY <1>1, <1>6, <1>7
  <2> QED
    BY <1>6, <1>9, <2>1
<1> QED
  BY <1>2, <1>8, <1>9 DEF Vanishes, n, s

(* The reference in these words.                                           *)
LEMMA AfterNextIs ==
    ASSUME NEW g, IsGrammar(g), NEW nullable, NEW tr, tr.item \in Items(g), NEW t
    PROVE  t \in AfterNext(g, tr, nullable) <=>
              \/ ComesFirst(g, nullable, Moved(tr.item), t)
              \/ t = tr.la /\ Vanishes(g, nullable, tr.item.rule, tr.item.pos + 1)
<1> DEFINE r == tr.item.rule
           p == tr.item.pos
           s == g.rules[r].syms
           n == RuleLength(g, r)
           rest == p + 2 .. Len(s)
           Ks == {l \in rest : \A m \in rest : m < l => s[m] \in nullable}
<1>1. r \in RuleIds(g) /\ p \in Nat
  BY DEF Items
<1>2. n \in Nat /\ n = Len(s) /\ p + 1 + 1 = p + 2
  BY <1>1, RuleLengthType DEF RuleLength
<1> DEFINE found == UNION {BeginsWith(g, s[k], nullable) : k \in Ks}
<1>3. AfterNext(g, tr, nullable) =
         found \union (IF \A l \in rest : s[l] \in nullable THEN {tr.la} ELSE {})
  BY DEF AfterNext
<1>4. Vanishes(g, nullable, r, p + 1) <=> \A l \in rest : s[l] \in nullable
  BY <1>1, <1>2 DEF Vanishes
<1>5. ComesFirst(g, nullable, Moved(tr.item), t) <=> \E k \in Ks : t \in BeginsWith(g, s[k], nullable)
  <2>1. Moved(tr.item).rule = r /\ Moved(tr.item).pos + 1 = p + 2
    BY <1>2 DEF Moved
  <2>2. ComesFirst(g, nullable, Moved(tr.item), t) <=>
           \E k \in rest : /\ \A m \in p + 2 .. k - 1 : s[m] \in nullable
                           /\ t \in BeginsWith(g, s[k], nullable)
    BY <1>2, <2>1 DEF ComesFirst
  <2>3. \A k \in rest : \A m \in p + 2 .. k - 1 : m \in rest /\ m < k
    BY <1>1, <1>2
  <2>4. \A k \in rest : \A m \in rest : m < k => m \in p + 2 .. k - 1
    BY <1>1, <1>2
  <2>5. \A k \in rest : k \in Ks <=> \A m \in p + 2 .. k - 1 : s[m] \in nullable
    <3> HIDE DEF rest
    <3> QED
      BY <2>3, <2>4
  <2>6. Ks \subseteq rest
    OBVIOUS
  <2> HIDE DEF rest, Ks
  <2> QED
    BY <2>2, <2>5, <2>6
<1>6. t \in found <=> \E k \in Ks : t \in BeginsWith(g, s[k], nullable)
  <2> HIDE DEF Ks, s
  <2> QED
    OBVIOUS
<1> HIDE DEF found
<1> QED
  BY <1>3, <1>4, <1>5, <1>6

(* What comes first somewhere in a state comes first after a kernel item.  *)
LEMMA ComesForKernel ==
    ASSUME NEW g, IsGrammar(g), NEW from \in SUBSET Items(g), NEW x \in Symbols(g), NEW nullable, NEW t,
           NEW i \in Shift(g, from, x), ComesFirst(g, nullable, i, t)
    PROVE  \E j \in Shift(g, from, x) : j.pos > 0 /\ ComesFirst(g, nullable, j, t)
<1> DEFINE K == Kernel(g, from, x)
           seeds == {NextSym(g, j) : j \in {l \in K : ~IsEnd(g, l)}}
           S == {A \in Nonterminals(g) : t \notin BeginsWith(g, A, nullable)}
<1>1. Shift(g, from, x) = K \union Closure(g, seeds) /\ Shift(g, from, x) \subseteq Items(g)
  BY ShiftItems DEF Shift
<1>2. \A j \in K : j.pos > 0 /\ j.rule \in RuleIds(g) /\ j.pos \in Nat
  <2> SUFFICES ASSUME NEW j \in K PROVE j.pos > 0 /\ j.rule \in RuleIds(g) /\ j.pos \in Nat
    OBVIOUS
  <2>1. PICK l \in from : j = [rule |-> l.rule, pos |-> l.pos + 1]
    BY DEF Kernel
  <2>2. l.pos \in Nat /\ l.rule \in RuleIds(g)
    BY DEF Items
  <2> QED
    BY <2>1, <2>2
<1>3. SUFFICES ASSUME \A j \in K : ~ComesFirst(g, nullable, j, t) PROVE FALSE
  BY <1>1, <1>2
<1>4. seeds \intersect Nonterminals(g) \subseteq S
  <2> SUFFICES ASSUME NEW j \in K, ~IsEnd(g, j), t \in BeginsWith(g, NextSym(g, j), nullable) PROVE FALSE
    OBVIOUS
  <2>1. RuleLength(g, j.rule) \in Nat
    BY <1>2, RuleLengthType
  <2>2. j.pos + 1 \in j.pos + 1 .. RuleLength(g, j.rule) /\ \A m : m \notin j.pos + 1 .. (j.pos + 1) - 1
    BY <1>2, <2>1 DEF IsEnd
  <2>3. ComesFirst(g, nullable, j, t)
    BY <2>2 DEF ComesFirst, NextSym
  <2> QED
    BY <1>3, <2>3
<1>5. LeftCornerClosed(g, S)
  <2> SUFFICES ASSUME NEW r \in RuleIds(g), g.rules[r].nonterm \in S, RuleLength(g, r) > 0
               PROVE  g.rules[r].syms[1] \in S \union Terminals(g)
    BY DEF LeftCornerClosed
  <2>1. 1 \in 1 .. RuleLength(g, r) /\ \A l : l \notin 1 .. 1 - 1
    BY RuleLengthType
  <2>2. g.rules[r].syms[1] \in Symbols(g)
    BY <2>1, RightSideSymbols
  <2>3. BeginsWith(g, g.rules[r].syms[1], nullable) \subseteq BeginsWith(g, g.rules[r].nonterm, nullable)
    BY <2>1, BeginsForRule
  <2> QED
    BY <2>2, <2>3, SymbolKinds
<1>6. LeftCorners(g, seeds) \subseteq S
  <2> HIDE DEF seeds
  <2>1. S \in SUBSET Nonterminals(g)
    OBVIOUS
  <2> HIDE DEF S
  <2> QED
    BY <1>4, <1>5, <2>1 DEF LeftCorners
<1>7. i \in Closure(g, seeds)
  BY <1>1, <1>3
<1> HIDE DEF seeds
<1>8. PICK r \in RuleIds(g) : i = [rule |-> r, pos |-> 0] /\ g.rules[r].nonterm \in LeftCorners(g, seeds)
  BY <1>7 DEF Closure
<1>9. i.rule = r /\ i.pos + 1 = 1
  BY <1>8
<1>10. PICK k \in 1 .. RuleLength(g, r) : /\ \A m \in 1 .. k - 1 : g.rules[r].syms[m] \in nullable
                                          /\ t \in BeginsWith(g, g.rules[r].syms[k], nullable)
  BY <1>9 DEF ComesFirst
<1>11. t \in BeginsWith(g, g.rules[r].nonterm, nullable)
  BY <1>10, BeginsForRule
<1> QED
  BY <1>6, <1>8, <1>11
-----------------------------------------------------------------------------
(* Sets gathered along a relation.                                         *)
Stays(r, S) == \A x \in S : r[x] \subseteq S
LeadsTo(r, x) == {y \in DOMAIN r : \A S \in SUBSET DOMAIN r : x \in S /\ Stays(r, S) => y \in S}
Gathered(r, b, x) == UNION {b[y] : y \in LeadsTo(r, x)}

(* A relation leads from everywhere to where it is, and on.                *)
LEMMA LeadsToItself ==
    ASSUME NEW r, NEW x \in DOMAIN r
    PROVE  x \in LeadsTo(r, x)
BY DEF LeadsTo

LEMMA LeadsToNext ==
    ASSUME NEW T, NEW r \in [T -> SUBSET T], NEW x \in T, NEW y \in LeadsTo(r, x), NEW z \in r[y]
    PROVE  z \in LeadsTo(r, x)
<1>1. DOMAIN r = T /\ y \in T
  BY DEF LeadsTo
<1>2. z \in T
  BY <1>1
<1> SUFFICES ASSUME NEW S \in SUBSET T, x \in S, Stays(r, S) PROVE z \in S
  BY <1>1, <1>2 DEF LeadsTo
<1>3. y \in S
  BY <1>1 DEF LeadsTo
<1> QED
  BY <1>3 DEF Stays

(* It does not leave a set that it stays in.                               *)
LEMMA LeadsToWithin ==
    ASSUME NEW T, NEW r \in [T -> SUBSET T], NEW S \in SUBSET T, Stays(r, S), NEW x \in S
    PROVE  LeadsTo(r, x) \subseteq S
<1>1. DOMAIN r = T
  OBVIOUS
<1> QED
  BY <1>1 DEF LeadsTo

(* What is gathered is all that is found where the relation leads.         *)
LEMMA GatheredAlong ==
    ASSUME NEW r, NEW b, NEW x, NEW y \in LeadsTo(r, x)
    PROVE  b[y] \subseteq Gathered(r, b, x)
BY DEF Gathered

LEMMA GatheredIs ==
    ASSUME NEW r, NEW b, NEW x, NEW t
    PROVE  t \in Gathered(r, b, x) <=> \E y \in LeadsTo(r, x) : t \in b[y]
BY DEF Gathered

(* What is gathered from a neighbour is gathered here too.                 *)
LEMMA GatheredFromNext ==
    ASSUME NEW T, NEW r \in [T -> SUBSET T], NEW b, NEW x \in T, NEW y \in r[x]
    PROVE  Gathered(r, b, y) \subseteq Gathered(r, b, x)
<1>1. DOMAIN r = T /\ y \in T
  OBVIOUS
<1>2. LeadsTo(r, y) \subseteq LeadsTo(r, x)
  <2> SUFFICES ASSUME NEW z \in LeadsTo(r, y), NEW S \in SUBSET T, x \in S, Stays(r, S) PROVE z \in S
    BY <1>1 DEF LeadsTo
  <2>1. y \in S
    BY DEF Stays
  <2> QED
    BY <1>1, <2>1 DEF LeadsTo
<1> QED
  BY <1>2 DEF Gathered

(* What computeLALRSets works on, and what it is to arrive at.             *)
Null == isNullable
ReadsRel == [x \in Transitions |-> Reads(x)]
IncludesRel == [x \in Transitions |-> Includes(x)]
DirectReads == [x \in Transitions |-> DirectRead(x)]
ReadSets == [x \in Transitions |-> Gathered(ReadsRel, DirectReads, x)]
FollowSets == [x \in Transitions |-> Gathered(IncludesRel, ReadSets, x)]

(* The edges on nonterminals, and what the relations relate.               *)
LEMMA TransitionFacts ==
    ASSUME Built, NEW x \in Transitions
    PROVE  /\ x.from \in DOMAIN items /\ x.sym \in Nonterminals(grammar) /\ x.sym \in Symbols(grammar)
           /\ x = [from |-> x.from, sym |-> x.sym]
           /\ goto[x.from][x.sym] # 0 /\ Dest(x) = goto[x.from][x.sym]
           /\ Dest(x) \in DOMAIN items /\ x.from \in pred[Dest(x)] /\ accessSym[Dest(x)] = x.sym
           /\ items[Dest(x)] = Shift(grammar, items[x.from], x.sym)
<1>1. /\ x.from \in DOMAIN items /\ x.sym \in Nonterminals(grammar) /\ goto[x.from][x.sym] # 0
      /\ x = [from |-> x.from, sym |-> x.sym]
  BY BuiltFacts DEF Transitions, Edges
<1>2. x.sym \in Symbols(grammar)
  BY <1>1, BuiltFacts
<1>3. Dest(x) \in DOMAIN items /\ x.from \in pred[Dest(x)] /\ accessSym[Dest(x)] = x.sym
  BY <1>1, <1>2, EdgeIsWanted DEF Dest
<1>4. items[Dest(x)] = Shift(grammar, items[x.from], x.sym)
  BY <1>1, <1>2, <1>3 DEF Built, TInv, IInv, EdgesAreShifts, Dest
<1> QED
  BY <1>1, <1>2, <1>3, <1>4 DEF Dest

LEMMA TransitionIs ==
    ASSUME Built, NEW p \in DOMAIN items, NEW A \in Nonterminals(grammar), goto[p][A] # 0
    PROVE  [from |-> p, sym |-> A] \in Transitions
BY BuiltFacts DEF Transitions, Edges

LEMMA RelationTypes ==
    ASSUME Built
    PROVE  /\ ReadsRel \in [Transitions -> SUBSET Transitions]
           /\ IncludesRel \in [Transitions -> SUBSET Transitions]
           /\ DirectReads \in [Transitions -> SUBSET Terminals(grammar)]
           /\ Null \subseteq Nonterminals(grammar)
<1>1. \A x \in Transitions : Reads(x) \subseteq Transitions
  BY DEF Reads
<1>2. \A x \in Transitions : Includes(x) \subseteq Transitions
  BY IncludesFindsEdges DEF Built, TInv
<1>3. \A x \in Transitions : DirectRead(x) \subseteq Terminals(grammar)
  BY DEF DirectRead
<1> QED
  BY <1>1, <1>2, <1>3 DEF ReadsRel, IncludesRel, DirectReads, Null, Built, MarksSet
-----------------------------------------------------------------------------
(* An item of a state, field by field.                                     *)
LEMMA ItemFacts ==
    ASSUME Built, NEW q \in DOMAIN items, NEW i \in items[q]
    PROVE  /\ i \in Items(grammar) /\ i.rule \in RuleIds(grammar) /\ i.pos \in Nat
           /\ i = [rule |-> i.rule, pos |-> i.pos] /\ RuleLength(grammar, i.rule) \in Nat
           /\ i.pos <= RuleLength(grammar, i.rule)
           /\ i.pos > 0 => accessSym[q] = grammar.rules[i.rule].syms[i.pos]
<1>1. i \in Items(grammar)
  BY BuiltFacts
<1>2. /\ i.rule \in RuleIds(grammar) /\ i.pos \in Nat /\ i = [rule |-> i.rule, pos |-> i.pos]
      /\ RuleLength(grammar, i.rule) \in Nat
  BY <1>1, BuiltFacts, RuleLengthType DEF Items
<1>3. i.pos > 0 => /\ i.pos <= RuleLength(grammar, i.rule)
                   /\ accessSym[q] = grammar.rules[i.rule].syms[i.pos]
  BY <1>2 DEF Built, TInv, IInv, AccessSymOfItems
<1> QED
  BY <1>1, <1>2, <1>3

(* Along the relation reads, nullable symbols are passed.                  *)
LEMMA WalkNullable ==
    ASSUME Built, NEW x \in Transitions, NEW y \in LeadsTo(ReadsRel, x),
           NEW r, NEW m \in Nat, NEW n \in Nat, [rule |-> r, pos |-> m] \in items[Dest(y)],
           m + n <= RuleLength(grammar, r), \A l \in m + 1 .. m + n : grammar.rules[r].syms[l] \in Null
    PROVE  \E z \in LeadsTo(ReadsRel, x) : [rule |-> r, pos |-> m + n] \in items[Dest(z)]
<1> DEFINE L == LeadsTo(ReadsRel, x)
           T == {k \in 0 .. n : \E z \in L : [rule |-> r, pos |-> m + k] \in items[Dest(z)]}
<1>1. L \subseteq Transitions /\ y \in L
  BY RelationTypes DEF LeadsTo
<1>2. 0 \in T
  <2>1. 0 \in 0 .. n /\ m + 0 = m
    OBVIOUS
  <2> QED
    BY <1>1, <2>1
<1>3. ASSUME NEW i \in 0 .. n, NEW j \in 0 .. n, i \in T, j = i + 1 PROVE j \in T
  <2>1. PICK z \in L : [rule |-> r, pos |-> m + i] \in items[Dest(z)]
    BY <1>3
  <2> DEFINE I == [rule |-> r, pos |-> m + i]
             B == NextSym(grammar, I)
             w == [from |-> Dest(z), sym |-> B]
  <2>2. z \in Transitions /\ Dest(z) \in DOMAIN items
    BY <1>1, TransitionFacts
  <2>3. I.rule = r /\ I.pos = m + i /\ I.pos \in Nat /\ RuleLength(grammar, r) \in Nat
    BY <2>1, <2>2, ItemFacts
  <2>4. ~IsEnd(grammar, I) /\ m + j = I.pos + 1 /\ m + j \in m + 1 .. m + n
    BY <1>3, <2>3 DEF IsEnd
  <2>5. B = grammar.rules[r].syms[m + j]
    BY <2>3, <2>4 DEF NextSym
  <2>6. B \in Null /\ B \in Nonterminals(grammar)
    BY <2>4, <2>5, RelationTypes
  <2> HIDE DEF I
  <2>7. /\ goto[Dest(z)][B] \in DOMAIN items /\ Moved(I) \in items[goto[Dest(z)][B]]
    BY <2>1, <2>2, <2>4, ItemLeadsOn DEF I
  <2> HIDE DEF B
  <2>8. goto[Dest(z)][B] # 0
    BY <2>7, BuiltFacts
  <2>9. w \in Transitions /\ w.from = Dest(z) /\ w.sym = B
    BY <2>2, <2>6, <2>8, TransitionIs
  <2> HIDE DEF w
  <2>10. w \in ReadsRel[z]
    BY <2>2, <2>6, <2>9 DEF ReadsRel, Reads, Null
  <2>11. w \in L
    <3>1. z \in LeadsTo(ReadsRel, x) /\ ReadsRel \in [Transitions -> SUBSET Transitions]
      BY <2>1, RelationTypes
    <3> QED
      BY <2>10, <3>1, LeadsToNext
  <2>12. Dest(w) = goto[Dest(z)][B] /\ Moved(I) = [rule |-> r, pos |-> m + j]
    BY <2>3, <2>4, <2>9 DEF Dest, Moved
  <2> QED
    BY <2>7, <2>11, <2>12
<1>4. 0 .. n \subseteq T
  <2> HIDE DEF T
  <2> QED
    BY ONLY <1>2, <1>3, n \in Nat, UpTo
<1> QED
  BY <1>4

(* What comes first somewhere along reads is in the read sets.             *)
LEMMA FirstIsRead ==
    ASSUME Built, NEW x \in Transitions, NEW y \in LeadsTo(ReadsRel, x), NEW i \in items[Dest(y)],
           NEW t, ComesFirst(grammar, Null, i, t)
    PROVE  t \in ReadSets[x]
<1> DEFINE L == LeadsTo(ReadsRel, x)
           C == {Z \in Symbols(grammar) : \E z \in L : goto[Dest(z)][Z] # 0}
<1>1. L \subseteq Transitions /\ y \in L /\ IsGrammar(grammar)
  BY RelationTypes, BuiltFacts DEF LeadsTo
<1>2. ASSUME NEW z \in L, NEW r \in RuleIds(grammar), NEW m \in Nat, NEW k \in m + 1 .. RuleLength(grammar, r),
             [rule |-> r, pos |-> m] \in items[Dest(z)],
             \A l \in m + 1 .. k - 1 : grammar.rules[r].syms[l] \in Null
      PROVE  grammar.rules[r].syms[k] \in C
  <2> DEFINE n == k - 1 - m
             Y == grammar.rules[r].syms[k]
             I == [rule |-> r, pos |-> k - 1]
  <2>1. RuleLength(grammar, r) \in Nat
    BY <1>1, RuleLengthType
  <2>2. n \in Nat /\ m + n = k - 1 /\ m + n <= RuleLength(grammar, r) /\ k \in 1 .. RuleLength(grammar, r)
    BY <2>1
  <2> HIDE DEF n
  <2>3. PICK w \in L : [rule |-> r, pos |-> m + n] \in items[Dest(w)]
    BY <1>2, <2>2, WalkNullable
  <2>4. I \in items[Dest(w)] /\ I.pos = k - 1 /\ I.rule = r
    BY <2>2, <2>3
  <2>5. ~IsEnd(grammar, I) /\ NextSym(grammar, I) = Y
    BY <2>1, <2>2, <2>4 DEF IsEnd, NextSym
  <2>6. Dest(w) \in DOMAIN items
    BY <1>1, TransitionFacts
  <2> HIDE DEF I, Y
  <2>7. Y \in Symbols(grammar) /\ goto[Dest(w)][Y] \in DOMAIN items
    BY <2>4, <2>5, <2>6, ItemLeadsOn
  <2>8. goto[Dest(w)][Y] # 0
    BY <2>7, BuiltFacts
  <2> QED
    BY <2>7, <2>8 DEF Y
<1>3. BeginClosed(grammar, Null, C)
  <2> SUFFICES ASSUME NEW r \in RuleIds(grammar), NEW k \in 1 .. RuleLength(grammar, r),
                      grammar.rules[r].nonterm \in C,
                      \A l \in 1 .. k - 1 : grammar.rules[r].syms[l] \in Null
               PROVE  grammar.rules[r].syms[k] \in C
    BY DEF BeginClosed, BeginsAfter
  <2> DEFINE A == grammar.rules[r].nonterm
  <2>1. PICK z \in L : goto[Dest(z)][A] # 0
    OBVIOUS
  <2>2. A \in Nonterminals(grammar) /\ A \in Symbols(grammar) /\ r \in RulesOf(grammar, A)
    BY <1>1, RuleNonterm, BuiltFacts DEF RulesOf
  <2>3. Dest(z) \in DOMAIN items
    BY <1>1, TransitionFacts
  <2> HIDE DEF A
  <2>4. PICK j \in items[Dest(z)] : ~IsEnd(grammar, j) /\ NextSym(grammar, j) = A
    BY <2>1, <2>2, <2>3, EdgeIsWanted
  <2>5. [rule |-> r, pos |-> 0] \in items[Dest(z)]
    BY <2>2, <2>3, <2>4, StateIsClosed DEF IsClosed
  <2>6. 0 \in Nat /\ 0 + 1 = 1
    OBVIOUS
  <2> HIDE DEF C
  <2> QED
    BY <1>2, <2>5, <2>6
<1>4. Dest(y) \in DOMAIN items
  BY <1>1, TransitionFacts
<1>5. i.rule \in RuleIds(grammar) /\ i.pos \in Nat /\ [rule |-> i.rule, pos |-> i.pos] \in items[Dest(y)]
  BY <1>4, ItemFacts
<1>6. PICK k \in i.pos + 1 .. RuleLength(grammar, i.rule) :
         /\ \A m \in i.pos + 1 .. k - 1 : grammar.rules[i.rule].syms[m] \in Null
         /\ t \in BeginsWith(grammar, grammar.rules[i.rule].syms[k], Null)
  BY DEF ComesFirst
<1> DEFINE Y == grammar.rules[i.rule].syms[k]
<1>7. Y \in C
  <2> HIDE DEF C
  <2> QED
    BY <1>1, <1>2, <1>5, <1>6
<1>8. t \in C /\ t \in Terminals(grammar)
  <2>1. C \in SUBSET Symbols(grammar) /\ Y \in Symbols(grammar)
    BY <1>7
  <2> HIDE DEF C, Y
  <2> QED
    BY <1>1, <1>3, <1>6, <1>7, <2>1, BeginsWithin DEF Y
<1>9. PICK z \in L : goto[Dest(z)][t] # 0
  BY <1>8
<1>10. z \in Transitions /\ t \in DirectReads[z]
  BY <1>1, <1>8, <1>9 DEF DirectReads, DirectRead
<1> QED
  BY <1>9, <1>10, GatheredIs DEF ReadSets
-----------------------------------------------------------------------------
(* The reference finds no more than the code.                              *)
FollowedBy(q, i, t) ==
    LET A == grammar.rules[i.rule].nonterm
    IN  \E p \in Back({q}, i.pos) : goto[p][A] # 0 /\ t \in FollowSets[[from |-> p, sym |-> A]]

Triples == [st : DOMAIN items, item : Items(grammar), la : Nat]

Followed ==
    {tr \in Triples :
        /\ tr.item \in items[tr.st]
        /\ (tr.item.rule = StartRule(grammar) /\ tr.la = 0) \/ FollowedBy(tr.st, tr.item, tr.la)}

(* The follow sets are of terminals, and hold the read sets.               *)
LEMMA FollowSetsType ==
    ASSUME Built, NEW x \in Transitions
    PROVE  FollowSets[x] \subseteq Terminals(grammar) /\ ReadSets[x] \subseteq FollowSets[x]
<1>1. \A y \in Transitions : ReadSets[y] \subseteq Terminals(grammar)
  <2> SUFFICES ASSUME NEW y \in Transitions, NEW t \in ReadSets[y] PROVE t \in Terminals(grammar)
    OBVIOUS
  <2>1. PICK z \in LeadsTo(ReadsRel, y) : t \in DirectReads[z]
    BY GatheredIs DEF ReadSets
  <2>2. z \in Transitions
    BY RelationTypes DEF LeadsTo
  <2> QED
    BY <2>1, <2>2, RelationTypes
<1>2. FollowSets[x] \subseteq Terminals(grammar)
  <2> SUFFICES ASSUME NEW t \in FollowSets[x] PROVE t \in Terminals(grammar)
    OBVIOUS
  <2>1. PICK z \in LeadsTo(IncludesRel, x) : t \in ReadSets[z]
    BY GatheredIs DEF FollowSets
  <2>2. z \in Transitions
    BY RelationTypes DEF LeadsTo
  <2> QED
    BY <1>1, <2>1, <2>2
<1>3. x \in LeadsTo(IncludesRel, x)
  BY RelationTypes, LeadsToItself
<1>4. ReadSets[x] \subseteq FollowSets[x]
  BY <1>3, GatheredAlong DEF FollowSets
<1> QED
  BY <1>2, <1>4

(* The steps of the reference, in the words used here.                     *)
LEMMA SuccessorsAre ==
    ASSUME NEW tr, tr.item \in Items(grammar), ~IsEnd(grammar, tr.item), NEW s
    PROVE  s \in Successors(tr, Null) <=>
              LET X == NextSym(grammar, tr.item)
              IN  \/ s = [st |-> goto[tr.st][X], item |-> Moved(tr.item), la |-> tr.la]
                  \/ \E r \in RulesOf(grammar, X), t \in AfterNext(grammar, tr, Null) :
                        s = [st |-> tr.st, item |-> [rule |-> r, pos |-> 0], la |-> t]
<1>1. [tr.item EXCEPT !.pos = @ + 1] = Moved(tr.item)
  BY DEF Items, Moved
<1> QED
  BY <1>1 DEF Successors, Null

LEMMA NothingAfterEnd ==
    ASSUME NEW tr, IsEnd(grammar, tr.item)
    PROVE  Successors(tr, Null) = {}
BY DEF Successors

(* What follows an item follows it when it has moved on.                   *)
LEMMA FollowMoves ==
    ASSUME Built, NEW tr \in Followed, ~IsEnd(grammar, tr.item)
    PROVE  [st |-> goto[tr.st][NextSym(grammar, tr.item)], item |-> Moved(tr.item), la |-> tr.la] \in Followed
<1> DEFINE q == tr.st
           i == tr.item
           d == goto[q][NextSym(grammar, i)]
           A == grammar.rules[i.rule].nonterm
           s == [st |-> d, item |-> Moved(i), la |-> tr.la]
<1>1. q \in DOMAIN items /\ i \in items[q] /\ tr.la \in Nat
  BY DEF Followed, Triples
<1>2. d \in DOMAIN items /\ Moved(i) \in items[d] /\ q \in pred[d]
  BY <1>1, ItemLeadsOn
<1>3. i.pos \in Nat /\ Moved(i).rule = i.rule /\ Moved(i).pos = i.pos + 1 /\ Moved(i) \in Items(grammar)
  BY <1>1, <1>2, ItemFacts DEF Moved
<1> HIDE DEF q, i, d
<1>4. ASSUME FollowedBy(q, i, tr.la) PROVE FollowedBy(d, Moved(i), tr.la)
  <2>1. PICK p \in Back({q}, i.pos) : goto[p][A] # 0 /\ tr.la \in FollowSets[[from |-> p, sym |-> A]]
    BY <1>4 DEF FollowedBy
  <2>2. Back({d}, i.pos + 1) = UNION {Back({o}, i.pos) : o \in pred[d]}
    BY <1>3, BackFirst
  <2>3. p \in Back({d}, i.pos + 1)
    <3>1. p \in UNION {Back({o}, i.pos) : o \in pred[d]}
      BY <1>2, <2>1
    <3> QED
      BY <2>2, <3>1
  <2> QED
    BY <1>3, <2>1, <2>3 DEF FollowedBy
<1>5. (i.rule = StartRule(grammar) /\ tr.la = 0) \/ FollowedBy(q, i, tr.la)
  BY DEF Followed, q, i
<1>6. s \in Triples /\ s.st = d /\ s.item = Moved(i) /\ s.la = tr.la
  BY <1>1, <1>2, <1>3 DEF Triples
<1> HIDE DEF s
<1>7. s \in Followed
  BY <1>2, <1>3, <1>4, <1>5, <1>6 DEF Followed
<1> QED
  BY <1>7 DEF s, q, i, d

(* What follows the rules that begin before an item is in the follow set   *)
(* of the edge on their nonterminal: it is read there, or the edge         *)
(* includes the one that the item's own followers are found at.            *)
LEMMA FollowBegins ==
    ASSUME Built, NEW tr \in Followed, ~IsEnd(grammar, tr.item),
           NEW r \in RulesOf(grammar, NextSym(grammar, tr.item)), NEW t \in AfterNext(grammar, tr, Null)
    PROVE  [st |-> tr.st, item |-> [rule |-> r, pos |-> 0], la |-> t] \in Followed
<1> DEFINE q == tr.st
           i == tr.item
           X == NextSym(grammar, i)
           x == [from |-> q, sym |-> X]
           A == grammar.rules[i.rule].nonterm
           j == [rule |-> r, pos |-> 0]
           s == [st |-> q, item |-> j, la |-> t]
<1>1. q \in DOMAIN items /\ i \in items[q] /\ tr.la \in Nat /\ IsGrammar(grammar)
  BY BuiltFacts DEF Followed, Triples
<1>2. i \in Items(grammar) /\ i.rule \in RuleIds(grammar) /\ i.pos \in Nat /\ RuleLength(grammar, i.rule) \in Nat
  BY <1>1, ItemFacts
<1>3. r \in RuleIds(grammar) /\ grammar.rules[r].nonterm = X
  BY DEF RulesOf
<1>4. X \in Nonterminals(grammar)
  BY <1>1, <1>3, RuleNonterm
<1>5. goto[q][X] \in DOMAIN items /\ Moved(i) \in items[goto[q][X]]
  BY <1>1, ItemLeadsOn
<1>6. goto[q][X] # 0
  BY <1>5, BuiltFacts
<1>7. j \in items[q] /\ j \in Items(grammar)
  <2>1. j \in items[q]
    BY <1>1, <1>4, StateIsClosed DEF IsClosed
  <2> QED
    BY <1>1, <2>1, ItemFacts
<1>8. ComesFirst(grammar, Null, Moved(i), t) \/ (t = tr.la /\ Vanishes(grammar, Null, i.rule, i.pos + 1))
  BY <1>1, <1>2, AfterNextIs
<1>9. (i.rule = StartRule(grammar) /\ tr.la = 0) \/ FollowedBy(q, i, tr.la)
  BY DEF Followed
<1> HIDE DEF q, i, X, j
<1>10. x \in Transitions /\ Dest(x) = goto[q][X] /\ x.from = q /\ x.sym = X
  BY <1>1, <1>4, <1>6, TransitionIs DEF Dest
<1> HIDE DEF x
<1>11. ASSUME ComesFirst(grammar, Null, Moved(i), t) PROVE t \in FollowSets[x]
  <2>1. x \in LeadsTo(ReadsRel, x)
    BY <1>10, RelationTypes, LeadsToItself
  <2>2. Moved(i) \in items[Dest(x)]
    BY <1>5, <1>10
  <2>3. t \in ReadSets[x]
    BY <1>10, <1>11, <2>1, <2>2, FirstIsRead
  <2> QED
    BY <1>10, <2>3, FollowSetsType
<1>12. ASSUME t = tr.la /\ Vanishes(grammar, Null, i.rule, i.pos + 1) PROVE t \in FollowSets[x]
  <2>1. i.pos + 1 <= RuleLength(grammar, i.rule) /\ i.pos + 1 \in 0 .. RuleLength(grammar, i.rule)
        /\ i.pos + 1 \in 1 .. RuleLength(grammar, i.rule)
    BY <1>2 DEF IsEnd, i
  <2>2. i.rule # StartRule(grammar)
    <3> SUFFICES ASSUME i.rule = StartRule(grammar) PROVE FALSE
      OBVIOUS
    <3>1. RuleLength(grammar, i.rule) = 2 /\ grammar.rules[i.rule].syms[2] = EofSymbol(grammar)
      BY <1>1 DEF IsGrammar, RuleLength
    <3>2. EofSymbol(grammar) \in Terminals(grammar)
      BY <1>1 DEF EofSymbol, Terminals, IsGrammar
    <3>3. EofSymbol(grammar) \notin Nonterminals(grammar)
      BY <3>2, BuiltFacts
    <3>4. CASE i.pos = 0
      <4>1. grammar.rules[i.rule].syms[2] \in Null
        <5>1. 2 \in i.pos + 1 + 1 .. RuleLength(grammar, i.rule)
          BY <3>1, <3>4
        <5> QED
          BY <1>12, <5>1 DEF Vanishes
      <4> QED
        BY <3>1, <3>3, <4>1, RelationTypes
    <3>5. CASE i.pos = 1
      <4>1. X = EofSymbol(grammar)
        BY <3>1, <3>5 DEF X, NextSym
      <4> QED
        BY <1>4, <3>3, <4>1
    <3> QED
      BY <1>2, <2>1, <3>1, <3>4, <3>5
  <2>3. PICK p \in Back({q}, i.pos) : goto[p][A] # 0 /\ t \in FollowSets[[from |-> p, sym |-> A]]
    BY <1>9, <1>12, <2>2 DEF FollowedBy
  <2> DEFINE y == [from |-> p, sym |-> A]
  <2>4. p \in DOMAIN items
    <3>1. [rule |-> i.rule, pos |-> i.pos] \in items[q] /\ i.pos <= i.pos
      BY <1>1, <1>2, ItemFacts
    <3> QED
      BY <1>1, <1>2, <2>3, <3>1, BackHoldsItem DEF Built, TInv
  <2>5. A \in Nonterminals(grammar)
    BY <1>1, <1>2, RuleNonterm
  <2> HIDE DEF A
  <2>6. y \in Transitions
    BY <2>3, <2>4, <2>5, TransitionIs
  <2>7. y \in IncludesRel[x]
    <3>1. Moved(i).rule = i.rule /\ Moved(i).pos = i.pos + 1 /\ Moved(i).pos > 0 /\ Moved(i).pos - 1 = i.pos
      BY <1>2 DEF Moved
    <3>2. minLength[i.rule] <= i.pos + 1
      <4>1. MinLength(grammar, i.rule, Null) <= i.pos + 1
        BY <1>1, <1>2, <1>12, <2>1, MinLengthIs
      <4> QED
        BY <1>1, <1>2, <4>1 DEF Built, MarksSet, Null
    <3>3. Moved(i) \in TailItems(x)
      BY <1>5, <1>10, <3>1, <3>2 DEF TailItems
    <3>4. y \in {[from |-> o, sym |-> grammar.rules[Moved(i).rule].nonterm] :
                     o \in Back({x.from}, Moved(i).pos - 1)}
      BY <1>10, <2>3, <3>1 DEF A
    <3> HIDE DEF y
    <3>5. y \in Includes(x)
      BY <3>3, <3>4 DEF Includes
    <3> QED
      BY <1>10, <3>5 DEF IncludesRel
  <2>8. t \in FollowSets[y]
    BY <2>3
  <2> HIDE DEF y
  <2>9. FollowSets[y] \subseteq FollowSets[x]
    <3>1. IncludesRel \in [Transitions -> SUBSET Transitions]
      BY RelationTypes
    <3> QED
      BY <1>10, <2>6, <2>7, <3>1, GatheredFromNext DEF FollowSets
  <2> QED
    BY <2>8, <2>9
<1>13. t \in FollowSets[x]
  BY <1>8, <1>11, <1>12
<1>14. FollowedBy(q, j, t)
  <2>1. j.pos = 0 /\ grammar.rules[j.rule].nonterm = X
    BY <1>3 DEF j
  <2>2. q \in Back({q}, 0)
    BY BackNone
  <2> QED
    BY <1>6, <1>13, <2>1, <2>2 DEF FollowedBy, x
<1>15. t \in Nat
  BY <1>10, <1>13, FollowSetsType DEF Terminals
<1>16. s \in Triples /\ s.st = q /\ s.item = j /\ s.la = t
  BY <1>1, <1>7, <1>15 DEF Triples
<1> HIDE DEF s
<1>17. s \in Followed
  BY <1>7, <1>14, <1>16 DEF Followed
<1> QED
  BY <1>17 DEF s, q, j

(* So the follow sets account for all of the least set of triples ...      *)
Least(nullable) == {tr \in Triples : \A T \in SUBSET Triples : PropagatesIn(T, nullable) => tr \in T}
AllTriples == Least(Null)

LEMMA FollowedPropagates ==
    ASSUME Built
    PROVE  PropagatesIn(Followed, Null)
<1>1. FirstTriple \in Followed
  <2> DEFINE i == [rule |-> StartRule(grammar), pos |-> 0]
  <2>1. i \in items[1] /\ 1 \in DOMAIN items
    BY BuiltFacts DEF Built, TInv, StartKept, StartItems
  <2>2. i \in Items(grammar)
    BY <2>1, ItemFacts
  <2>3. FirstTriple.st = 1 /\ FirstTriple.item = i /\ FirstTriple.la = 0 /\ i.rule = StartRule(grammar)
    BY DEF FirstTriple
  <2>4. FirstTriple \in Triples
    BY <2>1, <2>2 DEF FirstTriple, Triples
  <2> QED
    BY <2>1, <2>3, <2>4 DEF Followed
<1>2. ASSUME NEW tr \in Followed, NEW s \in Successors(tr, Null) PROVE s \in Followed
  <2>1. tr.item \in Items(grammar)
    BY DEF Followed, Triples
  <2>2. ~IsEnd(grammar, tr.item)
    BY <1>2, NothingAfterEnd
  <2>3. CASE s = [st |-> goto[tr.st][NextSym(grammar, tr.item)], item |-> Moved(tr.item), la |-> tr.la]
    BY <2>2, <2>3, FollowMoves
  <2>4. ASSUME NEW r \in RulesOf(grammar, NextSym(grammar, tr.item)), NEW t \in AfterNext(grammar, tr, Null),
               s = [st |-> tr.st, item |-> [rule |-> r, pos |-> 0], la |-> t]
        PROVE  s \in Followed
    BY <2>2, <2>4, FollowBegins
  <2> QED
    BY <1>2, <2>1, <2>2, <2>3, <2>4, SuccessorsAre
<1> QED
  BY <1>1, <1>2 DEF PropagatesIn

(* What vanishes in fewer symbols has no more to follow.                   *)
LEMMA BeginsMore ==
    ASSUME NEW g, IsGrammar(g), NEW few, NEW many, few \subseteq many, NEW X \in Symbols(g)
    PROVE  BeginsWith(g, X, few) \subseteq BeginsWith(g, X, many)
<1>1. PICK S \in SUBSET Symbols(g) : /\ BeginsWith(g, X, many) = S \intersect Terminals(g)
                                     /\ X \in S /\ BeginClosed(g, many, S)
  BY BeginsWithIs
<1>2. \A Y : BeginsAfter(g, few, S, Y) => BeginsAfter(g, many, S, Y)
  BY DEF BeginsAfter
<1>3. BeginClosed(g, few, S)
  BY <1>1, <1>2 DEF BeginClosed
<1>4. BeginsWith(g, X, few) \subseteq S \intersect Terminals(g)
  BY <1>1, <1>3, BeginsWithin
<1> QED
  BY <1>1, <1>4

LEMMA AfterNextMore ==
    ASSUME NEW g, IsGrammar(g), NEW few, NEW many, few \subseteq many,
           NEW tr, tr.item \in Items(g), NEW t \in AfterNext(g, tr, few)
    PROVE  t \in AfterNext(g, tr, many)
<1> DEFINE i == Moved(tr.item)
<1>1. i.rule = tr.item.rule /\ i.rule \in RuleIds(g) /\ i.pos \in Nat
  BY DEF Moved, Items
<1> HIDE DEF i
<1>2. ASSUME ComesFirst(g, few, i, t) PROVE ComesFirst(g, many, i, t)
  <2>1. PICK k \in i.pos + 1 .. RuleLength(g, i.rule) :
           /\ \A m \in i.pos + 1 .. k - 1 : g.rules[i.rule].syms[m] \in few
           /\ t \in BeginsWith(g, g.rules[i.rule].syms[k], few)
    BY <1>2 DEF ComesFirst
  <2>2. k \in 1 .. RuleLength(g, i.rule)
    BY <1>1, <2>1, RuleLengthType
  <2>3. g.rules[i.rule].syms[k] \in Symbols(g)
    BY <1>1, <2>2, RightSideSymbols
  <2>4. t \in BeginsWith(g, g.rules[i.rule].syms[k], many)
    BY <2>1, <2>3, BeginsMore
  <2> QED
    BY <2>1, <2>4 DEF ComesFirst
<1>3. Vanishes(g, few, tr.item.rule, tr.item.pos + 1) => Vanishes(g, many, tr.item.rule, tr.item.pos + 1)
  BY DEF Vanishes
<1> QED
  BY <1>2, <1>3, AfterNextIs DEF i

LEMMA PropagatesMore ==
    ASSUME IsGrammar(grammar), NEW few, NEW many, few \subseteq many,
           NEW T \in SUBSET Triples, PropagatesIn(T, many)
    PROVE  PropagatesIn(T, few)
<1> SUFFICES ASSUME NEW tr \in T, NEW s \in Successors(tr, few) PROVE s \in Successors(tr, many)
  BY DEF PropagatesIn
<1>1. tr.item \in Items(grammar)
  BY DEF Triples
<1>2. \A t \in AfterNext(grammar, tr, few) : t \in AfterNext(grammar, tr, many)
  BY <1>1, AfterNextMore
<1> QED
  BY <1>2 DEF Successors

LEMMA LeastMore ==
    ASSUME IsGrammar(grammar), NEW few, NEW many, few \subseteq many
    PROVE  Least(few) \subseteq Least(many)
BY PropagatesMore DEF Least

LEMMA LeastIs ==
    ASSUME Built, NEW nullable \in SUBSET Null
    PROVE  Least(nullable) \subseteq Followed /\ PropagatesIn(Least(nullable), nullable)
<1>1. Followed \in SUBSET Triples /\ PropagatesIn(Followed, nullable)
  <2>1. Followed \in SUBSET Triples /\ PropagatesIn(Followed, Null) /\ IsGrammar(grammar)
    BY FollowedPropagates, BuiltFacts DEF Followed
  <2> QED
    BY <2>1, PropagatesMore
<1>2. Least(nullable) \subseteq Followed
  BY <1>1 DEF Least
<1>3. FirstTriple \in Least(nullable)
  BY <1>1 DEF Least, PropagatesIn
<1>4. ASSUME NEW tr \in Least(nullable), NEW s \in Successors(tr, nullable) PROVE s \in Least(nullable)
  <2>1. s \in Triples
    BY <1>1, <1>2 DEF PropagatesIn
  <2>2. ASSUME NEW T \in SUBSET Triples, PropagatesIn(T, nullable) PROVE s \in T
    <3>1. tr \in T
      BY <2>2 DEF Least
    <3> QED
      BY <2>2, <3>1 DEF PropagatesIn
  <2> QED
    BY <2>1, <2>2 DEF Least
<1> QED
  BY <1>2, <1>3, <1>4 DEF PropagatesIn

LEMMA AllTriplesAre ==
    ASSUME Built
    PROVE  AllTriples \subseteq Followed /\ PropagatesIn(AllTriples, Null)
BY LeastIs DEF AllTriples

(* ... which is what the reference arrives at.                             *)
LEMMA PropagatedIsLeast ==
    ASSUME Built, NEW nullable \in SUBSET Null, Propagated(nullable).new = {}
    PROVE  Propagated(nullable).all = Least(nullable)
<1>1. /\ Propagated(nullable).all \subseteq Least(nullable)
      /\ PropagatesIn(Propagated(nullable).all, nullable)
  BY LeastIs, PropagatedIs
<1>2. Propagated(nullable).all \in SUBSET Triples
  BY <1>1 DEF Least
<1> QED
  BY <1>1, <1>2 DEF Least

-----------------------------------------------------------------------------
(* The reference finds no less than the code: it comes to every item.      *)
Triple(q, i, t) == [st |-> q, item |-> i, la |-> t]
Has(q, i) == \E t : Triple(q, i, t) \in AllTriples
AllBegun(q, A) == \A r \in RulesOf(grammar, A) : Has(q, [rule |-> r, pos |-> 0])

(* The reference moves on along an edge ...                                *)
LEMMA TripleMoves ==
    ASSUME Built, NEW q, NEW i \in Items(grammar), ~IsEnd(grammar, i), NEW t,
           Triple(q, i, t) \in AllTriples
    PROVE  Triple(goto[q][NextSym(grammar, i)], Moved(i), t) \in AllTriples
<1> DEFINE tr == Triple(q, i, t)
           s == Triple(goto[q][NextSym(grammar, i)], Moved(i), t)
<1>1. tr.st = q /\ tr.item = i /\ tr.la = t
  BY DEF Triple
<1>2. s = [st |-> goto[tr.st][NextSym(grammar, tr.item)], item |-> Moved(tr.item), la |-> tr.la]
  BY <1>1 DEF Triple
<1> HIDE DEF tr, s
<1>3. s \in Successors(tr, Null)
  BY <1>1, <1>2, SuccessorsAre
<1>4. PropagatesIn(AllTriples, Null)
  BY AllTriplesAre
<1> QED
  BY <1>3, <1>4 DEF PropagatesIn, tr, s

(* ... and begins the rules that are wanted.                               *)
LEMMA TripleBegins ==
    ASSUME Built, NEW q, NEW i \in Items(grammar), ~IsEnd(grammar, i), NEW t,
           Triple(q, i, t) \in AllTriples,
           NEW r \in RulesOf(grammar, NextSym(grammar, i)), NEW u \in AfterNext(grammar, Triple(q, i, t), Null)
    PROVE  Triple(q, [rule |-> r, pos |-> 0], u) \in AllTriples
<1> DEFINE tr == Triple(q, i, t)
           s == Triple(q, [rule |-> r, pos |-> 0], u)
<1>1. tr.st = q /\ tr.item = i /\ tr.la = t
  BY DEF Triple
<1>2. s = [st |-> tr.st, item |-> [rule |-> r, pos |-> 0], la |-> u]
  BY <1>1 DEF Triple
<1>3. u \in AfterNext(grammar, tr, Null)
  OBVIOUS
<1> HIDE DEF tr, s
<1>4. s \in Successors(tr, Null)
  BY <1>1, <1>2, <1>3, SuccessorsAre
<1>5. PropagatesIn(AllTriples, Null)
  BY AllTriplesAre
<1> QED
  BY <1>4, <1>5 DEF PropagatesIn, tr, s

(* There is something to begin them with, as every nonterminal can begin.  *)
LEMMA CanBeginMarked ==
    ASSUME Built, CanBegin(grammar), NEW A \in Nonterminals(grammar), A \notin Null
    PROVE  \E u : u \in BeginsWith(grammar, A, Null)
<1>1. IsGrammar(grammar) /\ NullableSet(grammar) \subseteq Null /\ A \in Symbols(grammar)
  BY BuiltFacts, SymbolKinds DEF Built, MarksSet, Null
<1>2. PICK u : u \in BeginsWith(grammar, A, NullableSet(grammar))
  BY <1>1 DEF CanBegin
<1> QED
  BY <1>1, <1>2, BeginsMore

LEMMA SomethingFollows ==
    ASSUME Built, CanBegin(grammar), NEW i \in Items(grammar), NEW tr, tr.item = i
    PROVE  \E u : u \in AfterNext(grammar, tr, Null)
<1> DEFINE n == RuleLength(grammar, i.rule)
           s == grammar.rules[i.rule].syms
           K == {k \in i.pos + 2 .. n : s[k] \notin Null}
<1>1. /\ IsGrammar(grammar) /\ i.rule \in RuleIds(grammar) /\ i.pos \in Nat /\ n \in Nat
  BY BuiltFacts, RuleLengthType DEF Items
<1>2. CASE K = {}
  <2>1. Vanishes(grammar, Null, i.rule, i.pos + 1)
    <3>1. \A k \in i.pos + 1 + 1 .. n : k \in i.pos + 2 .. n
      BY <1>1
    <3> QED
      BY <1>2, <3>1 DEF Vanishes
  <2> QED
    BY <1>1, <2>1, AfterNextIs
<1>3. CASE K # {}
  <2>1. K \in SUBSET Nat
    BY <1>1
  <2>2. PICK k \in K : \A m \in K : k <= m
    <3> HIDE DEF K
    <3> QED
      BY <1>3, <2>1, LeastNat
  <2> DEFINE Y == s[k]
  <2>3. k \in 1 .. n /\ k \in i.pos + 2 .. n /\ Y \notin Null
    BY <1>1
  <2>4. \A m \in i.pos + 2 .. k - 1 : s[m] \in Null
    <3> SUFFICES ASSUME NEW m \in i.pos + 2 .. k - 1, s[m] \notin Null PROVE FALSE
      OBVIOUS
    <3>1. m \in i.pos + 2 .. n /\ m < k /\ k \in Nat
      BY <1>1, <2>3
    <3>2. m \in K
      BY <3>1
    <3> HIDE DEF K
    <3>3. k <= m
      BY <2>2, <3>2
    <3> QED
      BY <3>1, <3>3
  <2>5. Y \in Symbols(grammar)
    BY <1>1, <2>3, RightSideSymbols
  <2> HIDE DEF Y, n
  <2>6. \E u : u \in BeginsWith(grammar, Y, Null)
    <3>1. CASE Y \in Terminals(grammar)
      BY <1>1, <3>1, BeginsItself
    <3>2. CASE Y \in Nonterminals(grammar)
      BY <2>3, <3>2, CanBeginMarked
    <3> QED
      BY <1>1, <2>5, <3>1, <3>2, SymbolKinds
  <2>7. PICK u : u \in BeginsWith(grammar, Y, Null)
    BY <2>6
  <2>8. Moved(i).rule = i.rule /\ Moved(i).pos + 1 = i.pos + 2
    BY <1>1 DEF Moved
  <2>9. ComesFirst(grammar, Null, Moved(i), u)
    BY <2>3, <2>4, <2>7, <2>8 DEF ComesFirst, Y, n
  <2> QED
    BY <1>1, <2>9, AfterNextIs
<1> QED
  BY <1>2, <1>3

LEMMA BegunAfter ==
    ASSUME Built, CanBegin(grammar),
           NEW q, NEW i \in Items(grammar), ~IsEnd(grammar, i), Has(q, i)
    PROVE  AllBegun(q, NextSym(grammar, i))
<1>1. PICK t : Triple(q, i, t) \in AllTriples
  BY DEF Has
<1> DEFINE tr == Triple(q, i, t)
<1>2. tr.item = i
  BY DEF Triple
<1>3. PICK u : u \in AfterNext(grammar, tr, Null)
  <2> HIDE DEF tr
  <2> QED
    BY <1>2, SomethingFollows
<1>4. \A r \in RulesOf(grammar, NextSym(grammar, i)) : Triple(q, [rule |-> r, pos |-> 0], u) \in AllTriples
  BY <1>1, <1>3, TripleBegins
<1> QED
  BY <1>4 DEF AllBegun, Has

(* The rules that are begun begin further ones, the whole closure.         *)
LEMMA ClosureHasTriples ==
    ASSUME Built, CanBegin(grammar), NEW q, NEW seeds,
           \A A \in seeds : AllBegun(q, A), NEW i \in Closure(grammar, seeds)
    PROVE  Has(q, i)
<1> DEFINE S == {A \in Nonterminals(grammar) : AllBegun(q, A)}
<1>1. IsGrammar(grammar)
  BY BuiltFacts
<1>2. LeftCornerClosed(grammar, S)
  <2> SUFFICES ASSUME NEW r \in RuleIds(grammar), grammar.rules[r].nonterm \in S, RuleLength(grammar, r) > 0
               PROVE  grammar.rules[r].syms[1] \in S \union Terminals(grammar)
    BY DEF LeftCornerClosed
  <2> DEFINE j == [rule |-> r, pos |-> 0]
             B == grammar.rules[r].syms[1]
  <2>1. Has(q, j)
    BY DEF AllBegun, RulesOf
  <2>2. j \in Items(grammar) /\ j.rule = r /\ j.pos = 0 /\ 0 + 1 = 1
    BY DEF Items
  <2> HIDE DEF j
  <2>3. RuleLength(grammar, r) \in Nat
    BY <1>1, RuleLengthType
  <2>4. ~IsEnd(grammar, j) /\ NextSym(grammar, j) = B
    BY <2>2, <2>3 DEF IsEnd, NextSym
  <2>5. AllBegun(q, B)
    BY <2>1, <2>2, <2>4, BegunAfter
  <2>6. B \in Symbols(grammar)
    BY <1>1, <2>3, RightSideSymbols
  <2> QED
    BY <1>1, <2>5, <2>6, SymbolKinds
<1>3. S \in SUBSET Nonterminals(grammar) /\ seeds \intersect Nonterminals(grammar) \subseteq S
  OBVIOUS
<1>4. PICK r \in RuleIds(grammar) :
         i = [rule |-> r, pos |-> 0] /\ grammar.rules[r].nonterm \in LeftCorners(grammar, seeds)
  BY DEF Closure
<1> HIDE DEF S
<1>5. grammar.rules[r].nonterm \in S
  BY <1>2, <1>3, <1>4 DEF LeftCorners
<1>6. r \in RulesOf(grammar, grammar.rules[r].nonterm)
  BY DEF RulesOf
<1> QED
  BY <1>4, <1>5, <1>6 DEF S, AllBegun

(* Every item of every state.                                              *)
LEMMA StatesHaveTriples ==
    ASSUME Built, CanBegin(grammar), NEW q \in DOMAIN items, NEW i \in items[q]
    PROVE  Has(q, i)
<1> DEFINE All(s) == \A j \in items[s] : Has(s, j)
           S == {s \in DOMAIN items : ~All(s)}
<1>1. /\ IsGrammar(grammar) /\ DOMAIN items = 1 .. Len(items) /\ Len(items) \in Nat
      /\ \A s \in DOMAIN items : items[s] \in SUBSET Items(grammar)
  BY BuiltFacts
<1>2. SUFFICES ASSUME S # {} PROVE FALSE
  <2>1. S = {} => Has(q, i)
    OBVIOUS
  <2> QED
    BY <1>2, <2>1
<1>3. PICK s \in S : \A o \in S : s <= o
  <2>1. S \in SUBSET Nat
    BY <1>1
  <2> HIDE DEF S
  <2> QED
    BY <1>2, <2>1, LeastNat
<1>4. s \in DOMAIN items /\ ~All(s) /\ \A o \in DOMAIN items : o < s => All(o)
  <2>1. \A o \in DOMAIN items : ~All(o) => o \in S
    OBVIOUS
  <2>2. s \in DOMAIN items /\ ~All(s)
    OBVIOUS
  <2> HIDE DEF All, S
  <2>3. \A o \in DOMAIN items : o < s => o \notin S
    BY <1>1, <1>3, <2>2
  <2> QED
    BY <2>1, <2>2, <2>3
<1> HIDE DEF S
<1>5. CASE s = 1
  <2> DEFINE f == [rule |-> StartRule(grammar), pos |-> 0]
             A == grammar.rules[StartRule(grammar)].syms[1]
             seeds == {A}
  <2>1. items[1] = {f} \union Closure(grammar, seeds)
    BY DEF Built, TInv, StartKept, StartItems
  <2>2. f \in items[1]
    BY <2>1
  <2>3. Has(1, f)
    <3>1. Triple(1, f, 0) = FirstTriple
      BY DEF Triple, FirstTriple
    <3>2. FirstTriple \in AllTriples
      BY AllTriplesAre DEF PropagatesIn
    <3> QED
      BY <3>1, <3>2 DEF Has
  <2>4. f \in Items(grammar) /\ f.rule = StartRule(grammar) /\ f.pos = 0 /\ 0 + 1 = 1
    BY <1>1, <1>4, <1>5, <2>2
  <2> HIDE DEF f
  <2>5. ~IsEnd(grammar, f) /\ NextSym(grammar, f) = A
    <3>1. RuleLength(grammar, StartRule(grammar)) = 2
      BY <1>1 DEF IsGrammar, RuleLength
    <3> QED
      BY <2>4, <3>1 DEF IsEnd, NextSym
  <2>6. \A B \in seeds : AllBegun(1, B)
    BY <2>3, <2>4, <2>5, BegunAfter
  <2> HIDE DEF seeds
  <2>7. \A j \in Closure(grammar, seeds) : Has(1, j)
    BY <2>6, ClosureHasTriples
  <2> QED
    BY <1>4, <1>5, <2>1, <2>3, <2>7
<1>6. CASE s # 1
  <2>1. PICK p \in DOMAIN items, x \in Symbols(grammar) : p < s /\ goto[p][x] = s
    BY <1>1, <1>4, <1>6 DEF Built, TInv, ReachedEarlier
  <2> DEFINE K == Kernel(grammar, items[p], x)
             seeds == {NextSym(grammar, j) : j \in {l \in K : ~IsEnd(grammar, l)}}
  <2>2. items[s] = K \union Closure(grammar, seeds)
    <3>1. items[s] = Shift(grammar, items[p], x)
      BY <1>4, <2>1 DEF Built, TInv, IInv, EdgesAreShifts
    <3> QED
      BY <3>1 DEF Shift
  <2>3. \A j \in K : Has(s, j)
    <3> SUFFICES ASSUME NEW j \in K PROVE Has(s, j)
      OBVIOUS
    <3>1. PICK l \in items[p] : ~IsEnd(grammar, l) /\ NextSym(grammar, l) = x /\ j = Moved(l)
      BY DEF Kernel, Moved
    <3>2. Has(p, l) /\ l \in Items(grammar)
      BY <1>1, <1>4, <2>1, <3>1
    <3>3. PICK t : Triple(p, l, t) \in AllTriples
      BY <3>2 DEF Has
    <3>4. Triple(s, j, t) \in AllTriples
      BY <2>1, <3>1, <3>2, <3>3, TripleMoves
    <3> QED
      BY <3>4 DEF Has
  <2>4. \A A \in seeds : AllBegun(s, A)
    <3> SUFFICES ASSUME NEW j \in K, ~IsEnd(grammar, j) PROVE AllBegun(s, NextSym(grammar, j))
      OBVIOUS
    <3>1. j \in Items(grammar)
      BY <1>1, <1>4, <2>2
    <3> HIDE DEF K
    <3> QED
      BY <2>3, <3>1, BegunAfter
  <2> HIDE DEF seeds
  <2>5. \A j \in Closure(grammar, seeds) : Has(s, j)
    BY <2>4, ClosureHasTriples
  <2> QED
    BY <1>4, <2>2, <2>3, <2>5
<1> QED
  BY <1>5, <1>6
-----------------------------------------------------------------------------
(* What may follow an item at its beginning may follow it further on.      *)
LEMMA TripleForward ==
    ASSUME Built, NEW r, NEW n \in Nat, NEW p \in DOMAIN items,
           [rule |-> r, pos |-> n] \in items[p], NEW q \in Back({p}, n), NEW t,
           Triple(q, [rule |-> r, pos |-> 0], t) \in AllTriples
    PROVE  Triple(p, [rule |-> r, pos |-> n], t) \in AllTriples
<1> DEFINE At(k) == [rule |-> r, pos |-> k]
           T == {k \in 0 .. n : \A s \in DOMAIN items :
                                   At(k) \in items[s] /\ q \in Back({s}, k) => Triple(s, At(k), t) \in AllTriples}
<1>1. 0 \in T
  <2>1. 0 \in 0 .. n
    OBVIOUS
  <2>2. \A s : q \in Back({s}, 0) => q = s
    BY BackNone
  <2> QED
    BY <2>1, <2>2
<1>2. ASSUME NEW i \in 0 .. n, NEW j \in 0 .. n, i \in T, j = i + 1 PROVE j \in T
  <2> SUFFICES ASSUME NEW s \in DOMAIN items, At(j) \in items[s], q \in Back({s}, j)
               PROVE  Triple(s, At(j), t) \in AllTriples
    OBVIOUS
  <2>1. i \in Nat /\ j > 0 /\ j - 1 = i
    BY <1>2
  <2>2. Back({s}, i + 1) = UNION {Back({o}, i) : o \in pred[s]}
    BY <2>1, BackFirst
  <2>3. q \in UNION {Back({o}, i) : o \in pred[s]}
    BY <1>2, <2>2
  <2>4. PICK o \in pred[s] : q \in Back({o}, i)
    BY <2>3
  <2>5. o \in DOMAIN items
    BY BuiltFacts
  <2>6. /\ At(j).rule = r /\ At(j).pos = j /\ At(i).rule = r /\ At(i).pos = i
        /\ [At(j) EXCEPT !.pos = j - 1] = At(i)
    BY <2>1
  <2>7. At(i) \in items[o]
    <3>1. [At(j) EXCEPT !.pos = At(j).pos - 1] \in items[o]
      <4> HIDE DEF At
      <4> QED
        BY <2>1, <2>6, OriginFromIInv DEF Built, TInv, PredHoldsOrigin
    <3> QED
      BY <2>6, <3>1
  <2>8. Triple(o, At(i), t) \in AllTriples
    BY <1>2, <2>4, <2>5, <2>7
  <2> HIDE DEF At
  <2>9. /\ accessSym[s] = grammar.rules[r].syms[j] /\ j <= RuleLength(grammar, r) /\ RuleLength(grammar, r) \in Nat
    BY <2>1, <2>6, ItemFacts
  <2>10. goto[o][accessSym[s]] = s
    BY <2>5 DEF Built, TInv, IInv, PredIsConverse
  <2>11. ~IsEnd(grammar, At(i)) /\ NextSym(grammar, At(i)) = accessSym[s] /\ Moved(At(i)) = At(j)
    <3>1. Moved(At(i)) = At(j)
      BY <1>2, <2>6 DEF Moved, At
    <3> QED
      BY <1>2, <2>1, <2>6, <2>9, <3>1 DEF IsEnd, NextSym
  <2>12. At(i) \in Items(grammar)
    BY <2>5, <2>7, ItemFacts
  <2> QED
    BY <2>8, <2>10, <2>11, <2>12, TripleMoves
<1>3. 0 .. n \subseteq T
  <2> HIDE DEF T
  <2> QED
    BY ONLY <1>1, <1>2, n \in Nat, UpTo
<1>4. n \in T
  BY <1>3
<1> QED
  BY <1>4

(* The terminal follows the edge, in the reference.                        *)
Justified(x, t) ==
    \A r \in RulesOf(grammar, x.sym) : Triple(x.from, [rule |-> r, pos |-> 0], t) \in AllTriples
ComesInKernel(x, t) == \E j \in items[Dest(x)] : j.pos > 0 /\ ComesFirst(grammar, Null, j, t)

(* What comes first in a state comes first after one of its kernel items.  *)
LEMMA ComesInState ==
    ASSUME Built, NEW x \in Transitions, NEW i \in items[Dest(x)], NEW t, ComesFirst(grammar, Null, i, t)
    PROVE  ComesInKernel(x, t)
<1>1. /\ IsGrammar(grammar) /\ items[x.from] \in SUBSET Items(grammar) /\ x.sym \in Symbols(grammar)
      /\ items[Dest(x)] = Shift(grammar, items[x.from], x.sym)
  BY TransitionFacts, BuiltFacts
<1> QED
  BY <1>1, ComesForKernel DEF ComesInKernel

(* The kernel item of the edge's destination, before the edge.             *)
LEMMA BeforeEdge ==
    ASSUME Built, NEW x \in Transitions, NEW j \in items[Dest(x)], j.pos > 0
    PROVE  \E i \in items[x.from] : /\ ~IsEnd(grammar, i) /\ NextSym(grammar, i) = x.sym /\ Moved(i) = j
                                    /\ i.rule = j.rule /\ i.pos = j.pos - 1
<1>1. /\ x.from \in DOMAIN items /\ Dest(x) \in DOMAIN items /\ x.from \in pred[Dest(x)]
      /\ accessSym[Dest(x)] = x.sym
  BY TransitionFacts
<1>2. /\ j.rule \in RuleIds(grammar) /\ j.pos \in Nat /\ j = [rule |-> j.rule, pos |-> j.pos]
      /\ RuleLength(grammar, j.rule) \in Nat /\ j.pos <= RuleLength(grammar, j.rule)
      /\ x.sym = grammar.rules[j.rule].syms[j.pos]
  BY <1>1, ItemFacts
<1> DEFINE i == [j EXCEPT !.pos = j.pos - 1]
<1>3. i \in items[x.from]
  BY <1>1, OriginFromIInv DEF Built, TInv, PredHoldsOrigin
<1>4. i.rule = j.rule /\ i.pos = j.pos - 1 /\ i.pos + 1 = j.pos
  BY <1>2
<1> HIDE DEF i
<1>5. ~IsEnd(grammar, i) /\ NextSym(grammar, i) = x.sym
  BY <1>2, <1>4 DEF IsEnd, NextSym
<1>6. Moved(i) = j
  BY <1>2, <1>4 DEF Moved
<1> QED
  BY <1>3, <1>4, <1>5, <1>6

(* What the relation reads finds comes first after a kernel item.          *)
LEMMA ReadComesInKernel ==
    ASSUME Built, NEW x \in Transitions, NEW y \in LeadsTo(ReadsRel, x), NEW t \in DirectReads[y]
    PROVE  ComesInKernel(x, t)
<1> DEFINE Bad == {z \in Transitions : ~ComesInKernel(z, t)}
<1>1. Stays(ReadsRel, Bad)
  <2> SUFFICES ASSUME NEW z \in Transitions, NEW w \in ReadsRel[z], ComesInKernel(w, t)
               PROVE  ComesInKernel(z, t)
    BY RelationTypes DEF Stays
  <2>1. w \in Transitions /\ w.from = Dest(z) /\ w.sym \in Null
    BY DEF ReadsRel, Reads, Null
  <2>2. PICK j \in items[Dest(w)] : j.pos > 0 /\ ComesFirst(grammar, Null, j, t)
    BY DEF ComesInKernel
  <2>3. PICK i \in items[w.from] : /\ ~IsEnd(grammar, i) /\ NextSym(grammar, i) = w.sym
                                   /\ i.rule = j.rule /\ i.pos = j.pos - 1
    BY <2>1, <2>2, BeforeEdge
  <2>4. Dest(w) \in DOMAIN items
    BY <2>1, TransitionFacts
  <2>5. j.pos \in Nat /\ RuleLength(grammar, j.rule) \in Nat
    BY <2>4, ItemFacts
  <2>6. i.pos + 1 = j.pos /\ grammar.rules[i.rule].syms[j.pos] \in Null
    BY <2>1, <2>3, <2>5 DEF NextSym
  <2>7. PICK k \in j.pos + 1 .. RuleLength(grammar, j.rule) :
           /\ \A m \in j.pos + 1 .. k - 1 : grammar.rules[j.rule].syms[m] \in Null
           /\ t \in BeginsWith(grammar, grammar.rules[j.rule].syms[k], Null)
    BY <2>2 DEF ComesFirst
  <2>8. k \in i.pos + 1 .. RuleLength(grammar, i.rule)
    BY <2>3, <2>5, <2>6
  <2>9. \A m \in i.pos + 1 .. k - 1 : m = j.pos \/ m \in j.pos + 1 .. k - 1
    BY <2>5, <2>6
  <2>10. ComesFirst(grammar, Null, i, t)
    BY <2>3, <2>6, <2>7, <2>8, <2>9 DEF ComesFirst
  <2>11. i \in items[Dest(z)]
    BY <2>1, <2>3
  <2> QED
    BY <2>10, <2>11, ComesInState
<1>2. y \in Transitions
  BY RelationTypes DEF LeadsTo
<1>3. ComesInKernel(y, t)
  <2>1. t \in Terminals(grammar) /\ goto[Dest(y)][t] # 0
    BY <1>2 DEF DirectReads, DirectRead
  <2>2. Dest(y) \in DOMAIN items /\ t \in Symbols(grammar)
    BY <1>2, <2>1, TransitionFacts, BuiltFacts
  <2>3. PICK i \in items[Dest(y)] : ~IsEnd(grammar, i) /\ NextSym(grammar, i) = t
    BY <2>1, <2>2, EdgeIsWanted
  <2>4. i.pos \in Nat /\ RuleLength(grammar, i.rule) \in Nat
    BY <2>2, ItemFacts
  <2>5. i.pos + 1 \in i.pos + 1 .. RuleLength(grammar, i.rule) /\ \A m : m \notin i.pos + 1 .. (i.pos + 1) - 1
    BY <2>3, <2>4 DEF IsEnd
  <2>6. t \in BeginsWith(grammar, grammar.rules[i.rule].syms[i.pos + 1], Null)
    BY <2>1, <2>3, BeginsItself, BuiltFacts DEF NextSym
  <2>7. ComesFirst(grammar, Null, i, t)
    BY <2>5, <2>6 DEF ComesFirst
  <2> QED
    BY <1>2, <2>7, ComesInState
<1>4. SUFFICES ASSUME x \in Bad PROVE FALSE
  OBVIOUS
<1>5. LeadsTo(ReadsRel, x) \subseteq Bad
  <2>1. ReadsRel \in [Transitions -> SUBSET Transitions] /\ Bad \in SUBSET Transitions
    BY RelationTypes
  <2> HIDE DEF Bad
  <2> QED
    BY <1>1, <1>4, <2>1, LeadsToWithin
<1> QED
  BY <1>3, <1>5
-----------------------------------------------------------------------------
(* What is read after an edge may follow it in the reference ...           *)
LEMMA ReadIsJustified ==
    ASSUME Built, CanBegin(grammar), NEW x \in Transitions, NEW t \in ReadSets[x]
    PROVE  Justified(x, t)
<1>1. PICK y \in LeadsTo(ReadsRel, x) : t \in DirectReads[y]
  BY GatheredIs DEF ReadSets
<1>2. PICK j \in items[Dest(x)] : j.pos > 0 /\ ComesFirst(grammar, Null, j, t)
  BY <1>1, ReadComesInKernel DEF ComesInKernel
<1>3. PICK i \in items[x.from] : ~IsEnd(grammar, i) /\ NextSym(grammar, i) = x.sym /\ Moved(i) = j
  BY <1>2, BeforeEdge
<1>4. x.from \in DOMAIN items /\ i \in Items(grammar) /\ IsGrammar(grammar)
  BY TransitionFacts, BuiltFacts
<1>5. PICK u : Triple(x.from, i, u) \in AllTriples
  BY <1>4, StatesHaveTriples DEF Has
<1> DEFINE tr == Triple(x.from, i, u)
<1>6. tr.item = i
  BY DEF Triple
<1> HIDE DEF tr
<1>7. t \in AfterNext(grammar, tr, Null)
  BY <1>2, <1>3, <1>4, <1>6, AfterNextIs
<1>8. t \in AfterNext(grammar, Triple(x.from, i, u), Null)
  BY <1>7 DEF tr
<1> QED
  BY <1>3, <1>4, <1>5, <1>8, TripleBegins DEF Justified

(* ... and so may what follows it through the relation includes.           *)
LEMMA FollowIsJustified ==
    ASSUME Built, CanBegin(grammar), NEW x \in Transitions, NEW t \in FollowSets[x]
    PROVE  Justified(x, t)
<1> DEFINE Bad == {z \in Transitions : ~Justified(z, t)}
<1>1. PICK y \in LeadsTo(IncludesRel, x) : t \in ReadSets[y]
  BY GatheredIs DEF FollowSets
<1>2. y \in Transitions
  BY RelationTypes DEF LeadsTo
<1>3. Justified(y, t)
  BY <1>1, <1>2, ReadIsJustified
<1>4. Stays(IncludesRel, Bad)
  <2> SUFFICES ASSUME NEW z \in Transitions, NEW w \in IncludesRel[z], Justified(w, t)
               PROVE  Justified(z, t)
    BY RelationTypes DEF Stays
  <2>1. w \in Transitions /\ w \in Includes(z)
    BY RelationTypes DEF IncludesRel
  <2>2. PICK j \in TailItems(z) :
           w \in {[from |-> q, sym |-> grammar.rules[j.rule].nonterm] : q \in Back({z.from}, j.pos - 1)}
    BY <2>1 DEF Includes
  <2>3. w.from \in Back({z.from}, j.pos - 1) /\ w.sym = grammar.rules[j.rule].nonterm
    BY <2>2
  <2>4. j \in items[Dest(z)] /\ j.pos > 0 /\ minLength[j.rule] <= j.pos
    BY DEF TailItems
  <2>5. PICK i \in items[z.from] : /\ ~IsEnd(grammar, i) /\ NextSym(grammar, i) = z.sym
                                   /\ i.rule = j.rule /\ i.pos = j.pos - 1
    BY <2>4, BeforeEdge
  <2>6. z.from \in DOMAIN items /\ Dest(z) \in DOMAIN items /\ IsGrammar(grammar)
    BY TransitionFacts, BuiltFacts
  <2>7. /\ i \in Items(grammar) /\ i.rule \in RuleIds(grammar) /\ i.pos \in Nat
        /\ i = [rule |-> i.rule, pos |-> i.pos]
    BY <2>6, ItemFacts
  <2>8. j.pos \in 0 .. RuleLength(grammar, i.rule) /\ i.pos + 1 = j.pos
    <3>1. j.pos \in Nat /\ j.pos <= RuleLength(grammar, j.rule) /\ RuleLength(grammar, j.rule) \in Nat
      BY <2>4, <2>6, ItemFacts
    <3> QED
      BY <2>5, <3>1
  <2>9. Vanishes(grammar, Null, i.rule, i.pos + 1)
    <3>1. MinLength(grammar, i.rule, Null) <= j.pos
      BY <2>4, <2>5, <2>7 DEF Built, MarksSet, Null
    <3> QED
      BY <2>6, <2>7, <2>8, <3>1, MinLengthIs
  <2>10. Triple(w.from, [rule |-> i.rule, pos |-> 0], t) \in AllTriples
    BY <2>3, <2>5, <2>7 DEF Justified, RulesOf
  <2>11. Triple(z.from, i, t) \in AllTriples
    <3>1. [rule |-> i.rule, pos |-> i.pos] \in items[z.from] /\ w.from \in Back({z.from}, i.pos)
      BY <2>3, <2>5, <2>7
    <3>2. Triple(z.from, [rule |-> i.rule, pos |-> i.pos], t) \in AllTriples
      BY <2>6, <2>7, <2>10, <3>1, TripleForward
    <3> QED
      BY <2>7, <3>2
  <2> DEFINE tr == Triple(z.from, i, t)
  <2>12. tr.item = i /\ tr.la = t
    BY DEF Triple
  <2> HIDE DEF tr
  <2>13. t \in AfterNext(grammar, tr, Null)
    BY <2>6, <2>7, <2>9, <2>12, AfterNextIs
  <2>14. t \in AfterNext(grammar, Triple(z.from, i, t), Null)
    BY <2>13 DEF tr
  <2> QED
    BY <2>5, <2>7, <2>11, <2>14, TripleBegins DEF Justified
<1>5. SUFFICES ASSUME x \in Bad PROVE FALSE
  OBVIOUS
<1>6. LeadsTo(IncludesRel, x) \subseteq Bad
  <2>1. IncludesRel \in [Transitions -> SUBSET Transitions] /\ Bad \in SUBSET Transitions
    BY RelationTypes
  <2> HIDE DEF Bad
  <2> QED
    BY <1>4, <1>5, <2>1, LeadsToWithin
<1> QED
  BY <1>1, <1>3, <1>6

(* The lookaheads of a reduction, gathered from the follow sets, are those *)
(* of the reference.                                                       *)
FollowsOf(q, r) ==
    LET A == grammar.rules[r].nonterm
    IN  UNION {FollowSets[[from |-> p, sym |-> A]] :
                 p \in {o \in Back({q}, RuleLength(grammar, r)) : goto[o][A] # 0}}

LooksAhead(q, r) == Follows1(AllTriples, q, r)

(* The reference finds no more than they hold ...                          *)
LEMMA LooksAheadIsHeld ==
    ASSUME Built, NEW q \in DOMAIN items, NEW r \in reduces[q]
    PROVE  LooksAhead(q, r) \subseteq FollowsOf(q, r)
<1> DEFINE A == grammar.rules[r].nonterm
           n == RuleLength(grammar, r)
           i == [rule |-> r, pos |-> n]
<1>1. reduces[q] = ReduceRules(grammar, items[q]) /\ IsGrammar(grammar)
  BY BuiltFacts DEF Built, TInv, ReducesSet
<1>2. PICK j \in items[q] : j.pos = RuleLength(grammar, j.rule) /\ r = j.rule
  BY <1>1 DEF ReduceRules
<1>3. i \in items[q] /\ i \in Items(grammar) /\ r \in RuleIds(grammar) /\ n \in Nat
  BY <1>2, ItemFacts
<1>4. A \in Nonterminals(grammar)
  BY <1>1, <1>3, RuleNonterm
<1> HIDE DEF A, n
<1>5. SUFFICES ASSUME NEW t \in LooksAhead(q, r) PROVE t \in FollowsOf(q, r)
  OBVIOUS
<1>6. PICK tr \in AllTriples :
         tr.st = q /\ tr.item.rule = r /\ tr.item.pos = n /\ tr.la = t /\ t \in Terminals(grammar)
  BY DEF LooksAhead, Follows1, n
<1>7. tr \in Followed
  BY AllTriplesAre
<1>8. tr.item \in Items(grammar) /\ t # 0
  BY <1>6, <1>7 DEF Followed, Triples, Terminals
<1>9. tr.item = i
  BY <1>6, <1>8 DEF Items
<1>10. FollowedBy(q, i, t)
  BY <1>6, <1>7, <1>8, <1>9 DEF Followed
<1>11. \E p \in Back({q}, n) : goto[p][A] # 0 /\ t \in FollowSets[[from |-> p, sym |-> A]]
  BY <1>10 DEF FollowedBy, A
<1> QED
  BY <1>11 DEF FollowsOf, A, n

(* ... and no less: they are the lookaheads of the reference.              *)
LEMMA LooksAheadIsFollows ==
    ASSUME Built, CanBegin(grammar), NEW q \in DOMAIN items, NEW r \in reduces[q]
    PROVE  FollowsOf(q, r) = LooksAhead(q, r)
<1> DEFINE A == grammar.rules[r].nonterm
           n == RuleLength(grammar, r)
           i == [rule |-> r, pos |-> n]
<1>1. reduces[q] = ReduceRules(grammar, items[q]) /\ IsGrammar(grammar)
  BY BuiltFacts DEF Built, TInv, ReducesSet
<1>2. PICK j \in items[q] : j.pos = RuleLength(grammar, j.rule) /\ r = j.rule
  BY <1>1 DEF ReduceRules
<1>3. i \in items[q] /\ i \in Items(grammar) /\ r \in RuleIds(grammar) /\ n \in Nat
  BY <1>2, ItemFacts
<1>4. A \in Nonterminals(grammar)
  BY <1>1, <1>3, RuleNonterm
<1> HIDE DEF A, n
<1>5. \A p \in Back({q}, n) : p \in DOMAIN items
  <2>1. n <= n
    BY <1>3
  <2> QED
    BY <1>3, <2>1, BackHoldsItem DEF Built, TInv
<1>6. \A t : t \in FollowsOf(q, r) <=>
               \E p \in Back({q}, n) : goto[p][A] # 0 /\ t \in FollowSets[[from |-> p, sym |-> A]]
  BY DEF FollowsOf, A, n
<1>7. ASSUME NEW t \in FollowsOf(q, r) PROVE t \in LooksAhead(q, r)
  <2>1. PICK p \in Back({q}, n) : goto[p][A] # 0 /\ t \in FollowSets[[from |-> p, sym |-> A]]
    BY <1>6
  <2> DEFINE x == [from |-> p, sym |-> A]
  <2>2. x \in Transitions /\ x.from = p /\ x.sym = A
    BY <1>4, <1>5, <2>1, TransitionIs
  <2>3. t \in FollowSets[x]
    BY <2>1
  <2> HIDE DEF x
  <2>4. Justified(x, t) /\ t \in Terminals(grammar)
    BY <2>2, <2>3, FollowIsJustified, FollowSetsType
  <2>5. Triple(p, [rule |-> r, pos |-> 0], t) \in AllTriples
    BY <1>3, <2>2, <2>4 DEF Justified, RulesOf, A
  <2>6. Triple(q, i, t) \in AllTriples
    BY <1>3, <2>5, TripleForward
  <2>7. /\ Triple(q, i, t).st = q /\ Triple(q, i, t).item.rule = r /\ Triple(q, i, t).item.pos = n
        /\ Triple(q, i, t).la = t
    BY DEF Triple
  <2> QED
    BY <2>4, <2>6, <2>7 DEF LooksAhead, Follows1, n
<1> QED
  BY <1>7, LooksAheadIsHeld
-----------------------------------------------------------------------------
(* The automaton and the marks stay, and all that is computed from them.   *)
LEMMA TablesKept ==
    ASSUME UNCHANGED vars, UNCHANGED marks
    PROVE  /\ Transitions' = Transitions /\ ReadsRel' = ReadsRel /\ IncludesRel' = IncludesRel
           /\ DirectReads' = DirectReads /\ ReadSets' = ReadSets /\ FollowSets' = FollowSets
           /\ \A q, r : FollowsOf(q, r)' = FollowsOf(q, r)
<1>1. /\ grammar' = grammar /\ goto' = goto /\ items' = items /\ pred' = pred
      /\ isNullable' = isNullable /\ minLength' = minLength
  BY DEF vars, tableVars, marks
<1>2. Transitions' = Transitions
  BY <1>1 DEF Transitions, Edges
<1>3. \A x : Dest(x)' = Dest(x) /\ DirectRead(x)' = DirectRead(x)
  BY <1>1 DEF Dest, DirectRead
<1>4. \A x : Reads(x)' = Reads(x) /\ TailItems(x)' = TailItems(x)
  BY <1>1, <1>2 DEF Reads, TailItems, Dest
<1>5. \A S, n : Back(S, n)' = Back(S, n)
  BY <1>1 DEF Back
<1>6. \A x : Includes(x)' = Includes(x)
  <2> SUFFICES ASSUME NEW x PROVE Includes(x)' = Includes(x)
    OBVIOUS
  <2> SUFFICES ASSUME NEW y PROVE y \in Includes(x)' <=> y \in Includes(x)
    OBVIOUS
  <2>1. y \in Includes(x) <=>
           \E i \in TailItems(x) :
              y \in {[from |-> q, sym |-> grammar.rules[i.rule].nonterm] : q \in Back({x.from}, i.pos - 1)}
    BY DEF Includes
  <2>2. y \in Includes(x)' <=>
           \E i \in TailItems(x)' :
              y \in {[from |-> q, sym |-> grammar'.rules[i.rule].nonterm] : q \in Back({x.from}, i.pos - 1)'}
    BY DEF Includes
  <2> QED
    BY <1>1, <1>4, <1>5, <2>1, <2>2
<1>7. ReadsRel' = ReadsRel /\ IncludesRel' = IncludesRel /\ DirectReads' = DirectReads
  BY <1>2, <1>3, <1>4, <1>6 DEF ReadsRel, IncludesRel, DirectReads
<1>8. ReadSets' = ReadSets
  BY <1>2, <1>7 DEF ReadSets
<1>9. FollowSets' = FollowSets
  BY <1>2, <1>7, <1>8 DEF FollowSets
<1>10. \A q, r : FollowsOf(q, r)' = FollowsOf(q, r)
  BY <1>1, <1>5, <1>9 DEF FollowsOf
<1> QED
  BY <1>2, <1>7, <1>8, <1>9, <1>10

(* A traversal has finitely many nodes.                                    *)
LEMMA TransitionsAreFinite ==
    ASSUME Built
    PROVE  IsFiniteSet(Transitions)
<1> DEFINE P == 1 .. Len(items)
           S == (grammar.lastTerminal + 1) .. grammar.numSymbols
           f == [e \in P \X S |-> [from |-> e[1], sym |-> e[2]]]
<1>1. P = DOMAIN goto /\ S = Nonterminals(grammar) /\ Len(items) \in Nat /\ grammar.numSymbols \in Nat
      /\ grammar.lastTerminal \in Nat
  BY BuiltFacts DEF Nonterminals, IsGrammar
<1> DEFINE R == {f[e] : e \in P \X S}
           a == grammar.lastTerminal + 1
           z == grammar.numSymbols
<1>2. IsFiniteSet(P) /\ IsFiniteSet(S)
  <2>1. a \in Int /\ z \in Int /\ S = a .. z
    BY <1>1
  <2> HIDE DEF a, z
  <2> QED
    BY <1>1, <2>1, FS_Interval
<1> HIDE DEF P, S
<1>3. IsFiniteSet(P \X S)
  BY <1>2, FS_Product
<1>4. IsFiniteSet(R)
  <2>1. f \in Surjection(P \X S, R)
    BY DEF Surjection
  <2> HIDE DEF f, R
  <2> QED
    BY <1>3, <2>1, FS_Surjection
<1>5. Transitions \subseteq R
  <2> SUFFICES ASSUME NEW x \in Transitions PROVE \E e \in P \X S : x = f[e]
    OBVIOUS
  <2>1. PICK p \in P, A \in S : x = [from |-> p, sym |-> A]
    BY <1>1 DEF Transitions, Edges
  <2>2. <<p, A>> \in P \X S /\ f[<<p, A>>] = x
    BY <2>1
  <2> QED
    BY <2>2
<1> QED
  BY <1>4, <1>5, FS_Subset
-----------------------------------------------------------------------------
(* The traversals: what Digraph_proofs knows of any set of nodes, here of  *)
(* the nonterminal edges.                                                  *)
Dp == INSTANCE Digraph_proofs WITH Node <- {}, Elem <- Nat

(* Finite sets are finite there too, and so is the set of no nodes.        *)
LEMMA FiniteThere ==
    ASSUME NEW T, IsFiniteSet(T)
    PROVE  Dp!IsFiniteSet(T)
BY DEF IsFiniteSet, Dp!IsFiniteSet

LEMMA NoNodes == Dp!IsFiniteSet({})
BY FS_EmptySet, FiniteThere

(* A traversal that is done has gathered the sets along its relation.      *)
LEMMA TraversalResult ==
    ASSUME NEW T, Dp!DInv(T), D!Done
    PROVE  /\ stack = <<>> /\ read \in [T -> SUBSET Nat]
           /\ \A x \in T : read[x] = Gathered(rel, base, x)
<1>1. Dp!Done
  BY DEF D!Done, Dp!Done, D!Nodes, Dp!Nodes
<1>2. stack = <<>> /\ \A x \in T : read[x] = Dp!Abstract!Total(rel, base, x)
  BY <1>1, NoNodes, Dp!DoneResult
<1>3. \A x : Dp!Abstract!Total(rel, base, x) = Gathered(rel, base, x)
  BY DEF Dp!Abstract!Total, Dp!Abstract!Reach, Dp!Abstract!Closed, Gathered, LeadsTo, Stays
<1>4. read \in [T -> SUBSET Nat]
  BY DEF Dp!DInv, Dp!Typed
<1> QED
  BY <1>2, <1>3, <1>4

(* Where it starts, N cleared, its invariant holds.                        *)
StartOf(T) ==
    /\ IsFiniteSet(T) /\ rel \in [T -> SUBSET T] /\ base \in [T -> SUBSET Nat] /\ read = base
    /\ D!Clear

StartKnown == \A T : StartOf(T) => Dp!DInv(T)

LEMMA TraversalStarts == StartKnown
<1> SUFFICES ASSUME NEW T, StartOf(T) PROVE Dp!DInv(T)
  BY DEF StartKnown
<1>1. Dp!Clear
  BY DEF StartOf, Dp!Clear, D!Clear, D!Nodes, Dp!Nodes
<1>2. /\ Dp!IsFiniteSet(T) /\ rel \in [T -> SUBSET T] /\ base \in [T -> SUBSET Nat] /\ read = base
  BY FiniteThere DEF StartOf
<1> QED
  BY <1>1, <1>2, NoNodes, Dp!StartInv

(* A step of a traversal in Lalr is a step of Digraph on these nodes.      *)
LEMMA TraversalGoesOn ==
    ASSUME NEW T, Dp!DInv(T),
           \/ \E x \in T : D!StartAt(x)
           \/ D!Descend \/ D!Merge \/ D!ReturnInside \/ D!ReturnComponent
    PROVE  Dp!DInv(T)' /\ rel' = rel /\ base' = base
<1>1. T = Dp!Nodes
  BY NoNodes, Dp!Basics DEF Dp!DInv
<1>2. D!Nodes = Dp!Nodes /\ D!LastCall = Dp!LastCall /\ D!Outer = Dp!Outer
  BY DEF D!Nodes, Dp!Nodes, D!LastCall, Dp!LastCall, D!Outer, Dp!Outer
<1>3. D!Infinity = Dp!Infinity
  <2>1. \A S : D!Cardinality(S) = Dp!Cardinality(S)
    BY DEF D!Cardinality, Dp!Cardinality, D!IsFiniteSet, Dp!IsFiniteSet
  <2> QED
    BY <1>2, <2>1 DEF D!Infinity, Dp!Infinity
<1>4. ASSUME NEW x \in T, D!StartAt(x) PROVE Dp!Next
  <2>1. Dp!StartAt(x)
    BY <1>4 DEF D!StartAt, Dp!StartAt, D!Enter, Dp!Enter, D!Frame, Dp!Frame
  <2> QED
    BY <1>1, <2>1 DEF Dp!Next, Dp!StartRoot
<1>5. D!Descend => Dp!Next
  BY <1>2 DEF Dp!Next, D!Descend, Dp!Descend, D!Enter, Dp!Enter, D!Frame, Dp!Frame
<1>6. D!Merge => Dp!Next
  BY <1>2 DEF Dp!Next, D!Merge, Dp!Merge, D!Neighbour, Dp!Neighbour, D!Absorb, Dp!Absorb, D!MinOf, Dp!MinOf
<1>7. D!ReturnInside => Dp!Next
  BY <1>2 DEF Dp!Next, D!ReturnInside, Dp!ReturnInside, D!LoopDone, Dp!LoopDone
<1>8. D!ReturnComponent => Dp!Next
  BY <1>2, <1>3 DEF Dp!Next, D!ReturnComponent, Dp!ReturnComponent, D!LoopDone, Dp!LoopDone, D!Component, Dp!Component
<1>9. Dp!Next
  BY <1>4, <1>5, <1>6, <1>7, <1>8
<1> QED
  BY <1>9, NoNodes, Dp!DInductive

(* What holds at every point of computeLALRSets.                           *)
Lookaheads(q) == [r \in reduces[q] |-> FollowsOf(q, r)]

TraversalOf(r, b) == \E T : T = Transitions /\ Dp!DInv(T) /\ rel = r /\ base = b

LookaheadsSet ==
    /\ lookState \in Nat \ {0}
    /\ lookahead \in Seq({Lookaheads(q) : q \in DOMAIN items})
    /\ Len(lookahead) = lookState - 1
    /\ \A q \in 1 .. lookState - 1 : lookahead[q] = Lookaheads(q)

LInv ==
    /\ TInv /\ MInv
    /\ phase \in {"nullable", "automaton", "reads", "includes"}
    /\ phase \notin {"nullable", "automaton"} => Constructed
    /\ phase # "includes" => lookState = 1 /\ lookahead = <<>>
    /\ phase = "reads" => TraversalOf(ReadsRel, DirectReads)
    /\ phase = "includes" => TraversalOf(IncludesRel, ReadSets) /\ LookaheadsSet

(* Each part of computeLALRSets keeps it.                                  *)
LEMMA LInvInit == LalrInit => LInv
BY TInvInit, MInvInit DEF LalrInit, LInv

(* The automaton and the marks at the next step, whatever it is.           *)
LEMMA NextTInv == LInv /\ [LalrNext]_allVars => TInv' /\ MInv'
BY TInvInductive, MInvInductive, LalrKeepsTable DEF LInv

LEMMA MarkingLInv ==
    ASSUME LInv, ComputeNullable \/ ComputeMinRuleLengths
    PROVE  LInv'
<1>1. TInv' /\ MInv'
  BY NextTInv DEF LalrNext
<1>2. phase' \in {"nullable", "automaton"} /\ phase = "nullable" /\ UNCHANGED <<lookahead, lookState>>
  BY DEF ComputeNullable, ComputeMinRuleLengths
<1> QED
  BY <1>1, <1>2 DEF LInv

LEMMA ConstructLInv ==
    ASSUME LInv, Construct
    PROVE  LInv'
<1>1. TInv' /\ MInv'
  BY NextTInv DEF LalrNext
<1> QED
  BY <1>1 DEF LInv, Construct

LEMMA StartReadsLInv ==
    ASSUME LInv, StartReads, StartKnown'
    PROVE  LInv'
<1>1. Built
  BY DEF LInv, MInv, Built, StartReads
<1>2. UNCHANGED vars /\ UNCHANGED marks /\ UNCHANGED <<lookahead, lookState>> /\ phase = "automaton" /\ phase' = "reads"
  BY DEF StartReads
<1>3. TInv' /\ MInv' /\ Constructed'
  <2>1. TInv' /\ MInv'
    BY NextTInv DEF LalrNext
  <2> QED
    BY <1>1, <1>2, <2>1 DEF Built, Constructed, vars, tableVars
<1>4. rel' = ReadsRel /\ base' = DirectReads /\ read' = base' /\ N' = Unvisited /\ stack' = <<>> /\ calls' = <<>>
  BY DEF StartReads, ReadsRel, DirectReads
<1>5. PICK T : T = Transitions
  OBVIOUS
<1>6. StartOf(T)'
  <2>1. IsFiniteSet(T) /\ rel' \in [T -> SUBSET T] /\ base' \in [T -> SUBSET Nat]
    <3>1. DirectReads \in [T -> SUBSET Nat]
      BY <1>1, <1>5, RelationTypes DEF Terminals
    <3> QED
      BY <1>1, <1>4, <1>5, <3>1, RelationTypes, TransitionsAreFinite
  <2>2. D!Clear'
    <3>1. DOMAIN rel' = Transitions
      BY <1>5, <2>1
    <3> QED
      BY <1>4, <3>1 DEF D!Clear, D!Nodes, Unvisited
  <2> QED
    BY <1>4, <2>1, <2>2 DEF StartOf
<1>7. Dp!DInv(T)'
  BY <1>6 DEF StartKnown
<1>8. TraversalOf(ReadsRel, DirectReads)'
  BY <1>2, <1>4, <1>5, <1>7, TablesKept DEF TraversalOf
<1> QED
  BY <1>2, <1>3, <1>8 DEF LInv
-----------------------------------------------------------------------------
(* The lookaheads to arrive at stay with the automaton.                    *)
LEMMA LookaheadsKept ==
    ASSUME UNCHANGED vars, UNCHANGED marks
    PROVE  /\ \A q : Lookaheads(q)' = Lookaheads(q)
           /\ {Lookaheads(q) : q \in DOMAIN items}' = {Lookaheads(q) : q \in DOMAIN items}
<1>1. \A q : Lookaheads(q)' = Lookaheads(q)
  BY TablesKept DEF Lookaheads, vars, tableVars
<1> QED
  BY <1>1 DEF vars, tableVars

LEMMA TraverseLInv ==
    ASSUME LInv, Traverse
    PROVE  LInv'
<1>1. UNCHANGED vars /\ UNCHANGED marks /\ UNCHANGED <<phase, lookahead, lookState>> /\ phase \in {"reads", "includes"}
  BY DEF Traverse
<1>2. TInv' /\ MInv' /\ Constructed'
  <2>1. TInv' /\ MInv'
    BY NextTInv DEF LalrNext
  <2> QED
    BY <1>1, <2>1 DEF LInv, Constructed, vars, tableVars
<1>3. ASSUME NEW T, T = Transitions, Dp!DInv(T)
      PROVE  Dp!DInv(T)' /\ rel' = rel /\ base' = base
  <2>1. \/ \E x \in T : D!StartAt(x)
        \/ D!Descend \/ D!Merge \/ D!ReturnInside \/ D!ReturnComponent
    BY <1>3 DEF Traverse
  <2> QED
    BY <1>3, <2>1, TraversalGoesOn
<1>4. ASSUME phase = "reads" PROVE TraversalOf(ReadsRel, DirectReads)'
  <2>1. PICK T : T = Transitions /\ Dp!DInv(T) /\ rel = ReadsRel /\ base = DirectReads
    BY <1>4 DEF LInv, TraversalOf
  <2>2. Dp!DInv(T)' /\ rel' = rel /\ base' = base
    BY <1>3, <2>1
  <2> QED
    BY <1>1, <2>1, <2>2, TablesKept DEF TraversalOf
<1>5. ASSUME phase = "includes" PROVE TraversalOf(IncludesRel, ReadSets)'
  <2>1. PICK T : T = Transitions /\ Dp!DInv(T) /\ rel = IncludesRel /\ base = ReadSets
    BY <1>5 DEF LInv, TraversalOf
  <2>2. Dp!DInv(T)' /\ rel' = rel /\ base' = base
    BY <1>3, <2>1
  <2> QED
    BY <1>1, <2>1, <2>2, TablesKept DEF TraversalOf
<1>6. ASSUME phase = "includes" PROVE LookaheadsSet'
  <2>1. LookaheadsSet
    BY <1>6 DEF LInv
  <2> QED
    BY <1>1, <2>1, LookaheadsKept DEF LookaheadsSet, vars, tableVars
<1> QED
  BY <1>1, <1>2, <1>4, <1>5, <1>6 DEF LInv

LEMMA StartIncludesLInv ==
    ASSUME LInv, StartIncludes, StartKnown'
    PROVE  LInv'
<1>1. /\ Built /\ phase = "reads" /\ D!Done /\ UNCHANGED vars /\ UNCHANGED marks
      /\ UNCHANGED <<lookahead, lookState>>
      /\ phase' = "includes" /\ UNCHANGED <<read, stack, calls>> /\ base' = read /\ N' = Unvisited
      /\ rel' = IncludesRel
  BY DEF LInv, MInv, Built, StartIncludes, IncludesRel
<1>2. TInv' /\ MInv' /\ Constructed'
  <2>1. TInv' /\ MInv'
    BY NextTInv DEF LalrNext
  <2> QED
    BY <1>1, <2>1 DEF Built, Constructed, vars, tableVars
<1>3. PICK T : T = Transitions /\ Dp!DInv(T) /\ rel = ReadsRel /\ base = DirectReads
  BY <1>1 DEF LInv, TraversalOf
<1>4. stack = <<>> /\ read \in [T -> SUBSET Nat] /\ \A x \in T : read[x] = Gathered(rel, base, x)
  BY <1>1, <1>3, TraversalResult
<1>5. read = ReadSets
  BY <1>3, <1>4 DEF ReadSets
<1>6. StartOf(T)'
  <2>1. IsFiniteSet(T) /\ rel' \in [T -> SUBSET T] /\ base' \in [T -> SUBSET Nat] /\ read' = base'
    BY <1>1, <1>3, <1>4, RelationTypes, TransitionsAreFinite
  <2>2. D!Clear'
    <3>1. DOMAIN rel' = Transitions
      BY <1>3, <2>1
    <3>2. calls = <<>>
      BY <1>1 DEF D!Done
    <3> QED
      BY <1>1, <1>4, <3>1, <3>2 DEF D!Clear, D!Nodes, Unvisited
  <2> QED
    BY <2>1, <2>2 DEF StartOf
<1>7. Dp!DInv(T)'
  BY <1>6 DEF StartKnown
<1>8. TraversalOf(IncludesRel, ReadSets)'
  BY <1>1, <1>3, <1>5, <1>7, TablesKept DEF TraversalOf
<1>9. LookaheadsSet'
  <2>1. lookahead = <<>> /\ lookState = 1
    BY <1>1 DEF LInv
  <2> QED
    BY <1>1, <2>1, EmptySeq DEF LookaheadsSet
<1> QED
  BY <1>1, <1>2, <1>8, <1>9 DEF LInv

(* The lookahead loop finds the sets of the finished traversal.            *)
LEMMA LookaheadIs ==
    ASSUME Built, \A x \in Transitions : read[x] = FollowSets[x],
           NEW q \in DOMAIN items, NEW r \in reduces[q]
    PROVE  Lookahead(q, r) = FollowsOf(q, r)
<1> DEFINE A == grammar.rules[r].nonterm
           n == RuleLength(grammar, r)
           O == {o \in Back({q}, n) : goto[o][A] # 0}
<1>1. reduces[q] = ReduceRules(grammar, items[q]) /\ IsGrammar(grammar)
  BY BuiltFacts DEF Built, TInv, ReducesSet
<1>2. PICK j \in items[q] : j.pos = n /\ r = j.rule
  BY <1>1 DEF ReduceRules
<1>3. [rule |-> r, pos |-> n] \in items[q] /\ r \in RuleIds(grammar) /\ n \in Nat /\ n <= n
  BY <1>2, ItemFacts
<1>4. A \in Nonterminals(grammar)
  BY <1>1, <1>3, RuleNonterm
<1> HIDE DEF n, A
<1>5. \A p \in Back({q}, n) : p \in DOMAIN items
  BY <1>3, BackHoldsItem DEF Built, TInv
<1>6. \A p \in O : [from |-> p, sym |-> A] \in Transitions
  BY <1>4, <1>5, TransitionIs
<1>7. \A p \in O : read[[from |-> p, sym |-> A]] = FollowSets[[from |-> p, sym |-> A]]
  BY <1>6
<1>8. Lookahead(q, r) = UNION {read[[from |-> p, sym |-> A]] : p \in O}
  BY DEF Lookahead, A, n
<1>9. FollowsOf(q, r) = UNION {FollowSets[[from |-> p, sym |-> A]] : p \in O}
  BY DEF FollowsOf, A, n
<1> HIDE DEF O
<1>10. {read[[from |-> p, sym |-> A]] : p \in O} = {FollowSets[[from |-> p, sym |-> A]] : p \in O}
  BY <1>7
<1> QED
  BY <1>8, <1>9, <1>10

LEMMA ComputeLookaheadLInv ==
    ASSUME LInv, ComputeLookahead
    PROVE  LInv'
<1>1. /\ Built /\ phase = "includes" /\ D!Done /\ UNCHANGED vars /\ UNCHANGED marks
      /\ UNCHANGED <<phase, traversal>>
      /\ lookState <= Len(items) /\ lookState' = lookState + 1
      /\ lookahead' = Append(lookahead, [r \in reduces[lookState] |-> Lookahead(lookState, r)])
  BY DEF LInv, MInv, Built, ComputeLookahead
<1>2. TInv' /\ MInv' /\ Constructed'
  <2>1. TInv' /\ MInv'
    BY NextTInv DEF LalrNext
  <2> QED
    BY <1>1, <2>1 DEF Built, Constructed, vars, tableVars
<1>3. PICK T : T = Transitions /\ Dp!DInv(T) /\ rel = IncludesRel /\ base = ReadSets
  BY <1>1 DEF LInv, TraversalOf
<1>4. \A x \in Transitions : read[x] = FollowSets[x]
  <2>1. \A x \in T : read[x] = Gathered(rel, base, x)
    BY <1>1, <1>3, TraversalResult
  <2> QED
    BY <1>3, <2>1 DEF FollowSets
<1>5. TraversalOf(IncludesRel, ReadSets)'
  <2>1. rel' = rel /\ base' = base /\ read' = read /\ N' = N /\ stack' = stack /\ calls' = calls
    BY <1>1 DEF traversal
  <2>2. Dp!DInv(T)'
    <3>1. [Dp!Next]_(Dp!vars)
      BY <2>1 DEF Dp!vars
    <3> QED
      BY <1>3, <3>1, NoNodes, Dp!DInductive
  <2> QED
    BY <1>1, <1>3, <2>1, <2>2, TablesKept DEF TraversalOf
<1>6. LookaheadsSet'
  <2> DEFINE V == {Lookaheads(q) : q \in DOMAIN items}
             e == [r \in reduces[lookState] |-> Lookahead(lookState, r)]
  <2>1. /\ lookState \in Nat \ {0} /\ lookahead \in Seq(V) /\ Len(lookahead) = lookState - 1
        /\ \A q \in 1 .. lookState - 1 : lookahead[q] = Lookaheads(q)
    BY <1>1 DEF LInv, LookaheadsSet
  <2>2. lookState \in DOMAIN items
    BY <1>1, <2>1, BuiltFacts
  <2>3. e = Lookaheads(lookState)
    BY <1>1, <1>4, <2>2, LookaheadIs DEF Lookaheads
  <2>4. e \in V
    BY <2>2, <2>3
  <2> HIDE DEF V, e
  <2>5. lookahead' = Append(lookahead, e)
    BY <1>1 DEF e
  <2>6. /\ lookahead' \in Seq(V) /\ Len(lookahead') = lookState
        /\ \A q \in 1 .. lookState - 1 : lookahead'[q] = lookahead[q]
        /\ lookahead'[lookState] = e
    BY <2>1, <2>4, <2>5, AppendProperties
  <2>7. \A q \in 1 .. lookState : lookahead'[q] = Lookaheads(q)
    <3>1. \A q \in 1 .. lookState : q = lookState \/ q \in 1 .. lookState - 1
      BY <2>1
    <3> QED
      BY <2>1, <2>3, <2>6, <3>1
  <2>8. lookState' - 1 = lookState /\ lookState' \in Nat \ {0}
    BY <1>1, <2>1
  <2>9. V' = V /\ \A q : Lookaheads(q)' = Lookaheads(q)
    BY <1>1, LookaheadsKept DEF V, vars, tableVars
  <2> QED
    BY <2>6, <2>7, <2>8, <2>9 DEF LookaheadsSet, V
<1> QED
  BY <1>1, <1>2, <1>5, <1>6 DEF LInv

(* Together: the invariant of the run of computeLALRSets.                  *)
LEMMA LInvInductive == LInv /\ StartKnown' /\ [LalrNext]_allVars => LInv'
<1> SUFFICES ASSUME LInv, StartKnown', [LalrNext]_allVars PROVE LInv'
  OBVIOUS
<1>1. CASE UNCHANGED allVars
  <2>1. /\ UNCHANGED vars /\ UNCHANGED marks /\ UNCHANGED <<phase, lookahead, lookState>>
        /\ UNCHANGED <<rel, base, read, N, stack, calls>>
    BY <1>1 DEF allVars, traversal
  <2>2. TInv' /\ MInv' /\ (phase \notin {"nullable", "automaton"} => Constructed')
    BY <1>1, <2>1, NextTInv DEF LInv, Constructed, vars, tableVars
  <2>3. ASSUME NEW T, Dp!DInv(T) PROVE Dp!DInv(T)'
    <3>1. [Dp!Next]_(Dp!vars)
      BY <2>1 DEF Dp!vars
    <3> QED
      BY <2>3, <3>1, NoNodes, Dp!DInductive
  <2>4. ASSUME NEW r, NEW b, TraversalOf(r, b) PROVE \E T : T = Transitions' /\ Dp!DInv(T)' /\ rel' = r /\ base' = b
    BY <2>1, <2>3, <2>4, TablesKept DEF TraversalOf
  <2>5. LookaheadsSet => LookaheadsSet'
    BY <2>1, LookaheadsKept DEF LookaheadsSet, vars, tableVars
  <2>6. phase = "reads" => TraversalOf(ReadsRel, DirectReads)'
    BY <2>1, <2>4, TablesKept DEF LInv, TraversalOf
  <2>7. phase = "includes" => TraversalOf(IncludesRel, ReadSets)'
    BY <2>1, <2>4, TablesKept DEF LInv, TraversalOf
  <2> QED
    BY <2>1, <2>2, <2>5, <2>6, <2>7 DEF LInv
<1> QED
  BY <1>1, MarkingLInv, ConstructLInv, StartReadsLInv, TraverseLInv, StartIncludesLInv, ComputeLookaheadLInv
     DEF LalrNext

LEMMA LInvHolds == LalrSpec => []LInv
BY TraversalStarts, LInvInit, LInvInductive, PTL DEF LalrSpec

(* At the end each lookahead is gathered from the follow sets.             *)
LEMMA FinishedLookaheads ==
    ASSUME LInv, Finished
    PROVE  /\ Built
           /\ \A q \in DOMAIN items : \A r \in reduces[q] : lookahead[q][r] = FollowsOf(q, r)
<1>1. lookState > Len(items) /\ Constructed
  BY DEF Finished
<1>2. Len(items) \in Nat \ {0} /\ DOMAIN items = 1 .. Len(items)
  BY TableFacts DEF LInv, TInv, IInv
<1>3. phase = "includes"
  BY <1>1, <1>2 DEF LInv
<1>4. LookaheadsSet
  BY <1>3 DEF LInv
<1> SUFFICES ASSUME NEW q \in DOMAIN items, NEW r \in reduces[q] PROVE lookahead[q][r] = FollowsOf(q, r)
  BY <1>1, <1>3 DEF LInv, MInv, Built
<1>5. q \in 1 .. lookState - 1
  BY <1>1, <1>2, <1>4 DEF LookaheadsSet
<1> QED
  BY <1>4, <1>5 DEF LookaheadsSet, Lookaheads

(* The references have come to their end.                                  *)
Settled == Propagated(isNullable).new = {} /\ Propagated(NullableSet(grammar)).new = {}

LEMMA FinishedFollows ==
    ASSUME LInv, Settled, CanBegin(grammar), Finished, NEW q \in DOMAIN items, NEW r \in reduces[q]
    PROVE  /\ lookahead[q][r] = Follows1(Propagated(isNullable).all, q, r)
           /\ Follows1(Propagated(NullableSet(grammar)).all, q, r) \subseteq lookahead[q][r]
<1>1. Built /\ lookahead[q][r] = FollowsOf(q, r)
  BY FinishedLookaheads
<1>2. IsGrammar(grammar) /\ NullableSet(grammar) \in SUBSET Null /\ isNullable = Null /\ Null \in SUBSET Null
  BY <1>1, BuiltFacts DEF Built, MarksSet, Null
<1>3. Propagated(isNullable).all = AllTriples
  BY <1>1, <1>2, PropagatedIsLeast DEF Settled, AllTriples
<1>4. Propagated(NullableSet(grammar)).all \subseteq AllTriples
  BY <1>1, <1>2, PropagatedIsLeast, LeastMore DEF Settled, AllTriples
<1>5. lookahead[q][r] = LooksAhead(q, r)
  BY <1>1, LooksAheadIsFollows
<1>6. Follows1(Propagated(NullableSet(grammar)).all, q, r) \subseteq Follows1(AllTriples, q, r)
  BY <1>4 DEF Follows1
<1> QED
  BY <1>3, <1>5, <1>6 DEF LooksAhead

(* The lookaheads of computeLALRSets (lalr.cc) follow the marks that       *)
(* computeNullable has made, right or wrong (grammar2.cc): for every       *)
(* grammar whose nonterminals can each begin with something or vanish,     *)
(* where the references have come to their end.                            *)
THEOREM LookaheadsExact ==
    LalrSpec => [](Settled /\ CanBegin(grammar) => LookaheadsFollowMarks)
<1>1. LInv /\ Settled /\ CanBegin(grammar) => LookaheadsFollowMarks
  BY FinishedFollows DEF LookaheadsFollowMarks, Settled
<1> QED
  BY <1>1, LInvHolds, PTL

(* Where it has marked nothing that cannot vanish they are the LALR(1)     *)
(* lookaheads.                                                             *)
THEOREM LookaheadsOfRightMarks ==
    LalrSpec => [](Settled /\ CanBegin(grammar) /\ isNullable = NullableSet(grammar) => LookaheadsAreLALR1)
<1>1. LInv /\ Settled /\ CanBegin(grammar) /\ isNullable = NullableSet(grammar) => LookaheadsAreLALR1
  <2> SUFFICES ASSUME LInv, Settled, CanBegin(grammar), isNullable = NullableSet(grammar), Finished,
                      NEW q \in DOMAIN items, NEW r \in reduces[q]
               PROVE  lookahead[q][r] = Follows1(Propagated(NullableSet(grammar)).all, q, r)
    BY DEF LookaheadsAreLALR1, Settled
  <2> QED
    BY FinishedFollows
<1> QED
  BY <1>1, LInvHolds, PTL

(* Whatever the grammar and the marks, none of the LALR(1) lookaheads is   *)
(* missing (lalr.cc): no valid input is refused for want of one.           *)
THEOREM LookaheadsMissNothing ==
    LalrSpec => [](Finished => \A q \in DOMAIN items : \A r \in reduces[q] :
                                  Follows1(Least(NullableSet(grammar)), q, r) \subseteq lookahead[q][r])
<1>1. LInv /\ Finished =>
         \A q \in DOMAIN items : \A r \in reduces[q] :
            Follows1(Least(NullableSet(grammar)), q, r) \subseteq lookahead[q][r]
  <2> SUFFICES ASSUME LInv, Finished, NEW q \in DOMAIN items, NEW r \in reduces[q]
               PROVE  Follows1(Least(NullableSet(grammar)), q, r) \subseteq lookahead[q][r]
    OBVIOUS
  <2>1. Built /\ LooksAhead(q, r) \subseteq lookahead[q][r]
    BY FinishedLookaheads, LooksAheadIsHeld
  <2>2. Least(NullableSet(grammar)) \subseteq AllTriples
    BY <2>1, BuiltFacts, LeastMore DEF Built, MarksSet, Null, AllTriples
  <2> QED
    BY <2>1, <2>2 DEF LooksAhead, Follows1
<1> QED
  BY <1>1, LInvHolds, PTL
-----------------------------------------------------------------------------
(* A reduction that is not that of the start rule has something to look    *)
(* ahead for.                                                              *)
LEMMA FollowedBySomething ==
    ASSUME Built, CanBegin(grammar), NEW q \in DOMAIN items, NEW r \in reduces[q], r # StartRule(grammar)
    PROVE  FollowsOf(q, r) # {}
<1> DEFINE A == grammar.rules[r].nonterm
           n == RuleLength(grammar, r)
           i == [rule |-> r, pos |-> n]
<1>1. reduces[q] = ReduceRules(grammar, items[q])
  BY BuiltFacts DEF Built, TInv, ReducesSet
<1>2. PICK j \in items[q] : j.pos = RuleLength(grammar, j.rule) /\ r = j.rule
  BY <1>1 DEF ReduceRules
<1>3. i \in items[q] /\ i.rule = r /\ i.pos = n
  BY <1>2, ItemFacts
<1>4. \A t : (\E p \in Back({q}, n) : goto[p][A] # 0 /\ t \in FollowSets[[from |-> p, sym |-> A]])
                => t \in FollowsOf(q, r)
  BY DEF FollowsOf
<1> HIDE DEF A, n, i
<1>5. PICK t : Triple(q, i, t) \in AllTriples
  BY <1>3, StatesHaveTriples DEF Has
<1>6. Triple(q, i, t) \in Followed /\ Triple(q, i, t).st = q /\ Triple(q, i, t).item = i /\ Triple(q, i, t).la = t
  BY <1>5, AllTriplesAre DEF Triple
<1>7. FollowedBy(q, i, t)
  BY <1>3, <1>6 DEF Followed
<1>8. t \in FollowsOf(q, r)
  BY <1>3, <1>4, <1>7 DEF FollowedBy, A, n
<1> QED
  BY <1>8

(* The start rule begins in the first state only, where all is to come.    *)
LEMMA StartRuleBegins ==
    ASSUME Built, NEW p \in DOMAIN items
    PROVE  /\ [rule |-> StartRule(grammar), pos |-> 0] \in items[p] => p = 1
           /\ \A i \in items[1] : i.pos = 0
<1> DEFINE S == Nonterminals(grammar) \ {StartSymbol(grammar)}
<1>1. IsGrammar(grammar)
  BY BuiltFacts
<1>2. LeftCornerClosed(grammar, S)
  <2> SUFFICES ASSUME NEW r \in RuleIds(grammar), RuleLength(grammar, r) > 0
               PROVE  grammar.rules[r].syms[1] \in S \union Terminals(grammar)
    BY DEF LeftCornerClosed
  <2>1. 1 \in 1 .. RuleLength(grammar, r)
    BY <1>1, RuleLengthType
  <2>2. grammar.rules[r].syms[1] \in Symbols(grammar)
    BY <1>1, <2>1, RightSideSymbols
  <2>3. grammar.rules[r].syms[1] # StartSymbol(grammar)
    BY <1>1, <2>1 DEF IsGrammar
  <2> QED
    BY <1>1, <2>2, <2>3, SymbolKinds
<1>3. ASSUME p # 1 PROVE [rule |-> StartRule(grammar), pos |-> 0] \notin items[p]
  <2>1. PICK o \in DOMAIN items, x \in Symbols(grammar) : goto[o][x] = p
    BY <1>3, BuiltFacts DEF Built, TInv, ReachedEarlier
  <2> DEFINE K == Kernel(grammar, items[o], x)
             seeds == {NextSym(grammar, i) : i \in {l \in K : ~IsEnd(grammar, l)}}
  <2>2. items[p] = K \union Closure(grammar, seeds)
    <3>1. items[p] = Shift(grammar, items[o], x)
      BY <2>1 DEF Built, TInv, IInv, EdgesAreShifts
    <3> QED
      BY <3>1 DEF Shift
  <2>3. \A k \in K : k.pos # 0
    <3> SUFFICES ASSUME NEW i \in items[o] PROVE i.pos + 1 # 0
      BY DEF Kernel
    <3> QED
      BY ItemFacts
  <2>4. StartSymbol(grammar) \notin seeds
    <3> SUFFICES ASSUME NEW k \in K, ~IsEnd(grammar, k) PROVE NextSym(grammar, k) # StartSymbol(grammar)
      OBVIOUS
    <3>1. k.rule \in RuleIds(grammar) /\ k.pos \in Nat /\ RuleLength(grammar, k.rule) \in Nat
      BY <2>2, ItemFacts
    <3>2. k.pos + 1 \in 1 .. RuleLength(grammar, k.rule)
      BY <3>1 DEF IsEnd
    <3> QED
      BY <1>1, <3>1, <3>2 DEF IsGrammar, NextSym
  <2> HIDE DEF K, seeds
  <2>5. StartSymbol(grammar) \notin LeftCorners(grammar, seeds)
    BY <1>2, <2>4 DEF LeftCorners
  <2>6. grammar.rules[StartRule(grammar)].nonterm = StartSymbol(grammar)
    BY <1>1 DEF IsGrammar
  <2>7. [rule |-> StartRule(grammar), pos |-> 0] \notin Closure(grammar, seeds)
    BY <2>5, <2>6 DEF Closure
  <2> QED
    BY <2>2, <2>3, <2>7
<1>4. \A i \in items[1] : i.pos = 0
  BY DEF Built, TInv, StartKept, StartItems, Closure
<1> QED
  BY <1>3, <1>4

(* What a reduction looks ahead for are terminals.                         *)
LEMMA FollowsOfType ==
    ASSUME Built, NEW q \in DOMAIN items, NEW r \in reduces[q]
    PROVE  FollowsOf(q, r) \subseteq Terminals(grammar)
<1> DEFINE A == grammar.rules[r].nonterm
           n == RuleLength(grammar, r)
<1>1. reduces[q] = ReduceRules(grammar, items[q]) /\ IsGrammar(grammar)
  BY BuiltFacts DEF Built, TInv, ReducesSet
<1>2. PICK j \in items[q] : j.pos = RuleLength(grammar, j.rule) /\ r = j.rule
  BY <1>1 DEF ReduceRules
<1>3. [rule |-> r, pos |-> n] \in items[q] /\ r \in RuleIds(grammar) /\ n \in Nat /\ n <= n
  BY <1>2, ItemFacts
<1>4. A \in Nonterminals(grammar)
  BY <1>1, <1>3, RuleNonterm
<1>5. \A t \in FollowsOf(q, r) :
         \E p \in Back({q}, n) : goto[p][A] # 0 /\ t \in FollowSets[[from |-> p, sym |-> A]]
  BY DEF FollowsOf
<1> HIDE DEF A, n
<1>6. \A p \in Back({q}, n) : p \in DOMAIN items
  BY <1>3, BackHoldsItem DEF Built, TInv
<1>7. \A p \in Back({q}, n) : goto[p][A] # 0 => FollowSets[[from |-> p, sym |-> A]] \subseteq Terminals(grammar)
  BY <1>4, <1>6, TransitionIs, FollowSetsType
<1> QED
  BY <1>5, <1>7

(* Past "$" there is nothing but the end.                                  *)
LEMMA PastTheEnd ==
    ASSUME Built, NEW q \in DOMAIN items, StartRule(grammar) \in reduces[q]
    PROVE  reduces[q] = {StartRule(grammar)}
<1> DEFINE Start == StartRule(grammar)
           e == [rule |-> Start, pos |-> 2]
<1>1. reduces[q] = ReduceRules(grammar, items[q]) /\ IsGrammar(grammar)
  BY BuiltFacts DEF Built, TInv, ReducesSet
<1>2. RuleLength(grammar, Start) = 2 /\ grammar.rules[Start].syms[2] = EofSymbol(grammar)
  BY <1>1 DEF IsGrammar, RuleLength
<1>3. PICK j \in items[q] : j.pos = RuleLength(grammar, j.rule) /\ Start = j.rule
  BY <1>1 DEF ReduceRules
<1>4. j.pos = 2 /\ j.rule = Start
  BY <1>2, <1>3
<1> HIDE DEF Start
<1>5. q # 1
  BY <1>3, <1>4, StartRuleBegins
<1>6. PICK p \in DOMAIN items, x \in Symbols(grammar) : goto[p][x] = q
  BY <1>5, BuiltFacts DEF Built, TInv, ReachedEarlier
<1> DEFINE K == Kernel(grammar, items[p], x)
           seeds == {NextSym(grammar, i) : i \in {l \in K : ~IsEnd(grammar, l)}}
<1>7. items[q] = K \union Closure(grammar, seeds)
  <2>1. items[q] = Shift(grammar, items[p], x)
    BY <1>6 DEF Built, TInv, IInv, EdgesAreShifts
  <2> QED
    BY <2>1 DEF Shift
<1>8. x = EofSymbol(grammar) /\ p # 1
  <2>1. j \in K
    <3> HIDE DEF K, seeds
    <3>1. \A i \in Closure(grammar, seeds) : i.pos = 0
      BY DEF Closure
    <3> QED
      BY <1>3, <1>4, <1>7, <3>1
  <2>2. PICK i \in items[p] : ~IsEnd(grammar, i) /\ NextSym(grammar, i) = x /\ j = [rule |-> i.rule, pos |-> i.pos + 1]
    BY <2>1 DEF Kernel
  <2>3. i.rule = Start /\ i.pos + 1 = 2
    BY <1>4, <2>2
  <2>4. p # 1
    BY <2>2, <2>3, StartRuleBegins
  <2> QED
    BY <1>2, <2>2, <2>3, <2>4 DEF NextSym
<1>9. \A k \in K : k.rule = Start /\ k.pos = 2
  <2> SUFFICES ASSUME NEW k \in K PROVE k.rule = Start /\ k.pos = 2
    OBVIOUS
  <2>1. PICK i \in items[p] : ~IsEnd(grammar, i) /\ NextSym(grammar, i) = x /\ k = [rule |-> i.rule, pos |-> i.pos + 1]
    BY DEF Kernel
  <2>2. i.rule \in RuleIds(grammar) /\ i.pos \in Nat /\ RuleLength(grammar, i.rule) \in Nat
    BY <2>1, ItemFacts
  <2>3. i.pos + 1 \in 1 .. RuleLength(grammar, i.rule)
    BY <2>1, <2>2 DEF IsEnd
  <2>4. grammar.rules[i.rule].syms[i.pos + 1] = EofSymbol(grammar)
    BY <1>8, <2>1 DEF NextSym
  <2>5. i.rule = Start
    BY <1>1, <2>2, <2>3, <2>4 DEF IsGrammar, Start
  <2>6. i.pos + 1 = 1 \/ i.pos + 1 = 2
    BY <1>2, <2>2, <2>3, <2>5
  <2>7. k.rule = Start /\ k.pos = i.pos + 1
    BY <2>1, <2>5
  <2>8. CASE i.pos + 1 = 1
    <3>1. [rule |-> Start, pos |-> 0] \in items[p]
      BY <2>1, <2>2, <2>5, <2>8, ItemFacts
    <3> QED
      BY <1>8, <3>1, StartRuleBegins DEF Start
  <2> QED
    BY <2>6, <2>7, <2>8
<1>10. \A k \in K : IsEnd(grammar, k)
  <2>1. 2 >= RuleLength(grammar, Start)
    BY <1>2
  <2> QED
    BY <1>9, <2>1 DEF IsEnd
<1>11. seeds = {}
  BY <1>10
<1> HIDE DEF K, seeds
<1>12. LeftCorners(grammar, seeds) = {}
  <2>1. LeftCornerClosed(grammar, {})
    BY DEF LeftCornerClosed
  <2> QED
    BY <1>11, <2>1 DEF LeftCorners
<1>13. Closure(grammar, seeds) = {}
  BY <1>12 DEF Closure
<1>14. \A r \in reduces[q] : r = Start
  BY <1>1, <1>7, <1>9, <1>13 DEF ReduceRules
<1>15. Start \in reduces[q]
  BY DEF Start
<1> QED
  BY <1>14, <1>15 DEF Start
-----------------------------------------------------------------------------
(* The table generator does what computeLALRSets does, and more.           *)
LEMMA TablesStep == [TablesNext]_everything => [LalrNext]_allVars
<1> SUFFICES ASSUME [TablesNext]_everything PROVE [LalrNext]_allVars
  OBVIOUS
<1>1. CASE ComputeLALRSets \/ Finalize
  BY <1>1 DEF ComputeLALRSets, Finalize, LalrNext
<1>2. CASE ComputeLALRkSets
  BY <1>2 DEF ComputeLALRkSets, KNext, StartItems2, CallForItem, NextOrigin, ReturnLonger, ReturnRest,
              ApplyItem, NextItemState
<1>3. CASE UNCHANGED everything
  BY <1>3 DEF everything
<1> QED
  BY <1>1, <1>2, <1>3 DEF TablesNext, ComputeFirst, ComputeFollowSets, InitCodeGen

(* What the generator has of the states left behind, whatever it does then.  *)
EdgesOf(q) == Resolved(q, Lookaheads(q))

EdgesSet ==
    /\ edges \in Seq({EdgesOf(q) : q \in DOMAIN items})
    /\ Len(edges) = lookState - 1
    /\ \A q \in 1 .. lookState - 1 : edges[q] = EdgesOf(q)

EInv ==
    /\ stage \in {"nullable", "first", "lalr", "lalrk", "follow", "comb", "done"}
    /\ stage \notin {"nullable", "first", "lalr"} => Finished /\ phase = "includes"
    /\ IF phase = "includes" THEN EdgesSet ELSE edges = <<>>
    /\ stage = "comb" => accepts = [q \in DOMAIN items |-> Accepts(q)]

(* These stay with the automaton.                                          *)
LEMMA EdgesKept ==
    ASSUME UNCHANGED vars, UNCHANGED marks
    PROVE  /\ \A q : EdgesOf(q)' = EdgesOf(q)
           /\ {EdgesOf(q) : q \in DOMAIN items}' = {EdgesOf(q) : q \in DOMAIN items}
<1>1. \A q, t, look : Entry(q, t, look)' = Entry(q, t, look)
  BY DEF Entry, Wanting, ReduceCode, vars, tableVars
<1>2. \A q, look : Resolved(q, look)' = Resolved(q, look)
  BY <1>1 DEF Resolved, vars, tableVars
<1>3. \A q : EdgesOf(q)' = EdgesOf(q)
  BY <1>2, LookaheadsKept DEF EdgesOf
<1> QED
  BY <1>3 DEF vars, tableVars

(* It holds at the start ...                                               *)
LEMMA EInvInit == TablesInit => EInv
BY DEF TablesInit, LalrInit, EInv

(* A step that leaves the automaton, the phase and the edges alone.        *)
LEMMA EdgesStay ==
    ASSUME EInv, UNCHANGED vars, UNCHANGED marks, UNCHANGED <<phase, lookState, edges>>
    PROVE  (IF phase = "includes" THEN EdgesSet ELSE edges = <<>>)'
BY EdgesKept DEF EInv, EdgesSet

(* resolveState() adds the entries of the state.                            *)
LEMMA ComputeLookaheadEdges ==
    ASSUME LInv, LInv', EInv, ComputeLookahead,
           edges' = Append(edges, Resolved(lookState, lookahead'[lookState]))
    PROVE  EdgesSet'
<1> DEFINE V == {EdgesOf(q) : q \in DOMAIN items}
           e == Resolved(lookState, lookahead'[lookState])
<1>1. /\ Built /\ phase = "includes" /\ phase' = "includes" /\ UNCHANGED vars /\ UNCHANGED marks
      /\ lookState <= Len(items) /\ lookState' = lookState + 1
  BY DEF LInv, MInv, Built, ComputeLookahead
<1>2. lookState \in Nat \ {0} /\ lookState' - 1 = lookState
  BY <1>1 DEF LInv, LookaheadsSet
<1>3. lookState \in DOMAIN items /\ lookState \in 1 .. lookState' - 1
  BY <1>1, <1>2, BuiltFacts
<1>4. lookahead'[lookState] = Lookaheads(lookState)
  <2>1. \A q \in 1 .. lookState' - 1 : lookahead'[q] = Lookaheads(q)'
    BY <1>1 DEF LInv, LookaheadsSet
  <2>2. \A q \in 1 .. lookState' - 1 : lookahead'[q] = Lookaheads(q)
    BY <1>1, <2>1, LookaheadsKept
  <2> QED
    BY <1>3, <2>2
<1>5. e = EdgesOf(lookState) /\ e \in V
  BY <1>3, <1>4 DEF EdgesOf
<1>6. /\ edges \in Seq(V) /\ Len(edges) = lookState - 1
      /\ \A q \in 1 .. lookState - 1 : edges[q] = EdgesOf(q)
  BY <1>1 DEF EInv, EdgesSet
<1>7. V' = V /\ \A q : EdgesOf(q)' = EdgesOf(q)
  BY <1>1, EdgesKept
<1>8. edges' = Append(edges, e)
  OBVIOUS
<1> HIDE DEF V, e
<1>9. /\ edges' \in Seq(V) /\ Len(edges') = lookState
      /\ \A q \in 1 .. lookState - 1 : edges'[q] = edges[q]
      /\ edges'[lookState] = e
  BY <1>2, <1>5, <1>6, <1>8, AppendProperties
<1>10. \A q \in 1 .. lookState : edges'[q] = EdgesOf(q)
  <2>1. \A q \in 1 .. lookState : q = lookState \/ q \in 1 .. lookState - 1
    BY <1>2
  <2> QED
    BY <1>5, <1>6, <1>9, <2>1
<1> QED
  BY <1>2, <1>7, <1>9, <1>10 DEF EdgesSet, V

(* ... and every step of main() keeps it.                                  *)
LEMMA EInvInductive == LInv /\ LInv' /\ EInv /\ [TablesNext]_everything => EInv'
<1> SUFFICES ASSUME LInv, LInv', EInv, [TablesNext]_everything PROVE EInv'
  OBVIOUS
<1>1. CASE ComputeFirst
  <2>1. stage \in {"first"} /\ stage' \in {"first", "lalr"} /\ UNCHANGED allVars /\ edges' = edges
    BY <1>1 DEF ComputeFirst, outVars
  <2>2. UNCHANGED vars /\ UNCHANGED marks /\ UNCHANGED <<phase, lookState, edges>>
    BY <2>1 DEF allVars
  <2> QED
    BY <2>1, <2>2, EdgesStay DEF EInv
<1>2. CASE ComputeLALRSets
  <2>1. /\ stage = "lalr" /\ stage' \in {"lalr", "lalrk"}
        /\ stage' = "lalrk" => lookState' > Len(items') /\ phase' = "includes"
    BY <1>2 DEF ComputeLALRSets
  <2>2. stage' \notin {"nullable", "first", "lalr"} => Finished' /\ phase' = "includes"
    BY <2>1 DEF LInv, Finished
  <2>3. (IF phase = "includes" THEN EdgesSet ELSE edges = <<>>)'
    <3>1. CASE Construct /\ edges' = edges
      BY <3>1 DEF Construct, EInv
    <3>2. CASE Traverse /\ edges' = edges
      BY <3>2, EdgesStay DEF Traverse
    <3>3. CASE StartReads /\ edges' = edges
      BY <3>3 DEF StartReads, EInv
    <3>4. CASE StartIncludes /\ edges' = edges
      <4>1. phase' = "includes" /\ edges' = <<>> /\ lookState' = 1
        BY <3>4 DEF StartIncludes, LInv, EInv
      <4> QED
        BY <4>1 DEF EdgesSet
    <3>5. CASE ComputeLookahead /\ edges' = Append(edges, Resolved(lookState, lookahead'[lookState]))
      <4>1. phase' = "includes"
        BY <3>5 DEF ComputeLookahead
      <4> QED
        BY <3>5, <4>1, ComputeLookaheadEdges
    <3> QED
      BY <1>2, <3>1, <3>2, <3>3, <3>4, <3>5 DEF ComputeLALRSets
  <2> QED
    BY <2>1, <2>2, <2>3 DEF EInv
<1>3. CASE stage \in {"lalrk", "follow", "comb", "done"} /\ UNCHANGED <<allVars, edges>>
           /\ stage' \in {"lalrk", "follow", "comb", "done"}
           /\ (stage' = "comb" => accepts' = [q \in DOMAIN items |-> Accepts(q)])
  <2>1. UNCHANGED vars /\ UNCHANGED marks /\ UNCHANGED <<phase, lookState, edges, lookahead>>
    BY <1>3 DEF allVars
  <2>2. Finished' /\ phase' = "includes"
    BY <1>3, <2>1 DEF EInv, Finished, Constructed, vars, tableVars
  <2>3. \A q : Accepts(q)' = Accepts(q)
    BY <2>1 DEF Accepts, HeadReduction, RuleOf, vars, tableVars
  <2>4. items' = items
    BY <2>1 DEF vars, tableVars
  <2>5. stage' = "comb" => accepts' = [q \in DOMAIN items |-> Accepts(q)]'
    BY <1>3, <2>3, <2>4
  <2> QED
    BY <1>3, <2>1, <2>2, <2>5, EdgesStay DEF EInv
<1>4. CASE ComputeLALRkSets
  <2>1. UNCHANGED allVars
    BY <1>4 DEF ComputeLALRkSets, KNext, StartItems2, CallForItem, NextOrigin, ReturnLonger, ReturnRest,
                ApplyItem, NextItemState
  <2>2. stage = "lalrk" /\ stage' \in {"lalrk", "follow"} /\ edges' = edges
    BY <1>4 DEF ComputeLALRkSets, outVars
  <2> QED
    BY <1>3, <2>1, <2>2
<1>5. CASE ComputeFollowSets
  BY <1>3, <1>5 DEF ComputeFollowSets
<1>6. CASE InitCodeGen
  BY <1>3, <1>6 DEF InitCodeGen
<1>7. CASE UNCHANGED everything
  <2>1. UNCHANGED allVars /\ UNCHANGED <<edges, accepts, stage>>
    BY <1>7 DEF everything, outVars
  <2>2. UNCHANGED vars /\ UNCHANGED marks /\ UNCHANGED <<phase, lookState, edges, lookahead>>
    BY <2>1 DEF allVars
  <2>3. CASE stage \in {"nullable", "first", "lalr"}
    BY <2>1, <2>2, <2>3, EdgesStay DEF EInv
  <2>4. CASE stage \notin {"nullable", "first", "lalr"}
    <3>1. stage = "comb" => accepts' = [q \in DOMAIN items |-> Accepts(q)]
      BY <2>1 DEF EInv
    <3> QED
      BY <1>3, <2>1, <2>4, <3>1 DEF EInv
  <2> QED
    BY <2>3, <2>4
<1>8. CASE Finalize
  <2>1. stage = "nullable" /\ stage' \in {"nullable", "first"} /\ edges' = edges
    BY <1>8 DEF Finalize, outVars
  <2>2. phase = "nullable" /\ phase' \in {"nullable", "automaton"}
    BY <1>8 DEF Finalize, ComputeNullable, ComputeMinRuleLengths
  <2> QED
    BY <2>1, <2>2 DEF EInv
<1> QED
  BY <1>1, <1>2, <1>4, <1>5, <1>6, <1>7, <1>8 DEF TablesNext
-----------------------------------------------------------------------------
(* The head of a chain is one of its reductions: of the shortest the last. *)
LEMMA HeadIsReduction ==
    ASSUME Built, NEW q \in DOMAIN items, reduces[q] # {}
    PROVE  HeadReduction(q) \in reduces[q]
<1> DEFINE R == reduces[q]
           Length(r) == RuleLength(grammar, r)
           n == Len(grammar.rules)
<1>1. \A r \in R : r \in 1 .. n /\ Length(r) \in Nat
  <2>1. IsGrammar(grammar) /\ R = ReduceRules(grammar, items[q])
    BY BuiltFacts DEF Built, TInv, ReducesSet
  <2>2. \A i \in items[q] : i.rule \in RuleIds(grammar) /\ RuleLength(grammar, i.rule) \in Nat
    BY ItemFacts
  <2> QED
    BY <2>1, <2>2 DEF ReduceRules, RuleIds
<1>2. n \in Nat
  <2>1. grammar.rules \in Seq([nonterm : Nonterminals(grammar), syms : Seq(Symbols(grammar))])
    BY BuiltFacts DEF IsGrammar
  <2> QED
    BY <2>1
<1> HIDE DEF n
<1>3. PICK k \in {Length(r) : r \in R} : \A r \in R : k <= Length(r)
  <2> DEFINE T == {Length(r) : r \in R}
  <2>1. T \in SUBSET Nat /\ T # {}
    BY <1>1
  <2> HIDE DEF T
  <2>2. \E k \in T : \A m \in T : k <= m
    BY <2>1, LeastNat
  <2> QED
    BY <2>2 DEF T
<1>4. PICK d \in {n - r : r \in {s \in R : Length(s) = k}} : \A r \in R : Length(r) = k => d <= n - r
  <2> DEFINE T == {n - r : r \in {s \in R : Length(s) = k}}
  <2>1. T \in SUBSET Nat /\ T # {}
    BY <1>1, <1>2
  <2> HIDE DEF T
  <2>2. \E l \in T : \A m \in T : l <= m
    BY <2>1, LeastNat
  <2> QED
    BY <2>2 DEF T
<1>5. PICK r \in R : Length(r) = k /\ d = n - r
  OBVIOUS
<1>6. \A s \in R \ {r} : Length(r) < Length(s) \/ (Length(r) = Length(s) /\ r > s)
  <2> SUFFICES ASSUME NEW s \in R, s # r PROVE Length(r) < Length(s) \/ (Length(r) = Length(s) /\ r > s)
    OBVIOUS
  <2>1. r \in Int /\ s \in Int /\ Length(r) \in Nat /\ Length(s) \in Nat
    BY <1>1, <1>5
  <2>2. CASE Length(s) = k
    <3>1. n - r <= n - s
      BY <1>4, <1>5, <2>2
    <3> QED
      BY <1>2, <1>5, <2>1, <2>2, <3>1
  <2>3. CASE Length(s) # k
    BY <1>3, <1>5, <2>1, <2>3
  <2> QED
    BY <2>2, <2>3
<1> QED
  BY <1>5, <1>6 DEF HeadReduction

(* An entry is there for a shift, or for a reduction that wants it.        *)
LEMMA EntryIs ==
    ASSUME Built, NEW q \in DOMAIN items, NEW t \in Terminals(grammar), NEW look
    PROVE  /\ goto[q][t] # 0 => Entry(q, t, look) = goto[q][t] /\ goto[q][t] \in DOMAIN items
           /\ goto[q][t] = 0 /\ Wanting(q, t, look) = {} => Entry(q, t, look) = 0
           /\ goto[q][t] = 0 /\ Wanting(q, t, look) # {} =>
                 \E r \in Wanting(q, t, look) : Entry(q, t, look) = Len(items) + r /\ r \in Nat \ {0}
<1>1. t \in Symbols(grammar)
  BY BuiltFacts
<1>2. goto[q][t] # 0 => Entry(q, t, look) = goto[q][t] /\ goto[q][t] \in DOMAIN items
  BY <1>1, BuiltFacts DEF Entry
<1>3. ASSUME goto[q][t] = 0, Wanting(q, t, look) # {}
      PROVE  \E r \in Wanting(q, t, look) : Entry(q, t, look) = Len(items) + r /\ r \in Nat \ {0}
  <2> DEFINE W == Wanting(q, t, look)
  <2>1. W \in SUBSET (Nat \ {0})
    <3>1. W \subseteq reduces[q]
      BY DEF Wanting
    <3>2. reduces[q] = ReduceRules(grammar, items[q])
      BY BuiltFacts DEF Built, TInv, ReducesSet
    <3>3. \A i \in items[q] : i.rule \in Nat \ {0}
      BY ItemFacts DEF RuleIds
    <3> QED
      BY <3>1, <3>2, <3>3 DEF ReduceRules
  <2>2. W # {}
    BY <1>3
  <2>3. Entry(q, t, look) = Len(items) + (CHOOSE r \in W : \A s \in W : r <= s)
    BY <1>3 DEF Entry, ReduceCode
  <2> HIDE DEF W
  <2>4. W \in SUBSET Nat
    BY <2>1
  <2>5. \E r \in W : \A s \in W : r <= s
    BY <2>2, <2>4, LeastNat
  <2>6. (CHOOSE r \in W : \A s \in W : r <= s) \in W
    BY <2>5
  <2> QED
    BY <2>1, <2>3, <2>6 DEF W
<1>4. goto[q][t] = 0 /\ Wanting(q, t, look) = {} => Entry(q, t, look) = 0
  BY DEF Entry
<1> QED
  BY <1>2, <1>3, <1>4

(* What a state tells the lexer, in a state that has more than the end.    *)
LEMMA AcceptsAreEntries ==
    ASSUME LInv, EInv, Finished, CanBegin(grammar), NEW q \in DOMAIN items, StartRule(grammar) \notin reduces[q]
    PROVE  Accepts(q) = {t \in Terminals(grammar) : edges[q][t] # 0}
<1> DEFINE look == Lookaheads(q)
<1>1. /\ Built /\ phase = "includes"
      /\ \A r \in reduces[q] : lookahead[q][r] = FollowsOf(q, r)
  BY FinishedLookaheads DEF LInv, Finished, Built
<1>2. /\ Len(items) \in Nat \ {0} /\ DOMAIN items = 1 .. Len(items) /\ q \in 1 .. Len(items)
  BY <1>1, BuiltFacts
<1>3. edges[q] = EdgesOf(q)
  <2>1. q \in 1 .. lookState - 1
    BY <1>1, <1>2 DEF LInv, LookaheadsSet, Finished
  <2> QED
    BY <1>1, <2>1 DEF EInv, EdgesSet
<1>4. \A t \in Terminals(grammar) : edges[q][t] = Entry(q, t, look)
  BY <1>3 DEF EdgesOf, Resolved
<1>5. \A r \in reduces[q] : look[r] = FollowsOf(q, r) /\ lookahead[q][r] = look[r] /\ look[r] # {}
  BY <1>1, FollowedBySomething DEF Lookaheads
<1>6. \A t : Wanting(q, t, look) = {r \in reduces[q] : t \in look[r]}
  BY <1>5 DEF Wanting
<1>7. \A r \in reduces[q] : look[r] \subseteq Terminals(grammar)
  BY <1>1, <1>5, FollowsOfType
<1> HIDE DEF look
<1>8. \A t \in Terminals(grammar) :
         /\ goto[q][t] # 0 => edges[q][t] \in DOMAIN items
         /\ goto[q][t] = 0 /\ Wanting(q, t, look) = {} => edges[q][t] = 0
         /\ goto[q][t] = 0 /\ Wanting(q, t, look) # {} =>
               \E r \in Wanting(q, t, look) : edges[q][t] = Len(items) + r /\ r \in Nat \ {0}
  BY <1>1, <1>4, EntryIs
<1>9. \A t \in Terminals(grammar) : (\E r \in reduces[q] : t \in look[r]) => edges[q][t] # 0
  BY <1>2, <1>6, <1>8
<1> DEFINE reduced == {RuleOf(edges[q][t]) : t \in {u \in Terminals(grammar) : edges[q][u] > Len(items)}}
<1>10. \A t \in Terminals(grammar) : edges[q][t] > Len(items) =>
          RuleOf(edges[q][t]) \in reduces[q] /\ t \in look[RuleOf(edges[q][t])]
  BY <1>2, <1>6, <1>8 DEF RuleOf
<1>11. reduced \subseteq reduces[q]
  BY <1>10
<1>12. \A r \in reduced : lookahead[q][r] = look[r]
  BY <1>5, <1>11
<1>13. reduces[q] # {} => HeadReduction(q) \in reduces[q]
  BY <1>1, HeadIsReduction
<1> DEFINE shifts == {t \in Terminals(grammar) : edges[q][t] \in DOMAIN items}
           head == IF reduces[q] = {} THEN {} ELSE lookahead[q][HeadReduction(q)]
<1>14. Accepts(q) = shifts \union (UNION {lookahead[q][r] : r \in reduced}) \union head
  BY DEF Accepts
<1>15. \A t \in head : \E r \in reduces[q] : t \in look[r]
  BY <1>5, <1>13
<1>16. ASSUME NEW t \in Accepts(q) PROVE t \in Terminals(grammar) /\ edges[q][t] # 0
  <2>1. CASE t \in shifts
    BY <1>2, <2>1
  <2>2. ASSUME NEW r \in reduces[q], t \in look[r] PROVE t \in Terminals(grammar) /\ edges[q][t] # 0
    BY <1>7, <1>9, <2>2
  <2> HIDE DEF shifts, head, reduced
  <2>3. t \in shifts \/ t \in head \/ \E r \in reduced : t \in lookahead[q][r]
    BY <1>14, <1>16
  <2> QED
    BY <1>11, <1>12, <1>15, <2>1, <2>2, <2>3
<1>17. ASSUME NEW t \in Terminals(grammar), edges[q][t] # 0 PROVE t \in Accepts(q)
  <2>1. CASE goto[q][t] # 0
    BY <1>8, <1>14, <2>1
  <2>2. CASE goto[q][t] = 0
    <3>1. edges[q][t] > Len(items)
      BY <1>2, <1>8, <1>17, <2>2
    <3>2. RuleOf(edges[q][t]) \in reduced /\ t \in look[RuleOf(edges[q][t])]
      BY <1>10, <3>1
    <3> HIDE DEF shifts, head, reduced
    <3>3. t \in lookahead[q][RuleOf(edges[q][t])]
      BY <1>12, <3>2
    <3> QED
      BY <1>14, <3>2, <3>3
  <2> QED
    BY <2>1, <2>2
<1> HIDE DEF shifts, head, reduced
<1> QED
  BY <1>16, <1>17

(* Where a rule begins, states are entered on all of its symbols.          *)
LEMMA RuleEntersStates ==
    ASSUME Built, NEW q \in DOMAIN items, NEW r \in RuleIds(grammar), [rule |-> r, pos |-> 0] \in items[q],
           NEW k \in 1 .. RuleLength(grammar, r)
    PROVE  \E s \in DOMAIN items : s # 1 /\ accessSym[s] = grammar.rules[r].syms[k]
<1> DEFINE n == RuleLength(grammar, r)
           At(m) == [rule |-> r, pos |-> m]
           T == {m \in 0 .. n : \E s \in DOMAIN items : At(m) \in items[s]}
<1>1. n \in Nat /\ 0 \in T
  <2>1. n \in Nat
    BY BuiltFacts, RuleLengthType
  <2> QED
    BY <2>1
<1>2. ASSUME NEW i \in 0 .. n, NEW j \in 0 .. n, i \in T, j = i + 1 PROVE j \in T
  <2>1. PICK s \in DOMAIN items : At(i) \in items[s]
    BY <1>2
  <2>2. ~IsEnd(grammar, At(i)) /\ Moved(At(i)) = At(j)
    BY <1>1, <1>2 DEF IsEnd, Moved
  <2> HIDE DEF At, n
  <2>3. \E o \in DOMAIN items : At(j) \in items[o]
    BY <2>1, <2>2, ItemLeadsOn
  <2> QED
    BY <1>2, <2>3
<1>3. 0 .. n \subseteq T
  <2> HIDE DEF T, n
  <2> QED
    BY ONLY <1>1, <1>2, UpTo
<1>4. k \in T /\ k > 0
  BY <1>1, <1>3
<1>5. PICK s \in DOMAIN items : At(k) \in items[s]
  BY <1>4
<1>6. At(k).rule = r /\ At(k).pos = k
  OBVIOUS
<1> HIDE DEF At
<1>7. s # 1
  BY <1>4, <1>5, <1>6, StartRuleBegins
<1> QED
  BY <1>4, <1>5, <1>6, <1>7, ItemFacts

(* In a grammar that checkReachability leaves, on all symbols but "error". *)
LEMMA SymbolsAreEntered ==
    ASSUME Built, IsReachable(grammar), NEW x \in Symbols(grammar), x # 1, x # StartSymbol(grammar)
    PROVE  \E s \in DOMAIN items : s # 1 /\ accessSym[s] = x
<1> DEFINE Entered == {y \in Symbols(grammar) : \E s \in DOMAIN items : s # 1 /\ accessSym[s] = y}
           S == {1, StartSymbol(grammar)} \union Entered
<1>1. IsGrammar(grammar) /\ grammar.lastTerminal \in Nat \ {0} /\ grammar.numSymbols \in Nat
      /\ grammar.lastTerminal < grammar.numSymbols
  BY BuiltFacts DEF IsGrammar
<1>2. S \in SUBSET Symbols(grammar)
  BY <1>1 DEF Symbols, StartSymbol
<1>3. ASSUME NEW r \in RuleIds(grammar), grammar.rules[r].nonterm \in S
      PROVE  \E q \in DOMAIN items : [rule |-> r, pos |-> 0] \in items[q]
  <2> DEFINE A == grammar.rules[r].nonterm
  <2>1. A \in Nonterminals(grammar) /\ A \in Symbols(grammar) /\ A # 1 /\ A # 0
    <3>1. A \in Nonterminals(grammar)
      BY <1>1, RuleNonterm
    <3> QED
      BY <1>1, <3>1 DEF Nonterminals, Symbols
  <2>2. CASE A = StartSymbol(grammar)
    <3>1. r = StartRule(grammar)
      <4>1. RulesOf(grammar, StartSymbol(grammar)) = {StartRule(grammar)}
        BY <1>1 DEF IsGrammar
      <4> QED
        BY <2>2, <4>1 DEF RulesOf
    <3>2. 1 \in DOMAIN items
      BY BuiltFacts
    <3> QED
      BY <3>1, <3>2 DEF Built, TInv, StartKept, StartItems
  <2>3. ASSUME NEW s \in DOMAIN items, s # 1, accessSym[s] = A
        PROVE  \E q \in DOMAIN items : [rule |-> r, pos |-> 0] \in items[q]
    <3>3. PICK p \in DOMAIN items, y \in Symbols(grammar) : goto[p][y] = s
      BY <2>3, BuiltFacts DEF Built, TInv, ReachedEarlier
    <3>4. s # 0
      BY BuiltFacts
    <3>5. y = A /\ \E i \in items[p] : ~IsEnd(grammar, i) /\ NextSym(grammar, i) = A
      BY <2>3, <3>3, <3>4, EdgeIsWanted
    <3>6. r \in RulesOf(grammar, A)
      BY DEF RulesOf
    <3> HIDE DEF A
    <3>7. [rule |-> r, pos |-> 0] \in items[p]
      BY <2>1, <3>5, <3>6, StateIsClosed DEF IsClosed
    <3> QED
      BY <3>7
  <2> HIDE DEF A
  <2> QED
    BY <1>3, <2>1, <2>2, <2>3 DEF A
<1>4. \A r \in RuleIds(grammar) : grammar.rules[r].nonterm \in S =>
         \A k \in 1 .. RuleLength(grammar, r) : grammar.rules[r].syms[k] \in S
  <2> SUFFICES ASSUME NEW r \in RuleIds(grammar), grammar.rules[r].nonterm \in S,
                      NEW k \in 1 .. RuleLength(grammar, r)
               PROVE  grammar.rules[r].syms[k] \in Entered
    OBVIOUS
  <2>1. \E s \in DOMAIN items : s # 1 /\ accessSym[s] = grammar.rules[r].syms[k]
    BY <1>3, RuleEntersStates
  <2>2. grammar.rules[r].syms[k] \in Symbols(grammar)
    BY <1>1, RightSideSymbols
  <2> QED
    BY <2>1, <2>2
<1> HIDE DEF Entered
<1>5. {1, StartSymbol(grammar)} \subseteq S
  OBVIOUS
<1> HIDE DEF S
<1>6. S = Symbols(grammar)
  BY <1>2, <1>4, <1>5 DEF IsReachable
<1> QED
  BY <1>6 DEF S, Entered

(* A set with one element more has at most one more.                       *)
LEMMA OneMore ==
    ASSUME NEW S, IsFiniteSet(S), NEW x
    PROVE  /\ IsFiniteSet(S \union {x}) /\ Cardinality(S) \in Nat
           /\ Cardinality(S \union {x}) \in Nat /\ Cardinality(S \union {x}) <= Cardinality(S) + 1
<1>1. IsFiniteSet(S \union {x}) /\ Cardinality(S \union {x}) = IF x \in S THEN Cardinality(S) ELSE Cardinality(S) + 1
  BY FS_AddElement
<1>2. Cardinality(S) \in Nat
  BY FS_CardinalityType
<1> QED
  BY <1>1, <1>2

(* There are as many symbols as states entered on one, but for two.        *)
LEMMA StatesForSymbols ==
    ASSUME Built, IsReachable(grammar), NEW Q \in SUBSET (2 .. Len(items)),
           \A s \in 2 .. Len(items) : \E q \in Q : accessSym[q] = accessSym[s]
    PROVE  /\ IsFiniteSet(Q) /\ Cardinality(Q) \in Nat
           /\ grammar.numSymbols <= Cardinality(Q) + 2
           /\ (\E q \in Q : accessSym[q] = 1) => grammar.numSymbols <= Cardinality(Q) + 1
<1> DEFINE start == StartSymbol(grammar)
           f == [q \in Q |-> accessSym[q]]
           R == {f[q] : q \in Q}
           m == grammar.numSymbols
           c == Cardinality(Q)
<1>1. DOMAIN items = 1 .. Len(items) /\ Len(items) \in Nat /\ m \in Nat
  BY BuiltFacts DEF IsGrammar
<1>2. IsFiniteSet(Q) /\ c \in Nat
  <2>1. IsFiniteSet(2 .. Len(items))
    BY <1>1, FS_Interval
  <2> QED
    BY <2>1, FS_Subset, FS_CardinalityType
<1>3. IsFiniteSet(R) /\ Cardinality(R) \in Nat /\ Cardinality(R) <= c
  <2>1. f \in Surjection(Q, R)
    BY DEF Surjection
  <2> HIDE DEF f, R
  <2> QED
    BY <1>2, <2>1, FS_Surjection, FS_CardinalityType
<1>4. 1 .. m \subseteq (R \union {1}) \union {start}
  <2> SUFFICES ASSUME NEW x \in 1 .. m, x # 1, x # start PROVE x \in R
    OBVIOUS
  <2>1. x \in Symbols(grammar)
    BY DEF Symbols
  <2>2. PICK s \in DOMAIN items : s # 1 /\ accessSym[s] = x
    BY <2>1, SymbolsAreEntered
  <2>3. s \in 2 .. Len(items)
    BY <1>1, <2>2
  <2>4. PICK q \in Q : accessSym[q] = x
    BY <2>2, <2>3
  <2>5. f[q] = x
    BY <2>4
  <2> HIDE DEF f
  <2> QED
    BY <2>5
<1>5. (\E q \in Q : accessSym[q] = 1) => R \union {1} = R
  OBVIOUS
<1> HIDE DEF f, R, start
<1> DEFINE U == R \union {1}
           V == U \union {start}
<1>6. IsFiniteSet(U) /\ Cardinality(U) \in Nat /\ Cardinality(U) <= Cardinality(R) + 1
  BY <1>3, OneMore
<1>7. (\E q \in Q : accessSym[q] = 1) => Cardinality(U) = Cardinality(R)
  BY <1>5
<1> HIDE DEF U
<1>8. IsFiniteSet(V) /\ Cardinality(V) \in Nat /\ Cardinality(V) <= Cardinality(U) + 1
  BY <1>6, OneMore
<1>9. 1 .. m \in SUBSET V
  BY <1>4 DEF U
<1> HIDE DEF V
<1>10. Cardinality(1 .. m) = m
  <2>1. 1 \in Int /\ m \in Int /\ m \in Nat
    BY <1>1
  <2> HIDE DEF m
  <2>2. Cardinality(1 .. m) = IF 1 > m THEN 0 ELSE m - 1 + 1
    BY <2>1, FS_Interval
  <2> QED
    BY <2>1, <2>2
<1>11. m <= Cardinality(V)
  <2> DEFINE I == 1 .. m
  <2>1. I \in SUBSET V /\ Cardinality(I) = m
    BY <1>9, <1>10
  <2> HIDE DEF m, I
  <2>2. Cardinality(I) <= Cardinality(V)
    BY <1>8, <2>1, FS_Subset
  <2> QED
    BY <2>1, <2>2
<1>12. m \in Nat
  BY <1>1
<1> HIDE DEF m, c
<1>13. m <= c + 2 /\ ((\E q \in Q : accessSym[q] = 1) => m <= c + 1)
  BY <1>2, <1>3, <1>6, <1>7, <1>8, <1>11, <1>12
<1> QED
  BY <1>2, <1>13 DEF m, c

LEMMA StatesBehindFirst ==
    ASSUME Built
    PROVE  /\ IsFiniteSet(2 .. Len(items)) /\ Cardinality(2 .. Len(items)) = Len(items) - 1
           /\ Len(items) \in Nat \ {0} /\ DOMAIN items = 1 .. Len(items)
<1> DEFINE n == Len(items)
<1>1. n \in Nat \ {0} /\ DOMAIN items = 1 .. n
  BY BuiltFacts
<1> HIDE DEF n
<1>2. IsFiniteSet(2 .. n) /\ Cardinality(2 .. n) = IF 2 > n THEN 0 ELSE n - 2 + 1
  BY <1>1, FS_Interval
<1> QED
  BY <1>1, <1>2 DEF n

(* So there are as many states as columns, but for that of #START#.        *)
LEMMA AsManyStates ==
    ASSUME Built, IsReachable(grammar)
    PROVE  grammar.numSymbols <= Len(items) + 1
<1>1. grammar.numSymbols <= Cardinality(2 .. Len(items)) + 2
  BY StatesForSymbols
<1>2. grammar.numSymbols \in Nat
  BY BuiltFacts DEF IsGrammar
<1> QED
  BY <1>1, <1>2, StatesBehindFirst

(* That has a place too if a state is entered on "error", or two on the    *)
(* same symbol.                                                            *)
LEMMA NothingToSpare ==
    ASSUME Built, IsReachable(grammar), grammar.numSymbols = Len(items) + 1
    PROVE  /\ EnteredOn(1) = {}
           /\ \A x \in Symbols(grammar) \ {1, StartSymbol(grammar)} : Cardinality(EnteredOn(x)) = 1
<1> DEFINE P == 2 .. Len(items)
<1>1. /\ IsFiniteSet(P) /\ Cardinality(P) = Len(items) - 1 /\ Len(items) \in Nat \ {0}
      /\ DOMAIN items = 1 .. Len(items)
  BY StatesBehindFirst
<1>2. accessSym[1] = 0
  <2>1. 1 \in DOMAIN items /\ items[1] = StartItems(grammar) /\ IsGrammar(grammar)
    BY BuiltFacts DEF Built, TInv, StartKept
  <2>2. \A i \in items[1] : i.pos = 0
    BY <2>1, StartItemsType
  <2> QED
    BY <2>1, <2>2 DEF Built, TInv, IInv, AccessSymOfItems
<1>3. ASSUME NEW q \in DOMAIN items, accessSym[q] # 0 PROVE q \in P
  BY <1>1, <1>2, <1>3
<1>4. ASSUME NEW q \in DOMAIN items, accessSym[q] = 1 PROVE FALSE
  <2>1. q \in P
    BY <1>3, <1>4
  <2>2. grammar.numSymbols <= Cardinality(P) + 1
    BY <1>4, <2>1, StatesForSymbols
  <2> HIDE DEF P
  <2> QED
    BY <1>1, <2>2
<1>5. ASSUME NEW q \in DOMAIN items, NEW s \in DOMAIN items, accessSym[q] = accessSym[s], q # s,
             accessSym[s] # 0
      PROVE  FALSE
  <2> DEFINE Q == P \ {s}
  <2>1. q \in Q /\ s \in P
    BY <1>3, <1>5
  <2>2. \A o \in P : \E w \in Q : accessSym[w] = accessSym[o]
    BY <1>5, <2>1
  <2>3. grammar.numSymbols <= Cardinality(Q) + 2
    BY <2>2, StatesForSymbols
  <2> HIDE DEF P
  <2>4. Cardinality(Q) = Cardinality(P) - 1
    BY <1>1, <2>1, FS_RemoveElement
  <2> QED
    BY <1>1, <2>3, <2>4
<1>6. ASSUME NEW x \in Symbols(grammar), x # 1, x # StartSymbol(grammar)
      PROVE  Cardinality(EnteredOn(x)) = 1
  <2>1. PICK q \in DOMAIN items : accessSym[q] = x
    BY <1>6, SymbolsAreEntered
  <2>2. x # 0
    BY DEF Symbols
  <2>3. EnteredOn(x) = {q}
    BY <1>5, <2>1, <2>2 DEF EnteredOn
  <2> QED
    BY <2>3, FS_Singleton
<1> QED
  BY <1>4, <1>6 DEF EnteredOn

(* Both invariants, of the whole generator.                                *)
LEMMA TablesInvariant == TablesSpec => [](LInv /\ EInv)
<1>1. TablesInit => LalrInit
  BY DEF TablesInit
<1>2. LInv /\ StartKnown' /\ [TablesNext]_everything => LInv'
  BY TablesStep, LInvInductive
<1> QED
  BY <1>1, <1>2, TraversalStarts, LInvInit, EInvInit, EInvInductive, PTL DEF TablesSpec

(* main() (main.cc:166-176) takes the steps of constructPDA and            *)
(* computeLALRSets and leaves what they made alone: all that is shown of   *)
(* these holds of the generator.                                           *)
THEOREM TablesImplementLalr == TablesSpec => LalrSpec
<1>1. TablesInit => LalrInit
  BY DEF TablesInit
<1> QED
  BY <1>1, TablesStep, PTL DEF TablesSpec, LalrSpec

(* What a state tells the lexer it accepts (computeFollowSets, lr.cc:216)  *)
(* is what resolveState gave it an entry for, though the chains are        *)
(* followed through their heads only.                                      *)
THEOREM AcceptedHaveEntries == TablesSpec => [](CanBegin(grammar) => AcceptsAreEdges)
<1>1. LInv /\ EInv /\ CanBegin(grammar) => AcceptsAreEdges
  <2> SUFFICES ASSUME LInv, EInv, CanBegin(grammar), stage = "comb", NEW q \in DOMAIN items,
                      StartRule(grammar) \notin reduces[q]
               PROVE  accepts[q] = {t \in Terminals(grammar) : edges[q][t] # 0}
    <3>1. ASSUME LInv, EInv, stage = "comb" PROVE Built
      BY <3>1 DEF EInv, Finished, LInv, MInv, Built
    <3> QED
      BY <3>1, PastTheEnd DEF AcceptsAreEdges
  <2>1. Finished /\ accepts[q] = Accepts(q)
    BY DEF EInv
  <2> QED
    BY <2>1, AcceptsAreEntries
<1> QED
  BY <1>1, TablesInvariant, PTL

(* The row buffer of CombVector::fromSource (combvect.cc:42) has a place   *)
(* for every entry getRow (lr.cc:95) writes, in a grammar that             *)
(* checkReachability leaves, but for one in the case that is named.        *)
THEOREM RowsHoldColumns == TablesSpec => [](IsReachable(grammar) => ColumnsFit)
<1>1. LInv /\ EInv /\ IsReachable(grammar) => ColumnsFit
  <2> SUFFICES ASSUME LInv, EInv, IsReachable(grammar), stage = "comb"
               PROVE  /\ Overrun <= 1
                      /\ Overrun = 1 =>
                            /\ EnteredOn(1) = {}
                            /\ \A x \in Symbols(grammar) \ {1, StartSymbol(grammar)} :
                                  Cardinality(EnteredOn(x)) = 1
    BY DEF ColumnsFit
  <2>1. Built
    BY DEF EInv, Finished, LInv, MInv, Built
  <2>2. grammar.numSymbols \in Nat /\ Len(items) \in Nat
    BY <2>1, BuiltFacts DEF IsGrammar
  <2> DEFINE m == grammar.numSymbols
  <2>3. DOMAIN GetRow(0) = 0 .. m
    BY DEF GetRow
  <2>4. Cardinality(0 .. m) = m + 1
    <3>1. m \in Nat
      BY <2>2
    <3> HIDE DEF m
    <3>2. Cardinality(0 .. m) = IF 0 > m THEN 0 ELSE m - 0 + 1
      BY <3>1, FS_Interval
    <3> QED
      BY <3>1, <3>2
  <2>5. Overrun = m - Len(items)
    BY <2>2, <2>3, <2>4 DEF Overrun, NumStates
  <2>6. Overrun <= 1
    BY <2>1, <2>2, <2>5, AsManyStates
  <2>7. Overrun = 1 => grammar.numSymbols = Len(items) + 1
    BY <2>2, <2>5
  <2> HIDE DEF m
  <2> QED
    BY <2>1, <2>6, <2>7, NothingToSpare
<1> QED
  BY <1>1, TablesInvariant, PTL

(* So the lookaheads of the generator follow the marks of its first pass,  *)
(* and none of the LALR(1) lookaheads is missing (lalr.cc) ...             *)
THEOREM TablesLookaheads == TablesSpec => [](Settled /\ CanBegin(grammar) => LookaheadsFollowMarks)
BY TablesImplementLalr, LookaheadsExact, PTL

(* ... of the automaton of the viable prefixes (lr.cc).                    *)
THEOREM TablesAutomaton == TablesSpec => []AutomatonIsValid
BY TablesImplementLalr, LookaheadsOfThatAutomaton, PTL
=============================================================================
