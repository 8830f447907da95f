-------------------------------- MODULE Lalr --------------------------------
(***************************************************************************)
(* LRTable::computeLALRSets (lalr.cc) on top of the automaton of LRTable:  *)
(* direct read sets, the digraph traversal of "reads", N cleared, the      *)
(* traversal of "includes" over the same read sets, and the lookaheads.    *)
(* Both traversals are steps of Digraph; its nodes are the nonterminal     *)
(* shift edges, named by the state they leave and their symbol.            *)
(* What the relations take for nullable is what finalize() has marked: the *)
(* steps of Nullable come first, then computeMinRuleLengths().             *)
(***************************************************************************)
EXTENDS LRTable

CONSTANT PropagationBound   \* the rounds in which Propagated must be complete

ASSUME PropagationAssumption == PropagationBound \in Nat

VARIABLES
    minLength,  \* Rule::minLength
    isNullable, \* the nonterminals with Symbol::isNullable
    nonterm, nullCalls,     \* computeNullable and the activations of nullify
    phase,      \* which part of finalize() or computeLALRSets runs
    rel, base,  \* the relation that is traversed, the sets it started from
    read, N,    \* LREdge::read and LREdge::N of the nonterminal edges
    stack, calls,
    lookahead,  \* LRReduceEdge::lookahead, by state and rule
    lookState   \* the counter of the lookahead loop

traversal == <<rel, base, read, N, stack, calls>>
marks == <<minLength, isNullable, nonterm, nullCalls>>
allVars == <<vars, marks, phase, traversal, lookahead, lookState>>

Marks == INSTANCE Nullable WITH calls <- nullCalls
D == INSTANCE Digraph WITH Node <- {}, Elem <- Nat

Edges == {[from |-> p, sym |-> A] : p \in DOMAIN goto, A \in Nonterminals(grammar)}
Transitions == {x \in Edges : goto[x.from][x.sym] # 0}
Dest(x) == goto[x.from][x.sym]

(* What can be shifted right after the edge.                               *)
DirectRead(x) == {t \in Terminals(grammar) : goto[Dest(x)][t] # 0}

(* (p,A) reads (q,B): p -A-> q -B->, B nullable.                           *)
Reads(x) == {y \in Transitions : y.from = Dest(x) /\ y.sym \in isNullable}

(* The states n steps of backtrack() away from the states of S.            *)
Back(S, n) ==
    LET B[k \in 0 .. n] == IF k = 0 THEN S ELSE UNION {pred[p] : p \in B[k - 1]}
    IN  B[n]

(* (p,A) includes (q,B): B ::= c A g, g nullable, c leads from q to p.  The *)
(* code walks the items of the destination by position, and backtracks a   *)
(* state further for each.                                                 *)
TailItems(x) == {i \in items[Dest(x)] : i.pos > 0 /\ minLength[i.rule] <= i.pos}

(* mutant: backtracking goes one state too far                             *)
IncludesTooFar(x) ==
    UNION {{[from |-> q, sym |-> grammar.rules[i.rule].nonterm] : q \in Back({x.from}, i.pos)} :
             i \in TailItems(x)}

Includes(x) ==
    UNION {{[from |-> q, sym |-> grammar.rules[i.rule].nonterm] : q \in Back({x.from}, i.pos - 1)} :
             i \in TailItems(x)}

(* computeLookahead(): back over the whole rule, then the read sets of its *)
(* nonterminal there.                                                      *)
Lookahead(q, r) ==
    LET A == grammar.rules[r].nonterm
    IN  UNION {read[[from |-> p, sym |-> A]] :
                 p \in {o \in Back({q}, RuleLength(grammar, r)) : goto[o][A] # 0}}
-----------------------------------------------------------------------------
LalrInit ==
    /\ Init /\ Marks!Init
    /\ phase = "nullable"
    /\ rel = <<>> /\ base = <<>> /\ read = <<>>
    /\ D!Clear
    /\ lookahead = <<>>
    /\ lookState = 1

(* finalize() has the nullable nonterminals marked, then the minimum       *)
(* lengths of the rules set by the marks.                                  *)
ComputeNullable ==
    /\ phase = "nullable" /\ Marks!Next
    /\ UNCHANGED <<vars, phase, traversal, lookahead, lookState>>

ComputeMinRuleLengths ==
    /\ phase = "nullable" /\ Marks!Done
    /\ minLength' = [r \in RuleIds(grammar) |-> MinLength(grammar, r, isNullable)]
    /\ phase' = "automaton"
    /\ UNCHANGED <<vars, isNullable, nonterm, nullCalls, traversal, lookahead, lookState>>

(* constructPDA runs to its end first.                                     *)
Construct ==
    /\ phase = "automaton" /\ Next
    /\ UNCHANGED <<marks, phase, traversal, lookahead, lookState>>

Unvisited == [x \in Transitions |-> 0]

(* computeDirectReadSets(), then digraph( reads ).                         *)
StartReads ==
    /\ phase = "automaton" /\ Constructed
    /\ base' = [x \in Transitions |-> DirectRead(x)]
    /\ read' = base'
    /\ rel' = [x \in Transitions |-> Reads(x)]
    /\ N' = Unvisited /\ stack' = <<>> /\ calls' = <<>>
    /\ phase' = "reads"
    /\ UNCHANGED <<vars, marks, lookahead, lookState>>

(* digraph() looks for its roots by state, then by symbol.                 *)
EdgeBefore(x, y) == x.from < y.from \/ (x.from = y.from /\ x.sym < y.sym)

NextRoot(x) ==
    /\ N[x] = 0
    /\ \A y \in Transitions : EdgeBefore(y, x) => N[y] # 0

Traverse ==
    /\ phase \in {"reads", "includes"}
    /\ \/ \E x \in Transitions : NextRoot(x) /\ D!StartAt(x)
       \/ D!Descend \/ D!Merge \/ D!ReturnInside \/ D!ReturnComponent
    /\ UNCHANGED <<vars, marks, phase, lookahead, lookState>>

(* mutant: N is not cleared between the traversals                         *)
StartIncludesUncleared ==
    /\ phase = "reads" /\ D!Done
    /\ base' = read
    /\ rel' = [x \in Transitions |-> Includes(x)]
    /\ phase' = "includes"
    /\ UNCHANGED <<vars, marks, N, read, stack, calls, lookahead, lookState>>

(* N is cleared, the read sets stay, then digraph( includes ).             *)
StartIncludes ==
    /\ phase = "reads" /\ D!Done
    /\ base' = read
    /\ rel' = [x \in Transitions |-> Includes(x)]
    /\ N' = Unvisited
    /\ phase' = "includes"
    /\ UNCHANGED <<vars, marks, read, stack, calls, lookahead, lookState>>

(* The lookaheads of the reductions of one state.                          *)
ComputeLookahead ==
    /\ phase = "includes" /\ D!Done
    /\ lookState <= Len(items)
    /\ lookahead' = Append(lookahead, [r \in reduces[lookState] |-> Lookahead(lookState, r)])
    /\ lookState' = lookState + 1
    /\ UNCHANGED <<vars, marks, phase, traversal>>

Finished == lookState > Len(items) /\ Constructed

LalrNext ==
    \/ ComputeNullable \/ ComputeMinRuleLengths
    \/ Construct \/ StartReads \/ Traverse \/ StartIncludes \/ ComputeLookahead
LalrSpec == LalrInit /\ [][LalrNext]_allVars
-----------------------------------------------------------------------------
(* Every field of the edges and reductions in its range.                   *)
LalrTypeOK ==
    /\ TypeOK
    /\ IF phase = "nullable" THEN Marks!TypeOK
       ELSE minLength \in [RuleIds(grammar) -> Nat] /\ isNullable \subseteq Nonterminals(grammar)
    /\ phase \in {"nullable", "automaton", "reads", "includes"}
    /\ D!TypeOK
    /\ rel # <<>> => D!Nodes = Transitions
    /\ DOMAIN lookahead = 1 .. lookState - 1
    /\ \A q \in DOMAIN lookahead : lookahead[q] \in [reduces[q] -> SUBSET Terminals(grammar)]

(***************************************************************************)
(* The assertions of includes() (lalr.cc:119 and 139): an edge is found    *)
(* among the predecessors of its destination, and wherever backtracking    *)
(* arrives there is an edge on the left side of the rule.                  *)
(***************************************************************************)
IncludesAssertions ==
    (Constructed /\ phase \notin {"nullable", "automaton"}) =>
        \A x \in Transitions :
            /\ x.from \in pred[Dest(x)]
            /\ Includes(x) \subseteq Transitions

(***************************************************************************)
(* Reference: LALR(1) lookaheads by propagation.  A triple says that in    *)
(* state st the item may be followed by la (0 is the end of everything).   *)
(***************************************************************************)
BeginsWith(g, X, nullable) ==
    LET B[n \in 0 .. g.numSymbols] ==
            IF n = 0 THEN {X}
            ELSE LET found == B[n - 1]
                 IN  found \union
                     {Y \in Symbols(g) : \E r \in RuleIds(g) : \E k \in 1 .. RuleLength(g, r) :
                         /\ g.rules[r].nonterm \in found /\ g.rules[r].syms[k] = Y
                         /\ \A l \in 1 .. k - 1 : g.rules[r].syms[l] \in nullable}
    IN  B[g.numSymbols] \intersect Terminals(g)

(* Nothing in the code sees to this: every nonterminal can vanish, or      *)
(* begin with a terminal.                                                  *)
CanBegin(g) ==
    \A A \in Nonterminals(g) : A \in NullableSet(g) \/ BeginsWith(g, A, NullableSet(g)) # {}

AfterNext(g, tr, nullable) ==
    LET syms == g.rules[tr.item.rule].syms
        rest == tr.item.pos + 2 .. Len(syms)
    IN  (UNION {BeginsWith(g, syms[k], nullable) :
                  k \in {l \in rest : \A m \in rest : m < l => syms[m] \in nullable}})
        \union (IF \A l \in rest : syms[l] \in nullable THEN {tr.la} ELSE {})

Successors(tr, nullable) ==
    IF IsEnd(grammar, tr.item) THEN {}
    ELSE LET X == NextSym(grammar, tr.item)
         IN  {[st |-> goto[tr.st][X], item |-> [tr.item EXCEPT !.pos = @ + 1], la |-> tr.la]}
             \union {[st |-> tr.st, item |-> [rule |-> r, pos |-> 0], la |-> t] :
                        r \in RulesOf(grammar, X), t \in AfterNext(grammar, tr, nullable)}

Propagated(nullable) ==
    LET start == {[st |-> 1, item |-> [rule |-> StartRule(grammar), pos |-> 0], la |-> 0]}
        P[n \in 0 .. PropagationBound] ==
            IF n = 0 THEN [all |-> start, new |-> start]
            ELSE LET before == P[n - 1]
                     found == UNION {Successors(tr, nullable) : tr \in before.new}
                 IN  [all |-> before.all \union found, new |-> found \ before.all]
    IN  P[PropagationBound]

(* What the triples let follow a reduction.                                *)
Follows1(triples, q, r) ==
    {tr.la : tr \in {u \in triples : u.st = q /\ u.item.rule = r
                                       /\ u.item.pos = RuleLength(grammar, r)}}
        \intersect Terminals(grammar)

(***************************************************************************)
(* "algorithms to compute the LALR(1) lookahead sets" (lalr.cc:18): the    *)
(* sets computeLALRSets arrives at are those, neither less (a valid input  *)
(* refused) nor more (a conflict invented).  The second is not true where  *)
(* computeNullable marks what cannot vanish.                               *)
(***************************************************************************)
LookaheadsAreLALR1 ==
    Finished =>
        LET real == Propagated(NullableSet(grammar))
        IN  /\ real.new = {}
            /\ \A q \in DOMAIN items : \A r \in reduces[q] :
                  lookahead[q][r] = Follows1(real.all, q, r)

(***************************************************************************)
(* What is true of them for every grammar, whatever the order of the       *)
(* pointers in the sets that are walked: they are the LALR(1) lookaheads   *)
(* if the marks are right, and what they would be if everything marked     *)
(* could vanish otherwise; then too no lookahead is missing, which would   *)
(* refuse a valid input.                                                   *)
(***************************************************************************)
LookaheadsFollowMarks ==
    Finished =>
        LET marked == Propagated(isNullable)
            real == Propagated(NullableSet(grammar))
        IN  /\ marked.new = {}
            /\ \A q \in DOMAIN items : \A r \in reduces[q] :
                  lookahead[q][r] = Follows1(marked.all, q, r)
            /\ isNullable # NullableSet(grammar) =>
                  /\ real.new = {}
                  /\ \A q \in DOMAIN items : \A r \in reduces[q] :
                        Follows1(real.all, q, r) \subseteq lookahead[q][r]

(* The automaton the lookaheads are computed for is the right one; looked  *)
(* at once, when it is complete.                                           *)
AutomatonIsValid == phase = "automaton" => StatesHoldValidItems
=============================================================================
