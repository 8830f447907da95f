------------------------------ MODULE Samples ------------------------------
(***************************************************************************)
(* Small grammars the runs build tables for, numbered the way              *)
(* assignSymbolIds() numbers them once Sample has put "error" in front of  *)
(* the symbols, and augmented.  The first ones are grammars of the         *)
(* repository's test directory, the others are the textbook shapes that    *)
(* separate LR(0), SLR(1), LALR(1) and LR(1).                              *)
(***************************************************************************)
LOCAL INSTANCE Sequences
LOCAL INSTANCE Grammar

Rule(A, alpha) == [nonterm |-> A, syms |-> alpha]

(* The constructor of Grammar makes "error" its first terminal.            *)
Sample(lastTerminal, numSymbols, startSymbol, rules) ==
    Augment(lastTerminal + 1, numSymbols + 1, startSymbol + 1,
            [r \in DOMAIN rules |->
                Rule(rules[r].nonterm + 1,
                     [k \in DOMAIN rules[r].syms |-> rules[r].syms[k] + 1])])

(* test/lalr.elr: S: a A c | a g d | b A d | b g c; A: B; B: g             *)
(* a = 1, c = 2, g = 3, d = 4, b = 5, $ = 6; S = 7, A = 8, B = 9           *)
LalrSample == Sample(6, 9, 7,
    <<Rule(7, <<1, 8, 2>>), Rule(7, <<1, 3, 4>>), Rule(7, <<5, 8, 4>>), Rule(7, <<5, 3, 2>>),
      Rule(8, <<9>>), Rule(9, <<3>>)>>)

(* test/nonlr.elr: start: a start a | b start b | (empty)                  *)
(* a = 1, b = 2, $ = 3; start = 4                                          *)
NonLRSample == Sample(3, 4, 4,
    <<Rule(4, <<1, 4, 1>>), Rule(4, <<2, 4, 2>>), Rule(4, <<>>)>>)

(* test/expr.elr with two operators and a number: expr: expr + expr | n    *)
(* + = 1, n = 2, $ = 3; expr = 4                                           *)
ExprSample == Sample(3, 4, 4, <<Rule(4, <<4, 1, 4>>), Rule(4, <<2>>)>>)

(* test/lr.elr: LR(1), not LALR(1) by merging of "type: ID" and "name: ID" *)
(* , = 1, : = 2, ID = 3, $ = 4; def = 5, param = 6, return = 7, type = 8,  *)
(* name = 9, list = 10                                                     *)
LRSample == Sample(4, 10, 5,
    <<Rule(5, <<6, 7, 1>>), Rule(6, <<8>>), Rule(6, <<10, 2, 8>>), Rule(7, <<8>>),
      Rule(7, <<9, 2, 8>>), Rule(8, <<3>>), Rule(9, <<3>>), Rule(10, <<9>>),
      Rule(10, <<9, 1, 10>>)>>)

(* Nullable tails and a left-recursive list: S: A B c; B: b | A; A: A a |  *)
(* a = 1, b = 2, c = 3, $ = 4; S = 5, B = 6, A = 7                         *)
NullableSample == Sample(4, 7, 5,
    <<Rule(5, <<7, 6, 3>>), Rule(6, <<2>>), Rule(6, <<7>>), Rule(7, <<7, 1>>), Rule(7, <<>>)>>)

(* Mutual recursion through nullable tails, a cycle of "includes":         *)
(* S: a A | b; A: c B | ; B: S A  (a = 1, b = 2, c = 3, $ = 4; 5, 6, 7)    *)
CyclicSample == Sample(4, 7, 5,
    <<Rule(5, <<1, 6>>), Rule(5, <<2>>), Rule(6, <<3, 7>>), Rule(6, <<>>), Rule(7, <<5, 6>>)>>)

(* A cycle of "reads": after E a run of nullable symbols that never ends.  *)
(* S: E N x; N: N N | ; E: e  (x = 1, e = 2, $ = 3; S = 4, N = 5, E = 6)   *)
ReadsCycleSample == Sample(3, 6, 4,
    <<Rule(4, <<6, 5, 1>>), Rule(5, <<5, 5>>), Rule(5, <<>>), Rule(6, <<2>>)>>)

(* LALR(1), not SLR(1): S: L = R | R; L: * R | i; R: L                     *)
(* = is 1, * is 2, i is 3, $ = 4; S = 5, L = 6, R = 7                      *)
PointerSample == Sample(4, 7, 5,
    <<Rule(5, <<6, 1, 7>>), Rule(5, <<7>>), Rule(6, <<2, 7>>), Rule(6, <<3>>), Rule(7, <<6>>)>>)

(* Nonterminals defined before they are used, the empty one first:         *)
(* start: x z; b: ; a: b; x: a t  (z = 1, t = 2, $ = 3; start = 4, b = 5,  *)
(* a = 6, x = 7)                                                           *)
BottomUpSample == Sample(3, 7, 4,
    <<Rule(4, <<7, 1>>), Rule(5, <<>>), Rule(6, <<5>>), Rule(7, <<6, 2>>)>>)

(* The same x, which computeNullable marks though it cannot vanish, before *)
(* a token that may begin the end of y: start: y x z; b: ; a: b; x: a t;   *)
(* y: c | c z  (z = 1, t = 2, c = 3, $ = 4; start = 5, b = 6, a = 7,       *)
(* x = 8, y = 9)                                                           *)
OverMarkedSample == Sample(4, 9, 5,
    <<Rule(5, <<9, 8, 1>>), Rule(6, <<>>), Rule(7, <<6>>), Rule(8, <<7, 2>>),
      Rule(9, <<3>>), Rule(9, <<3, 1>>)>>)

(* Two tokens follow x: start: x b c; x: a                                 *)
(* a = 1, b = 2, c = 3, $ = 4; start = 5, x = 6                            *)
TwoTokensSample == Sample(4, 6, 5, <<Rule(5, <<6, 2, 3>>), Rule(6, <<1>>)>>)

SampleGrammars == {LalrSample, NonLRSample, ExprSample, LRSample, NullableSample,
                   CyclicSample, ReadsCycleSample, PointerSample, TwoTokensSample}

(* computeNullable marks more than the nullable nonterminals of these.     *)
OverMarkedGrammars == {BottomUpSample, OverMarkedSample}

(***************************************************************************)
(* Every grammar over one token t (and $) with two rules for S and one     *)
(* rule for A, perhaps besides an empty one, right sides up to two symbols *)
(* (one for the second of S), in which S and A derive something and        *)
(* checkReachability() deletes nothing: cyclic, ambiguous and useless      *)
(* rules and all.  (t = 1, $ = 2; S = 3, A = 4)                            *)
(***************************************************************************)
RightSides(k) == UNION {[1 .. n -> {1, 3, 4}] : n \in 0 .. k}

IsProductive(g) ==
    \A S \in SUBSET Nonterminals(g) :
        (\A r \in RuleIds(g) :
            DerivesWithin(g, r, S \union Terminals(g)) => g.rules[r].nonterm \in S)
        => S = Nonterminals(g)

SmallGrammars ==
    {g \in {Sample(2, 4, 3, <<Rule(3, a), Rule(3, b), Rule(4, c)>> \o e) :
                a \in RightSides(2), b \in RightSides(1), c \in RightSides(2) \ {<<>>},
                e \in {<<>>, <<Rule(4, <<>>)>>}} :
        IsProductive(g) /\ IsReachable(g)}

(* The same over two tokens a and b, with one rule for S, up to three      *)
(* symbols long, and two for A: what tells strings of two tokens apart.    *)
(* (a = 1, b = 2, $ = 3; S = 4, A = 5)                                     *)
TwoTokenGrammars ==
    {g \in {Sample(3, 5, 4, <<Rule(4, a), Rule(5, c), Rule(5, e)>>) :
                a \in UNION {[1 .. n -> {1, 2, 5}] : n \in 1 .. 3},
                c \in UNION {[1 .. n -> {1, 5}] : n \in 1 .. 2}, e \in {<<>>, <<2>>}} :
        IsProductive(g) /\ IsReachable(g)}
=============================================================================
