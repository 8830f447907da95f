------------------------------- MODULE First -------------------------------
(***************************************************************************)
(* Grammar::computeFirst (grammar2.cc) for the lookahead main() asks for,  *)
(* 2: two tables of string sets, a row for each nonterminal, each computed *)
(* from the other until a whole table repeats the one before.              *)
(***************************************************************************)
EXTENDS Nullable, StringSet2
LOCAL INSTANCE SequencesExt

CONSTANT RoundBound     \* rounds in which the reference below is complete
ASSUME RoundBoundAssumption == RoundBound \in Nat

VARIABLES
    row,        \* the table of this iteration, TABLE(i)
    prev,       \* the table of the last one, TABLE(i-1)
    nt,         \* the nonterminal whose set is computed next
    done,       \* no set of this iteration differed so far
    first,      \* Nonterminal::first
    misled      \* history: a set was kept whose isFull is not true of it

firstVars == <<row, prev, nt, done, first, misled>>
allVars == <<vars, firstVars>>

K == 2

(* The leading terminals of a rule, if they are K or all that follows is   *)
(* nullable.                                                               *)
Leading(g, syms) ==
    LET n == CHOOSE m \in 0 .. Len(syms) :
                /\ \A k \in 1 .. m : syms[k] \in Terminals(g)
                /\ m < Len(syms) => syms[m + 1] \notin Terminals(g)
    IN  SubSeq(syms, 1, IF n < K THEN n ELSE K)

HasBase(g, syms, nullable) ==
    \/ Len(Leading(g, syms)) = K
    \/ \A k \in (Len(Leading(g, syms)) + 1) .. Len(syms) : syms[k] \in nullable

Base(g, A, nullable) ==
    LET rules == SelectSeq([r \in RuleIds(g) |-> g.rules[r]],
                           LAMBDA rule : rule.nonterm = A /\ HasBase(g, rule.syms, nullable))
    IN  FoldLeft(LAMBDA s, rule : AddString(s, Leading(g, rule.syms)), NewSet, rules)

(* The loop over the right side: it ends when minLength() is K.            *)
AppendSymbol(g, table, s, x) ==
    IF MinLengthOf(s) = K THEN s
    ELSE IF x \in Terminals(g) THEN AppendToken(s, x)
    ELSE Append2(s, table[x])

RuleSet(g, table, syms) ==
    FoldLeft(LAMBDA s, x : AppendSymbol(g, table, s, x), AddEmpty(NewSet), syms)

(* The set of a nonterminal from the table of the last iteration.          *)
NextSet(g, table, A) ==
    LET rules == SelectSeq(g.rules, LAMBDA rule : rule.nonterm = A)
    IN  Add(FoldLeft(LAMBDA s, rule : Add(s, RuleSet(g, table, rule.syms)), NewSet, rules),
            table[A])

(* operator !=, which does not look at isFull and isEmpty.                 *)
MutSameFirsts(s, t) == s.firstsym = t.firstsym
SameStrings(s, t) ==
    /\ s.hasNull = t.hasNull
    /\ s.firstsym = t.firstsym /\ s.firstonly = t.firstonly /\ s.second = t.second
-----------------------------------------------------------------------------
FirstInit ==
    /\ Init
    /\ row = <<>> /\ prev = <<>> /\ first = <<>>
    /\ nt = 0 /\ done = FALSE /\ misled = FALSE

(* finalize() has called computeNullable() before.                         *)
ComputeNullable == Next /\ UNCHANGED firstVars

(* The base case, F(0,A).                                                  *)
Start ==
    /\ Done /\ prev = <<>>
    /\ prev' = [A \in Nonterminals(grammar) |-> Base(grammar, A, isNullable)]
    /\ row' = [A \in Nonterminals(grammar) |-> NewSet]
    /\ nt' = grammar.lastTerminal + 1
    /\ done' = TRUE
    /\ UNCHANGED <<vars, first, misled>>

WronglyFull(s) == s.isFull /\ \E str \in Strings(s) : Len(str) = 1
InRow == prev # <<>> /\ first = <<>> /\ nt <= grammar.numSymbols
RowComplete == prev # <<>> /\ first = <<>> /\ nt > grammar.numSymbols

MutNotDone ==
    /\ InRow
    /\ row' = [row EXCEPT ![nt] = NextSet(grammar, prev, nt)]
    /\ done' = (~done /\ SameStrings(row'[nt], prev[nt]))
    /\ nt' = nt + 1
    /\ misled' = (misled \/ WronglyFull(row'[nt]))
    /\ UNCHANGED <<vars, prev, first>>

Compute ==
    /\ InRow
    /\ row' = [row EXCEPT ![nt] = NextSet(grammar, prev, nt)]
    /\ done' = (done /\ SameStrings(row'[nt], prev[nt]))
    /\ nt' = nt + 1
    /\ misled' = (misled \/ WronglyFull(row'[nt]))
    /\ UNCHANGED <<vars, prev, first>>

NextRow ==
    /\ RowComplete /\ ~done
    /\ prev' = row /\ row' = prev
    /\ nt' = grammar.lastTerminal + 1
    /\ done' = TRUE
    /\ UNCHANGED <<vars, first, misled>>

(* i has been counted up when the loop ends: TABLE(i) is the table before. *)
Finish ==
    /\ RowComplete /\ done
    /\ first' = prev
    /\ UNCHANGED <<vars, row, prev, nt, done, misled>>

FirstNext == ComputeNullable \/ Start \/ Compute \/ NextRow \/ Finish

(* A sequential program runs on by itself.                                 *)
FirstSpec == FirstInit /\ [][FirstNext]_allVars /\ WF_allVars(FirstNext)

Finished == first # <<>>
-----------------------------------------------------------------------------
(* FIRST2 by definition: the prefixes of what a nonterminal derives, as    *)
(* the least table closed under the rules.                                 *)
Derived(g, F, syms) ==
    FoldLeft(LAMBDA A, x : Concat2(A, IF x \in Terminals(g) THEN {<<x>>}
                                      ELSE {f[2] : f \in {h \in F : h[1] = x}}),
             {<<>>}, syms)

Closure(g, F) ==
    F \union UNION {{g.rules[r].nonterm} \X Derived(g, F, g.rules[r].syms) : r \in RuleIds(g)}

First2(g) == FoldLeft(LAMBDA F, n : Closure(g, F), {}, [n \in 1 .. RoundBound |-> n])

ReferenceIsComplete == \A g \in Grammars : Closure(g, First2(g)) = First2(g)

UsedNonterminals(g) == Nonterminals(g) \ {StartSymbol(g)}

FirstSets == UNION {{A} \X Strings(first[A]) : A \in UsedNonterminals(grammar)}
FirstSetsByDefinition == {f \in First2(grammar) : f[1] \in UsedNonterminals(grammar)}

(* "Compute FIRSTk() of each nonterminal" (grammar2.cc:216): every string  *)
(* a nonterminal can begin with is found.                                  *)
FirstComplete == Finished => FirstSetsByDefinition \subseteq FirstSets

(* The same line, and no string it cannot begin with.                      *)
FirstSound == Finished => FirstSets \subseteq FirstSetsByDefinition

(* Every string is found unless add() left isFull set of a set with a      *)
(* shorter string, which ends the loop over a right side too early.  No    *)
(* string is invented if besides isNullable is right and every set has a   *)
(* string to begin with: append() of an empty set appends nothing.         *)
Seeded ==
    \A A \in UsedNonterminals(grammar) : Strings(Base(grammar, A, isNullable)) # {}
ExactUnlessMisled ==
    ~misled =>
        /\ FirstComplete
        /\ Seeded /\ isNullable = NullableSet(grammar) => FirstSound
=============================================================================
