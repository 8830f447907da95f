------------------------------ MODULE Grammar ------------------------------
(***************************************************************************)
(* The finalized grammar that the table construction works on (grammar.h,  *)
(* grammar2.cc).  A symbol is its symbolId: terminals are numbered from 1  *)
(* to lastTerminal, nonterminals follow up to numSymbols.  A rule is its   *)
(* ruleId, its position in "rules".  A grammar is a record                 *)
(*   [lastTerminal, numSymbols, rules], rules a sequence of [nonterm, syms]*)
(***************************************************************************)
EXTENDS Integers, Sequences, FiniteSets

Terminals(g)    == 1 .. g.lastTerminal
Nonterminals(g) == (g.lastTerminal + 1) .. g.numSymbols
Symbols(g)      == 1 .. g.numSymbols
RuleIds(g)      == 1 .. Len(g.rules)

RuleLength(g, r) == Len(g.rules[r].syms)
RulesOf(g, A)    == {r \in RuleIds(g) : g.rules[r].nonterm = A}

(* Items of the LR automaton: a rule and a position in its right side.     *)
Items(g)     == [rule : RuleIds(g), pos : Nat]
IsEnd(g, i)  == i.pos >= RuleLength(g, i.rule)
NextSym(g, i) == g.rules[i.rule].syms[i.pos + 1]

(***************************************************************************)
(* augment() and assignSymbolIds(): "$" becomes the last terminal,         *)
(* "#START#" the last nonterminal, and the last rule is #START# -> S $.    *)
(* The argument numbers its symbols with the place of "$" left free.       *)
(***************************************************************************)
EofSymbol(g)   == g.lastTerminal
StartSymbol(g) == g.numSymbols
StartRule(g)   == Len(g.rules)

Augment(lastTerminal, numSymbols, startSymbol, rules) ==
    [lastTerminal |-> lastTerminal,
     numSymbols   |-> numSymbols + 1,
     rules        |-> Append(rules, [nonterm |-> numSymbols + 1,
                                     syms |-> <<startSymbol, lastTerminal>>])]

(* What finalize() guarantees about the grammar it leaves behind.          *)
IsGrammar(g) ==
    /\ g.lastTerminal \in Nat \ {0}
    /\ g.numSymbols \in Nat
    /\ g.lastTerminal < g.numSymbols
    /\ g.rules \in Seq([nonterm : Nonterminals(g), syms : Seq(Symbols(g))])
    /\ Len(g.rules) > 0
    /\ g.rules[StartRule(g)].nonterm = StartSymbol(g)
    /\ Len(g.rules[StartRule(g)].syms) = 2
    /\ g.rules[StartRule(g)].syms[2] = EofSymbol(g)
    /\ \A r \in RuleIds(g) : \A k \in 1 .. RuleLength(g, r) :
          /\ g.rules[r].syms[k] # StartSymbol(g)
          /\ g.rules[r].syms[k] = EofSymbol(g) => r = StartRule(g)
    /\ RulesOf(g, StartSymbol(g)) = {StartRule(g)}

(* What checkReachability() leaves: the symbols of the rules of reachable  *)
(* nonterminals are reachable; only "error" is kept without a use (a space *)
(* token would be).                                                        *)
IsReachable(g) ==
    \A S \in SUBSET Symbols(g) :
        ({1, StartSymbol(g)} \subseteq S
         /\ \A r \in RuleIds(g) : g.rules[r].nonterm \in S =>
               \A k \in 1 .. RuleLength(g, r) : g.rules[r].syms[k] \in S)
        => S = Symbols(g)

(***************************************************************************)
(* The nullable nonterminals and minLength, by definition: the least set   *)
(* closed under the rules, and the position after which everything is      *)
(* nullable (computeMinRuleLengths).  What computeNullable() arrives at is *)
(* modelled step by step in Nullable.tla.                                  *)
(***************************************************************************)
DerivesWithin(g, r, S) == \A k \in 1 .. RuleLength(g, r) : g.rules[r].syms[k] \in S

NullableSet(g) ==
    {A \in Nonterminals(g) : \A S \in SUBSET Nonterminals(g) :
        (\A r \in RuleIds(g) : DerivesWithin(g, r, S) => g.rules[r].nonterm \in S) => A \in S}

MinLength(g, r, nullable) ==
    CHOOSE n \in 0 .. RuleLength(g, r) :
        /\ \A k \in (n + 1) .. RuleLength(g, r) : g.rules[r].syms[k] \in nullable
        /\ n > 0 => g.rules[r].syms[n] \notin nullable
=============================================================================
