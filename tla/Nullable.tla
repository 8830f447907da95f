------------------------------ MODULE Nullable ------------------------------
(***************************************************************************)
(* Grammar::computeNullable and nullify (grammar2.cc): which nonterminals  *)
(* can produce nothing.  Every rule counts the symbols not known to be     *)
(* nullable; nullify(nt) takes one from the count for each occurrence of   *)
(* nt and recurses into the nonterminal of a rule whose count becomes 0.   *)
(* The recursion is the sequence "calls", an activation with the           *)
(* occurrences its loop has not come to.                                   *)
(***************************************************************************)
EXTENDS Grammar

CONSTANT Grammars
ASSUME GrammarsAssumption == \A g \in Grammars : IsGrammar(g)

VARIABLES
    grammar,
    minLength,  \* Rule::minLength, by rule
    isNullable, \* the nonterminals with Symbol::isNullable
    nonterm,    \* the outer loop counter of computeNullable
    calls       \* the activations of nullify, the innermost last

vars == <<grammar, minLength, isNullable, nonterm, calls>>

(* used[A], by rule and position, and the order in which it is filled.     *)
Used(A) ==
    UNION {{[rule |-> r, pos |-> k] :
              k \in {l \in 1 .. RuleLength(grammar, r) : grammar.rules[r].syms[l] = A}} :
           r \in RuleIds(grammar)}

Before(o, p) ==
    LET lhs(q) == grammar.rules[q.rule].nonterm
    IN  \/ lhs(o) < lhs(p)
        \/ lhs(o) = lhs(p) /\ o.rule < p.rule
        \/ o.rule = p.rule /\ o.pos < p.pos

LastCall == calls[Len(calls)]
Outer == SubSeq(calls, 1, Len(calls) - 1)
-----------------------------------------------------------------------------
Init ==
    /\ grammar \in Grammars
    /\ minLength = [r \in RuleIds(grammar) |-> RuleLength(grammar, r)]
    /\ isNullable = {}
    /\ nonterm = grammar.lastTerminal + 1
    /\ calls = <<>>

HasEmptyRule(A) == \E r \in RulesOf(grammar, A) : minLength[r] = 0
InLoop == calls = <<>> /\ nonterm <= grammar.numSymbols

(* The outer loop calls nullify for a nonterminal with a rule whose count  *)
(* is 0, whether or not the nonterminal is nullable by now.                *)
NullifyNext ==
    /\ InLoop /\ HasEmptyRule(nonterm)
    /\ isNullable' = isNullable \union {nonterm}
    /\ calls' = <<[nt |-> nonterm, todo |-> Used(nonterm)]>>
    /\ nonterm' = nonterm + 1
    /\ UNCHANGED <<grammar, minLength>>

SkipNext ==
    /\ InLoop /\ ~HasEmptyRule(nonterm)
    /\ nonterm' = nonterm + 1
    /\ UNCHANGED <<grammar, minLength, isNullable, calls>>

MutTestBeforeDecrement(o) ==
    LET A == grammar.rules[o.rule].nonterm
        rest == [calls EXCEPT ![Len(calls)] = [nt |-> LastCall.nt, todo |-> LastCall.todo \ {o}]]
        recurse == minLength[o.rule] = 0 /\ A \notin isNullable
    IN  /\ minLength' = [minLength EXCEPT ![o.rule] = @ - 1]
        /\ IF recurse
           THEN /\ isNullable' = isNullable \union {A}
                /\ calls' = Append(rest, [nt |-> A, todo |-> Used(A)])
           ELSE isNullable' = isNullable /\ calls' = rest

(* One turn of the loop of nullify.                                        *)
TakeOccurrence(o) ==
    LET A == grammar.rules[o.rule].nonterm
        rest == [calls EXCEPT ![Len(calls)] = [nt |-> LastCall.nt, todo |-> LastCall.todo \ {o}]]
        recurse == minLength[o.rule] - 1 = 0 /\ A \notin isNullable
    IN  /\ minLength' = [minLength EXCEPT ![o.rule] = @ - 1]
        /\ IF recurse
           THEN /\ isNullable' = isNullable \union {A}
                /\ calls' = Append(rest, [nt |-> A, todo |-> Used(A)])
           ELSE isNullable' = isNullable /\ calls' = rest

Decrement ==
    /\ calls # <<>>
    /\ \E o \in LastCall.todo :
        /\ \A p \in LastCall.todo \ {o} : Before(o, p)
        /\ TakeOccurrence(o)
    /\ UNCHANGED <<grammar, nonterm>>

Return ==
    /\ calls # <<>> /\ LastCall.todo = {}
    /\ calls' = Outer
    /\ UNCHANGED <<grammar, minLength, isNullable, nonterm>>

Next == NullifyNext \/ SkipNext \/ Decrement \/ Return
Spec == Init /\ [][Next]_vars /\ WF_vars(Next)

Done == calls = <<>> /\ nonterm > grammar.numSymbols
-----------------------------------------------------------------------------
Activations ==
    [nt : Nonterminals(grammar), todo : SUBSET [rule : RuleIds(grammar), pos : Nat \ {0}]]

(* Counts, flags and activations in their ranges.  A count may go below 0. *)
TypeOK ==
    /\ grammar \in Grammars
    /\ minLength \in [RuleIds(grammar) -> Int]
    /\ isNullable \subseteq Nonterminals(grammar)
    /\ nonterm \in grammar.lastTerminal + 1 .. grammar.numSymbols + 1
    /\ calls \in Seq(Activations)

(* A count is never above the number of symbols of the rule that are not   *)
(* nullable or whose nullify() has not come to the rule yet: no decrement  *)
(* is lost, whatever calls are nested.                                     *)
Pending(o) == \E k \in DOMAIN calls : o \in calls[k].todo
Unresolved(r) ==
    {k \in 1 .. RuleLength(grammar, r) :
        grammar.rules[r].syms[k] \notin isNullable \/ Pending([rule |-> r, pos |-> k])}
NoDecrementLost == \A r \in RuleIds(grammar) : minLength[r] <= Cardinality(Unresolved(r))

(* "TODO: need to prove that this procedure covers all cases"              *)
(* (grammar2.cc:183): in the end every nonterminal that can produce        *)
(* nothing is marked.                                                      *)
CoversAllCases == Done => NullableSet(grammar) \subseteq isNullable
=============================================================================
