------------------------------ MODULE FrontEnd ------------------------------
(***************************************************************************)
(* From the text of a grammar file to the grammar the tables are made of:  *)
(* main() up to computeFirst(), with Grammar::finalize() (grammar2.cc).    *)
(* The scanner and the parser make gr, finalize() resolves, prunes and     *)
(* augments it and gives its symbols the numbers that "grammar", the       *)
(* record of Grammar.tla, has from then on.                                *)
(***************************************************************************)
EXTENDS GrammarFile, First
LOCAL INSTANCE SequencesExt

CONSTANT Files

frontVars == <<phase, lexInputVars, readVars, allVars>>

(* resolveForwardRefs(): the symbols of rules that have a name only.       *)
NamedBy(g, s) == [kind |-> "IDENT", str |-> g.heap[s].name]
InRules(g) ==
    UNION {UNION {ToSet(g.heap[A].rules[r].syms) : r \in DOMAIN g.heap[A].rules} :
           A \in ToSet(g.nonterms)}
Undefined(g) ==
    {x.sym : x \in {y \in InRules(g) : /\ g.heap[y.sym].kind = "placeholder"
                                      /\ NamedBy(g, y.sym) \notin DOMAIN g.table}}
Resolved(g) ==
    LET Real(s) == IF g.heap[s].kind = "placeholder" THEN g.table[NamedBy(g, s)] ELSE s
    IN  [g EXCEPT !.heap = [s \in DOMAIN @ |-> [@[s] EXCEPT !.rules =
            [r \in DOMAIN @ |-> [@[r] EXCEPT !.syms =
                [k \in DOMAIN @ |-> [@[k] EXCEPT !.sym = Real(@)]]]]]]]

(* markReachable() and checkReachability(): only "error" and WHITESPACE    *)
(* are kept without a use.  The rules of a deleted nonterminal count down  *)
(* "refs" of their symbols, deleted ones among them (~Rule); nothing reads *)
(* the count, and it is left out.                                          *)
MarkedWith(g, s) ==
    {s} \union UNION {{x.sym : x \in ToSet(g.heap[s].rules[r].syms)} : r \in DOMAIN g.heap[s].rules}
Marked(g) == FoldLeft(LAMBDA S, h : UNION {MarkedWith(g, s) : s \in S}, {g.start}, g.heap)
Space(g) ==
    LET tok == [kind |-> "IDENT", str |-> <<"WHITESPACE">>]
    IN  IF tok \in DOMAIN g.table /\ g.heap[g.table[tok]].kind = "terminal"
        THEN g.table[tok] ELSE 0
Pruned(g) ==
    LET kept == Marked(g) \union {1, Space(g)}
    IN  [g EXCEPT !.space = Space(g),
                  !.terms = SelectSeq(@, LAMBDA s : s \in kept),
                  !.nonterms = SelectSeq(@, LAMBDA s : s \in kept)]

(* augment()                                                               *)
Augmented(g) ==
    LET eof == Address(g) + 1
        rule0 == [NewRule EXCEPT !.id = g.numRules + 1,
                                 !.syms = <<[sym |-> g.start, action |-> <<>>],
                                            [sym |-> eof, action |-> <<>>]>>]
        n == AddNonterminal(AddTerminal(g, <<"$">>), <<"#START#">>)
    IN  [n EXCEPT !.numRules = @ + 1, !.start = eof + 1, !.heap[eof + 1].rules = <<rule0>>]

(* assignSymbolIds(): terminals in their order, then nonterminals.  Rules  *)
(* keep the order of their numbers; those of deleted ones are not missed.  *)
SymbolId(g, s) ==
    IF \E k \in DOMAIN g.terms : g.terms[k] = s THEN CHOOSE k \in DOMAIN g.terms : g.terms[k] = s
    ELSE Len(g.terms) + CHOOSE k \in DOMAIN g.nonterms : g.nonterms[k] = s
Numbered(g) ==
    LET RuleOf(id) ==
            {[nonterm |-> SymbolId(g, A),
              syms |-> [k \in DOMAIN g.heap[A].rules[r].syms |->
                           SymbolId(g, g.heap[A].rules[r].syms[k].sym)]] :
             <<A, r>> \in {x \in ToSet(g.nonterms) \X (1 .. g.numRules) :
                 x[2] \in DOMAIN g.heap[x[1]].rules /\ g.heap[x[1]].rules[x[2]].id = id}}
    IN  [lastTerminal |-> Len(g.terms),
         numSymbols |-> Len(g.terms) + Len(g.nonterms),
         rules |-> FoldLeft(LAMBDA rs, id : rs \o SetToSeq(RuleOf(id)), <<>>,
                            [id \in 1 .. g.numRules |-> id])]
-----------------------------------------------------------------------------
NoGrammar == [lastTerminal |-> 0, numSymbols |-> 0, rules |-> <<>>]

(* A run begins with a file, or with a grammar that is numbered already.   *)
FrontInit ==
    /\ ReadInit
    /\ \/ /\ \E f \in Files : OpenFile(f)
          /\ phase = "scan"
          /\ grammar = NoGrammar /\ minLength = <<>> /\ isNullable = {} /\ nonterm = 1 /\ calls = <<>>
          /\ row = <<>> /\ prev = <<>> /\ first = <<>> /\ nt = 0 /\ done = FALSE /\ misled = FALSE
       \/ FirstInit /\ OpenFile(<<>>) /\ phase = "nullable"

Read == (Scan \/ Parse) /\ UNCHANGED allVars

Stops(how) == phase' = how /\ UNCHANGED <<gr, vars>>

(* finalize() up to assignSymbolIds(), and the beginning of                *)
(* computeNullable().  The start symbol may be a placeholder, which        *)
(* resolveForwardRefs() does not look at: it is no Nonterminal.  If the    *)
(* file goes on where it should end, the grammar is made and thrown away.  *)
Finalize ==
    /\ phase = "parse" /\ SpecReduced
    /\ \/ gr.nonterms = <<>> /\ Stops("abort")
       \/ gr.nonterms # <<>> /\ Undefined(gr) # {} /\ Stops("exit")
       \/ /\ gr.nonterms # <<>> /\ Undefined(gr) = {} /\ gr.heap[gr.start].kind = "placeholder"
          /\ Stops("undefined")
       \/ /\ gr.nonterms # <<>> /\ Undefined(gr) = {} /\ gr.heap[gr.start].kind # "placeholder"
          /\ ~AllRead /\ Stops("parse error")
       \/ /\ gr.nonterms # <<>> /\ Undefined(gr) = {} /\ gr.heap[gr.start].kind # "placeholder"
          /\ AllRead
          /\ phase' = "nullable"
          /\ \E g \in {Resolved(gr)} : \E p \in {Pruned(g)} : gr' = Augmented(p)
          /\ grammar' = Numbered(gr')
          /\ minLength' = [r \in RuleIds(grammar') |-> RuleLength(grammar', r)]
          /\ isNullable' = {} /\ calls' = <<>>
          /\ nonterm' = grammar'.lastTerminal + 1
    /\ UNCHANGED <<lexInputVars, rest, context, lhs, rule, type, prec, assoc, firstVars>>

(* computeMinRuleLengths()                                                 *)
ComputeMinRuleLengths ==
    /\ phase = "nullable" /\ Done
    /\ minLength' = [r \in RuleIds(grammar) |-> MinLength(grammar, r, isNullable)]
    /\ phase' = "first"
    /\ UNCHANGED <<lexInputVars, readVars, grammar, isNullable, nonterm, calls, firstVars>>

ComputeSets ==
    /\ \/ phase = "nullable" /\ ComputeNullable
       \/ phase = "first" /\ (Start \/ Compute \/ NextRow \/ Finish)
    /\ UNCHANGED <<phase, lexInputVars, readVars>>

FrontNext == Read \/ Finalize \/ ComputeMinRuleLengths \/ ComputeSets

Outcomes == {"parse error", "abort", "exit", "undefined"}
=============================================================================
