----------------------------- MODULE Attributes -----------------------------
(***************************************************************************)
(* What the code generator (codegen.cc) finds out about attributes before  *)
(* it writes a line: whose value some action uses, and of what type each   *)
(* value is.  computeTypes() walks the grammar from the start symbol and   *)
(* calls itself for every symbol of a rule; its activations are the        *)
(* records of typeCalls.  The tables, which are computed in between, do    *)
(* not matter to it.                                                       *)
(***************************************************************************)
EXTENDS FrontEnd
LOCAL INSTANCE SequencesExt

CONSTANT Value      \* the number that a piece of Numbers stands for

VARIABLES
    attr,           \* the types, isResultUsed of symbols and of places, seen, errors > 0
    typeCalls

attrVars == <<attr, typeCalls>>
genVars == <<frontVars, attrVars>>

ScanType == <<"yyscan_t">>
Unseen == -1
ObjectOf(x) == gr.heap[(gr.terms \o gr.nonterms)[x]]
RulesFor(A) == SelectSeq([r \in RuleIds(grammar) |-> r], LAMBDA r : grammar.rules[r].nonterm = A)
ReduceAction(r) ==
    LET A == grammar.rules[r].nonterm
    IN  ObjectOf(A).rules[CHOOSE k \in DOMAIN RulesFor(A) : RulesFor(A)[k] = r].reduce
SymAt(place) == grammar.rules[place[1]].syms[place[2]]

(* computeSymbolUses(): "$1" in "$$1" counts, though none is written.      *)
UsesIn(text, n) ==
    {v \in 1 .. n : \E k \in 1 .. Len(text) - 1 :
        text[k] = "$" /\ text[k + 1] \in Numbers /\ Value[text[k + 1]] = v}
PlacesUsed(r) ==
    {r} \X UNION {UsesIn(text, RuleLength(grammar, r)) : text \in ToSet(ReduceAction(r))}
-----------------------------------------------------------------------------
(* A call that does not turn back at once: what it does to its symbol.     *)
Entered(a, x, ty, used) ==
    LET b == [a EXCEPT !.seen[x] = used, !.used = IF used = 1 THEN @ \union {x} ELSE @]
    IN  [b EXCEPT !.type[x] =
            IF @ # NoType THEN @
            ELSE IF ty # NoType THEN ty
            ELSE IF x \in Terminals(grammar) /\ x \in b.used THEN ScanType ELSE NoType]

Call(x, ty, used) == [sym |-> x, type |-> ty, used |-> used, todo |-> RulesFor(x), pos |-> 0]

(* In a rule without an action the first symbol has the type that was      *)
(* asked for, or that of the rule before; the others are visited for their *)
(* own sake.  Uses are marked where the walk comes to the rule.            *)
RuleAt(f) == Head(f.todo)
IsChain(f) == ReduceAction(RuleAt(f)) = <<>>
Place(f) == <<RuleAt(f), f.pos>>
UsesMarked(a, f) ==
    IF f.pos > 1 THEN a
    ELSE [a EXCEPT !.places = @ \union PlacesUsed(RuleAt(f)),
                   !.used = @ \union {SymAt(p) : p \in PlacesUsed(RuleAt(f))}]
Asked(a, f) ==
    IF IsChain(f) /\ f.pos = 1 THEN [type |-> f.type, used |-> f.used]
    ELSE [type |-> NoType, used |-> IF Place(f) \in a.places THEN 1 ELSE 0]

(* The call for the symbol at f.pos has returned "ty".                     *)
Answered(a, f, ty) ==
    IF IsChain(f) /\ f.pos = 1
    THEN IF ty = NoType THEN a
         ELSE IF a.type[f.sym] = NoType THEN [a EXCEPT !.type[f.sym] = ty]
         ELSE [a EXCEPT !.errors = @ \/ a.type[f.sym] # ty]
    ELSE [a EXCEPT !.errors = @ \/ (~IsChain(f) /\ ty = NoType /\ Place(f) \in a.places)]
Resumed(f, ty) == IF IsChain(f) /\ f.pos = 1 THEN [f EXCEPT !.type = ty] ELSE f

MutSeenIsEnough(a, x, used) == a.seen[x] # Unseen
TurnsBack(a, x, used) == a.seen[x] >= used
-----------------------------------------------------------------------------
AttrInit ==
    /\ FrontInit
    /\ attr = [type |-> <<>>, used |-> {}, places |-> {}, seen |-> <<>>, errors |-> FALSE]
    /\ typeCalls = <<>>

(* init() of the code generator.                                           *)
BeginTypes ==
    /\ phase = "first" /\ Finished /\ file # <<>>
    /\ phase' = "types"
    /\ LET a == [type |-> [x \in Symbols(grammar) |-> ObjectOf(x).type], used |-> {},
                 places |-> {}, seen |-> [x \in Symbols(grammar) |-> Unseen], errors |-> FALSE]
       IN  attr' = Entered(a, StartSymbol(grammar), NoType, 0)
    /\ typeCalls' = <<Call(StartSymbol(grammar), NoType, 0)>>

Caller == Front(typeCalls)
Callee == Last(typeCalls)
InRule == phase = "types" /\ typeCalls # <<>> /\ Callee.todo # <<>>

(* The next symbol of the rule: the call returns at once, or goes into the *)
(* rules of a nonterminal.                                                 *)
VisitSymbol ==
    /\ InRule /\ Callee.pos < RuleLength(grammar, RuleAt(Callee))
    /\ \E f \in {[Callee EXCEPT !.pos = @ + 1]} : \E x \in {SymAt(Place(f))} :
       \E a \in {UsesMarked(attr, f)} : \E ask \in {Asked(a, f)} :
          \/ /\ TurnsBack(a, x, ask.used)
             /\ attr' = Answered(a, f, a.type[x])
             /\ typeCalls' = Append(Caller, Resumed(f, a.type[x]))
          \/ /\ ~TurnsBack(a, x, ask.used) /\ x \in Terminals(grammar)
             /\ \E e \in {Entered(a, x, ask.type, ask.used)} :
                  /\ attr' = Answered(e, f, e.type[x])
                  /\ typeCalls' = Append(Caller, Resumed(f, e.type[x]))
          \/ /\ ~TurnsBack(a, x, ask.used) /\ x \in Nonterminals(grammar)
             /\ attr' = Entered(a, x, ask.type, ask.used)
             /\ typeCalls' = Caller \o <<f, Call(x, ask.type, ask.used)>>
    /\ UNCHANGED phase

NextRule ==
    /\ InRule /\ Callee.pos = RuleLength(grammar, RuleAt(Callee))
    /\ typeCalls' = Append(Caller, [Callee EXCEPT !.todo = Tail(@), !.pos = 0])
    /\ UNCHANGED <<phase, attr>>

ReturnType ==
    /\ phase = "types" /\ typeCalls # <<>> /\ Callee.todo = <<>>
    /\ \/ Caller = <<>> /\ typeCalls' = <<>> /\ UNCHANGED attr
       \/ /\ Caller # <<>>
          /\ attr' = Answered(attr, Last(Caller), attr.type[Callee.sym])
          /\ typeCalls' = Append(Front(Caller), Resumed(Last(Caller), attr.type[Callee.sym]))
    /\ UNCHANGED phase

(* The texts that are written for a symbol: its lexical action, the        *)
(* actions done when a rule is reduced, no others.  "$$" needs its type.   *)
TextsFor(x) ==
    ToSet(ObjectOf(x).action) \union UNION {ToSet(ReduceAction(r)) : r \in RulesOf(grammar, x)}
HasSynth(text) == \E k \in 1 .. Len(text) - 1 : text[k] = "$" /\ text[k + 1] = "$"
TypeMissing ==
    \E x \in Symbols(grammar) : attr.type[x] = NoType /\ \E text \in TextsFor(x) : HasSynth(text)

(* main(): files are written if getErrors() is 0.                          *)
WriteFiles ==
    /\ phase = "types" /\ typeCalls = <<>>
    /\ phase' = IF attr.errors THEN "type errors" ELSE IF TypeMissing THEN "untyped" ELSE "written"
    /\ UNCHANGED attrVars

Generate ==
    /\ BeginTypes \/ VisitSymbol \/ NextRule \/ ReturnType \/ WriteFiles
    /\ UNCHANGED <<lexInputVars, readVars, allVars>>

GenNext == (FrontNext /\ UNCHANGED attrVars) \/ Generate

(* A sequential program runs on by itself.                                 *)
GenSpec == AttrInit /\ [][GenNext]_genVars /\ WF_genVars(GenNext)
-----------------------------------------------------------------------------
Ended == phase \in Outcomes \union {"written", "untyped", "type errors"} \/ (Finished /\ file = <<>>)

(* Reading a file, computeNullable(), computeFirst() and computeTypes()    *)
(* come to an end: the tables grow until one repeats the last, and a       *)
(* symbol is gone into at most twice.                                      *)
FrontEnds == <>Ended
=============================================================================
