---------------------------- MODULE GrammarFile ----------------------------
(***************************************************************************)
(* Reading a grammar file: what the actions of elr's own parser (parser.y, *)
(* parser.cc) do with the tokens, and the grammar they build with the      *)
(* operations of grammar.cc.  The grammar is the record "gr", an object of *)
(* class Symbol its place in gr.heap; "table" is nontermHash,              *)
(* stringTermHash and regexpTermHash in one, by token.                     *)
(***************************************************************************)
EXTENDS InputLexer
LOCAL INSTANCE SequencesExt
LOCAL INSTANCE TLC

VARIABLES
    phase,      \* "scan", "parse", then what is computed, or how it ended
    rest,       \* the tokens the parser has not taken
    context,    \* "decls", "precs", or in "rules"
    gr,
    lhs, rule, type,    \* the Rules that is read: its Lhs, rule and type
    prec, assoc

readVars == <<rest, context, gr, lhs, rule, type, prec, assoc>>

NoType == <<>>
Terms == {"STRING", "REGEXP"}

(* Symbol::Symbol and its kinds; "error" is the first terminal.            *)
NewSymbol(name, kind) ==
    [name |-> name, kind |-> kind, prec |-> 0, assoc |-> "none", type |-> NoType,
     cased |-> TRUE, action |-> <<>>, rules |-> <<>>]
NewGrammar ==
    [heap |-> <<NewSymbol(<<"error">>, "terminal")>>, table |-> <<>>,
     terms |-> <<1>>, nonterms |-> <<>>, start |-> 0, space |-> 0, numRules |-> 0,
     code |-> [k \in {"CODE", "INTERFACE", "IMPLEMENTATION", "CONTEXT"} |-> <<>>],
     option |-> [k \in {"CLASS", "NAME", "EXPECT"} |-> <<>>],
     flag |-> [k \in {"CASE", "DISAMBIGUATION"} |-> TRUE]]

Address(g) == Len(g.heap)
Allocate(g, symbol) == [g EXCEPT !.heap = Append(@, symbol)]
AddTerminal(g, name) ==
    [Allocate(g, [NewSymbol(name, "terminal") EXCEPT !.cased = g.flag["CASE"]])
        EXCEPT !.terms = Append(@, Address(g) + 1)]
AddNonterminal(g, name) ==
    [Allocate(g, NewSymbol(name, "nonterminal")) EXCEPT !.nonterms = Append(@, Address(g) + 1)]
Bind(g, tok) == [g EXCEPT !.table = (tok :> Address(g)) @@ @]

(* Symbol: lookupIdent, lookupStringTerm or lookupRegexpTerm.  An unknown  *)
(* identifier is a placeholder of its own at every use.                    *)
IsSymbol(tok) == tok.kind \in Terms \union {"IDENT", "ERROR_IDENT"}
MutTextsApart(g, tok) ==
    IF tok.kind = "ERROR_IDENT" THEN g
    ELSE IF tok.kind \in Terms THEN Bind(AddTerminal(g, tok.str), tok)
    ELSE IF tok \in DOMAIN g.table THEN g
    ELSE Allocate(g, NewSymbol(tok.str, "placeholder"))
LookedUp(g, tok) ==
    IF tok.kind = "ERROR_IDENT" \/ tok \in DOMAIN g.table THEN g
    ELSE IF tok.kind \in Terms THEN Bind(AddTerminal(g, tok.str), tok)
    ELSE Allocate(g, NewSymbol(tok.str, "placeholder"))
SymbolOf(g, tok) ==
    IF tok.kind = "ERROR_IDENT" THEN 1
    ELSE IF tok \in DOMAIN g.table THEN g.table[tok] ELSE Address(g)

(* Lhs: a new nonterminal, or the one of that name; a terminal gives its   *)
(* name up, with a message.                                                *)
IsNonterminal(g, tok) ==
    tok \in DOMAIN g.table /\ g.heap[g.table[tok]].kind = "nonterminal"
MadeNonterminal(g, tok) ==
    IF IsNonterminal(g, tok) THEN g ELSE Bind(AddNonterminal(g, tok.str), tok)

(* A new terminal of that name; an action without code is none.            *)
MadeLexicalSymbol(g, tok, ty, action) ==
    LET n == Bind(AddTerminal(g, tok.str), tok)
    IN  [n EXCEPT !.heap[Address(n)].type = ty, !.heap[Address(n)].action = action]

NewRule == [id |-> 0, syms |-> <<>>, pre |-> <<>>, reduce |-> <<>>]

(* Rule::fixReduce: the last action is the rule's own.                     *)
FixReduce(r) ==
    IF r.syms = <<>> THEN [r EXCEPT !.reduce = r.pre, !.pre = <<>>]
    ELSE [r EXCEPT !.reduce = Last(r.syms).action, !.syms[Len(r.syms)].action = <<>>]

(* addCode() and its like; setClass() and setName().                       *)
AddCode(g, where, text) == [g EXCEPT !.code[where] = Append(@, text)]
SetOption(g, which, text) == [g EXCEPT !.option[which] = text]

(* Nonterminal::setType: the first type stays, another is only reported.   *)
TypeSet(g, nt0, ty) ==
    IF g.heap[nt0].type = NoType THEN [g EXCEPT !.heap[nt0].type = ty] ELSE g
-----------------------------------------------------------------------------
ReadInit ==
    /\ rest = <<>> /\ context = "decls" /\ gr = NewGrammar
    /\ lhs = 0 /\ rule = NewRule /\ type = NoType
    /\ prec = 0 /\ assoc = "none"

(* main() calls yyparse(); the scanner does not depend on the parser.      *)
Scan ==
    /\ phase = "scan" /\ yylex
    /\ phase' = IF Scanned' THEN "parse" ELSE "scan"
    /\ rest' = IF Scanned' THEN tokens' ELSE rest
    /\ UNCHANGED <<context, gr, lhs, rule, type, prec, assoc>>

Sees(kinds) == Len(rest) >= Len(kinds) /\ \A k \in DOMAIN kinds : rest[k].kind \in kinds[k]
Take(n) == rest' = SubSeq(rest, n + 1, Len(rest))

Texts == Terms \union {"IDENT"}
Symbolic == Texts \union {"ERROR_IDENT"}

(* CODE, and %interface, %implementation, %context with their blocks.      *)
CodeDecl ==
    /\ context = "decls"
    /\ \/ /\ Sees(<<{"CODE"}>>) /\ Take(1)
          /\ gr' = AddCode(gr, "CODE", rest[1].str)
       \/ /\ Sees(<<{"INTERFACE", "IMPLEMENTATION", "CONTEXT"}, {"ACTION"}>>) /\ Take(2)
          /\ gr' = AddCode(gr, rest[1].kind, rest[2].str)
    /\ UNCHANGED <<context, lhs, rule, type, prec, assoc>>

OptionDecl ==
    /\ context = "decls" /\ Take(3)
    /\ \/ /\ Sees(<<{"CLASS", "NAME"}, Texts, {"SEMICOLON"}>>)
          /\ gr' = SetOption(gr, rest[1].kind, rest[2].str)
       \/ /\ Sees(<<{"EXPECT"}, {"NUMBER"}, {"SEMICOLON"}>>)
          /\ gr' = [gr EXCEPT !.option["EXPECT"] = rest[2].str]
       \/ /\ Sees(<<{"CASE", "DISAMBIGUATION"}, {"ON", "OFF"}, {"SEMICOLON"}>>)
          /\ gr' = [gr EXCEPT !.flag[rest[1].kind] = (rest[2].kind = "ON")]
       \/ /\ Sees(<<{"LANGUAGE"}, Texts, {"SEMICOLON"}>>)
          /\ UNCHANGED gr
    /\ UNCHANGED <<context, lhs, rule, type, prec, assoc>>

StartDecl ==
    /\ context = "decls" /\ Sees(<<{"START"}, {"IDENT"}, {"SEMICOLON"}>>) /\ Take(3)
    /\ \E g \in {LookedUp(gr, rest[2])} : gr' = [g EXCEPT !.start = SymbolOf(g, rest[2])]
    /\ UNCHANGED <<context, lhs, rule, type, prec, assoc>>

AssocOf == [LEFTPREC |-> "left", RIGHTPREC |-> "right", NONASSOCPREC |-> "none"]
BeginPrecs ==
    /\ context = "decls" /\ Sees(<<DOMAIN AssocOf>>) /\ Take(1)
    /\ assoc' = AssocOf[rest[1].kind] /\ prec' = prec + 1
    /\ context' = "precs"
    /\ UNCHANGED <<gr, lhs, rule, type>>

(* A symbol that has a precedence keeps it, with a message.                *)
PrecSymbol ==
    /\ context = "precs" /\ Sees(<<Symbolic>>) /\ Take(1)
    /\ \E g \in {LookedUp(gr, rest[1])} : \E s \in {SymbolOf(g, rest[1])} :
          gr' = IF g.heap[s].prec # 0 THEN g
                ELSE [g EXCEPT !.heap[s].prec = prec, !.heap[s].assoc = assoc]
    /\ UNCHANGED <<context, lhs, rule, type, prec, assoc>>

EndPrecs ==
    /\ context = "precs" /\ Sees(<<{"SEMICOLON"}>>) /\ Take(1)
    /\ context' = "decls"
    /\ UNCHANGED <<gr, lhs, rule, type, prec, assoc>>

(* Rules begins with a type or without one.                                *)
Typed(kinds) == Sees(<<{"TYPE"}>> \o kinds)
TypeThere == IF Sees(<<{"TYPE"}>>) THEN 1 ELSE 0
TypeRead == IF Sees(<<{"TYPE"}>>) THEN rest[1].str ELSE NoType
Declares(kinds) == Sees(kinds) \/ Typed(kinds)

BeginRules ==
    /\ context = "decls" /\ Declares(<<{"IDENT"}, {"COLON"}>>) /\ Take(TypeThere + 2)
    /\ \E name \in {rest[TypeThere + 1]} :
        /\ gr' = MadeNonterminal(gr, name)
        /\ lhs' = gr'.table[name]
    /\ type' = TypeRead
    /\ rule' = NewRule /\ context' = "rules"
    /\ UNCHANGED <<prec, assoc>>

(* The actions from the token after the first n on.                        *)
NumActions(n) ==
    (CHOOSE k \in n + 1 .. Len(rest) :
        rest[k].kind # "ACTION" /\ \A j \in n + 1 .. k - 1 : rest[j].kind = "ACTION") - n - 1
ActionsAt(n) == [k \in 1 .. NumActions(n) |-> rest[n + k].str]

(* Rule: the actions before the first symbol; the rule gets its number.    *)
BeginRule ==
    /\ context = "rules" /\ rule.id = 0
    /\ gr' = [gr EXCEPT !.numRules = @ + 1]
    /\ rule' = [NewRule EXCEPT !.id = gr'.numRules, !.pre = ActionsAt(0)]
    /\ Take(NumActions(0))
    /\ UNCHANGED <<context, lhs, type, prec, assoc>>

RuleSymbol ==
    /\ context = "rules" /\ rule.id # 0 /\ Sees(<<Symbolic>>)
    /\ gr' = LookedUp(gr, rest[1])
    /\ rule' = [rule EXCEPT !.syms = Append(@, [sym |-> SymbolOf(gr', rest[1]),
                                                action |-> ActionsAt(1)])]
    /\ Take(1 + NumActions(1))
    /\ UNCHANGED <<context, lhs, type, prec, assoc>>

(* setType() compares the type there is with the one not given.            *)
RuleEnds == context = "rules" /\ rule.id # 0 /\ Sees(<<{"OR", "SEMICOLON"}>>)
TypeOfNothing ==
    RuleEnds /\ rest[1].kind = "SEMICOLON" /\ type = NoType /\ gr.heap[lhs].type # NoType
EndRule ==
    /\ RuleEnds /\ ~TypeOfNothing /\ Take(1)
    /\ \E g \in {[gr EXCEPT !.heap[lhs].rules = Append(@, FixReduce(rule))]} :
        \/ rest[1].kind = "OR" /\ gr' = g /\ UNCHANGED context
        \/ /\ rest[1].kind = "SEMICOLON" /\ context' = "decls"
           /\ gr' = [TypeSet(g, lhs, type) EXCEPT !.start = IF @ = 0 THEN lhs ELSE @]
    /\ rule' = NewRule
    /\ UNCHANGED <<lhs, type, prec, assoc>>

(* IDENT = Lexical Action ;  The name of a symbol is deleted, then used.    *)
LexicalSymbolRead ==
    /\ context = "decls" /\ Declares(<<{"IDENT"}, {"EQUALS"}, Terms>>)
    /\ rest[TypeThere + 3 + NumActions(TypeThere + 3) + 1].kind = "SEMICOLON"
NameTaken == LexicalSymbolRead /\ rest[TypeThere + 1] \in DOMAIN gr.table
LexicalSymbol ==
    /\ LexicalSymbolRead /\ ~NameTaken
    /\ \E n \in {TypeThere + 3} :
        /\ gr' = MadeLexicalSymbol(gr, rest[TypeThere + 1], TypeRead, ActionsAt(n))
        /\ Take(n + NumActions(n) + 1)
    /\ UNCHANGED <<context, lhs, rule, type, prec, assoc>>

Reduce ==
    \/ CodeDecl \/ OptionDecl \/ StartDecl \/ BeginPrecs \/ PrecSymbol \/ EndPrecs
    \/ BeginRules \/ BeginRule \/ RuleSymbol \/ EndRule \/ LexicalSymbol

(* A token that begins no declaration: the parser reduces Spec, whose      *)
(* action is finalize(), before it looks whether the file ends there.      *)
DeclTokens ==
    {"CODE", "INTERFACE", "IMPLEMENTATION", "CONTEXT", "CLASS", "NAME", "EXPECT", "CASE",
     "DISAMBIGUATION", "LANGUAGE", "START", "TYPE", "IDENT"} \union DOMAIN AssocOf
SpecReduced == context = "decls" /\ rest[1].kind \notin DeclTokens
AllRead == rest = <<EndToken>>

(* Another token: yyparse() is not 0, "Parse error: aborting" (main.cc).   *)
Parse ==
    /\ phase = "parse" /\ ~SpecReduced
    /\ \/ Reduce /\ UNCHANGED phase
       \/ (TypeOfNothing \/ NameTaken) /\ phase' = "undefined" /\ UNCHANGED readVars
       \/ /\ ~(TypeOfNothing \/ NameTaken \/ ENABLED Reduce)
          /\ phase' = "parse error" /\ UNCHANGED readVars
    /\ UNCHANGED lexInputVars
=============================================================================
