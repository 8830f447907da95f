----------------------------- MODULE MCFrontEnd -----------------------------
(***************************************************************************)
(* The front end on files that write down every sequence of up to          *)
(* NumDecls declarations of the menu, and on some written by hand for what *)
(* descriptions do not say; computeNullable and computeFirst besides on    *)
(* the grammars the table runs use, those among them on which              *)
(* computeNullable marks too much, and on two that meet the flags and the  *)
(* empty sets of StringSet2.                                               *)
(***************************************************************************)
EXTENDS Attributes
LOCAL INSTANCE TLC

CONSTANT NumDecls

T == INSTANCE GrammarText
S == INSTANCE Samples

(* e: t PLUS {a} e {b} | t ;   e: {a}{b} | 'n' error {c} ;  and so on.     *)
a == <<"$", "1">>  b == <<"{", "$", "$", "}">>
Menu == {
    T!RulesOf(NoType, "e", <<T!Alt(<<>>, <<T!Sym(T!Id("t"), <<>>), T!Sym(T!Id("PLUS"), <<a>>),
                                           T!Sym(T!Id("e"), <<b>>)>>),
                             T!Alt(<<>>, <<T!Sym(T!Id("t"), <<>>)>>)>>),
    T!RulesOf(<<"int">>, "e", <<T!Alt(<<a, b>>, <<>>),
                                T!Alt(<<a>>, <<T!Sym(T!Str("n"), <<>>), T!Sym(T!Err, <<b, a>>)>>)>>),
    T!RulesOf(NoType, "t", <<T!Alt(<<>>, <<T!Sym(T!Str("n"), <<a>>)>>)>>),
    T!RulesOf(<<"a", "(", ")">>, "t", <<T!Alt(<<>>, <<T!Sym(T!Str("+"), <<>>), T!Sym(T!Id("t"), <<>>)>>),
                                        T!Alt(<<b>>, <<>>)>>),
    T!RulesOf(NoType, "on", <<T!Alt(<<>>, <<T!Sym(T!Id("on"), <<>>), T!Sym(T!Id("PLUS"), <<>>)>>)>>),
    T!TokenIs(<<"int">>, "PLUS", T!Str("+"), <<>>),
    T!TokenIs(NoType, "WHITESPACE", T!Str("n"), <<a, b>>),
    T!Precs("left", "left", <<T!Id("PLUS"), T!Str("+")>>),
    T!Precs("non", "none", <<T!Str("n"), T!Id("PLUS"), T!Err>>),
    T!StartIs("t"),
    T!CaseIs(FALSE),
    T!ExpectIs("0")}

(* The grammars of test/attr1.elr to attr4.elr, in which a value is passed *)
(* on by rules without an action; one whose value is asked for by a later  *)
(* rule only; one that is asked for while its own rules are looked at.     *)
Plain(syms) == T!Alt(<<>>, [k \in DOMAIN syms |-> T!Sym(syms[k], <<>>)])
Acting(syms, act) ==
    T!Alt(<<>>, [k \in DOMAIN syms |-> T!Sym(syms[k], IF k = Len(syms) THEN <<act>> ELSE <<>>)])
Char == <<"char">>
IndexRule == T!RulesOf(Char, "s", <<Acting(<<T!Id("t"), T!Id("b")>>, <<"$", "$", "$", "2", "$", "1">>)>>)
Passing(ty, alts) == <<
    IndexRule, T!RulesOf(ty, "t", alts),
    T!RulesOf(NoType, "u", <<Plain(<<T!Id("NUMBER")>>)>>), T!RulesOf(NoType, "b", <<Plain(<<T!Str("n")>>)>>),
    T!TokenIs(<<"int">>, "NUMBER", T!Str("+"), <<<<"$", "$", "$", "1">>>>)>>
Asking == {
    Passing(NoType, <<Plain(<<T!Id("u")>>)>>),
    Passing(NoType, <<Plain(<<T!Id("b")>>), Plain(<<T!Id("u")>>)>>),
    Passing(<<"char", "*">>, <<Plain(<<T!Id("u")>>)>>),
    Passing(NoType, <<Acting(<<T!Id("u")>>, <<"a">>)>>),
    <<T!RulesOf(NoType, "s", <<Plain(<<T!Id("t"), T!Id("u")>>), Acting(<<T!Id("t")>>, <<"$", "1">>)>>),
      T!RulesOf(NoType, "t", <<Plain(<<T!Id("u")>>)>>),
      T!RulesOf(NoType, "u", <<Plain(<<T!Str("n"), T!Str("+")>>)>>)>>,
    <<T!RulesOf(NoType, "e", <<Plain(<<T!Id("e"), T!Str("+")>>), Acting(<<T!Str("n"), T!Id("e")>>, <<"$", "2">>),
                               Plain(<<T!Id("NUMBER")>>)>>),
      T!TokenIs(<<"int">>, "NUMBER", T!Str("u"), <<>>)>>}
Descriptions == (UNION {[1 .. n -> Menu] : n \in 1 .. NumDecls}) \union Asking
Written == {[decls |-> d, pieces |-> T!Pieces(d)] : d \in Descriptions}

(* Written by hand: every other declaration; comments and what begins      *)
(* nothing; a keyword that is left over for a name; files that are cut     *)
(* off or go on after their end; the empty file.                           *)
Rest == <<"t", ":", ";">>
HandWritten == {
    <<>>,
    <<"%", "{", "a", "{", "}", "}", "%", "}", "%", "class", " ", "e", ";">>,
    <<"%", "{", "a", "}", "%", "interface", "{", "a", "}", "%", "implementation", "{", "b", "}">> \o
        <<"%", "context", "{", "}", "(", "a", ")">> \o Rest,
    <<"%", "name", "\"", "e", "\\", "\"", "\"", ";", "%", "expect", " ", "0", ";">> \o Rest,
    <<"%", "expect", " ", "0", ";", "on", ":", ";">>,
    <<"%", "class", "'", "e", "'", ";", "%", "disambiguation", " ", "no", ";", "%", "language", " ", "a", ";">>
        \o Rest,
    <<"/", "*", "e", ":", "*", "/", "/", "/", "(", "\n">> \o Rest,
    <<"*", "/", "-", "%", "u", " ", "%", "t", " ", "%", " ", "e", ";">> \o Rest,
    <<"t", ":", "(", ")", ".", ";">>, <<"t", ":", "'", "n", "\n">>, <<"t", ":", "{", "{", "}", "\n">>,
    <<"(", ")", "t", ":", ";", "\n">>, <<"t", ":", ";", ":">>, <<"t", ":", "e", ";", ";">>}

MCWords == {"a", "b", "e", "s", "t", "u", "n", "int", "char", "PLUS", "NUMBER", "WHITESPACE", "error", "left", "non", "start",
            "case", "on", "off", "no", "class", "interface", "implementation", "context", "name",
            "expect", "disambiguation", "language"}
MCNumbers == {"0", "1", "2"}
MCValue == ("0" :> 0) @@ ("1" :> 1) @@ ("2" :> 2)
MCBegins == {<<"non", "nonassoc">>, <<"case", "casesensitive">>}
MCFiles == {t.pieces : t \in Written} \union HandWritten

(* S: A d; A: b c | E; E: a  (b = 1, c = 2, a = 3, d = 4, $ = 5; 6, 7, 8)  *)
FullThenShort == S!Sample(5, 8, 6,
    <<S!Rule(6, <<7, 4>>), S!Rule(7, <<1, 2>>), S!Rule(7, <<8>>), S!Rule(8, <<3>>)>>)

(* S: a A b; A: B; B: c  (a = 1, b = 2, c = 3, $ = 4; S = 5, A = 6, B = 7) *)
UnitRule == S!Sample(4, 7, 5,
    <<S!Rule(5, <<1, 6, 2>>), S!Rule(6, <<7>>), S!Rule(7, <<3>>)>>)

MCTableGrammars == S!SampleGrammars \union S!SmallGrammars
MCGrammars == MCTableGrammars \union S!OverMarkedGrammars \union {FullThenShort, UnitRule}

ASSUME Reference == ReferenceIsComplete

(* FIRST2 is exact where nothing misled the loop (computeFirst); and       *)
(* computeNullable marks the nullable nonterminals and no others, but for  *)
(* the grammars of OverMarkedGrammars.                                     *)
ResultsAreExact ==
    /\ ExactUnlessMisled
    /\ Done /\ grammar \in MCTableGrammars => isNullable = NullableSet(grammar)

(* A symbol and the actions of its rules, as the program has them.         *)
SymbolRead(s) == [type |-> s.type, prec |-> <<s.prec, s.assoc>>, cased |-> s.cased]
ActionsRead(s) ==
    [r \in DOMAIN s.rules |->
        [before |-> <<s.rules[r].pre>> \o [k \in DOMAIN s.rules[r].syms |-> s.rules[r].syms[k].action],
         reduce |-> s.rules[r].reduce]]

SymbolWritten(d, x) == [type |-> T!TypeOf(d, x), prec |-> T!PrecOf(d, x), cased |-> T!CasedOf(d, x)]

(* What is read is what is written, in whatever order it is declared       *)
(* (finalize and the actions of parser.y): references forward and back,    *)
(* texts used twice, symbols nobody uses, precedence, types, and which     *)
(* action belongs to what.  A file with errors ends as its error demands,  *)
(* one in which "on" is declared behind "%expect 0;" as one with errors.   *)
Judged == phase \in Outcomes \/ (phase = "first" /\ prev = <<>> /\ file # <<>>)
GrammarIsWritten ==
    Judged => \A d \in {w.decls : w \in {v \in Written : v.pieces = file}} :
        /\ phase = T!Ending(d)
        /\ phase = "first" =>
            /\ IsGrammar(grammar) /\ grammar = T!GrammarOf(d)
            /\ \E syms \in {T!SymbolsOf(d)} : \A k \in 1 .. Len(syms) - 1 :
                  LET s == gr.heap[(gr.terms \o gr.nonterms)[k]]
                  IN  /\ k # T!Position(syms, T!Eof) => SymbolRead(s) = SymbolWritten(d, syms[k])
                      /\ ActionsRead(s) = T!ActionsFor(d, syms[k])

(* Whose value is used is known in the end, whatever the order of the      *)
(* calls and however early a symbol was seen (computeTypes: "Assumes that  *)
(* computeSymbolUses has already been run", codegen.cc:437, which is done  *)
(* rule by rule instead); declared types stay; and when files are written, *)
(* every value used has a type, and a value passed on from a symbol of     *)
(* declared type keeps that type.                                          *)
TypesKnown == typeCalls = <<>> /\ attr.type # <<>>
AttributesAgree ==
    TypesKnown => \A d \in {w.decls : w \in {v \in Written : v.pieces = file}} :
        \E syms \in {T!SymbolsOf(d)} :
        /\ attr.places = T!UsedPlaces(d)
        /\ {syms[x] : x \in attr.used} = T!UsedSymbols(d)
        /\ \A x \in DOMAIN syms : T!TypeOf(d, syms[x]) \in {NoType, attr.type[x]}
        /\ phase = "written" =>
            /\ \A x \in attr.used : attr.type[x] # NoType
            /\ \A p \in T!ChainsOf(d) :
                  LET ty == T!TypeOf(d, p.alt.syms[1].sym)
                  IN  ty \in {NoType, attr.type[T!Position(syms, p.lhs)]}
=============================================================================
