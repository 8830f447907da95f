---------------------------- MODULE GrammarText ----------------------------
(***************************************************************************)
(* What a grammar file says, told without the program: a description d is  *)
(* a sequence of declarations, Pieces(d) a file that writes it down, the   *)
(* other operators the grammar it stands for.  A symbol is the token it is *)
(* written with.  No name is that of a token and of a nonterminal.         *)
(***************************************************************************)
LOCAL INSTANCE Integers
LOCAL INSTANCE SequencesExt

NoType == <<>>
Id(name) == [kind |-> "IDENT", str |-> <<name>>]
Str(c) == [kind |-> "STRING", str |-> <<"'", c, "'">>]
Err == [kind |-> "ERROR_IDENT", str |-> <<"error">>]
Eof == [kind |-> "end", str |-> <<"$">>]
Augmenting == [kind |-> "end", str |-> <<"#START#">>]
IsText(sym) == sym.kind \in {"STRING", "REGEXP"}

(* The declarations.  "pre" and "acts" are sequences of actions.           *)
Alt(pre, syms) == [pre |-> pre, syms |-> syms]
Sym(sym, acts) == [sym |-> sym, acts |-> acts]
RulesOf(type, name, alts) == [is |-> "rules", type |-> type, name |-> Id(name), alts |-> alts]
TokenIs(type, name, text, acts) ==
    [is |-> "token", type |-> type, name |-> Id(name), text |-> text, acts |-> acts]
Precs(dir, assoc, syms) == [is |-> "prec", dir |-> dir, assoc |-> assoc, syms |-> syms]
StartIs(name) == [is |-> "start", name |-> Id(name)]
CaseIs(on) == [is |-> "case", on |-> on]
ExpectIs(n) == [is |-> "expect", n |-> n]
-----------------------------------------------------------------------------
Joined(seq, Op(_)) == FoldLeft(LAMBDA acc, x : acc \o Op(x), <<>>, seq)
Written(sym) == sym.str \o <<" ">>
Block(open, text, close) == <<open>> \o text \o <<close>>
Actions(acts) == Joined(acts, LAMBDA a : Block("{", a, "}"))
TypePart(type) == IF type = NoType THEN <<>> ELSE Block("(", type, ")")
AltPieces(alt) ==
    Actions(alt.pre) \o Joined(alt.syms, LAMBDA x : Written(x.sym) \o Actions(x.acts))

DeclPieces(decl) ==
    CASE decl.is = "rules" ->
            TypePart(decl.type) \o Written(decl.name) \o <<":">>
            \o Tail(Joined(decl.alts, LAMBDA alt : <<"|">> \o AltPieces(alt))) \o <<";">>
      [] decl.is = "token" ->
            TypePart(decl.type) \o Written(decl.name) \o <<"=">> \o Written(decl.text)
            \o Actions(decl.acts) \o <<";">>
      [] decl.is = "prec" -> <<"%", decl.dir, " ">> \o Joined(decl.syms, Written) \o <<";">>
      [] decl.is = "start" -> <<"%", "start", " ">> \o Written(decl.name) \o <<";">>
      [] decl.is = "case" ->
            <<"%", "case", " ", IF decl.on THEN "on" ELSE "off", ";">>
      [] decl.is = "expect" -> <<"%", "expect", " ", decl.n, ";">>
Pieces(d) == Joined(d, LAMBDA decl : DeclPieces(decl) \o <<"\n">>)
-----------------------------------------------------------------------------
Indices(d, is) == {k \in DOMAIN d : d[k].is = is}
Least(S) == CHOOSE k \in S : \A j \in S : k <= j
Greatest(S) == CHOOSE k \in S : \A j \in S : j <= k
Position(seq, x) == Least({k \in DOMAIN seq : seq[k] = x})
Distinct(seq) ==
    LET new == SelectSeq([k \in DOMAIN seq |-> k], LAMBDA k : \A j \in 1 .. k - 1 : seq[j] # seq[k])
    IN  [k \in DOMAIN new |-> seq[new[k]]]

Definitions(d, sym) ==
    {k \in Indices(d, "rules") \union Indices(d, "token") : d[k].name = sym}
DefinedBefore(d, sym, k) == \E j \in Definitions(d, sym) : j < k

(* A symbol of a rule may be defined anywhere; a text is defined where it  *)
(* is read first.                                                          *)
SymsOf(alt) == [k \in DOMAIN alt.syms |-> alt.syms[k].sym]
Introduces(decl) ==
    CASE decl.is = "rules" -> SelectSeq(Joined(decl.alts, SymsOf), IsText)
      [] decl.is = "prec" -> SelectSeq(decl.syms, IsText)
      [] decl.is = "token" -> <<decl.name>>
      [] OTHER -> <<>>
Productions(d) ==
    Joined(d, LAMBDA decl :
        IF decl.is # "rules" THEN <<>>
        ELSE [k \in DOMAIN decl.alts |-> [lhs |-> decl.name, alt |-> decl.alts[k]]])
Heads(d) ==
    Distinct(Joined(d, LAMBDA decl : IF decl.is = "rules" THEN <<decl.name>> ELSE <<>>))

StartOf(d) ==
    IF Indices(d, "start") # {} THEN d[Greatest(Indices(d, "start"))].name
    ELSE d[Least(Indices(d, "rules"))].name
InUse(d) ==
    LET ps == ToSet(Productions(d))
        Below(x) == {x} \union UNION {ToSet(SymsOf(p.alt)) : p \in {q \in ps : q.lhs = x}}
    IN  FoldLeft(LAMBDA S, h : UNION {Below(x) : x \in S},
                 {StartOf(d), Id("WHITESPACE")}, Heads(d))
IsTerminal(d, sym) ==
    IsText(sym) \/ \E k \in Indices(d, "token") : d[k].name = sym
SymbolsOf(d) ==
    LET used == InUse(d)
    IN  <<Err>> \o SelectSeq(Distinct(Joined(d, Introduces)), LAMBDA x : x \in used)
        \o <<Eof>> \o SelectSeq(Heads(d), LAMBDA x : x \in used) \o <<Augmenting>>

(* The grammar as Grammar.tla has it.                                      *)
ProductionsInUse(d) ==
    LET used == InUse(d)
    IN  SelectSeq(Productions(d), LAMBDA p : p.lhs \in used)
        \o <<[lhs |-> Augmenting, alt |-> Alt(<<>>, <<Sym(StartOf(d), <<>>), Sym(Eof, <<>>)>>)]>>
GrammarOf(d) ==
    LET syms == SymbolsOf(d)
        ps == ProductionsInUse(d)
    IN  [lastTerminal |-> Position(syms, Eof),
         numSymbols |-> Len(syms),
         rules |-> [r \in DOMAIN ps |->
            [nonterm |-> Position(syms, ps[r].lhs),
             syms |-> [k \in DOMAIN ps[r].alt.syms |-> Position(syms, ps[r].alt.syms[k].sym)]]]]

(* The last actions of a rule are done when it is reduced, the others      *)
(* before the symbol they stand in front of.                               *)
ActionsOf(alt) ==
    LET n == Len(alt.syms)
    IN  [before |-> <<IF n = 0 THEN <<>> ELSE alt.pre>>
                    \o [k \in 1 .. n |-> IF k = n THEN <<>> ELSE alt.syms[k].acts],
         reduce |-> IF n = 0 THEN alt.pre ELSE alt.syms[n].acts]
ActionsFor(d, sym) ==
    LET ps == SelectSeq(Productions(d), LAMBDA p : p.lhs = sym)
    IN  [k \in DOMAIN ps |-> ActionsOf(ps[k].alt)]

(* The places of rules whose value an action uses, by rule in use, and the *)
(* symbols: one whose value is used passes the demand on to the first      *)
(* symbol of its rules without an action.                                  *)
Numerals == <<"1", "2", "3">>
Mentions(text, p) ==
    \E k \in 1 .. Len(text) - 1 : text[k] = "$" /\ text[k + 1] = Numerals[p]
UsedPlaces(d) ==
    LET ps == ProductionsInUse(d)
    IN  UNION {{<<r, p>> : p \in {q \in 1 .. Len(ps[r].alt.syms) :
                    \E text \in ToSet(ActionsOf(ps[r].alt).reduce) : Mentions(text, q)}} :
               r \in DOMAIN ps}
ChainsOf(d) ==
    {p \in ToSet(ProductionsInUse(d)) : p.alt.syms # <<>> /\ ActionsOf(p.alt).reduce = <<>>}
UsedSymbols(d) ==
    LET ps == ProductionsInUse(d)
    IN  FoldLeft(LAMBDA S, h : S \union {p.alt.syms[1].sym : p \in {c \in ChainsOf(d) : c.lhs \in S}},
                 {ps[x[1]].alt.syms[x[2]].sym : x \in UsedPlaces(d)}, Heads(d))

(* The first declaration that gives a symbol a precedence counts, but a    *)
(* name has to be defined by then; the first type counts.                  *)
PrecDecls(d, sym) ==
    {k \in Indices(d, "prec") :
        sym \in ToSet(d[k].syms) /\ (sym.kind = "IDENT" => DefinedBefore(d, sym, k))}
PrecOf(d, sym) ==
    IF PrecDecls(d, sym) = {} THEN <<0, "none">>
    ELSE <<Len(SelectSeq(SubSeq(d, 1, Least(PrecDecls(d, sym))), LAMBDA x : x.is = "prec")),
           d[Least(PrecDecls(d, sym))].assoc>>
TypesOf(d, sym) == {k \in Definitions(d, sym) : d[k].type # NoType}
TypeOf(d, sym) == IF TypesOf(d, sym) = {} THEN NoType ELSE d[Least(TypesOf(d, sym))].type

(* Whether capital letters differ is settled when a text is first read.    *)
CasedOf(d, sym) ==
    LET at == Least({k \in DOMAIN d : sym \in ToSet(Introduces(d[k]))})
        before == {k \in Indices(d, "case") : k < at}
    IN  ~IsTerminal(d, sym) \/ before = {} \/ d[Greatest(before)].on
-----------------------------------------------------------------------------
(* How reading the file ends: "first" is an end in a grammar.              *)
UntypedExtension(d) ==
    \E j, k \in Indices(d, "rules") :
        j < k /\ d[j].name = d[k].name /\ d[j].type # NoType /\ d[k].type = NoType
NameTwice(d) == \E k \in Indices(d, "token") : DefinedBefore(d, d[k].name, k)
UndefinedName(d) ==
    \E p \in ToSet(Productions(d)) : \E x \in ToSet(SymsOf(p.alt)) :
        x.kind = "IDENT" /\ Definitions(d, x) = {}
StartTooEarly(d) ==
    Indices(d, "start") # {} /\ ~DefinedBefore(d, StartOf(d), Greatest(Indices(d, "start")))

(* A directive that names nothing leaves the scanner waiting for its       *)
(* argument, and a declaration of "on" (without a type) behind it does not *)
(* begin with a name (lex.cc:146): the file ends there for the parser, the *)
(* last thing it sees to before it reports the rest.  The other directives *)
(* that are written end in a word.                                         *)
WaitsForWord(decl) ==
    decl.is = "expect" \/ (decl.is = "prec" /\ \A x \in ToSet(decl.syms) : x.kind # "IDENT")
SwitchWords == {Id("on"), Id("yes"), Id("true"), Id("no"), Id("off"), Id("false")}
Misread(d) ==
    {k \in Indices(d, "rules") \union Indices(d, "token") :
        k > 1 /\ d[k].name \in SwitchWords /\ WaitsForWord(d[k - 1])}

EndingOfRead(d) ==
    IF UntypedExtension(d) \/ NameTwice(d) THEN "undefined"
    ELSE IF Indices(d, "rules") = {} THEN "abort"
    ELSE IF UndefinedName(d) THEN "exit"
    ELSE IF StartTooEarly(d) THEN "undefined" ELSE "first"
Ending(d) ==
    IF Misread(d) = {} THEN EndingOfRead(d)
    ELSE LET before == EndingOfRead(SubSeq(d, 1, Least(Misread(d)) - 1))
         IN  IF before = "first" THEN "parse error" ELSE before
=============================================================================
