------------------------------ MODULE MCLexer ------------------------------
(***************************************************************************)
(* The lexer generator on every small regular expression, and on sets of   *)
(* three tokens that overlap in all ways, with the wants of two parser     *)
(* states.  Expressions are trees; Text prints one with the parentheses it *)
(* needs, Language is what it describes up to StringBound.                 *)
(***************************************************************************)
EXTENDS Lexer, Regexp

Chr(c) == [op |-> "chr", c |-> c]
Cat(e, f) == [op |-> "cat", l |-> e, r |-> f]
Alt(e, f) == [op |-> "alt", l |-> e, r |-> f]
Post(e, mark) == [op |-> mark, l |-> e]
Marks == {"*", "+", "?"}

Parens(text) == <<"(">> \o text \o <<")">>

RECURSIVE Text(_), Language(_), FirstGroup(_)

(* An operand of a mark is a character or in parentheses, one of a         *)
(* concatenation in parentheses if it is an alternative.                   *)
Operand(e) == IF e.op = "alt" THEN Parens(Text(e)) ELSE Text(e)
Text(e) ==
    CASE e.op = "chr" -> <<e.c>>
      [] e.op = "cat" -> Operand(e.l) \o Operand(e.r)
      [] e.op = "alt" -> Text(e.l) \o <<"|">> \o Text(e.r)
      [] OTHER -> (IF e.l.op = "chr" THEN Text(e.l) ELSE Parens(Text(e.l))) \o <<e.op>>

Joined(L, M) == {w \in {p[1] \o p[2] : p \in L \X M} : Len(w) <= StringBound}
Repeated(L) == FoldLeft(LAMBDA M, i : M \union Joined(M, L), L, [i \in 1 .. StringBound |-> i])
Language(e) ==
    CASE e.op = "chr" -> {<<Code(e.c)>>}
      [] e.op = "cat" -> Joined(Language(e.l), Language(e.r))
      [] e.op = "alt" -> Language(e.l) \union Language(e.r)
      [] e.op = "*" -> Repeated(Language(e.l)) \union {<<>>}
      [] e.op = "+" -> Repeated(Language(e.l))
      [] OTHER -> Language(e.l) \union {<<>>}

(* A text that opens with a parenthesis is read up to the closing one.     *)
FirstGroup(e) ==
    CASE e.op = "cat" -> IF e.l.op = "alt" THEN e.l ELSE FirstGroup(e.l)
      [] e.op = "alt" -> FirstGroup(e.l)
      [] OTHER -> e.l
Read(e) == IF Head(Text(e)) = "(" THEN FirstGroup(e) ELSE e

Automaton(exprs) ==
    FoldLeft(LAMBDA nf, t : AddAlternation(nf, FromRegexp(Text(exprs[t]), t)), FromEmpty,
             [t \in DOMAIN exprs |-> t])

Input(exprs, parsers, space, context) ==
    [nfa |-> Automaton(exprs), lang |-> [t \in DOMAIN exprs |-> Language(Read(exprs[t]))],
     parsers |-> parsers, space |-> space, context |-> context]
-----------------------------------------------------------------------------
a == Chr("a")
b == Chr("b")

(* Expressions of one mark or two operands, and of three of them.          *)
Simple == {a, b} \union {Post(a, m) : m \in Marks} \union {Cat(a, b), Alt(a, b)}
Nested == {Cat(e, f) : e, f \in Simple} \union {Alt(e, f) : e, f \in Simple}
    \union {Post(e, m) : e \in Simple, m \in Marks}
    \union {Cat(e, Post(f, m)) : e, f \in {Cat(a, b), Alt(a, b)}, m \in Marks}

(* A loop of two states that is left from the first of them, before the    *)
(* second one is known to lead there: "a(bb)+a|ab(bb)+".                   *)
Looping ==
    LET loop == Post(Cat(b, b), "+")
    IN  Alt(Cat(a, Cat(loop, a)), Cat(a, Cat(b, loop)))

OneParser == {<<(1 :> {1})>>}

(* Characters whose classes have other numbers than they have: the classes *)
(* are numbered in the order they are split off in.                        *)
Late == {Cat(Chr("c"), b), Alt(Chr("c"), Cat(b, Chr("c"))), Post(Cat(Chr("c"), b), "+")}

SingleInputs == {Input(<<e>>, OneParser, 0, TRUE) : e \in Nested \union {Looping} \union Late}

(* Tokens that are equal, contained in one another, a prefix, a loop.      *)
Overlapping == {a, Alt(a, b), Post(a, "+"), Cat(a, Cat(Post(a, "*"), b))}

(* A parser state wants some tokens; each of them leads to states that     *)
(* want the tokens of a set.  One token may be wanted in neither of the    *)
(* two (precedence can take away its only shift).                          *)
Wanting(W, N) == [t \in W |-> N]
Parsers ==
    LET sets == SUBSET (1 .. 3)
    IN  {<<Wanting(W[1], {2, 3}), Wanting(W[2], {1, 3})>> :
            W \in {V \in sets \X sets : Cardinality(V[1] \union V[2]) >= 2}}

TripleInputs ==
    {Input(<<e[1], e[2], e[3]>>, Parsers, 0, TRUE) :
        e \in Overlapping \X Overlapping \X Overlapping}

(* White space: wanted in every state, without an edge.                    *)
SpaceInputs ==
    {Input(<<e, f>>, {<<(2 :> {2})>>}, 1, TRUE) : e, f \in Overlapping}

NoContextInputs ==
    {Input(<<e, f>>, OneParser, 0, FALSE) : e, f \in Overlapping}

MCInputs == SingleInputs \union TripleInputs \union SpaceInputs \union NoContextInputs

(* What the theorems about the table and about the conflicts assume of the *)
(* automata, evaluated on those of this instance.                          *)
ASSUME Described == InputsDescribed
ASSUME Ahead == TokensAhead
=============================================================================
