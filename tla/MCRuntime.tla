----------------------------- MODULE MCRuntime -----------------------------
(***************************************************************************)
(* The parsers of MCSkelParser with scanners.  In all but Blocks ID is "a" *)
(* or "abb", which takes backtracking to tell apart; ";", a pair's "," as  *)
(* well, may be written "bb", and where no ID is wanted "b"; a newline is  *)
(* white space.  State 1 of the scanner is where every token is wanted, 9  *)
(* where only ";" is.                                                      *)
(***************************************************************************)
EXTENDS MCSkelParser, Runtime, TLC

Chars == {"a", "b", ";", "n"}
None0 == [c \in Chars \union {"eof"} |-> NoNext]
Row(moves) == [c \in Chars \union {"eof"} |-> IF c \in DOMAIN moves THEN moves[c] ELSE NoNext]

Lexeme(t, w) == [token |-> t, chars |-> w]
Lexemes == {Lexeme(2, <<"a">>), Lexeme(2, <<"a", "b", "b">>), Lexeme(3, <<";">>), Lexeme(7, <<"n">>)}

MCLexer(start) ==
    [chars |-> Chars, high |-> {}, eof |-> 4, space |-> 7, start |-> start,
     next |-> << Row([a |-> 2, b |-> 5] @@ (";" :> 6) @@ [n |-> 7, eof |-> 8]),
                 Row([b |-> 3]), Row([b |-> 4]), None0, Row([b |-> 6]), None0, None0, None0,
                 Row([a |-> 2, b |-> 6] @@ (";" :> 6) @@ [n |-> 7, eof |-> 8]) >>,
     accept |-> (2 :> 2) @@ (4 :> 2) @@ (6 :> 3) @@ (7 :> 7) @@ (8 :> 4),
     lexemes |-> << Lexemes \union {Lexeme(3, <<"b", "b">>)},
                    {Lexeme(2, <<>>), Lexeme(2, <<"b", "b">>)}, {Lexeme(2, <<"b">>)}, {Lexeme(2, <<>>)},
                    {Lexeme(3, <<"b">>)}, {Lexeme(3, <<>>)}, {Lexeme(7, <<>>)}, {Lexeme(4, <<>>)},
                    Lexemes \union {Lexeme(3, <<"b">>)} >>]

(* '(' is 2, ')' is 3, ID is 4, ';' is 5; no white space; "377" begins    *)
(* none of them.                                                           *)
BlockChars == {"(", ")", "a", ";", "377"}
BlockRow(moves) ==
    [c \in BlockChars \union {"eof"} |-> IF c \in DOMAIN moves THEN moves[c] ELSE NoNext]
BlockLexer ==
    [chars |-> BlockChars, high |-> {"377"}, eof |-> 6, space |-> -2, start |-> [s \in 1 .. 12 |-> 1],
     next |-> <<BlockRow(("(" :> 2) @@ (")" :> 3) @@ [a |-> 4, eof |-> 6] @@ (";" :> 5))>>
              \o [s \in 1 .. 5 |-> BlockRow(<<>>)],
     accept |-> [s \in 2 .. 6 |-> s],
     lexemes |-> << {Lexeme(2, <<"(">>), Lexeme(3, <<")">>), Lexeme(4, <<"a">>), Lexeme(5, <<";">>)} >>
                 \o [s \in 1 .. 5 |-> {Lexeme(s + 1, <<>>)}]]

WithLexer(tab, lexer) == tab @@ [lexer |-> lexer]

Lists == WithLexer(ListParser, MCLexer(<<1, 9, 1, 1, 1, 1, 1>>))
Statements == WithLexer(StatementParser, MCLexer(<<1, 9, 9, 1, 1, 1, 1, 1, 1>>))
Pairs == WithLexer(PairParser, MCLexer([s \in 1 .. 7 |-> 1]))
EmptyLists == WithLexer(EmptyListParser, MCLexer(<<1, 1, 9, 1, 1>>))
Blocks == WithLexer(BlockParser, BlockLexer)

MCRunTables == {Lists, EmptyLists, Statements, Pairs, Blocks}
MCGivenTexts ==
    [tab \in MCRunTables |->
        IF tab = Blocks THEN {} ELSE UNION {[1 .. n -> Chars] : n \in 1 .. 4}]
MCRunTextLengths == {2, 4}
=============================================================================
