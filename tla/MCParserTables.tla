--------------------------- MODULE MCParserTables ---------------------------
(* The whole table generator on the samples and on all small grammars.     *)
EXTENDS ParserTables, Samples
MCGrammars == SampleGrammars \union OverMarkedGrammars \union SmallGrammars \union TwoTokenGrammars

(* What the theorems of LRTable_proofs ask of a grammar, all of these have. *)
ASSUME GrammarsCanBegin == \A g \in MCGrammars : CanBegin(g)
ASSUME GrammarsAreReachable == \A g \in MCGrammars : IsReachable(g)

(* start: y x z | w w; n: ; m: n; x: m b; y: a | a z; p: r; r: a;          *)
(* w: a p b | b                                                            *)
(* a = 1, b = 2, z = 3, $ = 4; start = 5, n = 6, m = 7, x = 8, y = 9,      *)
(* p = 10, r = 11, w = 12                                                  *)
MCInexact == {Sample(4, 12, 5,
    <<Rule(5, <<9, 8, 3>>), Rule(5, <<12, 12>>), Rule(6, <<>>), Rule(7, <<6>>), Rule(8, <<7, 2>>),
      Rule(9, <<1>>), Rule(9, <<1, 3>>), Rule(10, <<11>>), Rule(11, <<1>>),
      Rule(12, <<1, 10, 2>>), Rule(12, <<2>>)>>)}
=============================================================================
