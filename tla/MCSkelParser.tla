---------------------------- MODULE MCSkelParser ----------------------------
(***************************************************************************)
(* Parsers elr generates, its tables with the columns of "error", the      *)
(* tokens, "$" and the nonterminals.  A reduction by rule r is the number  *)
(* of states plus r.                                                       *)
(***************************************************************************)
EXTENDS SkelParser, TLC

(* The items of the states, followed backwards from the reductions: the    *)
(* rules that are complete k symbols after state s have an item in s.      *)
Entries(tab, s) == {tab.next[s][x] : x \in Columns(tab)}
Complete(tab) ==
    LET after[k \in 0 .. 3] ==
            [s \in States(tab) |->
                IF k = 0 THEN {RuleOf(tab, t) : t \in Entries(tab, s)} \intersect DOMAIN tab.length
                ELSE UNION {after[k - 1][t] : t \in Entries(tab, s) \intersect States(tab)}]
    IN  after
WithItems(tab) ==
    [items |-> [s \in States(tab) |->
        {i \in (DOMAIN tab.length) \X (0 .. 3) :
            \E k \in 0 .. tab.length[i[1]] :
                i[2] = tab.length[i[1]] - k /\ i[1] \in Complete(tab)[k][s]}]] @@ tab

(* list: list ID ';' | ID ';'                                              *)
ListParser == WithItems(
    [next |-> << <<0, 2, 0, 0, 3, 0>>, <<0, 0, 4, 0, 0, 0>>, <<0, 5, 0, 6, 0, 0>>,
                 <<0, 9, 0, 9, 0, 0>>, <<0, 0, 7, 0, 0, 0>>, <<10, 10, 10, 10, 0, 0>>,
                 <<0, 8, 0, 8, 0, 0>> >>,
     length |-> <<3, 2, 2>>, token |-> <<5, 5, 6>>,
     error |-> 1, eof |-> 4, tokens |-> {2, 3}, texts |-> {2},
     valued |-> {2, 3}, acting |-> 1 .. 2,
     sentences |-> {<<2, 3>>, <<2, 3, 2, 3>>, <<2, 3, 2, 3, 2, 3>>}])

(* list: list stmt | stmt; stmt: ID ';' | error ';'                        *)
StatementParser == WithItems(
    [next |-> << <<2, 3, 0, 0, 4, 5, 0>>, <<0, 0, 6, 0, 0, 0, 0>>, <<0, 0, 7, 0, 0, 0, 0>>,
                 <<2, 3, 0, 8, 0, 9, 0>>, <<11, 11, 0, 11, 0, 0, 0>>, <<13, 13, 0, 13, 0, 0, 0>>,
                 <<12, 12, 0, 12, 0, 0, 0>>, <<14, 14, 14, 14, 0, 0, 0>>,
                 <<10, 10, 0, 10, 0, 0, 0>> >>,
     length |-> <<2, 1, 2, 2, 2>>, token |-> <<5, 5, 6, 6, 7>>,
     error |-> 1, eof |-> 4, tokens |-> {2, 3}, texts |-> {2},
     valued |-> {2, 3}, acting |-> 1 .. 4,
     sentences |-> {<<2, 3>>, <<2, 3, 2, 3>>, <<2, 3, 2, 3, 2, 3>>}])

(* block: '(' list ')'; list: list stmt | stmt; stmt: ID ';' | error ';'   *)
BlockParser == WithItems(
    [next |-> << <<0, 2, 0, 0, 0, 0, 3, 0, 0, 0>>, <<4, 0, 0, 5, 0, 0, 0, 6, 7, 0>>,
                 <<0, 0, 0, 0, 0, 8, 0, 0, 0, 0>>, <<0, 0, 0, 0, 9, 0, 0, 0, 0, 0>>,
                 <<0, 0, 0, 0, 10, 0, 0, 0, 0, 0>>, <<4, 0, 11, 5, 0, 0, 0, 0, 12, 0>>,
                 <<15, 0, 15, 15, 0, 0, 0, 0, 0, 0>>, <<18, 18, 18, 18, 18, 18, 0, 0, 0, 0>>,
                 <<17, 0, 17, 17, 0, 0, 0, 0, 0, 0>>, <<16, 0, 16, 16, 0, 0, 0, 0, 0, 0>>,
                 <<0, 0, 0, 0, 0, 13, 0, 0, 0, 0>>, <<14, 0, 14, 14, 0, 0, 0, 0, 0, 0>> >>,
     length |-> <<3, 2, 1, 2, 2, 2>>, token |-> <<7, 8, 8, 9, 9, 10>>,
     error |-> 1, eof |-> 6, tokens |-> 2 .. 5, texts |-> {4},
     valued |-> 2 .. 5, acting |-> 1 .. 5,
     sentences |-> {<<2, 4, 5, 3>>, <<2, 4, 5, 4, 5, 3>>}])

(* pair: ID opt ID; opt: ',' |                                             *)
PairParser == WithItems(
    [next |-> << <<0, 2, 0, 0, 3, 0, 0>>, <<0, 10, 4, 0, 0, 5, 0>>, <<0, 0, 0, 6, 0, 0, 0>>,
                 <<0, 9, 0, 0, 0, 0, 0>>, <<0, 7, 0, 0, 0, 0, 0>>, <<11, 11, 11, 11, 0, 0, 0>>,
                 <<0, 0, 0, 8, 0, 0, 0>> >>,
     length |-> <<3, 1, 0, 2>>, token |-> <<5, 6, 6, 7>>,
     error |-> 1, eof |-> 4, tokens |-> {2, 3}, texts |-> {2},
     valued |-> {2, 3}, acting |-> 1 .. 3,
     sentences |-> {<<2, 2>>, <<2, 3, 2>>}])

(* list: list ID ';' |                                                     *)
EmptyListParser == WithItems(
    [next |-> << <<0, 7, 0, 7, 2, 0>>, <<0, 3, 0, 4, 0, 0>>, <<0, 0, 5, 0, 0, 0>>,
                 <<8, 8, 8, 8, 0, 0>>, <<0, 6, 0, 6, 0, 0>> >>,
     length |-> <<3, 0, 2>>, token |-> <<5, 5, 6>>,
     error |-> 1, eof |-> 4, tokens |-> {2, 3}, texts |-> {2},
     valued |-> {2, 3}, acting |-> 1 .. 2,
     sentences |-> {<<>>, <<2, 3>>, <<2, 3, 2, 3>>, <<2, 3, 2, 3, 2, 3>>}])

MCRecoveringTables == {StatementParser}
MCEmptyRuleTables == {PairParser}
(* The first without its actions.                                          *)
MCChainTables == {[ListParser EXCEPT !.acting = {}]}
MCTextLengths == {2, 3}
MCGarbage == {0, 3}
MCZeroed == {0}
=============================================================================
