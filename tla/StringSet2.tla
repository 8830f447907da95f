----------------------------- MODULE StringSet2 -----------------------------
(***************************************************************************)
(* The class StringSet2 (stringset2.cc): sets of strings of at most two    *)
(* tokens.  The bit sets are sets of tokens; "second", a bit set of second *)
(* tokens for every first one, is the set of pairs it stands for.          *)
(***************************************************************************)
EXTENDS Integers, Sequences

StringSets(T) ==
    [firstsym : SUBSET T, firstonly : SUBSET T, second : SUBSET (T \X T),
     hasNull : BOOLEAN, isFull : BOOLEAN, isEmpty : BOOLEAN]

NewSet ==
    [firstsym |-> {}, firstonly |-> {}, second |-> {},
     hasNull |-> FALSE, isFull |-> FALSE, isEmpty |-> TRUE]

MutClearSymbolsOnly(s) == [s EXCEPT !.firstsym = {}, !.firstonly = {}, !.isEmpty = TRUE]
Clear(s) == NewSet
AddEmpty(s) == [s EXCEPT !.hasNull = TRUE]
DeleteEmpty(s) == [s EXCEPT !.hasNull = FALSE]

AddToken(s, t) ==
    [s EXCEPT !.firstonly = @ \union {t}, !.firstsym = @ \union {t},
              !.isFull = FALSE, !.isEmpty = FALSE]

AddString(s, str) ==
    IF str = <<>> THEN AddEmpty(s)
    ELSE IF Len(str) = 1 THEN AddToken(s, str[1])
    ELSE [s EXCEPT !.firstsym = @ \union {str[1]},
                   !.second = @ \union {<<str[1], str[2]>>},
                   !.isFull = @ \/ s.isEmpty,
                   !.isEmpty = FALSE]

(* add(StringSet2 &): isFull is set for a first full set, and stays.       *)
Add(s, with) ==
    IF with.isEmpty THEN [s EXCEPT !.hasNull = @ \/ with.hasNull]
    ELSE [s EXCEPT !.firstsym = @ \union with.firstsym,
                   !.firstonly = @ \union with.firstonly,
                   !.second = @ \union with.second,
                   !.hasNull = @ \/ with.hasNull,
                   !.isFull = @ \/ (s.isEmpty /\ with.isFull),
                   !.isEmpty = FALSE]

(* addMax(): only the strings of two tokens; firstsym is brought up to     *)
(* date with the strings that were there before.                           *)
AddMax(s, with) ==
    IF with.isEmpty THEN s
    ELSE [s EXCEPT !.firstsym = @ \union {str[1] : str \in s.second},
                   !.second = @ \union with.second,
                   !.isFull = @ \/ s.isEmpty,
                   !.isEmpty = FALSE]

(* append(int): every string shorter than two is made longer.              *)
AppendToken(s, t) ==
    [s EXCEPT !.second = @ \union (s.firstonly \X {t}),
              !.firstonly = IF s.hasNull THEN {t} ELSE {},
              !.firstsym = IF s.hasNull THEN @ \union {t} ELSE @,
              !.hasNull = FALSE,
              !.isFull = IF s.hasNull THEN FALSE ELSE @ \/ ~s.isEmpty,
              !.isEmpty = @ /\ ~s.hasNull]

(* What append(StringSet2 &) does to the strings of one token.             *)
Lengthened(s, with) ==
    IF s.isEmpty THEN s
    ELSE [s EXCEPT !.second = @ \union (s.firstonly \X with.firstsym),
                   !.firstonly = IF with.hasNull THEN @ ELSE {},
                   !.isFull = @ \/ (~with.hasNull /\ ~s.hasNull)]

MutEmptyStringStays(s, with) == IF with.isEmpty THEN s ELSE Lengthened(s, with)

(* append(StringSet2 &): nothing is done when there are no strings, or     *)
(* only the empty one, to append.                                          *)
Append2(s, with) ==
    IF with.isEmpty THEN s
    ELSE IF s.hasNull THEN Add(DeleteEmpty(Lengthened(s, with)), with)
    ELSE Lengthened(s, with)

MinLengthOf(s) == IF s.hasNull \/ s.isEmpty THEN 0 ELSE IF s.isFull THEN 2 ELSE 1
-----------------------------------------------------------------------------
(* The strings that are in the bit sets, and what append() is to compute.  *)
Strings(s) ==
    (IF s.hasNull THEN {<<>>} ELSE {}) \union {<<t>> : t \in s.firstonly} \union s.second

(* The first two tokens of a followed by b, both of two tokens at most.    *)
Join(a, b) == IF a = <<>> THEN b ELSE IF Len(a) = 1 /\ b # <<>> THEN <<a[1], b[1]>> ELSE a
Concat2(A, B) == UNION {{Join(a, b) : b \in B} : a \in A}
FirstTokens(A) == {str[1] : str \in A \ {<<>>}}
=============================================================================
