------------------------------ MODULE Regexp ------------------------------
(***************************************************************************)
(* The regular expression parser of NFA (nfa.cc 91-199).  A text is a      *)
(* sequence of marks and letters; classes "[...]" and escapes are letters  *)
(* here.  The parser builds states as it reads: its value is a record of   *)
(* the automaton, the rest of the text and a state.                        *)
(***************************************************************************)
EXTENDS Nfa

Code(letter) == CASE letter = "a" -> 0 [] letter = "b" -> 1 [] OTHER -> 2
AddState(nfa) == Append(nfa, NewState)

RECURSIVE ParseString(_, _, _), Alternatives(_, _, _, _), ParseChoice(_, _, _, _)

(* The loop of parseRegexpString: one alternative, then the next.          *)
Alternatives(nfa, text, start, end) ==
    LET sub == Len(nfa) + 1
        c == ParseChoice(AddEmptyMove(AddState(nfa), start, sub), text, sub, 0)
        joined == AddEmptyMove(c.nfa, c.at, end)
    IN  IF c.rest # <<>> /\ Head(c.rest) = "|"
        THEN Alternatives(joined, Tail(c.rest), start, end)
        ELSE [nfa |-> joined, rest |-> c.rest, at |-> end]

(* parseRegexpString: an opening parenthesis is passed over; the rest      *)
(* begins with the closing one, or is empty.                               *)
ParseString(nfa, text, start) ==
    LET rest == IF text # <<>> /\ Head(text) = "(" THEN Tail(text) ELSE text
    IN  Alternatives(AddState(nfa), rest, start, Len(nfa) + 1)

(* parseRegexpChoice: "at" is cur, the state reached, and "last" the one   *)
(* before it, which the marks * + ? go back to.                            *)
Repeat(nfa, text, at, last) ==
    LET looped == AddEmptyMove(IF Head(text) = "*" THEN AddEmptyMove(nfa, last, at) ELSE nfa, at, last)
    IN  [nfa |-> AddEmptyMove(AddState(looped), at, Len(looped) + 1), at |-> Len(looped) + 1]

ParseChoice(nfa, text, at, last) ==
    IF text = <<>> \/ Head(text) \in {"|", ")"} THEN [nfa |-> nfa, rest |-> text, at |-> at]
    ELSE CASE Head(text) = "(" ->
                LET group == ParseString(nfa, text, at)
                IN  ParseChoice(group.nfa, IF group.rest = <<>> THEN <<>> ELSE Tail(group.rest),
                                group.at, at)
           [] Head(text) \in {"*", "+"} ->
                LET r == Repeat(nfa, text, at, last)
                IN  ParseChoice(r.nfa, Tail(text), r.at, at)
           [] Head(text) = "?" ->
                ParseChoice(AddEmptyMove(nfa, last, at), Tail(text), at, last)
           [] OTHER ->
                ParseChoice(AddCharMove(AddState(nfa), at, {Code(Head(text))}, Len(nfa) + 1), Tail(text),
                            Len(nfa) + 1, at)

(* genRegexpNFA: the whole text is one parseRegexpString; what follows the *)
(* closing parenthesis of a text that opens with one is not looked at.     *)
FromRegexp(text, sym) ==
    LET p == ParseString(FromEmpty, text, 1)
    IN  [p.nfa EXCEPT ![p.at].accept = sym]
=============================================================================
