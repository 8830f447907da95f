----------------------------- MODULE SkelParser -----------------------------
(***************************************************************************)
(* The parser of the run-time system (skel/skel.c) over the tables elr     *)
(* generates: the parser stack with the attributes, the stack of token     *)
(* texts beside it, and error recovery.  The lexer is its result, a token  *)
(* and the length of the text it saved; at the end of the input it returns *)
(* "$" again and again.                                                    *)
(* Memory is as the code leaves it: what is above the top of a stack stays *)
(* there, and starts as malloc() delivers it.  The parser stack goes on    *)
(* behind its length: what is written there is in no entry's way here, and *)
(* StackFits tells that it was.                                            *)
(***************************************************************************)
EXTENDS Integers, Sequences

CONSTANTS
    Tables,         \* generated parsers, see IsTable
    StackLen,       \* YYP_DEFAULT_STACK_LEN
    Garbage,        \* what an uninitialised strpos may be
    TextLengths,    \* the values of yylstrlen for a token with text
    InputBound,     \* the longest input
    MemoryBound     \* the entries of either stack that are modelled

(***************************************************************************)
(* next: the rows of the parser table, with 0 for $PARSER_NO_STATE; length *)
(* and token: yypReduceLength and yypReduceToken, by rule, the last rule   *)
(* being the accepting one; texts: the tokens whose lexical action saves   *)
(* the text; sentences: the language of the grammar up to InputBound.      *)
(* The value of a token is its place in the input, set by the lexical      *)
(* actions of the tokens in "valued"; the rules in "acting" have the       *)
(* action { $$ = $1; }, the others none.                                   *)
(* items: what the rows were made from, the items <<rule, position>> of    *)
(* each state; they are not in the generated program.                      *)
(***************************************************************************)
LastShiftState(tab) == Len(tab.next)
AcceptState(tab) == Len(tab.next) + Len(tab.length)
RuleOf(tab, s) == s - Len(tab.next)
Columns(tab) == DOMAIN tab.next[1]
States(tab) == DOMAIN tab.next
Terminals(tab) == tab.tokens \union {tab.error, tab.eof}

IsTable(tab) ==
    /\ tab.next \in Seq(Seq(0 .. AcceptState(tab))) /\ tab.next # <<>>
    /\ \A s \in States(tab) : DOMAIN tab.next[s] = Columns(tab)
    /\ tab.length \in Seq(Nat) /\ tab.token \in Seq(Columns(tab))
    /\ Len(tab.token) = Len(tab.length)
    /\ Terminals(tab) \subseteq Columns(tab) /\ tab.error # tab.eof
    /\ \A r \in DOMAIN tab.token : tab.token[r] \notin Terminals(tab)
    /\ tab.texts \union tab.valued \subseteq tab.tokens
    /\ tab.acting \subseteq 1 .. Len(tab.length) - 1

(* What the automaton gives: an item behind its first symbol comes from    *)
(* the item before that symbol in every state with an edge here, and not   *)
(* from nowhere; a reduction is installed where its rule is complete; and  *)
(* a rule begins where its nonterminal has an edge.                        *)
IsItemTable(tab) ==
    /\ \A s \in States(tab), x \in Columns(tab), r \in DOMAIN tab.length :
          /\ tab.next[s][x] \in States(tab) => \A p \in 1 .. tab.length[r] :
                <<r, p>> \in tab.items[tab.next[s][x]] => <<r, p - 1>> \in tab.items[s]
          /\ r = RuleOf(tab, tab.next[s][x]) => <<r, tab.length[r]>> \in tab.items[s]
    /\ \A r \in DOMAIN tab.length : \A p \in 1 .. tab.length[r] : <<r, p>> \notin tab.items[1]
    /\ \A s \in States(tab), r \in 1 .. Len(tab.length) - 1 :
          <<r, 0>> \in tab.items[s] => tab.next[s][tab.token[r]] \in States(tab)

(* The accepting rule, a nonterminal and "$", is begun in the first state  *)
(* only, where no edge leads; "$" is shifted for it and for nothing else.  *)
IsAcceptTable(tab) ==
    LET accept == Len(tab.length)
    IN  /\ accept > 0 /\ tab.length[accept] = 2
        /\ \A s \in States(tab) \ {1} : <<accept, 0>> \notin tab.items[s]
        /\ \A s \in States(tab), x \in Columns(tab) : tab.next[s][x] \in States(tab) =>
              /\ tab.next[s][x] # 1 /\ <<accept, 2>> \notin tab.items[s]
              /\ <<accept, 1>> \in tab.items[tab.next[s][x]] => x \notin Terminals(tab)
              /\ <<accept, 2>> \in tab.items[tab.next[s][x]] <=> x = tab.eof

ASSUME TablesAssumption ==
    \A tab \in Tables : IsTable(tab) /\ IsItemTable(tab) /\ IsAcceptTable(tab)
ASSUME BoundsAssumption ==
    /\ StackLen \in Nat \ {0} /\ MemoryBound \in Nat
    /\ Garbage \subseteq 0 .. MemoryBound /\ TextLengths \subseteq Nat

VARIABLES
    table,
    yypstate, yypnextstate, yytoken, yyprecovering,
    yypstack,       \* index -> state, strpos, attr; the length and owner of its text
    yypstacktop, yypstacklen,
    yypstrstack,    \* position -> the token whose text is there
    yypstrstacktop,
    yylstrlen,
    yylsynattr,     \* the attribute of the last token that has one; 0 is none
    yypsynattr,     \* that of the last reduction
    failed,         \* yyperrorcount > 0
    input, ended,   \* the tokens scanned without "$", and whether "$" was
    emptied,        \* history: a rule of length 0 has been reduced
    unchecked,      \* history: and the stack was not found to fit since
    pc              \* "read" a token, "look" it up, "recover", "act", "fini"

vars == <<table, yypstate, yypnextstate, yytoken, yyprecovering, yypstack, yypstacktop,
          yypstacklen, yypstrstack, yypstrstacktop, yylstrlen, yylsynattr, yypsynattr, failed,
          input, ended, emptied, unchecked, pc>>

attributes == <<yylsynattr, yypsynattr>>
history == <<emptied, unchecked>>

None == -1
NoState == 0
Goto(s, x) == table.next[s][x]
Addresses == 0 .. MemoryBound - 1
-----------------------------------------------------------------------------
Init ==
    /\ table \in Tables
    /\ yypstate = 1 /\ yypnextstate = NoState
    /\ yytoken = None /\ yyprecovering = FALSE
    /\ \E g \in Garbage : yypstack = [i \in Addresses |->
                                        [state |-> 0, strpos |-> g, len |-> 0, owner |-> 0, attr |-> 0]]
    /\ yypstacktop = 0 /\ yypstacklen = StackLen
    /\ yypstrstack = [i \in Addresses |-> 0] /\ yypstrstacktop = 0
    /\ yylstrlen = 0 /\ yylsynattr = 0 /\ yypsynattr = 0 /\ failed = FALSE
    /\ input = <<>> /\ ended = FALSE
    /\ emptied = FALSE /\ unchecked = FALSE
    /\ pc = "read"

MutGrowLate == IF yypstacktop > yypstacklen THEN 2 * yypstacklen ELSE yypstacklen
GrownLen == IF yypstacktop = yypstacklen THEN 2 * yypstacklen ELSE yypstacklen

(* The cases that the generator writes for the lexical actions.  A token   *)
(* without an action leaves the attribute of an earlier one.               *)
LexerAction(token, place) == IF token \in table.valued THEN place ELSE yylsynattr

(* The top of the outer loop: the stack is grown, a token is scanned.      *)
ReadToken ==
    /\ pc = "read"
    /\ yypstacklen' = GrownLen
    /\ unchecked' = (unchecked /\ yypstacktop > yypstacklen)
    /\ \/ /\ ended' = TRUE
          /\ yytoken' = table.eof /\ yylstrlen' = 0 /\ input' = input
       \/ /\ ~ended /\ Len(input) < InputBound
          /\ yytoken' \in table.tokens
          /\ yylstrlen' \in IF yytoken' \in table.texts THEN TextLengths ELSE {0}
          /\ input' = Append(input, yytoken')
          /\ ended' = FALSE
    /\ yylsynattr' = LexerAction(yytoken', Len(input'))
    /\ pc' = "look"
    /\ UNCHANGED <<table, yypstate, yypnextstate, yyprecovering, yypstack, yypstacktop,
                   yypstrstack, yypstrstacktop, yypsynattr, failed, emptied>>

(* The table has an entry for the token.                                   *)
LookUp ==
    /\ pc = "look" /\ Goto(yypstate, yytoken) # NoState
    /\ yypnextstate' = Goto(yypstate, yytoken)
    /\ pc' = "act"
    /\ UNCHANGED <<table, yypstate, yytoken, yyprecovering, yypstack, yypstacktop, yypstacklen,
                   yypstrstack, yypstrstacktop, yylstrlen, attributes, failed, input, ended,
                   history>>

(* While recovering a token without an entry is dropped, "$" ends it all.  *)
DropToken ==
    /\ pc = "look" /\ Goto(yypstate, yytoken) = NoState /\ yyprecovering
    /\ yypnextstate' = NoState
    /\ pc' = IF yytoken = table.eof THEN "fini" ELSE "read"
    /\ UNCHANGED <<table, yypstate, yytoken, yyprecovering, yypstack, yypstacktop, yypstacklen,
                   yypstrstack, yypstrstacktop, yylstrlen, attributes, failed, input, ended,
                   history>>

ReportError ==
    /\ pc = "look" /\ Goto(yypstate, yytoken) = NoState /\ ~yyprecovering
    /\ failed' = TRUE
    /\ yypnextstate' = NoState
    /\ pc' = "recover"
    /\ UNCHANGED <<table, yypstate, yytoken, yyprecovering, yypstack, yypstacktop, yypstacklen,
                   yypstrstack, yypstrstacktop, yylstrlen, attributes, input, ended, history>>

MutPopKeepsState ==
    /\ pc = "recover" /\ Goto(yypstate, table.error) = NoState /\ yypstacktop > 0
    /\ yypstacktop' = yypstacktop - 1
    /\ UNCHANGED <<table, yypstate, yypnextstate, yytoken, yyprecovering, yypstack, yypstacklen,
                   yypstrstack, yypstrstacktop, yylstrlen, attributes, failed, input, ended, history,
                   pc>>

(* The loop that pops states down to one with an entry for "error".        *)
PopState ==
    /\ pc = "recover" /\ Goto(yypstate, table.error) = NoState /\ yypstacktop > 0
    /\ yypstacktop' = yypstacktop - 1
    /\ yypstate' = yypstack[yypstacktop'].state
    /\ UNCHANGED <<table, yypnextstate, yytoken, yyprecovering, yypstack, yypstacklen,
                   yypstrstack, yypstrstacktop, yylstrlen, attributes, failed, input, ended, history,
                   pc>>

MutNoRecoveryGoesOn ==
    /\ pc = "recover" /\ Goto(yypstate, table.error) = NoState /\ yypstacktop = 0
    /\ pc' = "read"
    /\ UNCHANGED <<table, yypstate, yypnextstate, yytoken, yyprecovering, yypstack, yypstacktop,
                   yypstacklen, yypstrstack, yypstrstacktop, yylstrlen, attributes, failed, input, ended,
                   history>>

NoRecovery ==
    /\ pc = "recover" /\ Goto(yypstate, table.error) = NoState /\ yypstacktop = 0
    /\ pc' = "fini"
    /\ UNCHANGED <<table, yypstate, yypnextstate, yytoken, yyprecovering, yypstack, yypstacktop,
                   yypstacklen, yypstrstack, yypstrstacktop, yylstrlen, attributes, failed, input, ended,
                   history>>

RecoverState ==
    /\ pc = "recover" /\ Goto(yypstate, table.error) # NoState
    /\ yypnextstate' = Goto(yypstate, table.error)
    /\ yyprecovering' = TRUE
    /\ pc' = "act"
    /\ UNCHANGED <<table, yypstate, yytoken, yypstack, yypstacktop, yypstacklen,
                   yypstrstack, yypstrstacktop, yylstrlen, attributes, failed, input, ended,
                   history>>

MutShiftsSynthesized ==
    [state |-> yypstate, strpos |-> yypstrstacktop, len |-> yylstrlen, owner |-> Len(input),
     attr |-> yypsynattr]
MutEntryAfterText ==
    [state |-> yypstate, strpos |-> yypstrstacktop + yylstrlen, len |-> yylstrlen,
     owner |-> Len(input), attr |-> yylsynattr]
ShiftEntry ==
    [state |-> yypstate, strpos |-> yypstrstacktop, len |-> yylstrlen, owner |-> Len(input),
     attr |-> yylsynattr]

(* Shift: the token is pushed with its text, whichever token led here, and *)
(* recovery is over.                                                       *)
Shift ==
    /\ pc = "act" /\ yypnextstate <= LastShiftState(table)
    /\ yypstacktop < MemoryBound /\ yypstrstacktop + yylstrlen <= MemoryBound
    /\ yypstrstack' = [i \in Addresses |->
                          IF i \in yypstrstacktop .. yypstrstacktop + yylstrlen - 1
                          THEN Len(input) ELSE yypstrstack[i]]
    /\ yypstrstacktop' = yypstrstacktop + yylstrlen
    /\ yypstack' = [yypstack EXCEPT ![yypstacktop] = ShiftEntry]
    /\ yypstacktop' = yypstacktop + 1
    /\ yypstate' = yypnextstate
    /\ yytoken' = None /\ yyprecovering' = FALSE
    /\ pc' = "read"
    /\ UNCHANGED <<table, yypnextstate, yypstacklen, yylstrlen, attributes, failed, input, ended,
                   history>>

(* Where the reduction loop goes with the next state: another reduction,   *)
(* or a state, which looks the token up again if it is not shifted yet.    *)
StateAfter(st, next) == IF next > LastShiftState(table) THEN st ELSE next
MutTokenLost(next) == IF next > LastShiftState(table) THEN "act" ELSE "read"
PcAfter(next) ==
    IF next > LastShiftState(table) THEN "act" ELSE IF yytoken = None THEN "read" ELSE "look"

(* The cases that the generator writes for the rules: one for every rule,  *)
(* and an empty one for a rule without an action, so that the "default:"   *)
(* of the skeleton, which takes the attribute of the first symbol, is      *)
(* never reached.                                                          *)
ParserAction(r, first) == IF r \in table.acting THEN first.attr ELSE yypsynattr

(* Reduce: the string stack goes back to where the text of the right side  *)
(* began; the result has no text of its own.                               *)
Reduce ==
    /\ pc = "act" /\ yypnextstate > LastShiftState(table)
    /\ LET r == RuleOf(table, yypnextstate)
           top == yypstacktop - table.length[r]
           st == IF table.length[r] = 0 THEN yypstate ELSE yypstack[top].state
       IN  /\ top < MemoryBound
           /\ yypstrstacktop' = yypstack[top].strpos
           /\ yypsynattr' = ParserAction(r, yypstack[top])
           /\ emptied' = (emptied \/ table.length[r] = 0)
           /\ unchecked' = (unchecked \/ table.length[r] = 0)
           /\ yypstack' = [yypstack EXCEPT ![top] =
                              [@ EXCEPT !.state = st, !.len = 0, !.attr = yypsynattr']]
           /\ yypstacktop' = top + 1
           /\ \/ /\ yypnextstate = AcceptState(table)
                 /\ yypstate' = st /\ pc' = "fini"
                 /\ UNCHANGED yypnextstate
              \/ /\ yypnextstate # AcceptState(table)
                 /\ yypnextstate' = Goto(st, table.token[r])
                 /\ yypstate' = StateAfter(st, yypnextstate')
                 /\ pc' = PcAfter(yypnextstate')
    /\ UNCHANGED <<table, yytoken, yyprecovering, yypstacklen, yypstrstack, yylstrlen,
                   yylsynattr, failed, input, ended>>

Next ==
    \/ ReadToken \/ LookUp \/ DropToken \/ ReportError
    \/ PopState \/ NoRecovery \/ RecoverState \/ Shift \/ Reduce

(* The parser runs on its own, and its input ends.                         *)
Spec == Init /\ [][Next]_vars /\ WF_vars(Next)

Finished == pc = "fini"
Accepted == Finished /\ yypnextstate = AcceptState(table)

(* "fini:" and what $PARSER_RETURN returns.                                *)
Result == yypstack[0].attr
-----------------------------------------------------------------------------
(* Each state on the stack leads to the one above it, the last to          *)
(* yypstate: reductions and recovery pop entries and states together.      *)
Above(i) == IF i + 1 = yypstacktop THEN yypstate ELSE yypstack[i + 1].state
StackIsPath ==
    ~Finished =>
        /\ (IF yypstacktop = 0 THEN yypstate ELSE yypstack[0].state) = 1
        /\ \A i \in 0 .. yypstacktop - 1 :
              \E x \in DOMAIN table.next[1] : Goto(yypstack[i].state, x) = Above(i)

(* A token's text is intact as long as the token is on the stack, for the  *)
(* action of the rule that takes it off ("Fix string stack bug (incorrect  *)
(* position following reduction)", ChangeLog:2).  Only an empty rule, which*)
(* goes back to a position in an entry not pushed yet, can undo that.      *)
TextIntact ==
    \A i \in 0 .. yypstacktop - 1 :
        \A p \in yypstack[i].strpos .. yypstack[i].strpos + yypstack[i].len - 1 :
            yypstrstack[p] = yypstack[i].owner
TextLossNeedsEmptyRule == emptied \/ TextIntact

(* With an action in every rule, each symbol on the stack has the value of *)
(* the first token it was made of, and without an error the parser returns *)
(* that of the first: neither recovery nor what a token or a reduction     *)
(* leaves for the next (yylsynattr, yypsynattr) gives a symbol the value   *)
(* of another.  An empty rule has no first symbol to take a value from.    *)
ValuesAreOwn ==
    ~emptied /\ table.valued = table.tokens /\ table.acting = 1 .. Len(table.length) - 1 =>
        /\ \A i \in 0 .. yypstacktop - 1 : yypstack[i].attr = yypstack[i].owner
        /\ Accepted /\ ~failed => Result = 1

(* "Test chain reductions - this should work correctly" (test/attr1.elr:2, *)
(* skel.c:385): a rule without an action takes the value of its first      *)
(* symbol.                                                                 *)
ChainsKeepValues ==
    [][pc = "act" /\ yypnextstate > LastShiftState(table) =>
        \A r \in DOMAIN table.length \ table.acting :
            r = RuleOf(table, yypnextstate) /\ table.length[r] > 0 =>
                yypstack'[yypstacktop' - 1].attr = yypstack[yypstacktop' - 1].attr]_vars

(* "Check stack size" (skel.c:242): no entry is written past the end of    *)
(* the stack.                                                              *)
StackFits == yypstacktop <= yypstacklen

(* It is only an empty rule that pushes more between two tokens than the   *)
(* token: until one has been reduced, and again from the first token that  *)
(* finds the stack within its length, every entry is.                      *)
OverflowNeedsEmptyRule == unchecked \/ StackFits

(* Both without the exception for empty rules: what is pushed stays where  *)
(* it belongs, texts of tokens and entries (skel.c:242, ChangeLog:2).      *)
StacksHold == TextIntact /\ StackFits

(* Without an error the input was a sentence; with one it was not.         *)
ParsesLanguage ==
    Finished => /\ input \in table.sentences <=> ~failed
                /\ ~failed => Accepted

(* "looking for a few good tokens..." (skel.c:337): when they do not come  *)
(* before the end of the input, recovery gives up.                         *)
RecoveryEnds == <>Finished
=============================================================================
