------------------------------ MODULE Runtime ------------------------------
(***************************************************************************)
(* The generated program as a whole (skel/skel.c): the scanner in the loop *)
(* of the parser.  The parser's state chooses the state the scanner starts *)
(* in (yylStart), also after a character is dropped; the scanner delivers  *)
(* a token and the length of its text where SkelParser chooses one.        *)
(* A table has a field "lexer" besides: the characters, those from 128 on  *)
(* (high), the rows of the scanner's table by character, the tokens its    *)
(* states accept, the states to start in by parser state, "$" and the      *)
(* number of white space; and, for the properties, the lexemes that lead   *)
(* on from each state.                                                     *)
(***************************************************************************)
EXTENDS SkelParser, SkelLexer

CONSTANT GivenTexts     \* what a caller's buffer may hold, by table

(* A scanner's table.  "$" is the one expression with the character Eof,   *)
(* and conflicts with no other token: so every state to start in has a     *)
(* move on it, which leads to where "$" is accepted and nowhere else, and  *)
(* no state that is reached by a character has one.                        *)
IsScanner(lexer, starts, given) ==
    /\ \A s \in starts : s \in DOMAIN lexer.next /\ lexer.next[s][Eof] # NoNext
    /\ \A s \in DOMAIN lexer.next : \A c \in lexer.chars \union {Eof} :
          \A t \in {lexer.next[s][c]} \ {NoNext} :
              /\ t \in DOMAIN lexer.next /\ lexer.next[t][Eof] = NoNext
              /\ c # Eof /\ t \in DOMAIN lexer.accept => lexer.accept[t] # lexer.eof
              /\ c = Eof => t \in DOMAIN lexer.accept /\ lexer.accept[t] = lexer.eof
    /\ \A t \in DOMAIN lexer.accept : lexer.accept[t] # NoToken
    /\ Eof \notin lexer.chars /\ lexer.high \subseteq lexer.chars
    /\ given \subseteq Seq(lexer.chars)

(* The lexemes of a state are what may still come from there on: nothing,  *)
(* if it accepts, and a character with what may come after its move.       *)
HasLexemes(lexer) ==
    \A s \in DOMAIN lexer.next :
        /\ lexer.lexemes[s] \subseteq [token : Nat, chars : Seq(lexer.chars)]
        /\ lexer.lexemes[s] =
              {[token |-> lexer.accept[t], chars |-> <<>>] : t \in {s} \intersect DOMAIN lexer.accept}
              \union UNION {{[token |-> l.token, chars |-> <<c>> \o l.chars] :
                                  l \in lexer.lexemes[lexer.next[s][c]]} :
                            c \in {d \in lexer.chars : lexer.next[s][d] # NoNext}}

ASSUME ScannersAssumption ==
    \A tab \in Tables :
        /\ tab.lexer.eof = tab.eof
        /\ IsScanner(tab.lexer, {tab.lexer.start[s] : s \in States(tab)}, GivenTexts[tab])
        /\ HasLexemes(tab.lexer)

runVars == <<vars, lexVars>>

Start == table.lexer.start[yypstate]

RunInit == Init /\ ScanInit(GivenTexts[table])

Scan ==
    /\ pc = "read"
    /\ BeginToken(Start) \/ ReadChar(table.lexer, Start) \/ MoveNegative
    /\ UNCHANGED vars

TextLength == yyf.yylpos - yyf.yylfirst + 1     \* YYL_SAVE_TEXT, with the NUL

Deliver ==
    /\ ReadToken
    /\ yytoken' = yyllastaccept
    /\ yytoken' \in table.texts => yylstrlen' = TextLength
    /\ TokenTaken

Parse ==
    /\ \/ LookUp \/ DropToken \/ ReportError \/ PopState \/ NoRecovery \/ RecoverState
       \/ Shift \/ Reduce
    /\ UNCHANGED lexVars

RunNext == Scan \/ Deliver \/ Parse

(* One thread, which runs on; what it reads is bounded by TextBound.       *)
RunSpec == RunInit /\ [][RunNext]_runVars /\ WF_runVars(RunNext)
-----------------------------------------------------------------------------
(* However the buffer was moved and grown, it holds the text from "moved"  *)
(* on without a gap ("Move yylfirst .. yylpos to the front of the buffer,  *)
(* and fill the remainder", skel.c:451), what is read fits, and so does    *)
(* the NUL that YYL_PRE_ACTION writes after the text of a token.  Only a   *)
(* caller's buffer is still there when "$" is scanned again.               *)
BufferHoldsText ==
    ~yyf.freed =>
        /\ yyf.bufend <= yyf.buflen
        /\ moved + yyf.bufend = Len(text)
        /\ \A i \in 0 .. yyf.bufend - 1 : yyf.buffer[i] = text[moved + i + 1]
        /\ scan = "accept" /\ yyllastaccept # table.eof => yyf.yylpos < yyf.buflen
        /\ scan = "crash" => ~yyf.mine /\ tokenEnd > Len(text)

(* Each token is the longest piece of the text, from the end of the one    *)
(* before or the first character after it that begins a token, that one    *)
(* of the expressions wanted in the parser's state describes; "$" comes at *)
(* the end; and as long as no character was dropped its line and column    *)
(* are those in the text ("Fix line/column counting", ChangeLog 0.5.1).    *)
LexemesAt(q) ==
    {l \in table.lexer.lexemes[Start] :
        /\ l.chars # <<>> /\ q + Len(l.chars) <= Len(text')
        /\ SubSeq(text', q + 1, q + Len(l.chars)) = l.chars}
GoesOn(q) ==
    \E l \in table.lexer.lexemes[Start] :
        /\ Len(text') - q < Len(l.chars)
        /\ SubSeq(text', q + 1, Len(text')) = SubSeq(l.chars, 1, Len(text') - q)
LineOf(q) == 1 + Cardinality({i \in 1 .. q : text'[i] = Newline})
ColumnOf(q) == 1 + Cardinality({i \in 1 .. q : \A j \in i .. q : text'[j] # Newline})

TokenIsMunch ==
    \E first \in {moved' + yyf'.yylfirst} :
        /\ first >= tokenEnd /\ \A q \in tokenEnd .. first - 1 : LexemesAt(q) = {}
        /\ \/ first >= Len(text') /\ atEnd' /\ yyllastaccept' = table.eof
           \/ \E l \in LexemesAt(first) :
                /\ l.token = yyllastaccept' /\ tokenEnd' = first + Len(l.chars)
                /\ \A m \in LexemesAt(first) : Len(m.chars) <= Len(l.chars)
                /\ ~atEnd' => ~GoesOn(first)
        /\ ~dropped' /\ first <= Len(text') =>
              yylline' = LineOf(first) /\ yylcol' = ColumnOf(first)

TokensAreMunches ==
    [][scan = "char" /\ scan' \in {"start", "accept"} => TokenIsMunch]_lexVars

(* A parser without error productions comes to its end, whatever the text  *)
(* and however it is delivered: with a result, or, when "$" has to be      *)
(* scanned again over a caller's buffer, in yyfFill; or where a character  *)
(* has no class.                                                           *)
HasErrorRules ==
    \E s \in 1 .. LastShiftState(table) : Goto(s, table.error) \in 1 .. LastShiftState(table)
RunEnds == ~HasErrorRules => <>(Finished \/ scan \in {"crash", "undefined"})
=============================================================================
