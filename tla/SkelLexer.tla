------------------------------ MODULE SkelLexer ------------------------------
(***************************************************************************)
(* The scanner of the run-time system (skel/skel.c): the loop over the     *)
(* characters with its longest match, and the buffer it reads through.     *)
(* yyfFill moves what is still needed to the front, makes the buffer twice *)
(* as long when little room is left, and reads; so every index into the    *)
(* buffer changes its meaning while a token is scanned.  Indices are those *)
(* of the code, from 0.  What is read is chosen as it is read.             *)
(* yyfPushFile, which nothing calls, is left out: there is one file.       *)
(***************************************************************************)
EXTENDS Integers, Sequences, FiniteSets

CONSTANTS
    DefaultBufferLen,   \* YYL_DEFAULT_BUFFER_LEN
    MinBufferFill,      \* YYL_MIN_BUFFER_FILL
    ReadSizes,          \* how much read() may deliver at a time
    TextBound,          \* the longest input
    PositionBound,      \* where yylpos stops when "$" is scanned again and again
    Newline, Unset, Eof \* YYL_END_OF_LINE, memory never written, $LEXER_EOF_CHAR
ASSUME BufferAssumption ==
    /\ {DefaultBufferLen, MinBufferFill} \union ReadSizes \subseteq Nat \ {0}
    /\ MinBufferFill <= 2 * DefaultBufferLen /\ TextBound \in Nat
    /\ Unset # Newline

VARIABLES
    yyf,        \* struct yy_parseable: buffer (index -> character), buflen,
                \* bufend, mine (ismybuffer), freed, and the fields yyl...
    yylstate, yyllastaccept,
    yylline, yylcol,    \* where the token began
    scan,       \* "start", the next "char", "accept", "crash", "undefined"
    text, atEnd,        \* history: all that was read, and whether it ended
    moved,      \* history: the characters moved out of the buffer so far
    tokenEnd,   \* history: the end of the last token in "text"
    dropped     \* history: whether an unrecognised character was dropped

lexVars == <<yyf, yylstate, yyllastaccept, yylline, yylcol, scan, text, atEnd, moved, tokenEnd, dropped>>

NoToken == -1
NoNext == 0     \* $LEXER_NO_STATE
-----------------------------------------------------------------------------
(* ..._file and ..._stream: the buffer is made by yyfInit; ..._buffer: it  *)
(* is the caller's (of malloc()), holds the whole text, and fd is -1.      *)
OwnBuffer == [buffer |-> [i \in 0 .. DefaultBufferLen - 1 |-> Unset],
              buflen |-> DefaultBufferLen, bufend |-> 0, mine |-> TRUE]
CallersBuffer(t) == [buffer |-> [i \in 0 .. Len(t) - 1 |-> t[i + 1]],
                     buflen |-> Len(t), bufend |-> Len(t), mine |-> FALSE]

yyfInit(f) ==
    [buffer |-> f.buffer, buflen |-> f.buflen, bufend |-> f.bufend, mine |-> f.mine, freed |-> FALSE,
     yylfirst |-> 0, yylpos |-> 0, yyllastpos |-> 0, yylline |-> 1, yylcol |-> 1]

ScanInit(Given) ==
    /\ \/ text = <<>> /\ atEnd = FALSE /\ yyf = yyfInit(OwnBuffer)
       \/ text \in Given /\ atEnd = TRUE /\ yyf = yyfInit(CallersBuffer(text))
    /\ yylstate = NoNext /\ yyllastaccept = NoToken
    /\ yylline = 1 /\ yylcol = 1
    /\ scan = "start"
    /\ moved = 0 /\ tokenEnd = 0 /\ dropped = FALSE

(* "lexer:", where every token begins.                                     *)
BeginToken(start) ==
    /\ scan = "start"
    /\ yylstate' = start
    /\ yyllastaccept' = NoToken
    /\ yylline' = yyf.yylline /\ yylcol' = yyf.yylcol
    /\ yyf' = [yyf EXCEPT !.yylfirst = yyf.yylpos]
    /\ scan' = "char"
    /\ UNCHANGED <<text, atEnd, moved, tokenEnd, dropped>>

(* yyfFill, up to the read().                                              *)
MutLastPosStays(f) ==
    [f EXCEPT !.buffer = [i \in DOMAIN f.buffer |->
                             IF i < f.bufend - f.yylfirst THEN f.buffer[i + f.yylfirst] ELSE f.buffer[i]],
              !.bufend = @ - f.yylfirst, !.yylpos = @ - f.yylfirst, !.yylfirst = 0]
Moved(f) ==
    [f EXCEPT !.buffer = [i \in DOMAIN f.buffer |->
                             IF i < f.bufend - f.yylfirst THEN f.buffer[i + f.yylfirst] ELSE f.buffer[i]],
              !.bufend = @ - f.yylfirst, !.yylpos = @ - f.yylfirst,
              !.yyllastpos = @ - f.yylfirst, !.yylfirst = 0]
Grown(f) ==
    IF f.buflen - f.bufend >= MinBufferFill THEN f
    ELSE [f EXCEPT !.buffer = [i \in 0 .. 2 * f.buflen - 1 |->
                                  IF i < f.buflen THEN f.buffer[i] ELSE Unset],
                   !.buflen = 2 * @]

(* What read() delivers: nothing at the end, or some of what there is room *)
(* for; a file that has ended stays so.                                    *)
Delivered(Chars, room) ==
    {<<>>} \union
    IF atEnd THEN {}
    ELSE UNION {[1 .. n -> Chars] : n \in {m \in ReadSizes : m <= room /\ Len(text) + m <= TextBound}}

Filled(f, data) ==
    [f EXCEPT !.buffer = [i \in DOMAIN f.buffer |->
                             IF i \in f.bufend .. f.bufend + Len(data) - 1
                             THEN data[i - f.bufend + 1] ELSE f.buffer[i]],
              !.bufend = @ + Len(data)]
-----------------------------------------------------------------------------
(* The table has an entry: it may accept here, "save for backtracking".    *)
Advance(lexer, f, next) ==
    /\ yylstate' = next
    /\ yyf' = IF next \in DOMAIN lexer.accept THEN [f EXCEPT !.yyllastpos = f.yylpos] ELSE f
    /\ yyllastaccept' = IF next \in DOMAIN lexer.accept THEN lexer.accept[next] ELSE yyllastaccept
    /\ UNCHANGED <<yylline, yylcol, scan, tokenEnd, dropped>>

(* No entry and nothing accepted: the first character is dropped.  Its     *)
(* position is kept for the token (skel.c:282-293).                        *)
Unrecognised(start, f) ==
    /\ yyf' = [f EXCEPT !.yylline = yylline,
                        !.yylcol = IF f.buffer[f.yylfirst] = Newline THEN 1 ELSE yylcol + 1,
                        !.yylfirst = @ + 1, !.yylpos = f.yylfirst + 1]
    /\ yylline' = IF f.buffer[f.yylfirst] = Newline THEN yylline + 1 ELSE yylline
    /\ yylstate' = start
    /\ dropped' = TRUE
    /\ UNCHANGED <<yyllastaccept, yylcol, scan, tokenEnd>>

(* Lines and columns are counted over the token.                           *)
MutColumnRunsOn(f) ==
    LET token == f.yylfirst .. f.yylpos - 1
        lines == {i \in token : f.buffer[i] = Newline}
    IN  [f EXCEPT !.yylline = @ + Cardinality(lines),
                  !.yylcol = @ + Cardinality(token \ lines)]
Counted(f) ==
    LET token == f.yylfirst .. f.yylpos - 1
        lines == {i \in token : f.buffer[i] = Newline}
        after(i) == \A j \in lines : j < i
    IN  [f EXCEPT !.yylline = @ + Cardinality(lines),
                  !.yylcol = Cardinality({i \in token \ lines : after(i)})
                             + IF lines = {} THEN @ ELSE 1]

(* No entry: back to where a token was accepted last.  At the end of the   *)
(* input yyfRelease frees the buffer; white space is no token.             *)
BackToAccept(lexer, f) ==
    LET back == [f EXCEPT !.yylpos = f.yyllastpos]
        atEof == yyllastaccept = lexer.eof
        freed == f.freed \/ (atEof /\ f.mine)
    IN  /\ yyf' = IF freed THEN [back EXCEPT !.freed = TRUE] ELSE Counted(back)
        /\ scan' = IF yyllastaccept = lexer.space THEN "start" ELSE "accept"
        /\ tokenEnd' = moved' + f.yyllastpos
        /\ UNCHANGED <<yylstate, yyllastaccept, yylline, yylcol, dropped>>

YYL_GOTO(lexer, s, c) == lexer.next[s][c]

(* The class of a character is looked up by its value as a char: where     *)
(* char is signed one of the upper half is read from before the table, and *)
(* what the program does then is not followed further.                     *)
ClassUndefined(f) ==
    /\ yyf' = f /\ scan' = "undefined"
    /\ UNCHANGED <<yylstate, yyllastaccept, yylline, yylcol, tokenEnd, dropped>>

(* The buffer is f and c the character read from it.                       *)
Consume(lexer, start, f, c) ==
    \/ c \in lexer.high /\ ClassUndefined(f)
    \/ /\ c \notin lexer.high
       /\ \E next \in {YYL_GOTO(lexer, yylstate, c)} :
             \/ next # NoNext /\ Advance(lexer, f, next)
             \/ next = NoNext /\ yyllastaccept = NoToken /\ Unrecognised(start, f)
             \/ next = NoNext /\ yyllastaccept # NoToken /\ BackToAccept(lexer, f)

ReadChar(lexer, start) ==
    /\ scan = "char"
    /\ \/ /\ yyf.yylpos < yyf.bufend
          /\ UNCHANGED <<text, atEnd, moved>>
          /\ Consume(lexer, start, [yyf EXCEPT !.yylpos = @ + 1], yyf.buffer[yyf.yylpos])
       \/ /\ yyf.yylpos >= yyf.bufend /\ yyf.freed
          /\ UNCHANGED <<text, atEnd, moved>>
          /\ Consume(lexer, start, [yyf EXCEPT !.yylpos = IF @ < PositionBound THEN @ + 1 ELSE @], Eof)
       \/ /\ yyf.yylpos >= yyf.bufend /\ ~yyf.freed /\ yyf.yylfirst <= yyf.bufend
          /\ \E f \in {Grown(Moved(yyf))} :
             \E data \in Delivered(lexer.chars, f.buflen - f.bufend) :
                /\ text' = text \o data
                /\ atEnd' = (data = <<>>)
                /\ moved' = moved + yyf.yylfirst
                /\ Consume(lexer, start, [Filled(f, data) EXCEPT !.yylpos = @ + 1],
                           IF data = <<>> THEN Eof ELSE Filled(f, data).buffer[f.yylpos])

(* A caller's buffer is not freed at the end: when "$" is wanted again,    *)
(* memmove is given the length -1.                                         *)
MoveNegative ==
    /\ scan = "char"
    /\ yyf.yylpos >= yyf.bufend /\ ~yyf.freed /\ yyf.yylfirst > yyf.bufend
    /\ scan' = "crash"
    /\ UNCHANGED <<yyf, yylstate, yyllastaccept, yylline, yylcol, text, atEnd, moved, tokenEnd, dropped>>

(* The parser takes the token.                                             *)
TokenTaken ==
    /\ scan = "accept" /\ scan' = "start"
    /\ UNCHANGED <<yyf, yylstate, yyllastaccept, yylline, yylcol, text, atEnd, moved, tokenEnd, dropped>>
=============================================================================
