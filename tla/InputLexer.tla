----------------------------- MODULE InputLexer -----------------------------
(***************************************************************************)
(* The scanner elr reads a grammar file with (lex.cc).  A file is a        *)
(* sequence of pieces: a word is a run of letters, digits, "_" and "-", a  *)
(* number a run of digits, every other character a piece by itself.  Two   *)
(* flags decide what a piece means: yyStart, whether "(" begins a type,    *)
(* and inDirective, whether "on" and "off" are keywords.  Positions, which *)
(* only messages and #line need, are left out.                             *)
(***************************************************************************)
EXTENDS Integers, Sequences

CONSTANTS
    Words, Numbers,         \* the pieces that are words, or numbers
    Begins                  \* <<w, d>>: w is the beginning of d (strncasecmp)

VARIABLES
    file,
    yych,           \* the next piece
    yyStart,        \* at the next call of yylex (atStart, during the call)
    inDirective,
    tokens          \* what yylex has returned

lexInputVars == <<file, yych, yyStart, inDirective, tokens>>

Spaces == {" ", "\n"}
EndToken == [kind |-> "end", str |-> <<>>]
Scanned == tokens # <<>> /\ tokens[Len(tokens)] = EndToken

(* lexOpenFile()                                                           *)
OpenFile(f) ==
    /\ file = f /\ yych = 1
    /\ yyStart = TRUE /\ inDirective = FALSE
    /\ tokens = <<>>

IsEof(i) == i > Len(file)
Seek(i, places) ==
    CHOOSE j \in i .. Len(file) + 2 :
        (IsEof(j) \/ j \in places) /\ \A k \in i .. j - 1 : k \notin places

Ahead == Seek(yych, {j \in DOMAIN file : file[j] \notin Spaces})

(* yylex returns a token, the next one begins at i; "atStart" and "dir"    *)
(* are what it leaves in the flags.                                        *)
Returns(kind, str, i, atStart, dir) ==
    /\ tokens' = Append(tokens, [kind |-> kind, str |-> str])
    /\ yych' = i /\ yyStart' = atStart /\ inDirective' = dir
    /\ UNCHANGED file

EndOfFile(i) == IsEof(i) /\ Returns("end", <<>>, i, FALSE, inDirective)

(* "error" is told from the identifiers before the flag is looked at.      *)
KeywordOf(w) ==
    IF ~inDirective THEN "IDENT"
    ELSE IF w \in {"on", "yes", "true"} THEN "ON"
    ELSE IF w \in {"no", "off", "false"} THEN "OFF" ELSE "IDENT"

Identifier(i) ==
    /\ file[i] \in Words
    /\ \/ file[i] = "error" /\ Returns("ERROR_IDENT", <<>>, i + 1, FALSE, inDirective)
       \/ file[i] # "error" /\ Returns(KeywordOf(file[i]), <<file[i]>>, i + 1, FALSE, FALSE)

NumberToken(i) == file[i] \in Numbers /\ Returns("NUMBER", <<file[i]>>, i + 1, FALSE, inDirective)

PunctuationOf ==
    [c \in {":", ";", "|", ".", ")", "="} |->
        CASE c = ":" -> "COLON" [] c = ";" -> "SEMICOLON" [] c = "|" -> "OR"
          [] c = "." -> "PERIOD" [] c = ")" -> "RPAREN" [] c = "=" -> "EQUALS"]
Punctuation(i) ==
    /\ file[i] \in DOMAIN PunctuationOf
    /\ Returns(PunctuationOf[file[i]], <<>>, i + 1, file[i] = ";", inDirective)

(* From i, which is passed over, to where as many are closed as opened; or *)
(* to the last piece.  The text of a block lacks what ends it.             *)
OpenAfter(i, j, open, close) ==
    1 + Len(SelectSeq(SubSeq(file, i + 1, j), LAMBDA c : c = open))
      - Len(SelectSeq(SubSeq(file, i + 1, j), LAMBDA c : c = close))
Closing(i, open, close) ==
    CHOOSE j \in i .. Len(file) :
        /\ j = Len(file) \/ (j > i /\ OpenAfter(i, j, open, close) = 0)
        /\ \A k \in i + 1 .. j - 1 : OpenAfter(i, k, open, close) # 0
Block(kind, i, from, open, close, atStart, dir) ==
    LET j == Closing(i, open, close)
    IN  Returns(kind, SubSeq(file, from, j - 1), j + 1, atStart, dir)

TypeOrParen(i) ==
    /\ file[i] = "("
    /\ \/ yyStart /\ ~IsEof(i + 1) /\ Block("TYPE", i + 1, i + 1, "(", ")", FALSE, inDirective)
       \/ ~yyStart /\ Returns("LPAREN", <<>>, i + 1, FALSE, inDirective)

CodeBlock(i) ==
    /\ file[i] = "%" /\ ~IsEof(i + 1) /\ file[i + 1] = "{"
    /\ Block("CODE", i + 1, i + 2, "{", "}", TRUE, inDirective)

(* The directives in the order they are compared, and what they return.    *)
Directives == <<
    <<"left", "LEFTPREC">>, <<"right", "RIGHTPREC">>, <<"nonassoc", "NONASSOCPREC">>,
    <<"start", "START">>, <<"class", "CLASS">>, <<"include", "INCLUDE">>,
    <<"expect", "EXPECT">>, <<"name", "NAME">>, <<"language", "LANGUAGE">>,
    <<"casesensitive", "CASE">>, <<"disambiguation", "DISAMBIGUATION">>,
    <<"interface", "INTERFACE">>, <<"implementation", "IMPLEMENTATION">>,
    <<"context", "CONTEXT">> >>
Matching(w) == SelectSeq(Directives, LAMBDA d : w = d[1] \/ <<w, d[1]>> \in Begins)
DirectiveWord(i) == IF IsEof(i + 1) \/ file[i + 1] \notin Words THEN "" ELSE file[i + 1]

(* An abbreviation is the first directive it begins, nothing is "left";    *)
(* what no directive begins with is reported and passed over.              *)
Directive(i) ==
    /\ file[i] = "%" /\ (IsEof(i + 1) \/ file[i + 1] # "{")
    /\ \E w \in {DirectiveWord(i)} : \E after \in {IF w = "" THEN i + 1 ELSE i + 2} :
        \/ w = "" /\ Returns("LEFTPREC", <<>>, after, FALSE, TRUE)
        \/ w # "" /\ Matching(w) # <<>> /\ Returns(Matching(w)[1][2], <<>>, after, FALSE, TRUE)
        \/ /\ w # "" /\ Matching(w) = <<>>
           /\ yych' = after /\ inDirective' = TRUE
           /\ UNCHANGED <<file, yyStart, tokens>>

(* A quote after a backslash does not end the text, whatever is before the *)
(* backslash.  Where the quote is missing, the character past the end of   *)
(* the file is copied, a NUL of the mapped page, and the quote supplied.   *)
Nul == "\\0"
UpTo(i, j) ==
    IF IsEof(j) THEN SubSeq(file, i, Len(file)) \o <<Nul, file[i]>> ELSE SubSeq(file, i, j)
Quoted(i) ==
    /\ file[i] \in {"\"", "'"}
    /\ LET j == Seek(i + 1, {k \in i + 1 .. Len(file) : file[k] = file[i] /\ file[k - 1] # "\\"})
       IN  Returns(IF file[i] = "'" THEN "STRING" ELSE "REGEXP",
                   UpTo(i, j), j + 1, FALSE, inDirective)

ActionBlock(i) ==
    file[i] = "{" /\ Block("ACTION", i, i + 1, "{", "}", inDirective, inDirective)

(* Comments and characters that begin nothing: the call goes on.           *)
Skip(i) == yych' = i /\ UNCHANGED <<file, yyStart, inDirective, tokens>>
Opens(i, c) == file[i] = "/" /\ ~IsEof(i + 1) /\ file[i + 1] = c

Comment(i) ==
    /\ Opens(i, "*")
    /\ Skip(Seek(i + 3, {k \in i + 3 .. Len(file) : file[k] = "/" /\ file[k - 1] = "*"}) + 1)
LineComment(i) == Opens(i, "/") /\ Skip(Seek(i + 1, {k \in DOMAIN file : file[k] = "\n"}) + 1)

Known == Words \union Numbers \union DOMAIN PunctuationOf \union {"(", "%", "\"", "'", "{"}
IllegalCharacter(i) ==
    /\ file[i] \notin Known /\ ~Opens(i, "*") /\ ~Opens(i, "/")
    /\ Skip(IF file[i] = "/" THEN i + 2 ELSE i + 1)

yylex ==
    /\ ~Scanned
    /\ \E i \in {Ahead} :
        \/ EndOfFile(i)
        \/ ~IsEof(i) /\ \/ Identifier(i) \/ NumberToken(i) \/ Punctuation(i) \/ TypeOrParen(i)
                        \/ CodeBlock(i) \/ Directive(i) \/ Quoted(i) \/ ActionBlock(i)
                        \/ Comment(i) \/ LineComment(i) \/ IllegalCharacter(i)
=============================================================================
