---------------------------- MODULE LexConflicts ----------------------------
(***************************************************************************)
(* Lexical conflicts (dfa2.cc, conflict.cc).  In a state with several      *)
(* tokens, and at a move out of a state with a token, a row says what each *)
(* parser state wants; where a row differs from the default the parser     *)
(* states get copies of the automaton of their own.  The vector "table" of *)
(* rows is left out: identity and edgeRow hold the rows themselves, <<>>   *)
(* where the source has -1.  Parser state 0, the null state, is left out.  *)
(***************************************************************************)
EXTENDS Dfa

DontCare == 0
Shift == 1
Accept == 2
Conflict == -1      \* C_CONFLICT and C_OHFSCK

VARIABLES
    parser,      \* by parser state and token with an edge, the tokens that may follow
    accept,      \* DFAState::accept, 0 for none
    identity,    \* stateMap[x].row
    edgeRow,     \* stateMap[x].edges[m]
    startStates  \* by parser state, <<>> before resolveConflicts

lexVars == <<parser, accept, identity, edgeRow, startStates>>

conflictVars == <<predVars, dfaVars, lexVars>>

ParserStates == DOMAIN parser
Space == IF input.space = 0 THEN {} ELSE {input.space}
Wants(s) == DOMAIN parser[s] \union Space \* LRState::accepts
Base == DOMAIN identity                         \* the states below numBaseStates
Least(S) == CHOOSE t \in S : \A u \in S : t <= u
-----------------------------------------------------------------------------
LexInit ==
    /\ DfaInit
    /\ parser = <<>> /\ accept = <<>> /\ identity = <<>> /\ edgeRow = <<>> /\ startStates = <<>>

(* Between computePredSets and checkConflicts the parser table is built.   *)
BuildParser ==
    /\ phase = "predecessors" /\ predCalls = <<>>
    /\ parser' \in input.parsers
    /\ phase' = "parser"
    /\ UNCHANGED <<predVars, input, at, ch, nfa, equivs, oldGroups, nfaStates, accepts, postAccepts,
                   accept, identity, edgeRow, startStates>>

(* collapseRow: the one entry of a row, apart from "don't care"; -1 if     *)
(* there are several.                                                      *)
CollapseRow(row) ==
    LET entries == {row[s] : s \in DOMAIN row} \ {DontCare}
    IN  IF entries = {} THEN DontCare
        ELSE IF Cardinality(entries) = 1 THEN CHOOSE e \in entries : TRUE ELSE -1

(* The row of a state with several tokens: by parser state the one token   *)
(* it wants, a conflict if there are more, "don't care" if there is none.  *)
MutIdentityTakesFirst(syms) ==
    [s \in ParserStates |->
        LET wanted == syms \intersect Wants(s)
        IN  IF wanted = {} THEN DontCare ELSE Least(wanted)]
IdentityRow(syms) ==
    [s \in ParserStates |->
        LET wanted == syms \intersect Wants(s)
        IN  IF wanted = {} THEN DontCare
            ELSE IF Cardinality(wanted) = 1 THEN Least(wanted) ELSE Conflict]

(* The first loop of checkConflicts, or resolveConflictsNoContext; the     *)
(* states are independent of each other.                                   *)
Status(x) == CollapseRow(IdentityRow(accepts[x]))

DefaultAccept(x) ==
    IF accepts[x] = {} THEN 0
    ELSE IF input.context /\ Cardinality(accepts[x]) > 1 /\ Status(x) >= 0 THEN Status(x)
    ELSE Least(accepts[x])

(* Two tokens that nobody wants give the status 0, the index of no token:  *)
(* what symbol(0) reads is undefined.                                      *)
CheckIdentities ==
    /\ phase = "parser"
    /\ \A x \in States : input.context /\ Cardinality(accepts[x]) > 1 => Status(x) # DontCare
    /\ accept' = [x \in States |-> DefaultAccept(x)]
    /\ IF input.context
       THEN LET several == {x \in States : Cardinality(accepts[x]) > 1}
            IN  /\ identity' = [x \in States |->
                        IF x \in several /\ Status(x) < 0 THEN IdentityRow(accepts[x]) ELSE <<>>]
                /\ accepts' = [x \in States |->
                        IF x \in several /\ Status(x) >= 0 THEN {Status(x)} ELSE accepts[x]]
                /\ edgeRow' = [x \in States |-> [m \in Classes(x) |-> <<>>]]
                /\ phase' = "edges"
       ELSE /\ UNCHANGED <<accepts, identity, edgeRow>>
            /\ phase' = "classes"
    /\ at' = 1
    /\ UNCHANGED <<predVars, input, ch, nfa, equivs, oldGroups, nfaStates, postAccepts, parser, startStates>>

(* follows(): the tokens after t is shifted or reduced on in parser state  *)
(* s.  The space token has no edge and leaves the state as it is.          *)
Follows(s, t) ==
    Space \union (IF t \in DOMAIN parser[s] THEN parser[s][t] ELSE Wants(s))

PostAcceptsOf(x) == IF x = 0 THEN {} ELSE postAccepts[x]

(* The entry of a parser state for going on from x by m, with the token    *)
(* this state would have in x: neither, only on, only accept, or both.     *)
EdgeEntry(s, sym, alt, after) ==
    IF alt \intersect Wants(s) = {}
    THEN IF sym = 0 THEN DontCare ELSE Accept
    ELSE IF sym = 0 \/ after \intersect Follows(s, sym) = {} THEN Shift ELSE Conflict

TokenIn(x, s) ==
    IF identity[x] # <<>> THEN identity[x][s]
    ELSE LET sym == Least(accepts[x]) IN IF sym \in Wants(s) THEN sym ELSE 0

EdgeRowOf(x, m) ==
    [s \in ParserStates |->
        IF TokenIn(x, s) = -1 THEN Conflict
        ELSE EdgeEntry(s, TokenIn(x, s), PostAcceptsOf(moves[x][m]), PostAcceptsOf(moves[1][m]))]

(* The second loop of checkConflicts: a row that differs is kept; if all   *)
(* parser states accept, the move is deleted.                              *)
CheckEdges ==
    /\ phase = "edges" /\ at \in Base
    /\ LET checked == IF accepts[at] = {} THEN {}
                      ELSE {m \in Classes(at) : moves[at][m] # 0}
           status(m) == CollapseRow(EdgeRowOf(at, m))
       IN  /\ edgeRow' = [edgeRow EXCEPT ![at] = [m \in Classes(at) |->
                    IF m \in checked /\ status(m) = -1 THEN EdgeRowOf(at, m) ELSE <<>>]]
           /\ moves' = [moves EXCEPT ![at] = [m \in Classes(at) |->
                    IF m \in checked /\ status(m) = Accept THEN 0 ELSE moves[at][m]]]
    /\ at' = at + 1
    /\ UNCHANGED <<predStates, predCalls, input, phase, ch, nfa, equivs, oldGroups, nfaStates, accepts,
                   postAccepts, parser, accept, identity, startStates>>
-----------------------------------------------------------------------------
(* getIdentity, getEdge, hasEdgeActions.                                   *)
Identity(x, s) == IF identity[x] = <<>> THEN DontCare ELSE identity[x][s]
Edge(x, m, s) == IF edgeRow[x][m] = <<>> THEN DontCare ELSE edgeRow[x][m][s]

(* mutant: the copies accept what the original accepts                    *)
MutAcceptDefault(x, s) == accept[x]
AcceptFor(x, s) == IF Identity(x, s) <= 0 THEN accept[x] ELSE Identity(x, s)
MoveFor(x, m, s) == IF Edge(x, m, s) = Accept THEN 0 ELSE moves[x][m]

MutOnlyIdentityDiffers(x, s) == Identity(x, s) > 0 /\ Identity(x, s) # accept[x]
Differs(x, s) ==
    \/ Identity(x, s) > 0 /\ Identity(x, s) # accept[x]
    \/ \E m \in Classes(x) : Edge(x, m, s) = Accept

(* copyStartStateMin: only the states that can reach a difference are      *)
(* copied, the moves to the others lead into the common automaton.         *)
Changed(s) == UNION {predStates[x] : x \in {y \in Base : Differs(y, s)}}

CopyNumber(x, s) == Len(moves) + Cardinality({y \in Changed(s) : y <= x})

CopyStartState ==
    /\ phase = "edges" /\ at > Len(identity)
    /\ Len(startStates) < Len(parser)
    /\ LET s == Len(startStates) + 1
           order == [k \in 1 .. Cardinality(Changed(s)) |->
                        CHOOSE x \in Changed(s) : CopyNumber(x, s) = Len(moves) + k]
           map(x) == IF x \in Changed(s) THEN CopyNumber(x, s) ELSE x
       IN  /\ startStates' = Append(startStates, IF Changed(s) = {} THEN 1 ELSE Len(moves) + 1)
           /\ accept' = accept \o [k \in DOMAIN order |-> AcceptFor(order[k], s)]
           /\ moves' = moves \o [k \in DOMAIN order |-> [m \in Classes(order[k]) |->
                    IF MoveFor(order[k], m, s) = 0 THEN 0 ELSE map(moves[order[k]][m])]]
    /\ UNCHANGED <<predStates, predCalls, dfaVars, parser, identity, edgeRow>>

EndOfCopies ==
    /\ phase = "edges" /\ at > Len(identity)
    /\ Len(startStates) = Len(parser)
    /\ phase' = "classes"
    /\ UNCHANGED <<predVars, input, at, ch, nfa, equivs, oldGroups, nfaStates, accepts, postAccepts, lexVars>>

LexNext ==
    \/ DfaNext /\ UNCHANGED lexVars
    \/ BuildParser \/ CheckIdentities \/ CheckEdges \/ CopyStartState \/ EndOfCopies
-----------------------------------------------------------------------------
Start(s) == IF startStates = <<>> THEN 1 ELSE startStates[s]
TokenAfter(s, w) == LET x == After(Start(s), w) IN IF x = 0 THEN 0 ELSE accept[x]

(* What the construction of the table leaves for the conflicts: among it,  *)
(* that every state leads to a token.                                      *)
Tokens == DOMAIN input.lang
TableFacts ==
    /\ Tokens \subseteq Nat \ {0} /\ IsFiniteSet(Tokens) /\ IsFiniteSet(ParserStates)
    /\ accepts \in [States -> SUBSET Tokens]
    /\ moves \in [DOMAIN moves -> [0 .. NumEquivs - 1 -> Nat]]
    /\ at \in Base => at \in DOMAIN moves /\ \A m \in Classes(at) : moves[at][m] \in {0} \union States
    /\ postAccepts \in [States -> (SUBSET Tokens) \ {{}}]

(* "This may arguably be impossible" (dfa2.cc:43): if every token is       *)
(* wanted by some parser state, no conflict is decided the same way in all *)
(* of them, so no token is dropped and no move deleted for good.           *)
EveryTokenWanted == \A t \in Tokens : \E s \in ParserStates : t \in Wants(s)

NothingDecidedForAll ==
    [][EveryTokenWanted =>
        /\ phase = "parser" => accepts' = accepts
        /\ phase = "edges" /\ startStates' = startStates => moves' = moves]_conflictVars

(* The automaton of a parser state, part of it copied and the rest shared, *)
(* is the one copyStartState would make by copying and altering all of it. *)
CopyIsExact ==
    phase = "classes" /\ input.context =>
        \A s \in ParserStates, w \in Strings :
            LET altered == [p \in StatesAndChars |->
                        IF p[1] = 0 THEN 0 ELSE MoveFor(p[1], equivs.group[p[2]], s)]
                whole == Run(altered, 1, w)
                shared == After(Start(s), w)
            IN  /\ (whole = 0) = (shared = 0)
                /\ whole # 0 => accept[shared] = AcceptFor(whole, s)

(* Where a string is a token the parser wants, the automaton of the parser *)
(* state gets to the end of it and accepts it as such, unless it is two    *)
(* wanted tokens at once; and it accepts nothing but what the string is.   *)
WantedTokenFound ==
    phase = "classes" /\ input.context =>
        \A s \in ParserStates, w \in Strings :
            LET wanted == Matching(w) \intersect Wants(s)
            IN  /\ Cardinality(wanted) = 1 => TokenAfter(s, w) \in wanted
                /\ wanted # {} => TokenAfter(s, w) # 0
                /\ TokenAfter(s, w) \in Matching(w) \union {0}
=============================================================================
