---------------------------- MODULE ParserTables ----------------------------
(***************************************************************************)
(* The table generator from the grammar to the arrays of the generated     *)
(* parser, in the order of main(): what the tables read of finalize(), the *)
(* nullable marks and the minimum lengths, then computeFirst, constructPDA *)
(* with its reduce arrays, computeLALRSets with the resolution of every    *)
(* state, computeLALRkSets, computeFollowSets and the comb vector of the   *)
(* parser.  The grammars declare no precedence (ResolveState.tla has it)   *)
(* and no space token.                                                     *)
(***************************************************************************)
EXTENDS LalrK, FiniteSetsExt

CONSTANTS
    RoundBound,     \* rounds in which the reference of First is complete
    SentenceBound   \* the longest input a finished table is run on

VARIABLES
    stage,          \* the part of main() that runs
    row, prev, nt, done, misled,    \* computeFirst
    reduceArrays,   \* reduceLengths, reduceTokens, acceptState
    edges,          \* LRState::edges[1..lastTerminal] after resolveState, as getRow has them
    unresolvedConflicts,
    accepts,        \* LRState::accepts
    follows,        \* Symbol::follows
    comb            \* CombVector

firstVars == <<row, prev, nt, done, misled>>
outVars == <<reduceArrays, edges, unresolvedConflicts, accepts, follows, comb>>
everything == <<allVars, first, firstVars, kVars, stage, outVars>>

Firsts == INSTANCE First WITH calls <- nullCalls

(* "First reduce state follows last real state."                           *)
ReduceCode(r) == Len(items) + r
RuleOf(c) == c - Len(items)

(* buildReduceArrays().                                                    *)
ReduceArrays ==
    LET codes == {ReduceCode(r) : r \in RuleIds(grammar)}
    IN  [length |-> [c \in codes |-> RuleLength(grammar, RuleOf(c))],
         token  |-> [c \in codes |-> grammar.rules[RuleOf(c)].nonterm],
         accept |-> ReduceCode(StartRule(grammar))]

(***************************************************************************)
(* resolveState() without precedences: a shift stands, of two reductions   *)
(* the one of the lower ruleId does.  A state with nothing but a reduction *)
(* for which there is no lookahead reduces on everything.                  *)
(***************************************************************************)
MutWantingByLookahead(q, t, look) == {r \in reduces[q] : t \in look[r]}
Wanting(q, t, look) ==
    {r \in reduces[q] : t \in look[r] \/ (isAdequate[q] /\ look[r] = {})}

Entry(q, t, look) ==
    IF goto[q][t] # 0 THEN goto[q][t]
    ELSE IF Wanting(q, t, look) = {} THEN 0
    ELSE ReduceCode(CHOOSE r \in Wanting(q, t, look) : \A s \in Wanting(q, t, look) : r <= s)

Resolved(q, look) == [t \in Terminals(grammar) |-> Entry(q, t, look)]

(* The calls of reportConflict(): for a terminal all but the first of what *)
(* wants its entry.                                                        *)
Reports(q, look) ==
    LET Rivals(t) == Cardinality(Wanting(q, t, look)) + IF goto[q][t] # 0 THEN 1 ELSE 0
    IN  MapThenSumSet(LAMBDA t : IF Rivals(t) > 1 THEN Rivals(t) - 1 ELSE 0, Terminals(grammar))
-----------------------------------------------------------------------------
TablesInit ==
    /\ LalrInit /\ KInit
    /\ stage = "nullable"
    /\ first = <<>> /\ row = <<>> /\ prev = <<>>
    /\ nt = 0 /\ done = FALSE /\ misled = FALSE
    /\ reduceArrays = <<>> /\ edges = <<>> /\ unresolvedConflicts = 0
    /\ accepts = <<>> /\ follows = <<>> /\ comb = <<>>

(* What finalize() marks.                                                  *)
Finalize ==
    /\ stage = "nullable"
    /\ ComputeNullable \/ ComputeMinRuleLengths
    /\ stage' = IF phase' = "nullable" THEN "nullable" ELSE "first"
    /\ UNCHANGED <<first, firstVars, kVars, outVars>>

ComputeFirst ==
    /\ stage = "first"
    /\ Firsts!Start \/ Firsts!Compute \/ Firsts!NextRow \/ Firsts!Finish
    /\ stage' = IF first' = <<>> THEN "first" ELSE "lalr"
    /\ UNCHANGED <<allVars, kVars, outVars>>

(* constructPDA() ends with buildReduceArrays().                           *)
ComputeLALRSets ==
    /\ stage = "lalr"
    /\ \/ /\ Construct \/ Traverse \/ StartIncludes
          /\ UNCHANGED <<reduceArrays, edges, unresolvedConflicts>>
       \/ /\ StartReads
          /\ reduceArrays' = ReduceArrays
          /\ UNCHANGED <<edges, unresolvedConflicts>>
       \/ /\ ComputeLookahead
          /\ edges' = Append(edges, Resolved(lookState, lookahead'[lookState]))
          /\ unresolvedConflicts' = unresolvedConflicts + Reports(lookState, lookahead'[lookState])
          /\ UNCHANGED reduceArrays
    /\ stage' = IF lookState' > Len(items') /\ phase' = "includes" THEN "lalrk" ELSE "lalr"
    /\ UNCHANGED <<first, firstVars, kVars, accepts, follows, comb>>

ComputeLALRkSets ==
    /\ stage = "lalrk"
    /\ KNext
    /\ stage' = IF itemState' > Len(items) THEN "follow" ELSE "lalrk"
    /\ UNCHANGED <<firstVars, outVars>>

(* LRState::edges[0], the head of the chain of reductions.                 *)
HeadReduction(q) ==
    CHOOSE r \in reduces[q] : \A s \in reduces[q] \ {r} :
        \/ RuleLength(grammar, r) < RuleLength(grammar, s)
        \/ RuleLength(grammar, r) = RuleLength(grammar, s) /\ r > s

(* mutant: only shifts are accepted                                        *)
MutAcceptsShifts(q) == {t \in Terminals(grammar) : edges[q][t] \in DOMAIN items}

(* What a state accepts: its shifts, and the lookahead of every reduction  *)
(* at the head of a chain of edges, that of symbol 0 included.             *)
Accepts(q) ==
    LET reduced == {RuleOf(edges[q][t]) :
                      t \in {u \in Terminals(grammar) : edges[q][u] > Len(items)}}
    IN  {t \in Terminals(grammar) : edges[q][t] \in DOMAIN items}
        \union (UNION {lookahead[q][r] : r \in reduced})
        \union (IF reduces[q] = {} THEN {} ELSE lookahead[q][HeadReduction(q)])

ComputeFollowSets ==
    /\ stage = "follow"
    /\ accepts' = [q \in DOMAIN items |-> Accepts(q)]
    /\ follows' = [x \in Symbols(grammar) |->
                      UNION {accepts'[q] : q \in {p \in DOMAIN items : accessSym[p] = x}}]
    /\ stage' = "comb"
    /\ UNCHANGED <<allVars, first, firstVars, kVars>>
    /\ UNCHANGED <<reduceArrays, edges, unresolvedConflicts, comb>>

(* getRow(): state 0 is the dummy, column 0 the chain of reductions.       *)
GetRow(q) ==
    [x \in 0 .. grammar.numSymbols |->
        IF q = 0 \/ (x = 0 /\ reduces[q] = {}) THEN 0
        ELSE IF x = 0 THEN ReduceCode(HeadReduction(q))
        ELSE IF x \in Terminals(grammar) THEN edges[q][x] ELSE goto[q][x]]

(* states.size(), which counts the dummy.                                  *)
MutNumStates == Len(items)
NumStates == Len(items) + 1

(* CombVector::fromSource(), with numSymbols columns: no row overlaps      *)
(* another, the last symbol, #START#, has no column.                       *)
Comb ==
    LET cols == grammar.numSymbols
        RowAt(pos) == pos \div cols
    IN  [base |-> [q \in 0 .. NumStates - 1 |-> q * cols],
         def  |-> [q \in 0 .. NumStates - 1 |-> 0],
         nextCheck |-> [pos \in 0 .. NumStates * cols - 1 |->
                          [next |-> GetRow(RowAt(pos))[pos % cols], check |-> RowAt(pos)]]]

InitCodeGen ==
    /\ stage = "comb"
    /\ comb' = Comb
    /\ stage' = "done"
    /\ UNCHANGED <<allVars, first, firstVars, kVars>>
    /\ UNCHANGED <<reduceArrays, edges, unresolvedConflicts, accepts, follows>>

TablesNext ==
    \/ Finalize \/ ComputeFirst \/ ComputeLALRSets \/ ComputeLALRkSets \/ ComputeFollowSets \/ InitCodeGen
TablesSpec == TablesInit /\ [][TablesNext]_everything /\ WF_everything(TablesNext)
-----------------------------------------------------------------------------
(* YYP_GOTO of the generated parser (skel.c:165-176).                      *)
Goto(q, x) ==
    LET At(p) == comb.nextCheck[comb.base[p] + x]
    IN  IF At(q).check = q THEN At(q).next ELSE At(comb.def[q]).next

(***************************************************************************)
(* The parser loop on an input, without recovery and attributes (it is     *)
(* modelled in full in SkelParser.tla): shift, reduce or fail, the last    *)
(* token being "$" for good.  A parse that has not ended after Fuel turns  *)
(* counts as one that fails.                                               *)
(***************************************************************************)
Token(c) == IF c.rest = <<>> THEN EofSymbol(grammar) ELSE Head(c.rest)

Turn(c) ==
    LET next == Goto(Last(c.stack), Token(c))
        below == SubSeq(c.stack, 1, Len(c.stack) - reduceArrays.length[next])
    IN  IF c.verdict # "" THEN c
        ELSE IF next = 0 THEN [c EXCEPT !.verdict = "error"]
        ELSE IF next \in DOMAIN items
        THEN [c EXCEPT !.stack = Append(@, next), !.rest = IF @ = <<>> THEN @ ELSE Tail(@)]
        ELSE IF next = reduceArrays.accept THEN [c EXCEPT !.verdict = "accept"]
        ELSE [c EXCEPT !.stack = Append(below, Goto(Last(below), reduceArrays.token[next]))]

Fuel == 30
Accepted(w) ==
    LET C[n \in 0 .. Fuel] ==
            IF n = 0 THEN [stack |-> <<1>>, rest |-> w, verdict |-> ""] ELSE Turn(C[n - 1])
    IN  C[Fuel].verdict = "accept"

(* The words the nonterminals derive, up to SentenceBound, by rounds.      *)
Tokens == Terminals(grammar) \ {1, EofSymbol(grammar)}
Inputs == UNION {[1 .. n -> Tokens] : n \in 0 .. SentenceBound}

WordsOf(L, syms) ==
    FoldLeft(LAMBDA W, x : {u \o v : u \in W, v \in IF x \in Terminals(grammar) THEN {<<x>>}
                                                   ELSE {d[2] : d \in {e \in L : e[1] = x}}}
                             \intersect Inputs,
             {<<>>}, syms)

Derivations(L) ==
    L \union UNION {{grammar.rules[r].nonterm} \X WordsOf(L, grammar.rules[r].syms) :
                      r \in RuleIds(grammar) \ {StartRule(grammar)}}

Derived == FoldLeft(LAMBDA L, n : Derivations(L), {}, [n \in 1 .. RoundBound |-> n])
Sentences(L) == {d[2] : d \in {e \in L : e[1] = grammar.rules[StartRule(grammar)].syms[1]}}

(* The entries getRow() writes (lr.cc:95), that of #START# included, and   *)
(* the buffer for them, "int row[numStates]" (combvect.cc:42).  At most    *)
(* one of them, which is never copied, has no place there: that is so only *)
(* if "error" is not used and every other symbol enters one state.         *)
Overrun == Cardinality(DOMAIN GetRow(0)) - NumStates
EnteredOn(x) == {q \in DOMAIN items : accessSym[q] = x}
ColumnsFit ==
    stage = "comb" =>
        /\ Overrun <= 1
        /\ Overrun = 1 =>
              /\ EnteredOn(1) = {}
              /\ \A x \in Symbols(grammar) \ {1, StartSymbol(grammar)} : Cardinality(EnteredOn(x)) = 1

(* Every variable in its range, and the columns of a row.                  *)
TablesTypeOK ==
    /\ LalrTypeOK
    /\ stage \in {"nullable", "first", "lalr", "lalrk", "follow", "comb", "done"}
    /\ first # <<>> => first \in [Nonterminals(grammar) -> StringSets(Terminals(grammar))]
    /\ Len(edges) = lookState - 1
    /\ \A q \in DOMAIN edges :
          edges[q] \in [Terminals(grammar) -> 0 .. ReduceCode(StartRule(grammar))]
    /\ itemsLeft \subseteq Items(grammar)
    /\ unresolvedConflicts \in Nat
    /\ ColumnsFit

(* The finished table accepts only sentences, and all of them unless the   *)
(* grammar has conflicts.                                                  *)
TableParsesLanguage ==
    stage = "done" =>
        LET derived == Derived
        IN  /\ Derivations(derived) = derived
            /\ \A w \in Inputs :
                  /\ Accepted(w) => w \in Sentences(derived)
                  /\ w \in Sentences(derived) => Accepted(w) \/ unresolvedConflicts > 0

(* The lexer is asked for the tokens the parser has an entry for           *)
(* (computeFollowSets); the state past "$" has no lookahead to go by.      *)
AcceptsAreEdges ==
    stage = "comb" => \A q \in DOMAIN items :
        \/ accepts[q] = {t \in Terminals(grammar) : edges[q][t] # 0}
        \/ reduces[q] = {StartRule(grammar)}

(***************************************************************************)
(* "k-lookahead past end of item" and "k-lookahead" of an edge (lr.h:32,   *)
(* 49).  Reference: what follows an item or an edge in LALR(2).            *)
(***************************************************************************)
Follow2 == Propagated2(Firsts!First2(grammar)).all
AfterItem(q, i, table) == {tr.la : tr \in {u \in table : u.st = q /\ u.item = i}}
AfterEdge(q, x, table) ==
    UNION {After2(tr, Firsts!First2(grammar)) :
             tr \in {u \in table : u.st = q /\ ~IsEnd(grammar, u.item) /\ NextSym(grammar, u.item) = x}}

ShiftEdges == {e \in (DOMAIN items) \X Symbols(grammar) : goto[e[1]][e[2]] # 0}

(* What the conflict resolver takes first tokens and second ones from      *)
(* never names a token that cannot come, where FIRST2 is right, unless     *)
(* lalrksub() used a remembered set that began with the strings of a       *)
(* caller (lalrk.cc:85, 117).                                              *)
Agrees(s, strings) == s.firstsym \subseteq FirstTokens(strings) /\ Strings(s) \subseteq strings

FirstIsRight ==
    UNION {{A} \X Strings(first[A]) : A \in Nonterminals(grammar) \ {StartSymbol(grammar)}}
        = {f \in Firsts!First2(grammar) : f[1] # StartSymbol(grammar)}

FollowsSound ==
    stage = "follow" =>
        \A table \in {Follow2} :
            /\ \A key \in ItemKeys : Agrees(itemFollows[key], AfterItem(key[1], key[2], table))
            /\ \A e \in ShiftEdges :
                  Agrees(edgeFollows[e[1]][e[2]], AfterEdge(e[1], e[2], table))

FollowsAreReal == stage = "follow" /\ FirstIsRight /\ ~misused => FollowsSound

(* And every token and every string that can follow is found (lalrk.cc).   *)
FollowsComplete ==
    stage = "follow" =>
        \A table \in {Follow2} : \A key \in ItemKeys :
            LET s == itemFollows[key]
                strings == AfterItem(key[1], key[2], table)
            IN  FirstTokens(strings) \subseteq s.firstsym /\ strings \subseteq Strings(s)

(* "Compute FIRSTk() of each nonterminal" (grammar2.cc:216), "LALR(1)      *)
(* lookahead sets" (lalr.cc:18), "k-lookahead past end of item" (lr.h:32): *)
(* all that is decided by looking ahead is decided by what can come, and   *)
(* by all of it.                                                           *)
LookaheadSetsAreExact ==
    stage = "follow" =>
        /\ Firsts!FirstComplete /\ Firsts!FirstSound
        /\ LookaheadsAreLALR1
        /\ FollowsSound /\ FollowsComplete

(* The generator ends.                                                     *)
TablesEnd == <>(stage = "done")
=============================================================================
