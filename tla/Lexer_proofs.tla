---------------------------- MODULE Lexer_proofs ----------------------------
(***************************************************************************)
(* The lexer generator as a whole: "This may arguably be impossible,       *)
(* however proving that.." (dfa2.cc:43), that the resolution of the        *)
(* conflicts finds the tokens each parser state wants, that its copies are *)
(* exact; and the minimization.                                            *)
(***************************************************************************)
EXTENDS Lexer, Dfa_proofs

(* What the row has for a parser state that wants one of the tokens.       *)
LEMMA EntryOfWanted ==
    ASSUME NEW syms \in SUBSET Nat, IsFiniteSet(syms), NEW s \in ParserStates, NEW t \in syms, t \in Wants(s)
    PROVE  IdentityRow(syms)[s] \in {t, Conflict}
  <1> DEFINE wanted == syms \intersect Wants(s)
  <1>1. t \in wanted /\ wanted # {}
    OBVIOUS
  <1>2. IdentityRow(syms)[s] =
            IF wanted = {} THEN DontCare
            ELSE IF Cardinality(wanted) = 1 THEN Least(wanted) ELSE Conflict
    BY DEF IdentityRow
  <1>3. IsFiniteSet(wanted)
    BY FS_Subset
  <1> HIDE DEF wanted
  <1>4. ASSUME Cardinality(wanted) = 1 PROVE Least(wanted) = t
    <2>1. wanted = {t}
      BY <1>1, <1>3, <1>4, FS_Singleton
    <2>2. t \in wanted /\ \A u \in wanted : t <= u
      BY <2>1
    <2> QED BY <2>1, <2>2 DEF Least
  <1> QED BY <1>1, <1>2, <1>4

(* A row has finitely many entries.                                        *)
LEMMA EntriesFinite ==
    ASSUME NEW row, IsFiniteSet(DOMAIN row)
    PROVE  IsFiniteSet({row[r] : r \in DOMAIN row} \ {DontCare})
  <1> DEFINE all == {row[r] : r \in DOMAIN row}
             f == [r \in DOMAIN row |-> row[r]]
  <1>1. f \in Surjection(DOMAIN row, all)
    BY DEF Surjection
  <1>2. IsFiniteSet(all)
    BY <1>1, FS_Surjection
  <1> QED BY <1>2, FS_Subset

(* A row with entries of its own for two tokens does not collapse.         *)
LEMMA CollapsesToConflict ==
    ASSUME NEW row, IsFiniteSet(DOMAIN row),
           NEW s \in DOMAIN row, NEW u \in DOMAIN row, row[s] # row[u] \/ row[s] = Conflict,
           row[s] # DontCare, row[u] # DontCare
    PROVE  CollapseRow(row) = -1
  <1> DEFINE entries == {row[r] : r \in DOMAIN row} \ {DontCare}
  <1>1. row[s] \in entries /\ row[u] \in entries
    OBVIOUS
  <1>2. IsFiniteSet(entries)
    BY EntriesFinite
  <1>3. CollapseRow(row) =
            IF entries = {} THEN DontCare
            ELSE IF Cardinality(entries) = 1 THEN CHOOSE e \in entries : TRUE ELSE -1
    BY DEF CollapseRow
  <1> HIDE DEF entries
  <1>4. ASSUME Cardinality(entries) = 1 PROVE (CHOOSE e \in entries : TRUE) = -1
    <2>1. entries = {row[s]} /\ row[s] = row[u]
      BY <1>1, <1>2, <1>4, FS_Singleton
    <2> QED BY <2>1 DEF Conflict
  <1> QED BY <1>1, <1>3, <1>4

(* The status of a state with several tokens, two of which are wanted.     *)
THEOREM IdentityNeverDecided ==
    ASSUME NEW x, IsFiniteSet(accepts[x]), accepts[x] \in SUBSET (Nat \ {0}),
           IsFiniteSet(ParserStates),
           NEW t \in accepts[x], NEW v \in accepts[x], t # v,
           NEW s \in ParserStates, t \in Wants(s),
           NEW u \in ParserStates, v \in Wants(u)
    PROVE  Status(x) = -1
  <1> DEFINE row == IdentityRow(accepts[x])
  <1>1. row[s] \in {t, Conflict} /\ row[u] \in {v, Conflict}
    BY EntryOfWanted
  <1>2. t # 0 /\ v # 0 /\ t # Conflict
    BY DEF Conflict
  <1>3. DOMAIN row = ParserStates
    BY DEF IdentityRow
  <1> HIDE DEF row
  <1>4. row[s] # DontCare /\ row[u] # DontCare
    BY <1>1, <1>2 DEF DontCare, Conflict
  <1>5. CollapseRow(row) = -1
    <2>1. CASE row[s] = Conflict
      BY <1>3, <1>4, <2>1, CollapsesToConflict
    <2>2. CASE row[s] # Conflict
      BY <1>1, <1>2, <1>3, <1>4, <2>2, CollapsesToConflict
    <2> QED BY <2>1, <2>2
  <1> QED BY <1>5 DEF Status, row

(* The row of a move has a "go on" for a parser state that wants a token   *)
(* to come, so the move is not deleted for all of them.                    *)
THEOREM MoveNeverDeleted ==
    ASSUME NEW x, NEW m, moves[x][m] # 0, IsFiniteSet(ParserStates),
           NEW t \in postAccepts[moves[x][m]], NEW s \in ParserStates, t \in Wants(s)
    PROVE  CollapseRow(EdgeRowOf(x, m)) # Accept
  <1> DEFINE row == EdgeRowOf(x, m)
             entries == {row[r] : r \in DOMAIN row} \ {DontCare}
  <1>1. s \in DOMAIN row /\ row[s] \in {Shift, Conflict}
    <2>1. row[s] = IF TokenIn(x, s) = -1 THEN Conflict
                   ELSE EdgeEntry(s, TokenIn(x, s), PostAcceptsOf(moves[x][m]), PostAcceptsOf(moves[1][m]))
      BY DEF EdgeRowOf
    <2>2. PostAcceptsOf(moves[x][m]) \intersect Wants(s) # {}
      BY DEF PostAcceptsOf
    <2>3. EdgeEntry(s, TokenIn(x, s), PostAcceptsOf(moves[x][m]), PostAcceptsOf(moves[1][m]))
              \in {Shift, Conflict}
      BY <2>2 DEF EdgeEntry
    <2> QED BY <2>1, <2>3 DEF EdgeRowOf
  <1>2. DOMAIN row = ParserStates
    BY DEF EdgeRowOf
  <1> HIDE DEF row
  <1>3. row[s] \in entries /\ row[s] # Accept
    BY <1>1 DEF DontCare, Shift, Accept, Conflict
  <1>4. IsFiniteSet(entries)
    BY <1>2, EntriesFinite
  <1>5. CollapseRow(row) =
            IF entries = {} THEN DontCare
            ELSE IF Cardinality(entries) = 1 THEN CHOOSE e \in entries : TRUE ELSE -1
    BY DEF CollapseRow
  <1> HIDE DEF entries
  <1>6. ASSUME Cardinality(entries) = 1 PROVE (CHOOSE e \in entries : TRUE) = row[s]
    BY <1>3, <1>4, <1>6, FS_Singleton
  <1>7. CollapseRow(row) # Accept
    <2>1. entries # {}
      BY <1>3
    <2>2. CASE Cardinality(entries) = 1
      <3>1. CollapseRow(row) = row[s]
        BY <1>5, <1>6, <2>1, <2>2
      <3> QED BY <1>3, <3>1
    <2>3. CASE Cardinality(entries) # 1
      <3>1. CollapseRow(row) = -1
        BY <1>5, <2>1, <2>3
      <3> QED BY <3>1 DEF Accept
    <2> QED BY <2>2, <2>3
  <1> QED BY <1>7 DEF row

(* If every token is wanted somewhere no token is dropped and no move      *)
(* deleted for good: the branches of checkConflicts for a conflict that is *)
(* decided for all parser states are not taken.                            *)
THEOREM NothingIsDecidedForAll ==
    ASSUME TableFacts, EveryTokenWanted
    PROVE  /\ CheckIdentities => accepts' = accepts
           /\ CheckEdges => moves' = moves
  <1>1. ASSUME CheckIdentities, NEW x \in States, Cardinality(accepts[x]) > 1
        PROVE  Status(x) = -1
    <2>1. accepts[x] \in SUBSET (Nat \ {0}) /\ accepts[x] \subseteq Tokens /\ IsFiniteSet(accepts[x])
      BY FS_Subset DEF TableFacts
    <2>2. PICK t \in accepts[x], v \in accepts[x] : t # v
      <3>1. accepts[x] # {}
        BY <1>1, FS_EmptySet
      <3>2. PICK t \in accepts[x] : TRUE
        BY <3>1
      <3>3. accepts[x] # {t}
        <4> SUFFICES ASSUME accepts[x] = {t} PROVE FALSE
          OBVIOUS
        <4>1. Cardinality(accepts[x]) = 1
          BY FS_Singleton
        <4> QED BY <1>1, <4>1
      <3> QED BY <3>2, <3>3
    <2>3. PICK s \in ParserStates, u \in ParserStates : t \in Wants(s) /\ v \in Wants(u)
      BY <2>1 DEF EveryTokenWanted
    <2>4. IsFiniteSet(ParserStates)
      BY DEF TableFacts
    <2> QED BY <2>1, <2>2, <2>3, <2>4, IdentityNeverDecided
  <1>2. ASSUME CheckIdentities PROVE accepts' = accepts
    <2> DEFINE several == {x \in States : Cardinality(accepts[x]) > 1}
    <2>1. \/ accepts' = accepts
          \/ accepts' = [x \in States |->
                IF x \in several /\ Status(x) >= 0 THEN {Status(x)} ELSE accepts[x]]
      BY <1>2 DEF CheckIdentities
    <2>2. \A x \in States : ~(x \in several /\ Status(x) >= 0)
      BY <1>1, <1>2
    <2>3. accepts = [x \in States |-> accepts[x]]
      BY DEF TableFacts
    <2> QED BY <2>1, <2>2, <2>3
  <1>3. ASSUME CheckEdges PROVE moves' = moves
    <2> DEFINE status(m) == CollapseRow(EdgeRowOf(at, m))
    <2>1. at \in DOMAIN moves /\ \A m \in Classes(at) : moves[at][m] \in {0} \union States
      BY <1>3 DEF CheckEdges, TableFacts
    <2>2. ASSUME NEW m \in Classes(at), moves[at][m] # 0 PROVE status(m) # Accept
      <3>1. moves[at][m] \in States
        BY <2>1, <2>2
      <3>2. PICK t \in postAccepts[moves[at][m]] : t \in Tokens
        BY <3>1 DEF TableFacts
      <3>3. PICK s \in ParserStates : t \in Wants(s)
        BY <3>2 DEF EveryTokenWanted
      <3> QED BY <2>2, <3>2, <3>3, MoveNeverDeleted DEF TableFacts
    <2> DEFINE checked == IF accepts[at] = {} THEN {} ELSE {m \in Classes(at) : moves[at][m] # 0}
    <2>3. moves' = [moves EXCEPT ![at] = [m \in Classes(at) |->
                    IF m \in checked /\ status(m) = Accept THEN 0 ELSE moves[at][m]]]
      BY <1>3 DEF CheckEdges
    <2> HIDE DEF status
    <2>4. moves[at] = [m \in Classes(at) |-> moves[at][m]]
      BY <2>1 DEF TableFacts, Classes
    <2>5. [m \in Classes(at) |-> IF m \in checked /\ status(m) = Accept THEN 0 ELSE moves[at][m]]
              = [m \in Classes(at) |-> moves[at][m]]
      BY <2>2
    <2>6. moves = [x \in DOMAIN moves |-> moves[x]]
      BY DEF TableFacts
    <2>7. moves' = [moves EXCEPT ![at] = moves[at]]
      BY <2>3, <2>4, <2>5
    <2> QED BY <2>6, <2>7
  <1> QED BY <1>2, <1>3

(* The same of every behaviour, given the facts.                           *)
THEOREM ConflictsDropNothing ==
    [][LexNext]_conflictVars /\ [](phase \in {"parser", "edges"} => TableFacts) => NothingDecidedForAll
  <1> DEFINE Kept == EveryTokenWanted =>
                        /\ phase = "parser" => accepts' = accepts
                        /\ phase = "edges" /\ startStates' = startStates => moves' = moves
  <1>1. (phase \in {"parser", "edges"} => TableFacts) /\ [LexNext]_conflictVars => [Kept]_conflictVars
    <2> SUFFICES ASSUME LexNext, EveryTokenWanted, TableFacts,
                        phase \in {"parser", "edges"}
                 PROVE  /\ phase = "parser" => accepts' = accepts
                        /\ phase = "edges" /\ startStates' = startStates => moves' = moves
      OBVIOUS
    <2>1. ~DfaNext
      BY DEF DfaNext, AddCharClass, NextCharMove, StartConstruction, ConstructMove, ConstructNext, ComputeAccepts,
             FindPredecessors
    <2>2. ASSUME CheckIdentities PROVE phase = "parser" /\ accepts' = accepts
      BY <2>2, NothingIsDecidedForAll DEF CheckIdentities
    <2>3. ASSUME CheckEdges PROVE phase = "edges" /\ moves' = moves
      BY <2>3, NothingIsDecidedForAll DEF CheckEdges
    <2>4. ASSUME CopyStartState PROVE phase = "edges" /\ accepts' = accepts /\ startStates' # startStates
      <3>1. phase = "edges" /\ accepts' = accepts
        BY <2>4 DEF CopyStartState, dfaVars
      <3>2. PICK q : startStates' = Append(startStates, q)
        BY <2>4 DEF CopyStartState
      <3> QED BY <3>1, <3>2, <2>4 DEF CopyStartState
    <2>5. ASSUME EndOfCopies PROVE phase = "edges" /\ moves' = moves
      BY <2>5 DEF EndOfCopies, predVars
    <2>6. ~BuildParser
      BY DEF BuildParser
    <2> QED BY <2>1, <2>2, <2>3, <2>4, <2>5, <2>6 DEF LexNext
  <1> QED BY <1>1, PTL DEF NothingDecidedForAll
-----------------------------------------------------------------------------
Later == {"edges", "classes", "tokens", "sweep", "pack", "done"}

(* The later steps leave the classes of characters, and so the invariant.  *)
LEMMA DfaInvLater ==
    ASSUME DfaInv, UNCHANGED <<input, equivs>>, phase # "characters", phase' \in Later
    PROVE  DfaInv'
<1>1. EquivInv'
  BY EquivInvEnd DEF DfaInv, Later
<1> QED
  BY <1>1 DEF DfaInv, Later

(* The invariant of the construction: the parser table is built.           *)
LEMMA DfaInvParser == DfaInv /\ BuildParser => DfaInv'
<1> SUFFICES ASSUME DfaInv, BuildParser PROVE DfaInv'
  OBVIOUS
<1>1. /\ phase = "predecessors" /\ predCalls = <<>> /\ phase' = "parser"
      /\ UNCHANGED <<moves, predStates, predCalls>>
      /\ UNCHANGED <<input, at, ch, nfa, equivs, oldGroups, nfaStates, accepts, postAccepts>>
  BY DEF BuildParser, predVars
<1>2. EquivInv /\ Built /\ PredInv /\ PredSound /\ PostFacts
  BY <1>1 DEF DfaInv, Built
<1>3. EquivInv'
  BY <1>1, <1>2, EquivInvEnd
<1>4. BuildInv' /\ States' = States /\ M' = M
  BY <1>1, <1>2, BuildInvSame DEF Built, BuildVars
<1>5. PredFacts
  BY <1>1, <1>2, PredFactsHold
<1>6. PredFacts'
  BY <1>1, <1>4, <1>5 DEF PredFacts
<1>7. PostFacts'
  BY <1>1, <1>2, <1>4 DEF PostFacts
<1>8. at' = Len(moves') + 1
  BY <1>1, <1>2 DEF Built
<1> QED
  BY <1>1, <1>3, <1>4, <1>6, <1>7, <1>8 DEF DfaInv

(* Every step of the lexer generator keeps the invariant of the            *)
(* construction.                                                           *)
LEMMA DfaInvStep == DfaInv /\ [Next]_vars => DfaInv'
<1> SUFFICES ASSUME DfaInv, [Next]_vars PROVE DfaInv'
  OBVIOUS
<1>1. CASE UNCHANGED vars
  <2>1. UNCHANGED <<predVars, dfaVars>>
    BY <1>1 DEF vars
  <2> QED BY <2>1, DfaInvSame
<1>2. CASE LexNext
  <2>1. CASE DfaNext
    BY <2>1, DfaInvNext
  <2>2. CASE BuildParser
    BY <2>2, DfaInvParser
  <2>3. CASE CheckIdentities
    <3>1. UNCHANGED <<input, equivs>> /\ phase = "parser" /\ phase' \in Later
      BY <2>3 DEF CheckIdentities, Later
    <3> QED BY <3>1, DfaInvLater
  <2>4. CASE CheckEdges
    <3>1. UNCHANGED <<input, equivs>> /\ phase = "edges" /\ phase' \in Later
      BY <2>4 DEF CheckEdges, Later
    <3> QED BY <3>1, DfaInvLater
  <2>5. CASE CopyStartState \/ EndOfCopies
    <3>1. UNCHANGED <<input, equivs>> /\ phase = "edges" /\ phase' \in Later
      BY <2>5 DEF CopyStartState, EndOfCopies, Later, dfaVars
    <3> QED BY <3>1, DfaInvLater
  <2> QED BY <1>2, <2>1, <2>2, <2>3, <2>4, <2>5 DEF LexNext
<1>3. CASE StartMinimize \/ ClassOfToken \/ ClassesTidy
  <2>1. UNCHANGED <<input, equivs>> /\ phase # "characters" /\ phase' \in Later
    BY <1>3 DEF StartMinimize, ClassOfToken, ClassesTidy, Later
  <2> QED BY <2>1, DfaInvLater
<1>4. CASE SweepMove \/ SweepClass \/ SweepAgain \/ Pack
  <2>1. UNCHANGED <<input, equivs>> /\ phase # "characters" /\ phase' \in Later
    BY <1>4 DEF SweepMove, SweepClass, SweepAgain, Pack, Later
  <2> QED BY <2>1, DfaInvLater
<1> QED
  BY <1>1, <1>2, <1>3, <1>4 DEF Next

(* The invariant of the construction holds in every behaviour.             *)
LEMMA DfaInvAlways == Spec => []DfaInv
<1>1. Init => DfaInv
  BY DfaInvInit DEF Init, LexInit
<1> QED
  BY <1>1, DfaInvStep, PTL DEF Spec

(* Whatever the automaton, when its moves have been looked through the     *)
(* classes of characters hold the invariant of EquivClassSet, and two      *)
(* characters are in one class exactly if no move tells them apart.        *)
THEOREM CharacterClassesAreCoarsest == Spec => []ClassesAreCoarsest
<1>1. DfaInv => ClassesAreCoarsest
  BY EquivInvCoarsest DEF DfaInv
<1> QED
  BY <1>1, DfaInvAlways, PTL

(* If the automata given describe the strings of their tokens, the table   *)
(* accepts after each string exactly the tokens whose expressions describe *)
(* it.                                                                     *)
THEOREM TableAcceptsLanguage == InputsDescribed => (Spec => []DfaAcceptsLanguage)
<1> SUFFICES ASSUME InputsDescribed PROVE Spec => []DfaAcceptsLanguage
  OBVIOUS
<1>1. ASSUME DfaInv, phase = "predecessors", NEW w \in Strings
      PROVE  LET x == After(1, w) IN Matching(w) = IF x = 0 THEN {} ELSE accepts[x]
  <2>1. EquivInv /\ Built /\ ClassesExact /\ Describes(input.nfa, input.lang)
    BY <1>1 DEF DfaInv, Built, EquivInv, InputsDescribed
  <2> QED BY <2>1, BuiltAcceptsLanguage
<1>2. DfaInv => DfaAcceptsLanguage
  BY <1>1 DEF DfaAcceptsLanguage
<1> QED
  BY <1>2, DfaInvAlways, PTL
-----------------------------------------------------------------------------
(* Least is the least number of a set.                                     *)
LEMMA LeastIs ==
    ASSUME NEW S \in SUBSET Nat, S # {}
    PROVE  Least(S) \in S /\ \A u \in S : Least(S) <= u
<1> SUFFICES \E t \in S : \A u \in S : t <= u
  BY DEF Least
<1>1. PICK n \in S : TRUE
  OBVIOUS
<1> SUFFICES ASSUME \A t \in S : \E u \in S : ~(t <= u) PROVE FALSE
  OBVIOUS
<1> DEFINE T == {i \in 0 .. n : \A j \in 0 .. i : j \notin S}
<1>2. n \in Nat /\ 0 \in 0 .. n
  BY <1>1
<1>3. 0 \notin S
  OBVIOUS
<1>4. 0 \in T
  BY <1>2, <1>3
<1>5. ASSUME NEW i \in 0 .. n, NEW j \in 0 .. n, i \in T, j = i + 1 PROVE j \in T
  <2>1. \A k \in 0 .. j : k \in 0 .. i \/ k = j
    BY <1>5
  <2>2. j \notin S
    <3>1. SUFFICES ASSUME j \in S PROVE FALSE
      OBVIOUS
    <3>2. PICK u \in S : ~(j <= u)
      BY <3>1
    <3>3. u \in 0 .. i
      BY <3>2, <1>5
    <3> QED BY <3>3, <1>5
  <2>3. \A k \in 0 .. j : k \notin S
    BY <2>1, <2>2, <1>5
  <2> QED BY <2>3
<1>6. \A i, j \in 0 .. n : i \in T /\ j = i + 1 => j \in T
  BY <1>5
<1>7. 0 .. n \subseteq T
  <2> HIDE DEF T
  <2> QED BY ONLY <1>2, <1>4, <1>6, UpTo
<1> QED
  BY <1>1, <1>2, <1>7

(* What a state accepts for a parser state: nothing but what was read, and *)
(* the token that is wanted.                                               *)
Serves(tok, T, s) ==
    /\ tok \in T \union {0}
    /\ T \intersect Wants(s) # {} => tok # 0
    /\ Cardinality(T \intersect Wants(s)) = 1 => tok \in T \intersect Wants(s)

(* What IdentityRow has for a parser state: a token it wants, none, or a   *)
(* conflict.                                                               *)
LEMMA RowIs ==
    ASSUME NEW T \in SUBSET (Nat \ {0}), IsFiniteSet(T), NEW s \in ParserStates
    PROVE  LET e == IdentityRow(T)[s]
               wanted == T \intersect Wants(s)
           IN  /\ wanted = {} => e = 0
               /\ wanted # {} => e # 0
               /\ e \in T \union {0, -1}
               /\ Cardinality(wanted) = 1 => e \in wanted
<1> DEFINE wanted == T \intersect Wants(s)
           e == IdentityRow(T)[s]
<1>1. e = IF wanted = {} THEN 0 ELSE IF Cardinality(wanted) = 1 THEN Least(wanted) ELSE -1
  BY DEF IdentityRow, DontCare, Conflict
<1>2. wanted # {} => Least(wanted) \in wanted
  <2>1. wanted \in SUBSET Nat
    OBVIOUS
  <2> HIDE DEF wanted
  <2> QED BY <2>1, LeastIs
<1>3. wanted \subseteq T
  OBVIOUS
<1>4. Cardinality(wanted) = 1 => wanted # {}
  BY FS_EmptySet
<1> HIDE DEF wanted, e
<1>n. 0 \notin T
  OBVIOUS
<1>5. /\ wanted = {} => e = 0
      /\ wanted # {} => e # 0
      /\ e \in T \union {0, -1}
      /\ Cardinality(wanted) = 1 => e \in wanted
  <2>1. CASE wanted = {}
    BY <2>1, <1>1, <1>4
  <2>2. CASE wanted # {} /\ Cardinality(wanted) = 1
    <3>1. e = Least(wanted) /\ e \in wanted
      BY <2>2, <1>1, <1>2
    <3>2. e \in T /\ e # 0
      BY <3>1, <1>3, <1>n
    <3> QED BY <3>1, <3>2, <2>2
  <2>3. CASE wanted # {} /\ Cardinality(wanted) # 1
    <3>1. e = -1
      BY <2>3, <1>1
    <3> QED BY <3>1, <2>3
  <2> QED BY <2>1, <2>2, <2>3
<1> QED
  BY <1>5 DEF wanted, e

(* What a state accepts in a parser state, by the table CheckIdentities    *)
(* makes, serves it.                                                       *)
LEMMA ServedBy ==
    ASSUME CheckIdentities, input.context, NEW x \in States, NEW T, T = accepts[x], T \in SUBSET (Nat \ {0}),
           IsFiniteSet(T), IsFiniteSet(ParserStates), NEW s \in ParserStates
    PROVE  Serves(AcceptFor(x, s)', T, s)
<1> DEFINE wanted == T \intersect Wants(s)
           row == IdentityRow(T)
           st == Status(x)
<1>1. /\ Cardinality(T) > 1 => st # 0
      /\ accept'[x] = DefaultAccept(x)
      /\ identity'[x] = IF Cardinality(T) > 1 /\ st < 0 THEN row ELSE <<>>
      /\ st = CollapseRow(row)
  BY DEF CheckIdentities, DontCare, Status
<1>2. AcceptFor(x, s)' = IF identity'[x] = <<>> \/ identity'[x][s] <= 0 THEN accept'[x] ELSE identity'[x][s]
  BY DEF AcceptFor, Identity, DontCare
<1>3. DefaultAccept(x) = IF T = {} THEN 0 ELSE IF Cardinality(T) > 1 /\ st >= 0 THEN st ELSE Least(T)
  BY DEF DefaultAccept
<1>4. T # {} => Least(T) \in T
  BY LeastIs
<1>t. \A t \in T : t \in Int /\ t > 0
  OBVIOUS
<1>c. Cardinality({}) = 0
  BY FS_EmptySet
<1>5. wanted \subseteq T /\ (Cardinality(wanted) = 1 => wanted # {}) /\ Cardinality(T) \in Nat
  BY <1>c, FS_CardinalityType
<1>6. \A r \in ParserStates : /\ T \intersect Wants(r) = {} => row[r] = 0
                              /\ T \intersect Wants(r) # {} => row[r] # 0
                              /\ row[r] \in T \union {0, -1}
                              /\ Cardinality(T \intersect Wants(r)) = 1 => row[r] \in T \intersect Wants(r)
  BY RowIs
<1>7. DOMAIN row = ParserStates
  BY DEF IdentityRow
<1> HIDE DEF wanted, row, st
<1>8. CASE T = {}
  <2>1. Cardinality(T) = 0
    BY <1>8, FS_EmptySet
  <2>2. AcceptFor(x, s)' = 0
    BY <2>1, <1>1, <1>2, <1>3, <1>8
  <2> QED BY <2>2, <1>5, <1>8 DEF Serves, wanted
<1>9. CASE T # {} /\ ~(Cardinality(T) > 1)
  <2>1. Cardinality(T) = 1
    BY <1>5, <1>9, FS_EmptySet
  <2>2. PICK t : T = {t}
    BY <2>1, FS_Singleton
  <2>3. AcceptFor(x, s)' = t
    BY <2>2, <1>1, <1>2, <1>3, <1>4, <1>9
  <2> QED BY <2>2, <2>3, <1>5 DEF Serves, wanted
<1>10. CASE Cardinality(T) > 1 /\ st < 0
  <2>a. st \in Int
    <3>0. \A r \in ParserStates : row[r] \in T \/ row[r] = 0 \/ row[r] = -1
      BY <1>6
    <3>1. \A e \in {row[r] : r \in DOMAIN row} : e \in Int
      BY <3>0, <1>7, <1>t
    <3>2. \A e \in {row[r] : r \in DOMAIN row} \ {0} : e \in Int
      BY <3>1
    <3> DEFINE entries == {row[r] : r \in DOMAIN row} \ {0}
    <3>3. st = IF entries = {} THEN 0 ELSE IF Cardinality(entries) = 1 THEN CHOOSE e \in entries : TRUE ELSE -1
      BY <1>1 DEF CollapseRow, DontCare
    <3>4. \A e \in entries : e \in Int
      BY <3>2
    <3> HIDE DEF entries
    <3> QED BY <3>3, <3>4
  <2>b. ~(st >= 0) /\ T # {}
    BY <2>a, <1>10, <1>c
  <2>1. T # {} /\ identity'[x] = row /\ accept'[x] = Least(T)
    BY <2>b, <1>1, <1>3, <1>10
  <2>2. row # <<>>
    BY <1>7
  <2>3. AcceptFor(x, s)' = IF row[s] <= 0 THEN Least(T) ELSE row[s]
    BY <2>1, <2>2, <1>2
  <2>4. CASE row[s] <= 0
    <3>1. AcceptFor(x, s)' \in T
      BY <2>1, <2>3, <2>4, <1>4
    <3>2. Cardinality(wanted) # 1
      BY <2>4, <1>6 DEF wanted
    <3> QED BY <3>1, <3>2 DEF Serves, wanted
  <2>5. CASE ~(row[s] <= 0)
    <3>1. AcceptFor(x, s)' = row[s] /\ row[s] \in T
      <4>1. row[s] \in T \/ row[s] = 0 \/ row[s] = -1
        BY <1>6
      <4> QED BY <2>3, <2>5, <4>1, <1>t
    <3> QED BY <3>1, <1>6 DEF Serves
  <2> QED BY <2>4, <2>5
<1>11. CASE Cardinality(T) > 1 /\ ~(st < 0)
  <2> DEFINE entries == {row[r] : r \in DOMAIN row} \ {0}
  <2>1. st = IF entries = {} THEN 0 ELSE IF Cardinality(entries) = 1 THEN CHOOSE e \in entries : TRUE ELSE -1
    BY <1>1 DEF CollapseRow, DontCare
  <2>2. IsFiniteSet(entries)
    BY <1>7, EntriesFinite DEF DontCare
  <2>3. st # 0
    BY <1>1, <1>11
  <2> HIDE DEF entries
  <2>4. entries # {} /\ Cardinality(entries) = 1 /\ st = CHOOSE e \in entries : TRUE
    BY <2>1, <2>3, <1>11
  <2>5. entries = {st}
    <3>1. st \in entries
      BY <2>4
    <3> QED BY <3>1, <2>2, <2>4, FS_Singleton
  <2>6. PICK r \in ParserStates : row[r] = st
    BY <2>5, <1>7 DEF entries
  <2>7. st \in T
    <3>1. st \in T \/ st = 0 \/ st = -1
      BY <2>6, <1>6
    <3> QED BY <3>1, <2>3, <1>11, <1>t
  <2>8. st >= 0 /\ T # {}
    BY <2>7
  <2>9. AcceptFor(x, s)' = st
    BY <2>8, <1>1, <1>2, <1>3, <1>11
  <2>10. wanted # {} => row[s] = st
    <3>1. wanted # {} => row[s] # 0
      BY <1>6 DEF wanted
    <3>2. row[s] # 0 => row[s] \in entries
      BY <1>7 DEF entries
    <3> QED BY <3>1, <3>2, <2>5
  <2>11. Cardinality(wanted) = 1 => st \in wanted
    BY <2>10, <1>5, <1>6 DEF wanted
  <2> QED BY <2>3, <2>7, <2>9, <2>11 DEF Serves, wanted
<1> QED
  BY <1>8, <1>9, <1>10, <1>11
-----------------------------------------------------------------------------
LexTyped ==
    /\ parser \in input.parsers
    /\ moves \in Seq([M -> 0 .. Len(moves)]) /\ Len(moves) >= Len(nfaStates)
    /\ \A x \in States, m \in M : moves[x][m] \in States \union {0}
    /\ accept \in Seq({0} \union Tokens) /\ Len(accept) = Len(moves)
    /\ startStates \in Seq(1 .. Len(moves)) /\ Len(startStates) <= Len(parser)
    /\ Base = States /\ Len(identity) = Len(nfaStates) /\ DOMAIN edgeRow = States
    /\ accepts \in [States -> SUBSET Tokens] /\ postAccepts \in [States -> SUBSET Tokens]
    /\ at \in Nat /\ (at \in Base => startStates = <<>>)

(* Where a move leads, and what is left of it when conflicts are resolved: *)
(* it goes where it went, or no parser state wants what was to come.       *)
Reaches(x, m, y) == nfaStates[y] = Move(nfa, nfaStates[x], m) /\ postAccepts[y] \subseteq postAccepts[x]
Unwanted(y, s) == postAccepts[y] \intersect Wants(s) = {}
MoveKept(x, m) ==
    \/ moves[x][m] # 0 /\ Reaches(x, m, moves[x][m])
    \/ moves[x][m] = 0 /\ Move(nfa, nfaStates[x], m) = {}
    \/ moves[x][m] = 0 /\ \E y \in States : Reaches(x, m, y) /\ \A s \in ParserStates : Unwanted(y, s)
EdgeFacts ==
    \A x \in States, m \in M :
        /\ MoveKept(x, m)
        /\ \A s \in ParserStates : Edge(x, m, s) = Accept /\ moves[x][m] # 0 => Unwanted(moves[x][m], s)
TokenFacts ==
    \A x \in States :
        /\ AcceptedBy(nfaStates[x]) \subseteq postAccepts[x]
        /\ \A s \in ParserStates :
            Serves(AcceptFor(x, s), AcceptedBy(nfaStates[x]), s) /\ Identity(x, s) \in Int

(* The copies made for a parser state.                                     *)
Copied(s, b, q) == IF q \in Changed(s) THEN b + Cardinality({y \in Changed(s) : y <= q}) ELSE q
CopyOf(s, b) ==
    /\ startStates[s] = Copied(s, b, 1)
    /\ \A q \in Changed(s) :
        /\ Copied(s, b, q) \in 1 .. Len(moves)
        /\ accept[Copied(s, b, q)] = AcceptFor(q, s)
        /\ \A m \in M : moves[Copied(s, b, q)][m] = IF MoveFor(q, m, s) = 0 THEN 0 ELSE Copied(s, b, moves[q][m])
Copies == \A s \in 1 .. Len(startStates) : \E b \in Nat : CopyOf(s, b)

EdgesInv == StatesTyped /\ LexTyped /\ PredFacts /\ EdgeFacts /\ TokenFacts /\ Copies
-----------------------------------------------------------------------------
(* The token all parser states agree on is one of the state's.             *)
LEMMA StatusIn ==
    ASSUME NEW x, NEW T, T = accepts[x], T \in SUBSET (Nat \ {0}), IsFiniteSet(T), IsFiniteSet(ParserStates)
    PROVE  Status(x) >= 0 /\ Status(x) # 0 => Status(x) \in T
<1> SUFFICES ASSUME Status(x) >= 0, Status(x) # 0 PROVE Status(x) \in T
  OBVIOUS
<1> DEFINE row == IdentityRow(T)
           entries == {row[r] : r \in DOMAIN row} \ {0}
           st == Status(x)
<1>1. st = IF entries = {} THEN 0 ELSE IF Cardinality(entries) = 1 THEN CHOOSE e \in entries : TRUE ELSE -1
  BY DEF Status, CollapseRow, DontCare
<1>2. \A r \in DOMAIN row : row[r] \in T \/ row[r] = 0 \/ row[r] = -1
  BY RowIs DEF IdentityRow
<1>3. \A e \in entries : e \in T \/ e = -1
  BY <1>2
<1> HIDE DEF entries
<1>4. st \in entries \/ st = -1
  BY <1>1
<1> QED
  BY <1>3, <1>4

(* What the states of the finished table accept.                           *)
LEMMA AcceptedTokens ==
    ASSUME EquivInv, Built
    PROVE  \A x \in States : /\ accepts[x] = AcceptedBy(nfaStates[x]) /\ accepts[x] \in SUBSET Tokens
                             /\ accepts[x] \in SUBSET (Nat \ {0}) /\ IsFiniteSet(accepts[x])
<1> SUFFICES ASSUME NEW x \in States
             PROVE  /\ accepts[x] = AcceptedBy(nfaStates[x]) /\ accepts[x] \in SUBSET Tokens
                    /\ accepts[x] \in SUBSET (Nat \ {0}) /\ IsFiniteSet(accepts[x])
  OBVIOUS
<1>1. AcceptsTyped /\ StatesAre /\ input \in Inputs
  BY BuiltIs DEF Built, BuildInv, EquivInv
<1>2. accepts[x] \in SUBSET Tokens
  <2> DEFINE L == SUBSET Tokens
  <2>1. accepts \in Seq(L) /\ x \in 1 .. Len(accepts)
    BY <1>1 DEF AcceptsTyped, StatesAre, Tokens
  <2> HIDE DEF L
  <2>2. accepts[x] \in L
    BY <2>1
  <2> QED BY <2>2 DEF L
<1>3. Tokens \subseteq Nat \ {0} /\ IsFiniteSet(Tokens)
  BY <1>1, InputsAssumption DEF Tokens
<1> QED
  BY <1>1, <1>2, <1>3, FS_Subset DEF AcceptsTyped

(* The parser states are numbered from 1.                                  *)
LEMMA ParserStatesFinite ==
    ASSUME input \in Inputs, parser \in input.parsers
    PROVE  IsFiniteSet(ParserStates) /\ ParserStates = 1 .. Len(parser) /\ Len(parser) \in Nat
<1> DEFINE S == ToSet(parser)
           n == Len(parser)
<1>1. parser \in Seq(S)
  BY InputsAssumption
<1> HIDE DEF S
<1>2. ParserStates = 1 .. Len(parser) /\ n \in Nat
  BY <1>1 DEF ParserStates
<1>3. 1 \in Int /\ n \in Int
  BY <1>2
<1> HIDE DEF n
<1>4. IsFiniteSet(1 .. n)
  BY <1>3, FS_Interval
<1> QED
  BY <1>2, <1>4 DEF n

(* The default token of a state is one of its tokens, or none.             *)
LEMMA DefaultAcceptIn ==
    ASSUME CheckIdentities, NEW x \in States, accepts[x] \in SUBSET (Nat \ {0}), IsFiniteSet(accepts[x]),
           IsFiniteSet(ParserStates)
    PROVE  DefaultAccept(x) \in accepts[x] \union {0}
<1>1. input.context /\ Cardinality(accepts[x]) > 1 => Status(x) # 0
  BY DEF CheckIdentities, DontCare
<1>2. Status(x) >= 0 /\ Status(x) # 0 => Status(x) \in accepts[x]
  BY StatusIn
<1>3. accepts[x] # {} => Least(accepts[x]) \in accepts[x]
  BY LeastIs
<1> QED
  BY <1>1, <1>2, <1>3 DEF DefaultAccept

(* The invariant of the conflicts: CheckIdentities starts it.              *)
LEMMA EdgesStart ==
    ASSUME EquivInv, Built, PostFacts, PredFacts, parser \in input.parsers, startStates = <<>>,
           CheckIdentities, input.context
    PROVE  EdgesInv'
<1> DEFINE N == Len(moves)
<1>1. /\ StatesAre /\ \A x \in States, m \in M : Constructed(x, m)
      /\ \A x \in States, m \in M : moves[x][m] \in States \union {0}
      /\ StatesTyped /\ MovesTyped /\ input \in Inputs
  BY BuiltIs DEF Built, BuildInv, EquivInv
<1>2. /\ accept' = [x \in States |-> DefaultAccept(x)]
      /\ identity' = [x \in States |->
                IF Cardinality(accepts[x]) > 1 /\ Status(x) < 0 THEN IdentityRow(accepts[x]) ELSE <<>>]
      /\ accepts' = [x \in States |->
                IF Cardinality(accepts[x]) > 1 /\ Status(x) >= 0 THEN {Status(x)} ELSE accepts[x]]
      /\ edgeRow' = [x \in States |-> [m \in Classes(x) |-> <<>>]]
      /\ at' = 1
      /\ UNCHANGED <<moves, predStates, predCalls, input, ch, nfa, equivs, oldGroups, nfaStates, postAccepts,
                     parser, startStates>>
      /\ \A x \in States : Cardinality(accepts[x]) > 1 => Status(x) # 0
  BY DEF CheckIdentities, predVars, DontCare
<1>3. /\ States' = States /\ M' = M /\ NfaNumbers' = NfaNumbers /\ Tokens' = Tokens /\ ParserStates' = ParserStates
      /\ \A s : Wants(s)' = Wants(s)
  BY <1>2 DEF States, M, NumEquivs, NfaNumbers, Tokens, ParserStates, Wants, Space
<1>4. IsFiniteSet(ParserStates) /\ ParserStates = 1 .. Len(parser) /\ Len(parser) \in Nat
  BY <1>1, ParserStatesFinite
<1>5. \A x \in States : /\ accepts[x] = AcceptedBy(nfaStates[x]) /\ accepts[x] \in SUBSET Tokens
                        /\ accepts[x] \in SUBSET (Nat \ {0}) /\ IsFiniteSet(accepts[x])
  BY AcceptedTokens
<1>6. N \in Nat /\ N > 0 /\ States = 1 .. N /\ Len(nfaStates) = N
  BY <1>1 DEF StatesAre
<1>7. StatesTyped'
  BY <1>1, <1>2, <1>3 DEF StatesTyped
<1>8. PredFacts'
  BY <1>2, <1>3 DEF PredFacts
<1>9. LexTyped'
  <2>1. accept' \in Seq({0} \union Tokens) /\ Len(accept') = N
    <3> DEFINE L == {0} \union Tokens
    <3>1. \A x \in 1 .. N : DefaultAccept(x) \in L
      BY <1>4, <1>5, <1>6, DefaultAcceptIn
    <3>2. accept' = [x \in 1 .. N |-> DefaultAccept(x)]
      BY <1>2, <1>6
    <3> HIDE DEF L, N
    <3>3. accept' \in [1 .. N -> L]
      BY <3>1, <3>2
    <3>4. accept' \in Seq(L) /\ Len(accept') = N
      BY <3>3, <1>6
    <3> QED BY <3>4 DEF L
  <2>2. DOMAIN identity' = States /\ Len(identity') = N /\ DOMAIN edgeRow' = States
    BY <1>2, <1>6
  <2>3. accepts' \in [States -> SUBSET Tokens]
    <3>1. \A x \in States : Cardinality(accepts[x]) > 1 /\ Status(x) >= 0 => Status(x) \in accepts[x]
      BY <1>2, <1>4, <1>5, StatusIn
    <3> QED BY <3>1, <1>2, <1>5
  <2>4. startStates' \in Seq(1 .. Len(moves')) /\ Len(startStates') = 0 /\ startStates' = <<>>
    BY <1>2
  <2>5. postAccepts' \in [States -> SUBSET Tokens]
    BY <1>2 DEF PostFacts, Tokens
  <2>6. moves' \in Seq([M -> 0 .. Len(moves')]) /\ Len(moves') >= Len(nfaStates')
    BY <1>1, <1>2, <1>6 DEF MovesTyped
  <2> QED BY <1>1, <1>2, <1>3, <1>4, <1>6, <2>1, <2>2, <2>3, <2>4, <2>5, <2>6 DEF LexTyped, Base
<1>10. EdgeFacts'
  <2> SUFFICES ASSUME NEW x \in States, NEW m \in M
               PROVE  MoveKept(x, m)' /\ \A s \in ParserStates' : Edge(x, m, s)' # Accept
    BY <1>3 DEF EdgeFacts
  <2>1. MoveKept(x, m)
    <3>1. 0 \notin States /\ Constructed(x, m)
      BY <1>1, <1>6
    <3>2. moves[x][m] # 0 => postAccepts[moves[x][m]] \subseteq postAccepts[x]
      BY DEF PostFacts
    <3> QED BY <3>1, <3>2 DEF MoveKept, Reaches, Constructed
  <2>2. MoveKept(x, m)'
    BY <2>1, <1>2, <1>3 DEF MoveKept, Reaches, Unwanted
  <2>3. edgeRow'[x][m] = <<>>
    BY <1>1, <1>2 DEF Classes, StatesAre
  <2>4. \A s \in ParserStates' : Edge(x, m, s)' # Accept
    BY <2>3 DEF Edge, Accept, DontCare
  <2> QED BY <2>2, <2>4
<1>11. TokenFacts'
  <2> SUFFICES ASSUME NEW x \in States
               PROVE  /\ AcceptedBy(nfaStates[x])' \subseteq postAccepts'[x]
                      /\ \A s \in ParserStates :
                            Serves(AcceptFor(x, s), AcceptedBy(nfaStates[x]), s)' /\ Identity(x, s)' \in Int
    BY <1>3 DEF TokenFacts
  <2>1. AcceptedBy(nfaStates[x])' = accepts[x]
    <3>1. AcceptedBy(nfaStates[x])' = AcceptedBy(nfaStates[x])
      BY <1>2 DEF AcceptedBy
    <3> QED BY <3>1, <1>5
  <2>2. accepts[x] \subseteq postAccepts'[x]
    BY <1>2 DEF PostFacts
  <2>3. ASSUME NEW s \in ParserStates PROVE Serves(AcceptFor(x, s), AcceptedBy(nfaStates[x]), s)'
    <3>1. Serves(AcceptFor(x, s)', accepts[x], s)
      BY <1>4, <1>5, ServedBy
    <3> QED BY <3>1, <2>1, <1>3 DEF Serves
  <2>4. ASSUME NEW s \in ParserStates PROVE Identity(x, s)' \in Int
    <3>1. IdentityRow(accepts[x])[s] \in Int
      <4>1. PICK T : T = accepts[x]
        OBVIOUS
      <4>2. T \in SUBSET (Nat \ {0}) /\ IsFiniteSet(T)
        BY <4>1, <1>5
      <4>3. IdentityRow(T)[s] \in T \union {0, -1}
        BY <4>2, RowIs
      <4> QED BY <4>1, <4>2, <4>3
    <3>2. identity'[x] = <<>> \/ identity'[x] = IdentityRow(accepts[x])
      BY <1>2
    <3> QED BY <3>1, <3>2 DEF Identity, DontCare
  <2> QED BY <2>1, <2>2, <2>3, <2>4
<1>12. Copies'
  BY <1>2 DEF Copies
<1> QED
  BY <1>7, <1>8, <1>9, <1>10, <1>11, <1>12 DEF EdgesInv
-----------------------------------------------------------------------------
(* An entry that says "accept", or nothing, is made for a parser state     *)
(* that wants none of the tokens to come.                                  *)
LEMMA EntryUnwanted ==
    ASSUME NEW x, NEW m, NEW s \in ParserStates, moves[x][m] # 0, EdgeRowOf(x, m)[s] \in {Accept, DontCare}
    PROVE  Unwanted(moves[x][m], s)
<1>1. EdgeRowOf(x, m)[s] = IF TokenIn(x, s) = -1 THEN Conflict
                           ELSE EdgeEntry(s, TokenIn(x, s), PostAcceptsOf(moves[x][m]), PostAcceptsOf(moves[1][m]))
  BY DEF EdgeRowOf
<1>2. PostAcceptsOf(moves[x][m]) = postAccepts[moves[x][m]]
  BY DEF PostAcceptsOf
<1>3. \A sym, alt, after : EdgeEntry(s, sym, alt, after) \in {Accept, DontCare} => alt \intersect Wants(s) = {}
  BY DEF EdgeEntry, Accept, DontCare, Shift, Conflict
<1>4. Conflict \notin {Accept, DontCare}
  BY DEF Accept, DontCare, Conflict
<1> QED
  BY <1>1, <1>2, <1>3, <1>4 DEF Unwanted

(* A move all parser states would delete leads to nothing any of them      *)
(* wants.                                                                  *)
LEMMA DeletedUnwanted ==
    ASSUME NEW x, NEW m, IsFiniteSet(ParserStates), moves[x][m] # 0, CollapseRow(EdgeRowOf(x, m)) = Accept,
           NEW s \in ParserStates
    PROVE  Unwanted(moves[x][m], s)
<1> DEFINE row == EdgeRowOf(x, m)
           entries == {row[r] : r \in DOMAIN row} \ {DontCare}
<1>1. CollapseRow(row) = IF entries = {} THEN DontCare
                         ELSE IF Cardinality(entries) = 1 THEN CHOOSE e \in entries : TRUE ELSE -1
  BY DEF CollapseRow
<1>2. DOMAIN row = ParserStates
  BY DEF EdgeRowOf
<1>3. IsFiniteSet(entries)
  BY <1>2, EntriesFinite
<1>4. row[s] \in entries \/ row[s] = DontCare
  BY <1>2
<1> HIDE DEF entries
<1>5. entries # {} /\ Cardinality(entries) = 1 /\ Accept = CHOOSE e \in entries : TRUE
  BY <1>1 DEF Accept, DontCare
<1>6. Accept \in entries
  BY <1>5
<1>7. entries = {Accept}
  BY <1>3, <1>5, <1>6, FS_Singleton
<1> QED
  BY <1>4, <1>7, EntryUnwanted

(* The invariant of the conflicts: CheckEdges keeps it.                    *)
LEMMA EdgesChecked ==
    ASSUME EquivInv, EdgesInv, CheckEdges
    PROVE  EdgesInv'
<1> DEFINE N == Len(moves)
           checked == IF accepts[at] = {} THEN {} ELSE {m \in Classes(at) : moves[at][m] # 0}
           status(m) == CollapseRow(EdgeRowOf(at, m))
<1>1. /\ at \in Base
      /\ edgeRow' = [edgeRow EXCEPT ![at] = [m \in Classes(at) |->
                IF m \in checked /\ status(m) = -1 THEN EdgeRowOf(at, m) ELSE <<>>]]
      /\ moves' = [moves EXCEPT ![at] = [m \in Classes(at) |->
                IF m \in checked /\ status(m) = Accept THEN 0 ELSE moves[at][m]]]
      /\ at' = at + 1
      /\ UNCHANGED <<predStates, predCalls, input, phase, ch, nfa, equivs, oldGroups, nfaStates, accepts,
                     postAccepts, parser, accept, identity, startStates>>
  BY DEF CheckEdges
<1>2. StatesTyped /\ LexTyped /\ PredFacts /\ EdgeFacts /\ TokenFacts /\ input \in Inputs
  BY DEF EdgesInv, EquivInv
<1>3. /\ States' = States /\ M' = M /\ NfaNumbers' = NfaNumbers /\ Tokens' = Tokens /\ ParserStates' = ParserStates
      /\ Base' = Base /\ \A s : Wants(s)' = Wants(s)
  BY <1>1 DEF States, M, NumEquivs, NfaNumbers, Tokens, ParserStates, Wants, Space, Base
<1>4. IsFiniteSet(ParserStates)
  BY <1>2, ParserStatesFinite DEF LexTyped
<1>5. startStates = <<>> /\ at \in States /\ at \in Nat
  BY <1>1, <1>2 DEF LexTyped
<1>6. N \in Nat /\ DOMAIN moves = 1 .. N /\ \A x \in 1 .. N : moves[x] \in [M -> 0 .. N]
  <2> DEFINE F == [M -> 0 .. N]
  <2>1. moves \in Seq(F)
    BY <1>2 DEF LexTyped
  <2> HIDE DEF F
  <2>2. Len(moves) \in Nat /\ DOMAIN moves = 1 .. Len(moves) /\ \A x \in 1 .. Len(moves) : moves[x] \in F
    BY <2>1
  <2> QED BY <2>2 DEF F
<1>7. States = 1 .. Len(nfaStates) /\ Len(nfaStates) \in Nat /\ N >= Len(nfaStates) /\ States \subseteq 1 .. N
      /\ 0 \notin States
  <2>1. Len(nfaStates) \in Nat /\ States = 1 .. Len(nfaStates)
    <3> DEFINE S == SUBSET NfaNumbers
    <3>1. nfaStates \in Seq(S)
      BY <1>2 DEF StatesTyped
    <3> HIDE DEF S
    <3> QED BY <3>1 DEF States
  <2>2. N >= Len(nfaStates)
    BY <1>2 DEF LexTyped
  <2> QED BY <2>1, <2>2, <1>6
<1>8. Classes(at) = M
  BY <1>5, <1>6, <1>7 DEF Classes
<1> HIDE DEF N, checked, status
<1>9. /\ DOMAIN moves' = 1 .. N /\ \A x \in 1 .. N : x # at => moves'[x] = moves[x]
      /\ moves'[at] = [m \in M |-> IF m \in checked /\ status(m) = Accept THEN 0 ELSE moves[at][m]]
  BY <1>1, <1>5, <1>6, <1>7, <1>8
<1>10. \A x \in 1 .. N : moves'[x] \in [M -> 0 .. N]
  <2> SUFFICES ASSUME NEW x \in 1 .. N PROVE moves'[x] \in [M -> 0 .. N]
    OBVIOUS
  <2>1. CASE x # at
    BY <2>1, <1>6, <1>9
  <2>2. CASE x = at
    <3>1. \A m \in M : moves[at][m] \in 0 .. N
      BY <2>2, <1>6
    <3> QED BY <3>1, <2>2, <1>6, <1>9
  <2> QED BY <2>1, <2>2
<1>11. moves' \in Seq([M -> 0 .. N]) /\ Len(moves') = N
  <2> DEFINE F == [M -> 0 .. N]
  <2>1. \A x \in 1 .. N : moves'[x] \in F
    BY <1>10
  <2>2. moves' = [x \in 1 .. N |-> moves'[x]]
    <3>1. moves' = [x \in DOMAIN moves |-> moves'[x]]
      BY <1>1
    <3> QED BY <3>1, <1>6
  <2> HIDE DEF F
  <2>3. moves' \in [1 .. N -> F]
    BY <2>1, <2>2
  <2>4. moves' \in Seq(F) /\ Len(moves') = N
    BY <2>3, <1>6
  <2> QED BY <2>4 DEF F
<1>12. \A x \in States, m \in M :
          \/ moves'[x][m] = moves[x][m]
          \/ x = at /\ moves[x][m] # 0 /\ moves'[x][m] = 0 /\ status(m) = Accept
  BY <1>7, <1>8, <1>9 DEF checked
<1>13. \A x \in States, m \in M : edgeRow'[x][m] =
          IF x # at THEN edgeRow[x][m] ELSE IF m \in checked /\ status(m) = -1 THEN EdgeRowOf(at, m) ELSE <<>>
  BY <1>1, <1>2, <1>5, <1>8 DEF LexTyped
<1>14. StatesTyped'
  BY <1>1, <1>2, <1>3 DEF StatesTyped
<1>15. PredFacts'
  BY <1>1, <1>2, <1>3, <1>12 DEF PredFacts
<1>16. LexTyped'
  <2>1. \A x \in States, m \in M : moves'[x][m] \in States \union {0}
    BY <1>2, <1>12 DEF LexTyped
  <2>2. moves' \in Seq([M -> 0 .. Len(moves')]) /\ Len(moves') = Len(moves)
    BY <1>11 DEF N
  <2>3. DOMAIN edgeRow' = States
    BY <1>1, <1>2 DEF LexTyped
  <2> QED BY <2>1, <2>2, <2>3, <1>1, <1>2, <1>3, <1>5 DEF LexTyped
<1>17. EdgeFacts'
  <2> SUFFICES ASSUME NEW x \in States, NEW m \in M
               PROVE  /\ MoveKept(x, m)'
                      /\ \A s \in ParserStates : Edge(x, m, s)' = Accept /\ moves'[x][m] # 0
                                                    => Unwanted(moves[x][m], s)'
    BY <1>3 DEF EdgeFacts
  <2>1. MoveKept(x, m) /\ \A s \in ParserStates : Edge(x, m, s) = Accept /\ moves[x][m] # 0 => Unwanted(moves[x][m], s)
    BY <1>2 DEF EdgeFacts
  <2>2. \A y : (Reaches(x, m, y)' <=> Reaches(x, m, y)) /\ \A s : Unwanted(y, s)' <=> Unwanted(y, s)
    BY <1>1, <1>3 DEF Reaches, Unwanted
  <2>3. MoveKept(x, m)'
    <3>1. CASE moves'[x][m] = moves[x][m]
      <4>1. Move(nfa', nfaStates'[x], m) = Move(nfa, nfaStates[x], m)
        BY <1>1
      <4> QED BY <3>1, <4>1, <2>1, <2>2, <1>1, <1>3 DEF MoveKept, Reaches, Unwanted
    <3>2. CASE x = at /\ moves[x][m] # 0 /\ moves'[x][m] = 0 /\ status(m) = Accept
      <4>1. \A s \in ParserStates : Unwanted(moves[x][m], s)
        BY <3>2, <1>4, DeletedUnwanted DEF status
      <4>2. Reaches(x, m, moves[x][m]) /\ moves[x][m] \in States
        BY <3>2, <2>1, <1>2 DEF MoveKept, LexTyped
      <4>3. PICK y \in States : y = moves[x][m]
        BY <4>2
      <4>4. Reaches(x, m, y)' /\ \A s \in ParserStates : Unwanted(y, s)'
        BY <4>1, <4>2, <4>3, <2>2
      <4> QED BY <4>3, <4>4, <3>2, <1>3 DEF MoveKept
    <3> QED BY <3>1, <3>2, <1>12
  <2>4. ASSUME NEW s \in ParserStates, Edge(x, m, s)' = Accept, moves'[x][m] # 0 PROVE Unwanted(moves[x][m], s)'
    <3>1. moves'[x][m] = moves[x][m]
      BY <2>4, <1>12
    <3>2. Unwanted(moves[x][m], s)
      <4>1. CASE x # at
        <5>1. Edge(x, m, s) = Accept
          BY <4>1, <2>4, <1>13 DEF Edge
        <5> QED BY <5>1, <3>1, <2>1, <2>4
      <4>2. CASE x = at
        <5>1. edgeRow'[x][m] = EdgeRowOf(x, m) /\ edgeRow'[x][m][s] = Accept
          BY <4>2, <2>4, <1>13 DEF Edge, Accept, DontCare
        <5> QED BY <5>1, <3>1, <2>4, EntryUnwanted
      <4> QED BY <4>1, <4>2
    <3> QED BY <3>1, <3>2, <1>1, <1>3 DEF Unwanted
  <2> QED BY <2>3, <2>4
<1>18. TokenFacts'
  <2>1. \A x, s : AcceptFor(x, s)' = AcceptFor(x, s) /\ Identity(x, s)' = Identity(x, s)
    BY <1>1 DEF AcceptFor, Identity
  <2>2. \A x : AcceptedBy(nfaStates[x])' = AcceptedBy(nfaStates[x])
    BY <1>1 DEF AcceptedBy
  <2>3. postAccepts' = postAccepts
    BY <1>1
  <2> QED BY <2>1, <2>2, <2>3, <1>2, <1>3 DEF TokenFacts, Serves
<1>19. Copies'
  BY <1>1, <1>5 DEF Copies
<1> QED
  BY <1>14, <1>15, <1>16, <1>17, <1>18, <1>19 DEF EdgesInv
-----------------------------------------------------------------------------
Rank(C, q) == Cardinality({y \in C : y <= q})
Ranked(C) ==
    /\ \A q \in C : Rank(C, q) \in 1 .. Cardinality(C)
    /\ \A q, r \in C : Rank(C, q) = Rank(C, r) => q = r
    /\ \A k \in 1 .. Cardinality(C) : \E q \in C : Rank(C, q) = k

(* The rank of a number in a finite set of numbers counts from 1 without a *)
(* gap.                                                                    *)
LEMMA RanksAre ==
    ASSUME NEW C \in SUBSET Nat, IsFiniteSet(C)
    PROVE  Ranked(C)
<1> DEFINE n == Cardinality(C)
           below(q) == {y \in C : y <= q}
           f == [q \in C |-> Rank(C, q)]
<1>1. n \in Nat
  BY FS_CardinalityType
<1>2. \A q \in C : /\ IsFiniteSet(below(q)) /\ Cardinality(below(q)) \in Nat
                   /\ Cardinality(below(q)) <= n /\ Cardinality(below(q)) # 0
  <2> SUFFICES ASSUME NEW q \in C
               PROVE  /\ IsFiniteSet(below(q)) /\ Cardinality(below(q)) \in Nat
                      /\ Cardinality(below(q)) <= n /\ Cardinality(below(q)) # 0
    OBVIOUS
  <2>1. below(q) \in SUBSET C /\ q \in below(q)
    OBVIOUS
  <2> HIDE DEF below
  <2>2. IsFiniteSet(below(q)) /\ Cardinality(below(q)) <= n
    BY <2>1, FS_Subset
  <2> QED BY <2>1, <2>2, FS_CardinalityType, FS_EmptySet
<1>3. \A q \in C : Rank(C, q) = Cardinality(below(q))
  BY DEF Rank
<1>4. ASSUME NEW q \in C, NEW r \in C, Rank(C, q) = Rank(C, r), q < r PROVE FALSE
  <2>1. below(q) \in SUBSET below(r) /\ r \in below(r) /\ r \notin below(q)
    <3>1. q \in Nat /\ r \in Nat /\ q < r /\ \A y \in C : y \in Nat
      BY <1>4
    <3>2. \A y \in C : y <= q => y <= r
      BY <3>1
    <3>3. ~(r <= q) /\ r <= r
      BY <3>1
    <3> QED BY ONLY <3>2, <3>3, r \in C DEF below
  <2>2. Cardinality(below(q)) = Cardinality(below(r)) /\ IsFiniteSet(below(r))
    BY <1>2, <1>3, <1>4
  <2> DEFINE A == below(q)
             B == below(r)
  <2>3. A \in SUBSET B /\ r \in B /\ r \notin A /\ Cardinality(A) = Cardinality(B) /\ IsFiniteSet(B)
    BY <2>1, <2>2
  <2> HIDE DEF A, B
  <2>4. A = B
    BY ONLY <2>3, FS_Subset
  <2> QED BY <2>3, <2>4
<1>5. \A q \in C : Rank(C, q) \in 1 .. n
  <2> HIDE DEF n, below
  <2> QED BY <1>1, <1>2, <1>3
<1>6. \A q, r \in C : Rank(C, q) = Rank(C, r) => q = r
  <2>1. \A q, r \in C : q < r \/ r < q \/ q = r
    OBVIOUS
  <2> QED BY <2>1, <1>4
<1>7. f \in Injection(C, 1 .. n)
  <2> HIDE DEF n
  <2> QED BY <1>5, <1>6 DEF Injection, IsInjective
<1>8. IsFiniteSet(1 .. n) /\ Cardinality(1 .. n) = n
  <2>1. 1 \in Int /\ n \in Int
    BY <1>1
  <2> HIDE DEF n
  <2>2. IsFiniteSet(1 .. n) /\ Cardinality(1 .. n) = IF 1 > n THEN 0 ELSE n - 1 + 1
    BY <2>1, FS_Interval
  <2> QED BY <2>2, <1>1
<1>9. f \in Surjection(C, 1 .. n)
  <2> DEFINE T == 1 .. n
  <2>1. f \in Injection(C, T) /\ IsFiniteSet(T) /\ Cardinality(C) = Cardinality(T)
    BY <1>7, <1>8
  <2> HIDE DEF f, T
  <2> QED BY ONLY <2>1, FS_Injection DEF T
<1>10. \A k \in 1 .. n : \E q \in C : Rank(C, q) = k
  BY <1>9 DEF Surjection
<1> QED
  BY <1>5, <1>6, <1>10 DEF Ranked

Joined(v, r, u, n, S) ==
    /\ v \in Seq(S) /\ Len(v) = Len(r) + n
    /\ \A i \in 1 .. Len(r) : v[i] = r[i]
    /\ \A i \in 1 .. n : \A j : j = Len(r) + i => v[j] = u[i]

(* A sequence with as many elements put at its end as a function has.      *)
LEMMA ConcatIs ==
    ASSUME NEW S, NEW r \in Seq(S), NEW n \in Nat, NEW u \in [1 .. n -> S]
    PROVE  Joined(r \o u, r, u, n, S)
BY DEF Joined

(* What the steps of a phase that makes copies keep.                       *)
BaseIs ==
    /\ Len(moves) \in Nat /\ DOMAIN moves = 1 .. Len(moves) /\ Len(nfaStates) \in Nat
    /\ States = 1 .. Len(nfaStates) /\ States \subseteq 1 .. Len(moves) /\ 0 \notin States /\ IsFiniteSet(States)
    /\ \A x \in 1 .. Len(moves) : moves[x] \in [M -> 0 .. Len(moves)] /\ Classes(x) = M
    /\ Base = States /\ 1 \in States

(* The ranges of the fields, in the form the proofs use.                   *)
LEMMA BaseHolds ==
    ASSUME StatesTyped, LexTyped
    PROVE  BaseIs
<1> DEFINE N == Len(moves)
<1>1. N \in Nat /\ DOMAIN moves = 1 .. N /\ \A x \in 1 .. N : moves[x] \in [M -> 0 .. N]
  <2> DEFINE F == [M -> 0 .. N]
  <2>1. moves \in Seq(F)
    BY DEF LexTyped
  <2> HIDE DEF F
  <2>2. Len(moves) \in Nat /\ DOMAIN moves = 1 .. Len(moves) /\ \A x \in 1 .. Len(moves) : moves[x] \in F
    BY <2>1
  <2> QED BY <2>2 DEF F
<1>2. Len(nfaStates) \in Nat /\ States = 1 .. Len(nfaStates) /\ Len(nfaStates) # 0
  <2> DEFINE S == SUBSET NfaNumbers
  <2>1. nfaStates \in Seq(S) /\ nfaStates # <<>>
    BY DEF StatesTyped
  <2> HIDE DEF S
  <2> QED BY <2>1 DEF States
<1>3. N >= Len(nfaStates)
  BY DEF LexTyped
<1>4. IsFiniteSet(States)
  <2> DEFINE n == Len(nfaStates)
  <2>1. 1 \in Int /\ n \in Int
    BY <1>2
  <2> HIDE DEF n
  <2> QED BY <2>1, <1>2, FS_Interval DEF n
<1> HIDE DEF N
<1>5. \A x \in 1 .. N : Classes(x) = M
  BY <1>1 DEF Classes
<1>6. States \subseteq 1 .. N /\ 0 \notin States /\ 1 \in States
  BY <1>1, <1>2, <1>3
<1> QED
  BY <1>1, <1>2, <1>4, <1>5, <1>6 DEF BaseIs, LexTyped, N

(* The states that are copied: all that lead to a difference, the start    *)
(* state with them.                                                        *)
LEMMA ChangedIs ==
    ASSUME StatesTyped, LexTyped, PredFacts, NEW s
    PROVE  /\ Changed(s) \in SUBSET States /\ Changed(s) \in SUBSET Nat /\ IsFiniteSet(Changed(s))
           /\ (Changed(s) # {} => 1 \in Changed(s))
           /\ \A x \in States, m \in M : moves[x][m] \in Changed(s) => x \in Changed(s)
           /\ \A x \in States \ Changed(s) : ~Differs(x, s)
<1>1. BaseIs
  BY BaseHolds
<1>2. Changed(s) = UNION {predStates[x] : x \in {y \in States : Differs(y, s)}}
  BY <1>1 DEF Changed, BaseIs
<1>3. Changed(s) \in SUBSET States
  BY <1>2 DEF PredFacts
<1>4. Changed(s) \in SUBSET Nat /\ IsFiniteSet(Changed(s))
  <2>1. States \subseteq Nat
    BY <1>1 DEF BaseIs
  <2> QED BY <2>1, <1>1, <1>3, FS_Subset DEF BaseIs
<1>5. Changed(s) # {} => 1 \in Changed(s)
  BY <1>2 DEF PredFacts
<1>6. ASSUME NEW x \in States, NEW m \in M, moves[x][m] \in Changed(s) PROVE x \in Changed(s)
  <2>1. PICK v \in States : Differs(v, s) /\ moves[x][m] \in predStates[v]
    BY <1>2, <1>6
  <2>2. moves[x][m] # 0
    BY <1>1, <1>3, <1>6 DEF BaseIs
  <2>3. predStates[moves[x][m]] \subseteq predStates[v]
    BY <2>1 DEF PredFacts
  <2>4. x \in predStates[moves[x][m]]
    BY <2>2 DEF PredFacts
  <2> QED BY <2>1, <2>3, <2>4, <1>2
<1>7. \A x \in States \ Changed(s) : ~Differs(x, s)
  BY <1>2 DEF PredFacts
<1> QED
  BY <1>3, <1>4, <1>5, <1>6, <1>7
-----------------------------------------------------------------------------
(* The copies of one parser state, as sequences put at the end.            *)
Order(s) == [k \in 1 .. Cardinality(Changed(s)) |-> CHOOSE x \in Changed(s) : CopyNumber(x, s) = Len(moves) + k]
CopyAccepts(s) == [k \in DOMAIN Order(s) |-> AcceptFor(Order(s)[k], s)]
CopyMoves(s) ==
    [k \in DOMAIN Order(s) |-> [m \in Classes(Order(s)[k]) |->
        IF MoveFor(Order(s)[k], m, s) = 0 THEN 0 ELSE Copied(s, Len(moves), moves[Order(s)[k]][m])]]

(* The copies are made in the order of the states.                         *)
LEMMA OrderIs ==
    ASSUME StatesTyped, LexTyped, PredFacts, NEW s
    PROVE  LET n == Cardinality(Changed(s))
           IN  /\ n \in Nat /\ DOMAIN Order(s) = 1 .. n
               /\ \A k \in 1 .. n : Order(s)[k] \in Changed(s)
               /\ \A q \in Changed(s) : /\ Rank(Changed(s), q) \in 1 .. n /\ Order(s)[Rank(Changed(s), q)] = q
                                        /\ Copied(s, Len(moves), q) = Len(moves) + Rank(Changed(s), q)
<1> DEFINE C == Changed(s)
           n == Cardinality(C)
           N == Len(moves)
<1>1. C \in SUBSET Nat /\ IsFiniteSet(C) /\ N \in Nat
  BY ChangedIs, BaseHolds DEF BaseIs
<1>2. n \in Nat /\ \A q \in C : CopyNumber(q, s) = N + Rank(C, q) /\ Copied(s, N, q) = N + Rank(C, q)
  BY <1>1, FS_CardinalityType DEF CopyNumber, Copied, Rank
<1>3. Order(s) = [k \in 1 .. n |-> CHOOSE x \in C : CopyNumber(x, s) = N + k]
  BY DEF Order
<1> HIDE DEF C, N
<1>4. Ranked(C)
  BY <1>1, RanksAre
<1> HIDE DEF n
<1>5. /\ \A q \in C : Rank(C, q) \in 1 .. n
      /\ \A q, r \in C : Rank(C, q) = Rank(C, r) => q = r
      /\ \A k \in 1 .. n : \E q \in C : Rank(C, q) = k
  BY <1>4 DEF Ranked, n
<1>6. ASSUME NEW k \in 1 .. n PROVE Order(s)[k] \in C /\ Rank(C, Order(s)[k]) = k
  <2>1. \E x \in C : CopyNumber(x, s) = N + k
    BY <1>2, <1>5, <1>6
  <2>2. Order(s)[k] = CHOOSE x \in C : CopyNumber(x, s) = N + k
    BY <1>3
  <2>3. Order(s)[k] \in C /\ CopyNumber(Order(s)[k], s) = N + k
    BY <2>1, <2>2
  <2> DEFINE x == Order(s)[k]
             r == Rank(C, x)
  <2>4. r \in 1 .. n /\ N + r = N + k
    BY <2>3, <1>2, <1>5
  <2> HIDE DEF r
  <2>5. r = k
    BY <2>4, <1>1, <1>2, <1>6
  <2> QED BY <2>3, <2>5 DEF r
<1>7. \A q \in C : Order(s)[Rank(C, q)] = q
  BY <1>5, <1>6
<1> QED
  BY <1>2, <1>3, <1>5, <1>6, <1>7 DEF C, n, N

(* The copies have tokens and moves in range.                              *)
LEMMA CopyIs ==
    ASSUME StatesTyped, LexTyped, PredFacts, TokenFacts, NEW s \in ParserStates, input \in Inputs
    PROVE  LET n == Cardinality(Changed(s))
           IN  /\ CopyAccepts(s) \in [1 .. n -> {0} \union Tokens]
               /\ CopyMoves(s) \in [1 .. n -> [M -> 0 .. Len(moves) + n]]
<1> DEFINE C == Changed(s)
           n == Cardinality(C)
           N == Len(moves)
<1>1. /\ n \in Nat /\ DOMAIN Order(s) = 1 .. n
      /\ \A k \in 1 .. n : Order(s)[k] \in C
      /\ \A q \in C : Rank(C, q) \in 1 .. n /\ Copied(s, N, q) = N + Rank(C, q)
  BY OrderIs
<1>2. C \in SUBSET States
  BY ChangedIs
<1>3. /\ N \in Nat /\ \A x \in States : Classes(x) = M /\ x \in 1 .. N
      /\ \A x \in States, m \in M : moves[x][m] \in States \union {0}
  BY BaseHolds DEF BaseIs, LexTyped
<1> HIDE DEF n, N, C
<1>4. ASSUME NEW x \in States PROVE AcceptFor(x, s) \in {0} \union Tokens
  <2>1. AcceptFor(x, s) \in AcceptedBy(nfaStates[x]) \union {0}
    BY <1>4 DEF TokenFacts, Serves
  <2>2. AcceptedBy(nfaStates[x]) \subseteq Tokens
    BY <1>4 DEF TokenFacts, LexTyped
  <2> QED BY <2>1, <2>2
<1>5. ASSUME NEW x \in States, NEW m \in M, MoveFor(x, m, s) # 0 PROVE Copied(s, N, moves[x][m]) \in 0 .. N + n
  <2>1. moves[x][m] \in States
    BY <1>3, <1>5 DEF MoveFor
  <2>2. CASE moves[x][m] \in C
    <3>1. Copied(s, N, moves[x][m]) = N + Rank(C, moves[x][m]) /\ Rank(C, moves[x][m]) \in 1 .. n
      BY <2>2, <1>1
    <3>2. N \in Nat /\ n \in Nat
      BY <1>1, <1>3
    <3> QED BY ONLY <3>1, <3>2
  <2>3. CASE moves[x][m] \notin C
    <3>1. Copied(s, N, moves[x][m]) = moves[x][m]
      BY <2>3 DEF Copied, C
    <3> QED BY <3>1, <2>1, <1>1, <1>3
  <2> QED BY <2>2, <2>3
<1>6. CopyAccepts(s) \in [1 .. n -> {0} \union Tokens]
  BY <1>1, <1>2, <1>4 DEF CopyAccepts
<1>7. CopyMoves(s) \in [1 .. n -> [M -> 0 .. N + n]]
  <2> SUFFICES ASSUME NEW k \in 1 .. n PROVE CopyMoves(s)[k] \in [M -> 0 .. N + n]
    BY <1>1 DEF CopyMoves
  <2>1. Order(s)[k] \in States /\ Classes(Order(s)[k]) = M
    BY <1>1, <1>2, <1>3
  <2>2. CopyMoves(s)[k] = [m \in M |-> IF MoveFor(Order(s)[k], m, s) = 0 THEN 0 ELSE Copied(s, N, moves[Order(s)[k]][m])]
    BY <2>1, <1>1 DEF CopyMoves, N
  <2>3. 0 \in 0 .. N + n
    BY <1>1, <1>3
  <2> QED BY <2>1, <2>2, <2>3, <1>5
<1> QED
  BY <1>6, <1>7 DEF n, N, C

(* CopyStartState puts the copies at the end of the table.                 *)
LEMMA CopyStep ==
    ASSUME CopyStartState, NEW s, s = Len(startStates) + 1
    PROVE  /\ startStates' = Append(startStates, IF Changed(s) = {} THEN 1 ELSE Len(moves) + 1)
           /\ accept' = accept \o CopyAccepts(s)
           /\ moves' = moves \o CopyMoves(s)
           /\ UNCHANGED <<predStates, predCalls, parser, identity, edgeRow>>
           /\ UNCHANGED <<input, phase, at, ch, nfa, equivs, oldGroups, nfaStates, accepts, postAccepts>>
           /\ at > Len(identity) /\ Len(startStates) < Len(parser)
<1> DEFINE z == Len(startStates) + 1
           map(x) == IF x \in Changed(z) THEN CopyNumber(x, z) ELSE x
           order == [k \in 1 .. Cardinality(Changed(z)) |->
                        CHOOSE x \in Changed(z) : CopyNumber(x, z) = Len(moves) + k]
           rows == [k \in DOMAIN order |-> [m \in Classes(order[k]) |->
                        IF MoveFor(order[k], m, z) = 0 THEN 0 ELSE map(moves[order[k]][m])]]
<1>1. \A x : map(x) = Copied(z, Len(moves), x)
  BY DEF Copied, CopyNumber
<1>2. moves' = moves \o rows
  BY DEF CopyStartState
<1>3. accept' = accept \o [k \in DOMAIN order |-> AcceptFor(order[k], z)]
  BY DEF CopyStartState
<1>4. startStates' = Append(startStates, IF Changed(z) = {} THEN 1 ELSE Len(moves) + 1)
  BY DEF CopyStartState
<1>5. order = Order(z)
  BY DEF Order
<1>6. rows = CopyMoves(z)
  <2> HIDE DEF map, order, z
  <2>1. rows = [k \in DOMAIN order |-> [m \in Classes(order[k]) |->
                        IF MoveFor(order[k], m, z) = 0 THEN 0 ELSE Copied(z, Len(moves), moves[order[k]][m])]]
    BY <1>1
  <2> QED BY <2>1, <1>5 DEF CopyMoves
<1>7. accept' = accept \o CopyAccepts(z)
  <2> HIDE DEF order, z
  <2> QED BY <1>3, <1>5 DEF CopyAccepts
<1>8. /\ UNCHANGED <<predStates, predCalls, parser, identity, edgeRow>>
      /\ UNCHANGED <<input, phase, at, ch, nfa, equivs, oldGroups, nfaStates, accepts, postAccepts>>
      /\ at > Len(identity) /\ Len(startStates) < Len(parser)
  BY DEF CopyStartState, dfaVars
<1>9. s = z
  OBVIOUS
<1> HIDE DEF z, rows
<1> QED
  BY ONLY <1>2, <1>4, <1>6, <1>7, <1>8, <1>9
-----------------------------------------------------------------------------
(* The states there were stay as they are.                                 *)
Appended(s, n) ==
    /\ moves' \in Seq([M -> 0 .. Len(moves) + n]) /\ Len(moves') = Len(moves) + n
    /\ \A i \in 1 .. Len(moves) : moves'[i] = moves[i] /\ accept'[i] = accept[i]
    /\ accept' \in Seq({0} \union Tokens) /\ Len(accept') = Len(moves) + n
    /\ \A k \in 1 .. n : \A j : j = Len(moves) + k => moves'[j] = CopyMoves(s)[k] /\ accept'[j] = CopyAccepts(s)[k]

(* The table after the copies are put at its end.                          *)
LEMMA AppendedIs ==
    ASSUME StatesTyped, LexTyped, PredFacts, TokenFacts, input \in Inputs, NEW s \in ParserStates,
           accept' = accept \o CopyAccepts(s), moves' = moves \o CopyMoves(s)
    PROVE  Appended(s, Cardinality(Changed(s)))
<1> DEFINE n == Cardinality(Changed(s))
           N == Len(moves)
           F == [M -> 0 .. N + n]
           L == {0} \union Tokens
           u == CopyMoves(s)
           v == CopyAccepts(s)
<1>1. n \in Nat /\ v \in [1 .. n -> L] /\ u \in [1 .. n -> F]
  BY OrderIs, CopyIs
<1>2. N \in Nat /\ DOMAIN moves = 1 .. N /\ \A x \in 1 .. N : moves[x] \in [M -> 0 .. N]
  BY BaseHolds DEF BaseIs
<1> HIDE DEF n, u, v
<1>3. moves \in Seq(F) /\ Len(moves) = N
  <2>1. \A x \in 1 .. N : moves[x] \in F
    <3>1. \A i \in 0 .. N : i \in 0 .. N + n
      BY <1>1, <1>2
    <3> HIDE DEF N
    <3> QED BY <3>1, <1>2
  <2>2. moves = [x \in 1 .. N |-> moves[x]]
    <3> DEFINE G == [M -> 0 .. Len(moves)]
    <3>1. moves \in Seq(G)
      BY DEF LexTyped
    <3> HIDE DEF G
    <3> QED BY <3>1
  <2> HIDE DEF F, N
  <2>3. moves \in [1 .. N -> F]
    BY <2>1, <2>2
  <2> QED BY <2>3, <1>2 DEF N
<1>4. accept \in Seq(L) /\ Len(accept) = N
  BY DEF LexTyped
<1> HIDE DEF F, L, N
<1>5. /\ moves' \in Seq(F) /\ Len(moves') = N + n
      /\ \A i \in 1 .. N : moves'[i] = moves[i]
      /\ \A k \in 1 .. n : \A j : j = N + k => moves'[j] = u[k]
  <2>1. moves' = moves \o u
    BY DEF u
  <2>2. moves \in Seq(F) /\ n \in Nat /\ u \in [1 .. n -> F] /\ Len(moves) = N
    BY <1>1, <1>3
  <2>3. Joined(moves \o u, moves, u, n, F)
    BY <2>2, ConcatIs
  <2> QED BY ONLY <2>1, <2>2, <2>3 DEF Joined
<1>6. /\ accept' \in Seq(L) /\ Len(accept') = N + n
      /\ \A i \in 1 .. N : accept'[i] = accept[i]
      /\ \A k \in 1 .. n : \A j : j = N + k => accept'[j] = v[k]
  <2>1. accept' = accept \o v
    BY DEF v
  <2>2. accept \in Seq(L) /\ n \in Nat /\ v \in [1 .. n -> L] /\ Len(accept) = N
    BY <1>1, <1>4
  <2>3. Joined(accept \o v, accept, v, n, L)
    BY <2>2, ConcatIs
  <2> QED BY ONLY <2>1, <2>2, <2>3 DEF Joined
<1> QED
  BY <1>3, <1>5, <1>6 DEF Appended, F, L, N, n, u, v

(* The invariant of the conflicts: CopyStartState keeps it.                *)
LEMMA EdgesCopied ==
    ASSUME EquivInv, EdgesInv, CopyStartState
    PROVE  EdgesInv'
<1> DEFINE N == Len(moves)
<1>1. StatesTyped /\ LexTyped /\ PredFacts /\ EdgeFacts /\ TokenFacts /\ Copies /\ input \in Inputs /\ BaseIs
  BY BaseHolds DEF EdgesInv, EquivInv
<1>2. PICK s : s = Len(startStates) + 1
  OBVIOUS
<1> DEFINE n == Cardinality(Changed(s))
<1>3. /\ startStates' = Append(startStates, IF Changed(s) = {} THEN 1 ELSE N + 1)
      /\ accept' = accept \o CopyAccepts(s)
      /\ moves' = moves \o CopyMoves(s)
      /\ UNCHANGED <<predStates, predCalls, parser, identity, edgeRow>>
      /\ UNCHANGED <<input, phase, at, ch, nfa, equivs, oldGroups, nfaStates, accepts, postAccepts>>
      /\ at > Len(identity) /\ Len(startStates) < Len(parser)
  BY <1>2, CopyStep
<1>4. /\ States' = States /\ M' = M /\ NfaNumbers' = NfaNumbers /\ Tokens' = Tokens /\ ParserStates' = ParserStates
      /\ Base' = Base /\ \A r : Wants(r)' = Wants(r)
  BY <1>3 DEF States, M, NumEquivs, NfaNumbers, Tokens, ParserStates, Wants, Space, Base
<1>5. ParserStates = 1 .. Len(parser) /\ Len(parser) \in Nat
  BY <1>1, ParserStatesFinite DEF LexTyped
<1>6. Len(startStates) \in Nat /\ startStates \in Seq(1 .. N) /\ \A r \in 1 .. Len(startStates) : startStates[r] \in 1 .. N
  <2> DEFINE S == 1 .. N
  <2>1. startStates \in Seq(S)
    BY <1>1 DEF LexTyped
  <2> HIDE DEF S
  <2>2. Len(startStates) \in Nat /\ \A r \in 1 .. Len(startStates) : startStates[r] \in S
    BY <2>1
  <2> QED BY <2>1, <2>2 DEF S
<1>7. s \in ParserStates
  BY <1>2, <1>3, <1>5, <1>6
<1>8. Appended(s, n) /\ n \in Nat /\ N \in Nat
  BY <1>1, <1>3, <1>7, AppendedIs, OrderIs DEF BaseIs
<1> HIDE DEF N, n
<1>9. /\ moves' \in Seq([M -> 0 .. N + n]) /\ Len(moves') = N + n
      /\ \A i \in 1 .. N : moves'[i] = moves[i] /\ accept'[i] = accept[i]
      /\ accept' \in Seq({0} \union Tokens) /\ Len(accept') = N + n
      /\ \A k \in 1 .. n : \A j : j = N + k => moves'[j] = CopyMoves(s)[k] /\ accept'[j] = CopyAccepts(s)[k]
  BY <1>8 DEF Appended, N
<1>10. /\ States \subseteq 1 .. N /\ Base = States /\ 1 \in States
       /\ \A x \in States : moves'[x] = moves[x] /\ accept'[x] = accept[x]
       /\ \A x \in States : Classes(x) = M /\ Classes(x)' = M
       /\ Len(nfaStates) \in Nat /\ N >= Len(nfaStates)
  <2>1. States \subseteq 1 .. N /\ Base = States /\ 1 \in States /\ \A x \in States : Classes(x) = M
        /\ Len(nfaStates) \in Nat
    BY <1>1 DEF BaseIs, N
  <2>2. \A x \in States : moves'[x] = moves[x] /\ accept'[x] = accept[x]
    BY <2>1, <1>9
  <2>3. \A x \in States : Classes(x)' = Classes(x)
    BY <2>2 DEF Classes
  <2> QED BY <2>1, <2>2, <2>3, <1>1 DEF LexTyped, N
<1>11. \A x \in States : \A r : /\ AcceptFor(x, r)' = AcceptFor(x, r) /\ (Differs(x, r)' <=> Differs(x, r))
                            /\ \A m \in M : MoveFor(x, m, r)' = MoveFor(x, m, r)
  <2>1. \A x, r, m : Identity(x, r)' = Identity(x, r) /\ Edge(x, m, r)' = Edge(x, m, r)
    BY <1>3 DEF Identity, Edge
  <2>2. \A x \in States : \A r : AcceptFor(x, r)' = AcceptFor(x, r)
    BY <2>1, <1>10 DEF AcceptFor
  <2>3. \A x \in States : \A r : Differs(x, r)' <=> Differs(x, r)
    BY <2>1, <1>10 DEF Differs
  <2>4. \A x \in States, m \in M : \A r : MoveFor(x, m, r)' = MoveFor(x, m, r)
    BY <2>1, <1>10 DEF MoveFor
  <2> QED BY <2>2, <2>3, <2>4
<1>12. \A r : Changed(r)' = Changed(r)
  <2>1. \A r : {y \in Base' : Differs(y, r)'} = {y \in Base : Differs(y, r)}
    BY <1>4, <1>10, <1>11
  <2>2. predStates' = predStates
    BY <1>3
  <2> QED BY <2>1, <2>2 DEF Changed
<1>13. \A r, b, q : Copied(r, b, q)' = Copied(r, b, q)
  BY <1>12 DEF Copied
<1>14. StatesTyped'
  BY <1>1, <1>3, <1>4 DEF StatesTyped
<1>15. PredFacts'
  <2>1. predStates' = predStates /\ States' = States /\ M' = M
        /\ \A x \in States, m \in M : moves'[x][m] = moves[x][m]
    BY <1>3, <1>4, <1>10
  <2>2. PredFacts
    BY <1>1
  <2> QED BY ONLY <2>1, <2>2 DEF PredFacts
<1>16. TokenFacts'
  <2>1. \A x : AcceptedBy(nfaStates[x])' = AcceptedBy(nfaStates[x])
    BY <1>3 DEF AcceptedBy
  <2>2. postAccepts' = postAccepts
    BY <1>3
  <2>3. \A x, r : Identity(x, r)' = Identity(x, r)
    BY <1>3 DEF Identity
  <2> QED BY <2>1, <2>2, <2>3, <1>1, <1>4, <1>11 DEF TokenFacts, Serves
<1>17. EdgeFacts'
  <2> SUFFICES ASSUME NEW x \in States, NEW m \in M
               PROVE  /\ MoveKept(x, m)'
                      /\ \A r \in ParserStates : Edge(x, m, r)' = Accept /\ moves'[x][m] # 0
                                                    => Unwanted(moves[x][m], r)'
    BY <1>4 DEF EdgeFacts
  <2>1. MoveKept(x, m) /\ \A r \in ParserStates : Edge(x, m, r) = Accept /\ moves[x][m] # 0 => Unwanted(moves[x][m], r)
    BY <1>1 DEF EdgeFacts
  <2>2. MoveKept(x, m)'
    BY <2>1, <1>3, <1>4, <1>10 DEF MoveKept, Reaches, Unwanted
  <2>3. \A r : Edge(x, m, r)' = Edge(x, m, r)
    BY <1>3 DEF Edge
  <2> QED BY <2>1, <2>2, <2>3, <1>3, <1>4, <1>10 DEF Unwanted
<1>18. 1 \in 1 .. N + n /\ (Changed(s) # {} => n > 0)
  <2>1. N > 0
    BY <1>8, <1>10
  <2>2. Changed(s) # {} => n # 0
    BY <1>1, ChangedIs, FS_EmptySet DEF n
  <2> QED BY <2>1, <2>2, <1>8
<1> DEFINE z == IF Changed(s) = {} THEN 1 ELSE N + 1
<1>19. z \in 1 .. N + n
  BY <1>8, <1>18
<1>20. /\ startStates' \in Seq(1 .. N + n) /\ Len(startStates') = s /\ startStates'[s] = z
       /\ \A r \in 1 .. Len(startStates) : startStates'[r] = startStates[r]
  <2> DEFINE S == 1 .. N + n
  <2>1. startStates' = Append(startStates, z) /\ z \in S
    BY <1>3, <1>19
  <2>2. startStates \in Seq(S)
    <3>1. \A r \in 1 .. Len(startStates) : startStates[r] \in S
      BY <1>6, <1>8
    <3> HIDE DEF S
    <3> QED BY <3>1, <1>6
  <2> HIDE DEF S, z
  <2>3. /\ startStates' \in Seq(S) /\ Len(startStates') = Len(startStates) + 1
        /\ \A r \in 1 .. Len(startStates) : startStates'[r] = startStates[r]
        /\ \A r : r = Len(startStates) + 1 => startStates'[r] = z
    BY ONLY <2>1, <2>2, AppendIs
  <2> QED BY <2>3, <1>2 DEF S
<1>21. LexTyped'
  <2>1. moves' \in Seq([M' -> 0 .. Len(moves')]) /\ Len(moves') >= Len(nfaStates')
    BY <1>3, <1>4, <1>8, <1>9, <1>10
  <2>2. startStates' \in Seq(1 .. Len(moves')) /\ Len(startStates') <= Len(parser')
    BY <1>2, <1>3, <1>5, <1>7, <1>9, <1>20
  <2>3. at' \in Nat /\ ~(at' \in Base')
    BY <1>1, <1>3, <1>4, <1>10 DEF LexTyped, States, BaseIs
  <2>4. \A x \in States, m \in M : moves'[x][m] \in States \union {0}
    BY <1>1, <1>10 DEF LexTyped
  <2>5. accept' \in Seq({0} \union Tokens) /\ Len(accept') = Len(moves')
    BY <1>9
  <2> QED BY <2>1, <2>2, <2>3, <2>4, <2>5, <1>1, <1>3, <1>4 DEF LexTyped
<1>22. ASSUME NEW r \in 1 .. Len(startStates), NEW b \in Nat, CopyOf(r, b) PROVE CopyOf(r, b)'
  <2>1. startStates'[r] = Copied(r, b, 1)'
    BY <1>13, <1>20, <1>22 DEF CopyOf
  <2>2. ASSUME NEW q \in Changed(r)
        PROVE  /\ Copied(r, b, q) \in 1 .. N + n
               /\ accept'[Copied(r, b, q)] = AcceptFor(q, r)'
               /\ \A m \in M : moves'[Copied(r, b, q)][m]
                                = IF MoveFor(q, m, r)' = 0 THEN 0 ELSE Copied(r, b, moves[q][m])
    <3>1. q \in States
      BY <1>1, ChangedIs
    <3>2. PICK j : j = Copied(r, b, q)
      OBVIOUS
    <3>3. /\ j \in 1 .. N /\ accept[j] = AcceptFor(q, r)
          /\ \A m \in M : moves[j][m] = IF MoveFor(q, m, r) = 0 THEN 0 ELSE Copied(r, b, moves[q][m])
      BY <1>22, <3>2 DEF CopyOf, N
    <3>4. moves'[j] = moves[j] /\ accept'[j] = accept[j] /\ j \in 1 .. N + n
      BY <3>3, <1>8, <1>9
    <3>5. AcceptFor(q, r)' = AcceptFor(q, r) /\ \A m \in M : MoveFor(q, m, r)' = MoveFor(q, m, r)
      BY <3>1, <1>11
    <3> QED BY ONLY <3>2, <3>3, <3>4, <3>5
  <2>3. \A q \in Changed(r), m \in M : moves'[q] = moves[q]
    BY <1>1, <1>10, ChangedIs
  <2> QED BY <2>1, <2>2, <2>3, <1>4, <1>9, <1>12, <1>13 DEF CopyOf
<1>23. ASSUME NEW b, b = N PROVE CopyOf(s, b)'
  <2>1. startStates'[s] = Copied(s, N, 1)
    <3>1. CASE Changed(s) = {}
      BY <3>1, <1>20 DEF Copied
    <3>2. CASE Changed(s) # {}
      <4>0. Changed(s) \in SUBSET States /\ (Changed(s) # {} => 1 \in Changed(s))
        BY <1>1, ChangedIs
      <4>1. 1 \in Changed(s) /\ Changed(s) \in SUBSET (1 .. N)
        BY <3>2, <4>0, <1>10
      <4>2. {y \in Changed(s) : y <= 1} = {1}
        BY <4>1
      <4>3. Cardinality({1}) = 1
        BY FS_Singleton
      <4> QED BY <3>2, <4>1, <4>2, <4>3, <1>20 DEF Copied
    <3> QED BY <3>1, <3>2
  <2>2. ASSUME NEW q \in Changed(s)
        PROVE  /\ Copied(s, N, q) \in 1 .. N + n
               /\ accept'[Copied(s, N, q)] = AcceptFor(q, s)
               /\ \A m \in M : moves'[Copied(s, N, q)][m]
                                = IF MoveFor(q, m, s) = 0 THEN 0 ELSE Copied(s, N, moves[q][m])
    <3>1. PICK k \in 1 .. n : Order(s)[k] = q /\ Copied(s, N, q) = N + k /\ DOMAIN Order(s) = 1 .. n
      BY <1>1, OrderIs DEF n, N
    <3>2. q \in States /\ Classes(q) = M
      BY <1>1, <1>10, ChangedIs
    <3>3. CopyAccepts(s)[k] = AcceptFor(q, s)
      BY <3>1 DEF CopyAccepts
    <3>4. CopyMoves(s)[k] = [m \in Classes(q) |-> IF MoveFor(q, m, s) = 0 THEN 0 ELSE Copied(s, N, moves[q][m])]
      BY <3>1 DEF CopyMoves, N
    <3>5. N + k \in 1 .. N + n
      BY <1>8
    <3> DEFINE j == N + k
    <3>6. moves'[j] = CopyMoves(s)[k] /\ accept'[j] = CopyAccepts(s)[k] /\ j \in 1 .. N + n /\ Copied(s, N, q) = j
      BY <3>1, <3>5, <1>9
    <3> HIDE DEF j
    <3> QED BY <3>2, <3>3, <3>4, <3>6
  <2>4. \A q \in Changed(s) : q \in States
    BY <1>1, ChangedIs
  <2>5. \A q \in Changed(s) : /\ \A m \in M : MoveFor(q, m, s)' = MoveFor(q, m, s)
                              /\ moves'[q] = moves[q] /\ AcceptFor(q, s)' = AcceptFor(q, s)
    <3>1. \A x \in States : moves'[x] = moves[x]
      BY <1>10
    <3>2. \A x \in States : AcceptFor(x, s)' = AcceptFor(x, s)
      BY <1>11
    <3>3. \A x \in States, m \in M : MoveFor(x, m, s)' = MoveFor(x, m, s)
      BY <1>11
    <3> QED BY ONLY <2>4, <3>1, <3>2, <3>3
  <2>6. Copied(s, b, 1)' = Copied(s, b, 1) /\ \A q : Copied(s, b, q)' = Copied(s, b, q)
    BY <1>13
  <2>7. Changed(s)' = Changed(s) /\ M' = M /\ Len(moves') = N + n /\ b = N
    BY <1>4, <1>9, <1>12, <1>23
  <2>8. startStates'[s] = Copied(s, b, 1)'
    BY ONLY <2>1, <2>6, <2>7
  <2>9. ASSUME NEW q \in Changed(s)
        PROVE  /\ Copied(s, b, q)' \in 1 .. N + n
               /\ accept'[Copied(s, b, q)'] = AcceptFor(q, s)'
               /\ \A m \in M : moves'[Copied(s, b, q)'][m]
                                = IF MoveFor(q, m, s)' = 0 THEN 0 ELSE Copied(s, b, moves[q][m])'
    <3>1. \A m \in M : MoveFor(q, m, s)' = MoveFor(q, m, s) /\ Copied(s, b, moves[q][m])' = Copied(s, b, moves[q][m])
      BY ONLY <2>9, <2>5, <2>6
    <3>2. Copied(s, b, q)' = Copied(s, N, q) /\ AcceptFor(q, s)' = AcceptFor(q, s)
      BY ONLY <2>9, <2>5, <2>6, <2>7
    <3>3. /\ Copied(s, N, q) \in 1 .. N + n
          /\ accept'[Copied(s, N, q)] = AcceptFor(q, s)
          /\ \A m \in M : moves'[Copied(s, N, q)][m] = IF MoveFor(q, m, s) = 0 THEN 0 ELSE Copied(s, N, moves[q][m])
      BY ONLY <2>9, <2>2
    <3> QED BY ONLY <2>7, <3>1, <3>2, <3>3
  <2> QED BY ONLY <2>7, <2>8, <2>9 DEF CopyOf
<1>24. Copies'
  <2> SUFFICES ASSUME NEW r \in 1 .. Len(startStates') PROVE \E b \in Nat : CopyOf(r, b)'
    BY DEF Copies
  <2>1. CASE r = s
    <3>1. PICK b \in Nat : b = N
      BY <1>8
    <3>2. CopyOf(s, b)'
      BY <3>1, <1>23
    <3> QED BY <2>1, <3>2
  <2>2. CASE r # s
    <3>1. r \in 1 .. Len(startStates)
      BY <2>2, <1>2, <1>6, <1>20
    <3>2. PICK b \in Nat : CopyOf(r, b)
      BY <3>1, <1>1 DEF Copies
    <3> QED BY <3>1, <3>2, <1>22
  <2> QED BY <2>1, <2>2
<1> QED
  BY <1>14, <1>15, <1>16, <1>17, <1>21, <1>24 DEF EdgesInv
-----------------------------------------------------------------------------
Early == {"characters", "subsets", "predecessors", "parser"}
EdgesPhase == phase = "edges" \/ (phase = "classes" /\ input.context)
LexInv ==
    /\ phase \in Early \union Later
    /\ phase \in Early => startStates = <<>> /\ identity = <<>> /\ accept = <<>>
    /\ phase = "parser" => parser \in input.parsers
    /\ EdgesPhase => EdgesInv
    /\ phase = "classes" /\ input.context => Len(startStates) = Len(parser)

EdgesVars == <<input, nfa, equivs, nfaStates, accepts, moves, at, postAccepts, predStates, parser, accept, identity,
               edgeRow, startStates>>

(* The invariant of the conflicts stays when nothing it reads changes.     *)
LEMMA EdgesSame ==
    ASSUME EdgesInv, UNCHANGED EdgesVars
    PROVE  EdgesInv'
<1>1. UNCHANGED <<input, nfa, equivs, nfaStates, accepts, moves, at, postAccepts, predStates, parser, accept,
                  identity, edgeRow, startStates>>
  BY DEF EdgesVars
<1>2. /\ States' = States /\ M' = M /\ NfaNumbers' = NfaNumbers /\ Tokens' = Tokens /\ ParserStates' = ParserStates
      /\ Base' = Base /\ \A r : Wants(r)' = Wants(r)
  BY <1>1 DEF States, M, NumEquivs, NfaNumbers, Tokens, ParserStates, Wants, Space, Base
<1>3. \A x, r : /\ AcceptFor(x, r)' = AcceptFor(x, r) /\ (Differs(x, r)' <=> Differs(x, r))
                /\ \A m : MoveFor(x, m, r)' = MoveFor(x, m, r) /\ Edge(x, m, r)' = Edge(x, m, r)
  BY <1>1 DEF AcceptFor, Differs, MoveFor, Identity, Edge, Classes
<1>4. \A r : Changed(r)' = Changed(r)
  <2>1. \A r : {y \in Base' : Differs(y, r)'} = {y \in Base : Differs(y, r)}
    BY <1>2, <1>3
  <2> QED BY <2>1, <1>1 DEF Changed
<1>5. \A r, b, q : Copied(r, b, q)' = Copied(r, b, q)
  BY <1>4 DEF Copied
<1>6. StatesTyped'
  BY <1>1, <1>2 DEF EdgesInv, StatesTyped
<1>7. LexTyped'
  BY <1>1, <1>2 DEF EdgesInv, LexTyped
<1>8. PredFacts'
  BY <1>1, <1>2 DEF EdgesInv, PredFacts
<1>9. EdgeFacts'
  BY <1>1, <1>2, <1>3 DEF EdgesInv, EdgeFacts, MoveKept, Reaches, Unwanted
<1>10. TokenFacts'
  <2>1. \A x : AcceptedBy(nfaStates[x])' = AcceptedBy(nfaStates[x])
    BY <1>1 DEF AcceptedBy
  <2>2. \A x, r : Identity(x, r)' = Identity(x, r)
    BY <1>1 DEF Identity
  <2> QED BY <2>1, <2>2, <1>1, <1>2, <1>3, ZenonT(30) DEF EdgesInv, TokenFacts, Serves
<1>11. Copies'
  <2>1. \A r, b : CopyOf(r, b) => CopyOf(r, b)'
    BY <1>1, <1>2, <1>3, <1>4, <1>5 DEF CopyOf
  <2> QED BY <2>1, <1>1 DEF EdgesInv, Copies
<1> QED
  BY <1>6, <1>7, <1>8, <1>9, <1>10, <1>11 DEF EdgesInv

(* The invariant of the phases: at the start.                              *)
LEMMA LexInvInit == Init => LexInv
BY DEF Init, LexInit, DfaInit, LexInv, Early, EdgesPhase

(* The invariant of the phases: the construction keeps it.                 *)
LEMMA LexInvDfa ==
    ASSUME LexInv, DfaNext, UNCHANGED lexVars
    PROVE  LexInv'
<1>1. phase \in {"characters", "subsets", "predecessors"} /\ phase' \in {"characters", "subsets", "predecessors"}
  BY DEF DfaNext, AddCharClass, NextCharMove, StartConstruction, ConstructMove, ConstructNext, ComputeAccepts,
         FindPredecessors, dfaVars
<1>2. UNCHANGED <<startStates, identity, accept>> /\ phase' \notin Later
  BY <1>1 DEF lexVars, Later
<1> QED
  BY <1>1, <1>2 DEF LexInv, Early, EdgesPhase

(* After the tables of the conflicts are used there is nothing to keep.    *)
LEMMA LexInvLate ==
    ASSUME phase' \in {"tokens", "sweep", "pack", "done"}
    PROVE  LexInv'
BY DEF LexInv, Early, Later, EdgesPhase

(* The invariant of the phases: every step keeps it.                       *)
LEMMA LexInvStep == DfaInv /\ LexInv /\ [Next]_vars => LexInv'
<1> SUFFICES ASSUME DfaInv, LexInv, [Next]_vars PROVE LexInv'
  OBVIOUS
<1>1. CASE UNCHANGED vars
  <2>1. UNCHANGED EdgesVars /\ UNCHANGED <<phase, input, parser, accept, identity, startStates>>
    BY <1>1 DEF vars, predVars, dfaVars, lexVars, EdgesVars
  <2>2. EdgesInv => EdgesInv'
    BY <2>1, EdgesSame
  <2> QED BY <2>1, <2>2 DEF LexInv, EdgesPhase
<1>2. CASE LexNext
  <2>1. CASE DfaNext /\ UNCHANGED lexVars
    BY <2>1, LexInvDfa
  <2>2. CASE BuildParser
    <3>1. phase = "predecessors" /\ phase' = "parser" /\ parser' \in input'.parsers
          /\ UNCHANGED <<startStates, identity, accept>>
      BY <2>2 DEF BuildParser
    <3> QED BY <3>1 DEF LexInv, Early, EdgesPhase
  <2>3. CASE CheckIdentities
    <3>1. phase = "parser" /\ UNCHANGED <<input, parser, startStates>>
          /\ phase' = IF input.context THEN "edges" ELSE "classes"
      BY <2>3 DEF CheckIdentities
    <3>2. EquivInv /\ Built /\ PostFacts /\ PredFacts /\ parser \in input.parsers /\ startStates = <<>>
      BY <3>1 DEF DfaInv, LexInv, Built, Early
    <3>3. input.context => EdgesInv'
      BY <3>2, <2>3, EdgesStart
    <3> QED BY <3>1, <3>3 DEF LexInv, EdgesPhase, Early, Later
  <2>4. CASE CheckEdges
    <3>1. phase = "edges" /\ phase' = "edges"
      BY <2>4 DEF CheckEdges
    <3>2. EquivInv /\ EdgesInv
      BY <3>1 DEF DfaInv, LexInv, EdgesPhase
    <3>3. EdgesInv'
      BY <3>2, <2>4, EdgesChecked
    <3> QED BY <3>1, <3>3 DEF LexInv, EdgesPhase, Early, Later
  <2>5. CASE CopyStartState
    <3>1. phase = "edges" /\ phase' = "edges"
      BY <2>5 DEF CopyStartState, dfaVars
    <3>2. EquivInv /\ EdgesInv
      BY <3>1 DEF DfaInv, LexInv, EdgesPhase
    <3>3. EdgesInv'
      BY <3>2, <2>5, EdgesCopied
    <3> QED BY <3>1, <3>3 DEF LexInv, EdgesPhase, Early, Later
  <2>6. CASE EndOfCopies
    <3>1. phase = "edges" /\ phase' = "classes" /\ UNCHANGED EdgesVars /\ Len(startStates) = Len(parser)
      BY <2>6 DEF EndOfCopies, EdgesVars, predVars, lexVars
    <3>2. EdgesInv'
      BY <3>1, EdgesSame DEF LexInv, EdgesPhase
    <3> QED BY <3>1, <3>2 DEF LexInv, EdgesPhase, Early, Later, EdgesVars
  <2> QED BY <1>2, <2>1, <2>2, <2>3, <2>4, <2>5, <2>6 DEF LexNext
<1>3. CASE StartMinimize \/ ClassOfToken \/ ClassesTidy \/ SweepMove \/ SweepClass \/ SweepAgain \/ Pack
  <2>1. phase' \in {"tokens", "sweep", "pack", "done"}
    BY <1>3 DEF StartMinimize, ClassOfToken, ClassesTidy, SweepMove, SweepClass, SweepAgain, Pack
  <2> QED BY <2>1, LexInvLate
<1> QED
  BY <1>1, <1>2, <1>3 DEF Next

(* Both invariants hold in every behaviour.                                *)
LEMMA LexInvAlways == Spec => [](DfaInv /\ LexInv)
<1>1. Init => DfaInv /\ LexInv
  BY DfaInvInit, LexInvInit DEF Init, LexInit
<1>2. DfaInv /\ LexInv /\ [Next]_vars => (DfaInv /\ LexInv)'
  BY DfaInvStep, LexInvStep
<1> QED
  BY <1>1, <1>2, PTL DEF Spec
-----------------------------------------------------------------------------
(* The automaton of a parser state as copyStartState would make it.        *)
Whole(s) == [p \in StatesAndChars |-> IF p[1] = 0 THEN 0 ELSE MoveFor(p[1], equivs.group[p[2]], s)]
SharedState(s, b, q) == IF q = 0 THEN 0 ELSE Copied(s, b, q)
Simulates(s, w, f, b) ==
    /\ b \in Nat /\ CopyOf(s, b)
    /\ f \in [0 .. Len(w) -> {0} \union States] /\ f[0] = 1
    /\ \A i, j \in 0 .. Len(w) : j = i + 1 =>
            f[j] = IF f[i] = 0 THEN 0 ELSE MoveFor(f[i], equivs.group[w[j]], s)
    /\ Run(Whole(s), 1, w) = f[Len(w)]
    /\ After(Start(s), w) = SharedState(s, b, f[Len(w)])

(* The run of the whole altered copy stays in the states there were before *)
(* the copies.                                                             *)
LEMMA WholeRuns ==
    ASSUME EquivInv, EdgesInv, NEW s \in ParserStates, NEW w \in Strings
    PROVE  \E f : /\ f \in [0 .. Len(w) -> {0} \union States] /\ f[0] = 1
                  /\ \A i, j \in 0 .. Len(w) : j = i + 1 =>
                        f[j] = IF f[i] = 0 THEN 0 ELSE MoveFor(f[i], equivs.group[w[j]], s)
                  /\ Run(Whole(s), 1, w) = f[Len(w)]
<1> DEFINE A == 0 .. Len(moves)
           n == Len(w)
<1>1. BaseIs /\ LexTyped
  BY BaseHolds DEF EdgesInv
<1>2. n \in Nat /\ \A i \in 1 .. n : w[i] \in Chars
  BY StringIs
<1>3. \A c \in Chars : equivs.group[c] \in M
  BY NumEquivsIs
<1>4. StatesAndChars = A \X Chars /\ 0 \in A /\ 1 \in A /\ States \subseteq A /\ 0 \notin States
  BY <1>1 DEF StatesAndChars, Chars, BaseIs
<1>5. \A x \in A, m \in M : x # 0 => MoveFor(x, m, s) \in A
  <2>1. \A x \in A : x # 0 => moves[x] \in [M -> A]
    BY <1>1 DEF BaseIs
  <2> HIDE DEF A
  <2> QED BY <2>1, <1>4 DEF MoveFor
<1> HIDE DEF A, n
<1>6. /\ Whole(s) \in [A \X Chars -> A]
      /\ \A x \in A, c \in Chars : Whole(s)[<<x, c>>] = IF x = 0 THEN 0 ELSE MoveFor(x, equivs.group[c], s)
  BY <1>3, <1>4, <1>5 DEF Whole
<1>7. PICK f : Trace(f, Whole(s), A, 1, w)
  <2> DEFINE g == Whole(s)
  <2>1. g \in [A \X Chars -> A] /\ 1 \in A /\ Len(w) \in Nat /\ \A i \in 1 .. Len(w) : w[i] \in Chars
    BY <1>2, <1>4, <1>6 DEF n
  <2> HIDE DEF g
  <2>2. \E f : Trace(f, g, A, 1, w)
    BY ONLY <2>1, RunIs
  <2> QED BY <2>2 DEF g
<1>8. /\ f \in [0 .. n -> A] /\ f[0] = 1 /\ Run(Whole(s), 1, w) = f[n]
      /\ \A i, j \in 0 .. n : j = i + 1 => f[j] = Whole(s)[<<f[i], w[j]>>]
  BY <1>7 DEF Trace, n
<1>9. \A i, j \in 0 .. n : j = i + 1 => w[j] \in Chars
  BY <1>2
<1>10. ASSUME NEW i \in 0 .. n, NEW j \in 0 .. n, j = i + 1
       PROVE  f[j] = IF f[i] = 0 THEN 0 ELSE MoveFor(f[i], equivs.group[w[j]], s)
  <2>1. f[i] \in A /\ w[j] \in Chars /\ f[j] = Whole(s)[<<f[i], w[j]>>]
    BY <1>8, <1>9, <1>10
  <2> QED BY ONLY <2>1, <1>6
<1> DEFINE T == {i \in 0 .. n : f[i] \in {0} \union States}
<1>11. 0 \in T
  <2>1. 0 \in 0 .. n
    BY <1>2
  <2>2. f[0] \in States
    BY <1>1, <1>8 DEF BaseIs
  <2> QED BY <2>1, <2>2
<1>12. \A i, j \in 0 .. n : i \in T /\ j = i + 1 => j \in T
  <2>1. \A x \in States, m \in M : moves[x][m] \in {0} \union States
    BY <1>1 DEF LexTyped
  <2>2. \A x \in States, m \in M : MoveFor(x, m, s) \in {0} \union States
    BY <2>1 DEF MoveFor
  <2> QED BY <2>2, <1>3, <1>9, <1>10, ZenonT(30)
<1>13. 0 .. n \subseteq T
  <2> HIDE DEF T
  <2> QED BY ONLY <1>2, <1>11, <1>12, UpTo
<1>14. f \in [0 .. n -> {0} \union States]
  BY <1>8, <1>13
<1> QED
  BY <1>8, <1>10, <1>14 DEF n

(* The copy of a state, or the state itself if it is shared, moves and     *)
(* accepts as the altered state does.                                      *)
LEMMA CopyMovesAs ==
    ASSUME StatesTyped, LexTyped, PredFacts, TokenFacts, NEW s \in ParserStates, NEW b \in Nat, CopyOf(s, b),
           NEW q \in States, NEW m \in M
    PROVE  /\ Copied(s, b, q) \in 1 .. Len(moves)
           /\ moves[Copied(s, b, q)][m] = SharedState(s, b, MoveFor(q, m, s))
           /\ accept[Copied(s, b, q)] = AcceptFor(q, s)
<1>1. BaseIs /\ Classes(q) = M
  BY BaseHolds DEF BaseIs
<1>2. CASE q \in Changed(s)
  <2>1. /\ Copied(s, b, q) \in 1 .. Len(moves)
        /\ accept[Copied(s, b, q)] = AcceptFor(q, s)
        /\ moves[Copied(s, b, q)][m] = IF MoveFor(q, m, s) = 0 THEN 0 ELSE Copied(s, b, moves[q][m])
    BY <1>2 DEF CopyOf
  <2>2. MoveFor(q, m, s) # 0 => MoveFor(q, m, s) = moves[q][m]
    BY DEF MoveFor
  <2> QED BY <2>1, <2>2 DEF SharedState
<1>3. CASE q \notin Changed(s)
  <2>1. ~Differs(q, s) /\ (moves[q][m] \in Changed(s) => q \in Changed(s))
    BY <1>3, ChangedIs
  <2>2. MoveFor(q, m, s) = moves[q][m]
    BY <2>1, <1>1 DEF Differs, MoveFor
  <2>3. Copied(s, b, q) = q /\ SharedState(s, b, moves[q][m]) = moves[q][m]
    BY <2>1, <1>3 DEF Copied, SharedState
  <2>4. Identity(q, s) \in Int
    BY DEF TokenFacts
  <2>5. accept[q] = AcceptFor(q, s)
    BY <2>1, <2>4 DEF Differs, AcceptFor
  <2> QED BY <2>2, <2>3, <2>5, <1>1 DEF BaseIs
<1> QED
  BY <1>2, <1>3
-----------------------------------------------------------------------------
(* The table of a parser state simulates the whole altered copy.           *)
LEMMA Simulated ==
    ASSUME EquivInv, EdgesInv, Len(startStates) = Len(parser), NEW s \in ParserStates, NEW w \in Strings
    PROVE  \E f, b : Simulates(s, w, f, b)
<1> DEFINE A == 0 .. Len(moves)
           n == Len(w)
<1>1. BaseIs /\ LexTyped /\ StatesTyped /\ PredFacts /\ TokenFacts /\ Copies /\ input \in Inputs
  BY BaseHolds DEF EdgesInv, EquivInv
<1>2. n \in Nat /\ \A i \in 1 .. n : w[i] \in Chars
  BY StringIs
<1>3. \A c \in Chars : equivs.group[c] \in M
  BY NumEquivsIs
<1>4. PICK f : /\ f \in [0 .. n -> {0} \union States] /\ f[0] = 1
               /\ \A i, j \in 0 .. n : j = i + 1 =>
                        f[j] = IF f[i] = 0 THEN 0 ELSE MoveFor(f[i], equivs.group[w[j]], s)
               /\ Run(Whole(s), 1, w) = f[n]
  BY WholeRuns
<1>5. ParserStates = 1 .. Len(parser) /\ Len(parser) \in Nat
  BY <1>1, ParserStatesFinite DEF LexTyped
<1>6. s \in 1 .. Len(startStates)
  BY <1>5
<1>7. PICK b \in Nat : CopyOf(s, b)
  BY <1>1, <1>6 DEF Copies
<1>8. /\ States \subseteq A /\ 0 \notin States /\ 1 \in States /\ 0 \in A
      /\ moves \in Seq([M -> 0 .. Len(moves)])
  BY <1>1 DEF BaseIs, LexTyped
<1>9. 0 \in Chars
  BY SizeAssumption DEF Chars
<1>10. \A q \in States : /\ Copied(s, b, q) \in 1 .. Len(moves)
                         /\ \A m \in M : moves[Copied(s, b, q)][m] = SharedState(s, b, MoveFor(q, m, s))
  BY <1>1, <1>3, <1>7, <1>9, CopyMovesAs
<1>11. Start(s) = Copied(s, b, 1)
  <2>1. startStates # <<>>
    BY <1>6
  <2> QED BY <2>1, <1>7 DEF Start, CopyOf
<1>12. Start(s) \in 0 .. Len(moves)
  BY <1>8, <1>10, <1>11
<1>13. /\ \E g : Trace(g, TableMove, 0 .. Len(moves), Start(s), w)
       /\ After(Start(s), w) = Run(TableMove, Start(s), w)
       /\ \A x \in 0 .. Len(moves), c \in Chars :
            TableMove[<<x, c>>] = IF x = 0 THEN 0 ELSE moves[x][equivs.group[c]]
  BY <1>8, <1>12, AfterIs
<1>14. PICK g : Trace(g, TableMove, 0 .. Len(moves), Start(s), w)
  BY <1>13
<1> HIDE DEF A, n
<1>15. /\ g \in [0 .. n -> A] /\ g[0] = Copied(s, b, 1) /\ After(Start(s), w) = g[n]
       /\ \A i, j \in 0 .. n : j = i + 1 => g[j] = TableMove[<<g[i], w[j]>>]
  BY <1>11, <1>13, <1>14 DEF Trace, n, A
<1> DEFINE T == {i \in 0 .. n : g[i] = SharedState(s, b, f[i])}
<1>16. 0 \in T
  BY <1>2, <1>4, <1>15 DEF SharedState
<1>17. ASSUME NEW i \in 0 .. n, NEW j \in 0 .. n, i \in T, j = i + 1 PROVE j \in T
  <2>1. w[j] \in Chars
    BY <1>2, <1>17
  <2>2. PICK m \in M : m = equivs.group[w[j]]
    BY <2>1, <1>3
  <2>3. f[j] = IF f[i] = 0 THEN 0 ELSE MoveFor(f[i], m, s)
    BY <2>2, <1>4, <1>17
  <2>4. g[j] = IF g[i] = 0 THEN 0 ELSE moves[g[i]][m]
    <3>1. g[i] \in A /\ g[j] = TableMove[<<g[i], w[j]>>]
      BY <1>15, <1>17
    <3> QED BY <3>1, <2>1, <2>2, <1>13 DEF A
  <2>5. g[i] = SharedState(s, b, f[i])
    BY <1>17
  <2>6. CASE f[i] = 0
    BY <2>3, <2>4, <2>5, <2>6 DEF SharedState
  <2>7. CASE f[i] # 0
    <3>1. f[i] \in States
      BY <2>7, <1>4
    <3>2. g[i] = Copied(s, b, f[i]) /\ g[i] # 0
      BY <3>1, <2>5, <2>7, <1>10 DEF SharedState
    <3>3. moves[g[i]][m] = SharedState(s, b, MoveFor(f[i], m, s))
      BY <3>1, <3>2, <1>10
    <3> QED BY <3>2, <3>3, <2>3, <2>4, <2>7
  <2> QED BY <2>6, <2>7
<1>18. \A i, j \in 0 .. n : i \in T /\ j = i + 1 => j \in T
  BY <1>17
<1>19. 0 .. n \subseteq T
  <2> HIDE DEF T
  <2> QED BY ONLY <1>2, <1>16, <1>18, UpTo
<1>20. After(Start(s), w) = SharedState(s, b, f[n])
  BY <1>2, <1>15, <1>19
<1> QED
  BY <1>4, <1>7, <1>20 DEF Simulates, n

(* What the table of a parser state accepts, by the run of the whole copy. *)
LEMMA SimulationAccepts ==
    ASSUME EquivInv, EdgesInv, NEW s \in ParserStates, NEW w \in Strings, NEW f, NEW b, Simulates(s, w, f, b)
    PROVE  LET whole == f[Len(w)]
               shared == After(Start(s), w)
           IN  /\ whole \in {0} \union States
               /\ (whole = 0) = (shared = 0)
               /\ whole # 0 => accept[shared] = AcceptFor(whole, s)
<1> DEFINE n == Len(w)
<1>1. BaseIs /\ LexTyped /\ StatesTyped /\ PredFacts /\ TokenFacts
  BY BaseHolds DEF EdgesInv
<1>2. b \in Nat /\ CopyOf(s, b) /\ f[n] \in {0} \union States /\ After(Start(s), w) = SharedState(s, b, f[n])
  BY StringIs DEF Simulates
<1>3. PICK m : m \in M
  BY NumEquivsIs, SizeAssumption DEF Chars
<1>4. \A q \in States : Copied(s, b, q) \in 1 .. Len(moves) /\ accept[Copied(s, b, q)] = AcceptFor(q, s)
  BY <1>1, <1>2, <1>3, CopyMovesAs
<1>5. 0 \notin States /\ 0 \notin 1 .. Len(moves)
  BY <1>1 DEF BaseIs
<1> QED
  BY <1>2, <1>4, <1>5 DEF SharedState

(* The automaton of a parser state with shared and copied states is the    *)
(* one a copy of all the states would be.                                  *)
THEOREM CopiesAreExact == Spec => []CopyIsExact
<1>1. ASSUME DfaInv, LexInv, phase = "classes", input.context, NEW s \in ParserStates, NEW w \in Strings
      PROVE  LET altered == [p \in StatesAndChars |->
                        IF p[1] = 0 THEN 0 ELSE MoveFor(p[1], equivs.group[p[2]], s)]
                 whole == Run(altered, 1, w)
                 shared == After(Start(s), w)
             IN  /\ (whole = 0) = (shared = 0)
                 /\ whole # 0 => accept[shared] = AcceptFor(whole, s)
  <2>1. EquivInv /\ EdgesInv /\ Len(startStates) = Len(parser)
    BY <1>1 DEF DfaInv, LexInv, EdgesPhase
  <2>2. PICK f, b : Simulates(s, w, f, b)
    BY <2>1, Simulated
  <2>3. f[Len(w)] = Run(Whole(s), 1, w)
    BY <2>2 DEF Simulates
  <2> QED BY <2>1, <2>2, <2>3, SimulationAccepts DEF Whole
<1>2. DfaInv /\ LexInv => CopyIsExact
  BY <1>1 DEF CopyIsExact
<1> QED
  BY <1>2, LexInvAlways, PTL
-----------------------------------------------------------------------------
(* The tokens of a string are those of the states the automaton can be in  *)
(* after it.                                                               *)
LEMMA MatchingIs ==
    ASSUME input \in Inputs, Describes(input.nfa, input.lang), nfa = OnClasses(input.nfa, equivs), NEW w \in Strings
    PROVE  \E R : ReadsAs(input.nfa, w, R) /\ Matching(w) = AcceptedBy(R[Len(w)])
<1> DEFINE a == input.nfa
<1>1. PICK R : ReadsAs(a, w, R) /\ \A t \in DOMAIN input.lang : w \in input.lang[t] <=> \E q \in R[Len(w)] : a[q].accept = t
  <2>1. PICK R : ReadsAs(a, w, R) /\ R[Len(w)] = Reads(a, w)
    BY ReadsIs
  <2> QED BY <2>1 DEF Describes
<1>2. R[Len(w)] \in SUBSET NfaNumbers
  BY <1>1, StringIs DEF ReadsAs, NfaNumbers
<1>3. AcceptedBy(R[Len(w)]) = {a[q].accept : q \in R[Len(w)]} \ {0} /\ AcceptedBy(R[Len(w)]) \in SUBSET DOMAIN input.lang
  BY <1>2, AcceptedIn
<1>4. \A t \in DOMAIN input.lang : t # 0
  BY InputsAssumption
<1>5. Matching(w) = AcceptedBy(R[Len(w)])
  BY <1>1, <1>3, <1>4 DEF Matching
<1> QED
  BY <1>1, <1>5

(* Where the copy for a parser state has no state, what has been read      *)
(* cannot become a token this parser state wants.                          *)
Lost(S, s) == S = {} \/ \E y \in States : nfaStates[y] = S /\ Unwanted(y, s)
FollowedBy(x, S, s) == IF x = 0 THEN Lost(S, s) ELSE x \in States /\ nfaStates[x] = S

(* A move of the altered copy follows the automaton, or has lost what the  *)
(* parser state does not want.                                             *)
LEMMA FollowsMove ==
    ASSUME LexTyped, EdgeFacts, 0 \notin States, NEW s \in ParserStates, NEW m \in M, NEW x, NEW S, S # {}, FollowedBy(x, S, s)
    PROVE  FollowedBy(IF x = 0 THEN 0 ELSE MoveFor(x, m, s), Move(nfa, S, m), s)
<1>1. CASE x = 0
  <2>1. PICK y \in States : nfaStates[y] = S /\ Unwanted(y, s)
    BY <1>1 DEF FollowedBy, Lost
  <2>2. MoveKept(y, m) /\ \A z : Reaches(y, m, z) => Unwanted(z, s)
    BY <2>1 DEF EdgeFacts, Reaches, Unwanted
  <2>3. moves[y][m] \in States \union {0}
    BY <2>1 DEF LexTyped
  <2>4. Lost(Move(nfa, S, m), s)
    BY <2>1, <2>2, <2>3 DEF MoveKept, Lost, Reaches
  <2> QED BY <2>4, <1>1 DEF FollowedBy
<1>2. CASE x # 0
  <2> DEFINE y == moves[x][m]
             D == Move(nfa, S, m)
  <2>1. x \in States /\ nfaStates[x] = S
    BY <1>2 DEF FollowedBy
  <2>2. MoveKept(x, m) /\ (Edge(x, m, s) = Accept /\ y # 0 => Unwanted(y, s)) /\ y \in States \union {0}
    BY <2>1 DEF EdgeFacts, LexTyped
  <2>3. y # 0 => y \in States /\ nfaStates[y] = D
    BY <2>1, <2>2 DEF MoveKept, Reaches
  <2>4. y = 0 => Lost(D, s)
    BY <2>1, <2>2 DEF MoveKept, Reaches, Lost
  <2>5. MoveFor(x, m, s) = IF Edge(x, m, s) = Accept THEN 0 ELSE y
    BY DEF MoveFor
  <2> HIDE DEF y, D
  <2>6. FollowedBy(MoveFor(x, m, s), D, s)
    BY <2>2, <2>3, <2>4, <2>5 DEF FollowedBy, Lost
  <2> QED BY <2>6, <1>2 DEF D
<1> QED
  BY <1>1, <1>2

(* So does its run on a string.                                            *)
LEMMA RunFollows ==
    ASSUME EquivInv, EdgesInv, ClassesExact, NEW s \in ParserStates, NEW w \in Strings, NEW f, NEW b, Simulates(s, w, f, b),
           NEW R, ReadsAs(input.nfa, w, R)
    PROVE  FollowedBy(f[Len(w)], R[Len(w)], s)
<1> DEFINE n == Len(w)
           a == input.nfa
<1>1. BaseIs /\ LexTyped /\ StatesTyped /\ EdgeFacts /\ input \in Inputs
  BY BaseHolds DEF EdgesInv, EquivInv
<1>2. n \in Nat /\ \A i \in 1 .. n : w[i] \in Chars
  BY StringIs
<1>3. \A c \in Chars : equivs.group[c] \in M
  BY NumEquivsIs
<1>4. 0 \notin States /\ 1 \in States
  BY <1>1 DEF BaseIs
<1> HIDE DEF n
<1>5. /\ f[0] = 1
      /\ \A i, j \in 0 .. n : j = i + 1 => f[j] = IF f[i] = 0 THEN 0 ELSE MoveFor(f[i], equivs.group[w[j]], s)
  BY DEF Simulates, n
<1>6. /\ R \in [0 .. n -> SUBSET NfaNumbers]
      /\ Closes(R[0], Eps(a), {1})
      /\ \A i, j \in 0 .. n : j = i + 1 => Closes(R[j], Eps(a), Dests(a, R[i], w[j]))
  BY DEF ReadsAs, NfaNumbers, n
<1> DEFINE T == {i \in 0 .. n : FollowedBy(f[i], R[i], s)}
<1>7. 0 \in T
  <2>1. Closes(nfaStates[1], Eps(a), {1})
    <3>1. {1} \in SUBSET DOMAIN a
      BY <1>1, NfaIs
    <3> QED BY <3>1, <1>1, EpsilonClosureIs DEF StatesTyped
  <2>2. R[0] = nfaStates[1]
    BY <2>1, <1>6, ClosesUnique
  <2> QED BY <2>2, <1>2, <1>4, <1>5 DEF FollowedBy
<1>8. ASSUME NEW i \in 0 .. n, NEW j \in 0 .. n, i \in T, j = i + 1 PROVE j \in T
  <2>1. w[j] \in Chars
    BY <1>2, <1>8
  <2>2. PICK m \in M : m = equivs.group[w[j]]
    BY <2>1, <1>3
  <2>3. f[j] = IF f[i] = 0 THEN 0 ELSE MoveFor(f[i], m, s)
    BY <2>2, <1>5, <1>8
  <2>4. Closes(R[j], Eps(a), Dests(a, R[i], w[j])) /\ R[i] \in SUBSET DOMAIN a
    BY <1>6, <1>8 DEF NfaNumbers
  <2>5. FollowedBy(f[i], R[i], s)
    BY <1>8
  <2>6. CASE R[i] = {}
    <3>1. f[i] = 0
      BY <2>5, <2>6, <1>1 DEF FollowedBy, StatesTyped
    <3>2. Dests(a, R[i], w[j]) = {}
      BY <2>6 DEF Dests
    <3>3. R[j] = {}
      BY <3>2, <2>4, ClosesEmpty
    <3> QED BY <3>1, <3>3, <2>3 DEF FollowedBy, Lost
  <2>7. CASE R[i] # {}
    <3>1. Closes(Move(nfa, R[i], m), Eps(a), Dests(a, R[i], w[j]))
      BY <2>1, <2>2, <2>4, <1>1, MoveIs DEF StatesTyped
    <3>2. R[j] = Move(nfa, R[i], m)
      BY <3>1, <2>4, ClosesUnique
    <3>3. FollowedBy(IF f[i] = 0 THEN 0 ELSE MoveFor(f[i], m, s), Move(nfa, R[i], m), s)
      BY <2>5, <2>7, <1>1, <1>4, FollowsMove
    <3> QED BY <3>2, <3>3, <2>3
  <2> QED BY <2>6, <2>7
<1>9. \A i, j \in 0 .. n : i \in T /\ j = i + 1 => j \in T
  BY <1>8
<1>10. 0 .. n \subseteq T
  <2> HIDE DEF T
  <2> QED BY ONLY <1>2, <1>7, <1>9, UpTo
<1>11. n \in T
  BY <1>2, <1>10
<1> QED
  BY <1>11 DEF n

(* In every parser state the automaton accepts a string the parser wants   *)
(* as one token as that token, gets to its end if it is several, and       *)
(* accepts nothing but what the expressions describe.                      *)
THEOREM WantedTokensAreFound == InputsDescribed => (Spec => []WantedTokenFound)
<1> SUFFICES ASSUME InputsDescribed PROVE Spec => []WantedTokenFound
  OBVIOUS
<1>1. ASSUME DfaInv, LexInv, phase = "classes", input.context, NEW s \in ParserStates, NEW w \in Strings
      PROVE  LET wanted == Matching(w) \intersect Wants(s)
             IN  /\ Cardinality(wanted) = 1 => TokenAfter(s, w) \in wanted
                 /\ wanted # {} => TokenAfter(s, w) # 0
                 /\ TokenAfter(s, w) \in Matching(w) \union {0}
  <2> DEFINE wanted == Matching(w) \intersect Wants(s)
  <2>1. EquivInv /\ EdgesInv /\ Len(startStates) = Len(parser) /\ ClassesExact /\ input \in Inputs
        /\ Describes(input.nfa, input.lang) /\ nfa = OnClasses(input.nfa, equivs)
    BY <1>1 DEF DfaInv, LexInv, EdgesPhase, EquivInv, InputsDescribed, EdgesInv, StatesTyped
  <2>2. PICK R : ReadsAs(input.nfa, w, R) /\ Matching(w) = AcceptedBy(R[Len(w)])
    BY <2>1, MatchingIs
  <2>3. PICK f, b : Simulates(s, w, f, b)
    BY <2>1, Simulated
  <2> DEFINE x == f[Len(w)]
             y == After(Start(s), w)
  <2>4. x \in {0} \union States /\ (x = 0) = (y = 0) /\ (x # 0 => accept[y] = AcceptFor(x, s))
    BY <2>1, <2>3, SimulationAccepts
  <2>5. FollowedBy(x, R[Len(w)], s)
    BY <2>1, <2>2, <2>3, RunFollows
  <2>6. TokenAfter(s, w) = IF x = 0 THEN 0 ELSE AcceptFor(x, s)
    BY <2>4 DEF TokenAfter
  <2> HIDE DEF x, y
  <2>7. TokenFacts
    BY <2>1 DEF EdgesInv
  <2>8. CASE x = 0
    <3>1. Lost(R[Len(w)], s)
      BY <2>5, <2>8 DEF FollowedBy
    <3>2. wanted = {}
      <4>1. CASE R[Len(w)] = {}
        BY <4>1, <2>2 DEF AcceptedBy
      <4>2. CASE R[Len(w)] # {}
        BY <4>2, <3>1, <2>2, <2>7 DEF Lost, TokenFacts, Unwanted
      <4> QED BY <4>1, <4>2
    <3>3. Cardinality({}) = 0
      BY FS_EmptySet
    <3> QED BY <3>2, <3>3, <2>6, <2>8
  <2>9. CASE x # 0
    <3>1. x \in States /\ nfaStates[x] = R[Len(w)]
      BY <2>5, <2>9 DEF FollowedBy
    <3>2. Serves(AcceptFor(x, s), Matching(w), s)
      BY <3>1, <2>2, <2>7 DEF TokenFacts
    <3> QED BY <3>2, <2>6, <2>9 DEF Serves
  <2> QED BY <2>8, <2>9
<1>2. DfaInv /\ LexInv => WantedTokenFound
  BY <1>1 DEF WantedTokenFound
<1> QED
  BY <1>2, LexInvAlways, PTL
-----------------------------------------------------------------------------
(* Every state of the automaton leads to the end of a token.               *)
LeadsOn(a, p, q) == q \in a[p].eps \/ (a[p].dest = q /\ a[p].on # {})
LeadsForward(a) ==
    \A C \in SUBSET DOMAIN a :
        /\ \A q \in DOMAIN a : a[q].accept # 0 => q \in C
        /\ \A p \in DOMAIN a : \A q \in C : LeadsOn(a, p, q) => p \in C
        => C = DOMAIN a
AllAhead == \A x \in States : postAccepts[x] # {}

(* If the closure of the accepting states under predecessors is            *)
(* everything, every closed set is.                                        *)
LEMMA LeadsForwardIs ==
    ASSUME input \in Inputs, LeadsToToken(input.nfa)
    PROVE  LeadsForward(input.nfa)
<1> DEFINE a == input.nfa
           D == DOMAIN a
           before == [q \in D |-> {p \in D : LeadsOn(a, p, q)}]
           S == {q \in D : a[q].accept # 0}
<1>1. Closure(before, S) = D
  BY DEF LeadsToToken, LeadsOn
<1>2. IsFiniteSet(D)
  <2> DEFINE m == Len(a)
  <2>1. 1 \in Int /\ m \in Int /\ D = 1 .. m
    BY NfaIs
  <2> HIDE DEF m
  <2> QED BY <2>1, FS_Interval
<1>3. before \in [D -> SUBSET D] /\ S \in SUBSET D
  OBVIOUS
<1> HIDE DEF D, before, S
<1>4. Closes(D, before, S)
  BY <1>1, <1>2, <1>3, ClosureIs
<1>5. ASSUME NEW C \in SUBSET D, S \subseteq C, \A p \in D : \A q \in C : LeadsOn(a, p, q) => p \in C
      PROVE  C = D
  <2>1. \A q \in C : before[q] \subseteq C
    BY <1>5 DEF before
  <2>2. C \in SUBSET DOMAIN before
    BY DEF before
  <2> QED BY <2>1, <2>2, <1>4, <1>5 DEF Closes
<1> QED BY <1>5 DEF LeadsForward, D, S

(* A class of characters has one.                                          *)
LEMMA ClassHasChar ==
    ASSUME EquivInv, NEW m \in M
    PROVE  \E c \in Chars : equivs.group[c] = m
<1>1. Partition(equivs, Size) /\ m \in 0 .. equivs.nGroups - 1
  BY DEF EquivInv, M, NumEquivs
<1>2. PICK L : IsList(equivs, m, L)
  BY <1>1 DEF Partition
<1>3. Elements(equivs) = Chars
  BY <1>1 DEF Partition, EcsTypeOK, Elements, Chars
<1>4. L \in Seq(Chars) /\ L # <<>>
  BY <1>2, <1>3 DEF IsList
<1>5. 1 \in 1 .. Len(L) /\ L[1] \in Chars
  BY <1>4
<1>6. equivs.group[L[1]] = m
  BY <1>2, <1>3, <1>5 DEF IsList
<1> QED BY <1>5, <1>6

(* The set of NFA states of a DFA state is closed under empty moves.       *)
LEMMA ClosedByEps ==
    ASSUME EquivInv, Built, ClassesExact, NEW x \in States, NEW q \in nfaStates[x]
    PROVE  input.nfa[q].eps \subseteq nfaStates[x]
<1> DEFINE a == input.nfa
<1>1. /\ StatesAre /\ \A y \in States, m \in M : Constructed(y, m)
      /\ StatesTyped /\ MovesTyped /\ input \in Inputs /\ Origins
  BY BuiltIs DEF Built, BuildInv, EquivInv
<1>2. \A y \in States : nfaStates[y] \in SUBSET DOMAIN a
  BY <1>1 DEF StatesAre, NfaNumbers
<1>3. ASSUME NEW S, Closes(nfaStates[x], Eps(a), S) PROVE a[q].eps \subseteq nfaStates[x]
  BY <1>2, <1>3 DEF Closes, Eps
<1>4. CASE x = 1
  <2>1. {1} \in SUBSET DOMAIN a
    BY <1>1, NfaIs
  <2>2. Closes(nfaStates[1], Eps(a), {1})
    BY <2>1, <1>1, EpsilonClosureIs DEF StatesTyped
  <2> QED BY <2>2, <1>3, <1>4
<1>5. CASE x # 1
  <2>1. PICK y \in States, m \in M : moves[y][m] = x
    BY <1>1, <1>5 DEF Origins
  <2>2. nfaStates[x] = Move(nfa, nfaStates[y], m)
    <3>1. Constructed(y, m) /\ 0 \notin States
      BY <1>1 DEF StatesAre
    <3> QED BY <3>1, <2>1 DEF Constructed
  <2>3. PICK c \in Chars : equivs.group[c] = m
    BY ClassHasChar
  <2>4. Closes(Move(nfa, nfaStates[y], m), Eps(a), Dests(a, nfaStates[y], c))
    BY <2>3, <1>1, <1>2, MoveIs DEF StatesTyped
  <2> QED BY <2>2, <2>4, <1>3
<1> QED BY <1>4, <1>5

(* No state of the table is without a token for good.                      *)
LEMMA NoSilentStates ==
    ASSUME EquivInv, Built, ClassesExact, LeadsForward(input.nfa), NEW Z \in SUBSET States,
           \A x \in Z : accepts[x] = {} /\ \A m \in M : moves[x][m] # 0 => moves[x][m] \in Z
    PROVE  Z = {}
<1> DEFINE a == input.nfa
           C == {q \in DOMAIN a : \A x \in Z : q \notin nfaStates[x]}
<1>1. /\ StatesAre /\ \A y \in States, m \in M : Constructed(y, m)
      /\ StatesTyped /\ MovesTyped /\ input \in Inputs /\ AcceptsTyped
  BY BuiltIs DEF Built, BuildInv, EquivInv
<1>2. \A x \in States : nfaStates[x] \in SUBSET DOMAIN a /\ nfaStates[x] # {}
  BY <1>1 DEF StatesAre, NfaNumbers, StatesTyped
<1>3. ASSUME NEW q \in DOMAIN a, a[q].accept # 0 PROVE q \in C
  <2> SUFFICES ASSUME NEW x \in Z, q \in nfaStates[x] PROVE FALSE
    OBVIOUS
  <2>1. AcceptedBy(nfaStates[x]) = {a[r].accept : r \in nfaStates[x]} \ {0}
    BY <1>1, <1>2, AcceptedIn DEF StatesTyped, NfaNumbers
  <2>2. a[q].accept \in accepts[x]
    BY <2>1, <1>1, <1>3 DEF AcceptsTyped
  <2> QED BY <2>2
<1>4. ASSUME NEW p \in DOMAIN a, NEW q \in C, LeadsOn(a, p, q) PROVE p \in C
  <2> SUFFICES ASSUME NEW x \in Z, p \in nfaStates[x] PROVE FALSE
    OBVIOUS
  <2>1. CASE q \in a[p].eps
    <3>1. q \in nfaStates[x]
      BY <2>1, ClosedByEps
    <3> QED BY <3>1, <1>4
  <2>2. CASE a[p].dest = q /\ a[p].on # {}
    <3>1. PICK c : c \in a[p].on
      BY <2>2
    <3>2. c \in Chars /\ q > 0
      <4>1. a[p].on \in SUBSET Chars /\ DOMAIN a \subseteq Nat \ {0} /\ q \in DOMAIN a
        <5>1. /\ Len(a) \in Nat \ {0} /\ DOMAIN a = 1 .. Len(a)
              /\ a[p] \in [on : SUBSET Chars, dest : 0 .. Len(a), eps : SUBSET (1 .. Len(a)), accept : Nat]
          BY <1>1, NfaIs
        <5>2. q \in DOMAIN a
          BY <1>4
        <5> HIDE DEF a
        <5> QED BY <5>1, <5>2
      <4> QED BY <4>1, <3>1
    <3>3. q \in Dests(a, nfaStates[x], c)
      BY <3>1, <3>2, <2>2 DEF Dests
    <3>4. PICK m \in M : m = equivs.group[c]
      BY <3>2, NumEquivsIs
    <3>5. Closes(Move(nfa, nfaStates[x], m), Eps(a), Dests(a, nfaStates[x], c))
      BY <3>2, <3>4, <1>1, <1>2, MoveIs DEF StatesTyped
    <3>6. q \in Move(nfa, nfaStates[x], m)
      BY <3>3, <3>5 DEF Closes
    <3>7. moves[x][m] \in States /\ nfaStates[moves[x][m]] = Move(nfa, nfaStates[x], m)
      <4>1. Constructed(x, m) /\ Move(nfa, nfaStates[x], m) # {}
        BY <3>6, <1>1
      <4> QED BY <4>1 DEF Constructed
    <3>8. moves[x][m] \in Z
      BY <3>7, <1>1 DEF StatesAre
    <3> QED BY <3>6, <3>7, <3>8, <1>4
  <2> QED BY <2>1, <2>2, <1>4 DEF LeadsOn
<1>5. C = DOMAIN a
  <2>1. C \in SUBSET DOMAIN a
    OBVIOUS
  <2> HIDE DEF C
  <2> QED BY <2>1, <1>3, <1>4 DEF LeadsForward
<1> QED BY <1>2, <1>5

(* If every state of the automaton leads to a token, so does every state   *)
(* of the table.                                                           *)
LEMMA TokensToComeExist ==
    ASSUME EquivInv, Built, ClassesExact, PostFacts, LeadsForward(input.nfa)
    PROVE  AllAhead
<1> DEFINE Z == {x \in States : postAccepts[x] = {}}
<1>1. ASSUME NEW x \in Z, NEW m \in M, moves[x][m] # 0 PROVE moves[x][m] \in Z
  <2>1. Constructed(x, m)
    BY BuiltIs
  <2>2. moves[x][m] \in States
    BY <2>1, <1>1 DEF Constructed
  <2> QED BY <2>2, <1>1 DEF PostFacts
<1>2. \A x \in Z : accepts[x] = {}
  BY DEF PostFacts
<1>3. Z \in SUBSET States
  OBVIOUS
<1> HIDE DEF Z
<1>4. Z = {}
  BY <1>1, <1>2, <1>3, NoSilentStates
<1> QED BY <1>4 DEF AllAhead, Z

AheadInv == phase = "edges" => AllAhead

(* There are tokens to come after every state when the conflicts are       *)
(* looked for.                                                             *)
LEMMA AheadStart ==
    ASSUME TokensAhead, DfaInv, LexInv, phase = "parser"
    PROVE  AllAhead
<1>1. EquivInv /\ Built /\ PostFacts /\ ClassesExact /\ LeadsForward(input.nfa)
  BY LeadsForwardIs DEF DfaInv, Built, EquivInv, TokensAhead
<1> QED BY <1>1, TokensToComeExist

(* They stay while the conflicts are resolved.                             *)
LEMMA AheadStep == TokensAhead => (DfaInv /\ LexInv /\ AheadInv /\ [Next]_vars => AheadInv')
<1> SUFFICES ASSUME TokensAhead, DfaInv, LexInv, AheadInv, [Next]_vars PROVE AheadInv'
  OBVIOUS
<1>1. CASE UNCHANGED vars
  BY <1>1 DEF vars, dfaVars, AheadInv, AllAhead, States
<1>2. CASE LexNext
  <2>1. CASE DfaNext /\ UNCHANGED lexVars
    <3>1. phase' \in {"characters", "subsets", "predecessors"}
      BY <2>1 DEF LexInv, Later, Early, DfaNext, AddCharClass, NextCharMove, StartConstruction, ConstructMove,
                  ConstructNext, ComputeAccepts, FindPredecessors, dfaVars
    <3> QED BY <3>1 DEF AheadInv
  <2>2. CASE BuildParser
    BY <2>2 DEF BuildParser, AheadInv
  <2>3. CASE CheckIdentities
    <3>1. phase = "parser" /\ UNCHANGED <<nfaStates, postAccepts>>
      BY <2>3 DEF CheckIdentities
    <3>2. AllAhead
      BY <3>1, AheadStart
    <3> QED BY <3>1, <3>2 DEF AheadInv, AllAhead, States
  <2>4. CASE CheckEdges \/ CopyStartState
    <3>1. phase = "edges" /\ UNCHANGED <<nfaStates, postAccepts>>
      BY <2>4 DEF CheckEdges, CopyStartState, dfaVars
    <3> QED BY <3>1 DEF AheadInv, AllAhead, States
  <2>5. CASE EndOfCopies
    BY <2>5 DEF EndOfCopies, AheadInv
  <2> QED BY <1>2, <2>1, <2>2, <2>3, <2>4, <2>5 DEF LexNext
<1>3. CASE StartMinimize \/ ClassOfToken \/ ClassesTidy \/ SweepMove \/ SweepClass \/ SweepAgain \/ Pack
  <2>1. phase' \in {"tokens", "sweep", "pack", "done"}
    BY <1>3 DEF StartMinimize, ClassOfToken, ClassesTidy, SweepMove, SweepClass, SweepAgain, Pack
  <2> QED BY <2>1 DEF AheadInv
<1> QED
  BY <1>1, <1>2, <1>3 DEF Next

(* What the theorems about the conflicts take from the construction.       *)
LEMMA TableFactsHold ==
    ASSUME TokensAhead, DfaInv, LexInv, AheadInv, phase \in {"parser", "edges"}
    PROVE  TableFacts
<1>1. input \in Inputs
  BY DEF DfaInv, EquivInv
<1>2. Tokens \subseteq Nat \ {0} /\ IsFiniteSet(Tokens)
  BY <1>1, InputsAssumption DEF Tokens
<1>3. parser \in input.parsers
  BY DEF LexInv, EdgesPhase, EdgesInv, LexTyped
<1>4. IsFiniteSet(ParserStates)
  BY <1>1, <1>3, ParserStatesFinite
<1>5. /\ accepts \in [States -> SUBSET Tokens] /\ AllAhead
      /\ postAccepts \in [States -> SUBSET Tokens]
      /\ Len(moves) \in Nat /\ DOMAIN moves = 1 .. Len(moves)
      /\ \A x \in DOMAIN moves : moves[x] \in [M -> 0 .. Len(moves)]
      /\ at \in Base => at \in DOMAIN moves /\ Classes(at) = M /\ \A m \in M : moves[at][m] \in {0} \union States
  <2>1. CASE phase = "parser"
    <3>1. Built /\ EquivInv /\ PostFacts /\ identity = <<>>
      BY <2>1 DEF DfaInv, Built, LexInv, Early
    <3>2. StatesAre /\ AcceptsTyped
      BY <3>1, BuiltIs DEF Built, BuildInv
    <3>3. accepts \in [States -> SUBSET Tokens]
      <4> DEFINE L == SUBSET Tokens
      <4>1. accepts \in Seq(L) /\ Len(accepts) = Len(nfaStates) /\ States = 1 .. Len(nfaStates)
        BY <3>2 DEF AcceptsTyped, Tokens, StatesAre
      <4> HIDE DEF L
      <4>2. accepts \in [States -> L]
        BY <4>1
      <4> QED BY <4>2 DEF L
    <3>4. Base = {}
      BY <3>1 DEF Base
    <3> QED BY <3>1, <3>2, <3>3, <3>4, <2>1, AheadStart DEF StatesAre, PostFacts, Tokens
  <2>2. CASE phase = "edges"
    <3>1. EdgesInv /\ AllAhead
      BY <2>2 DEF LexInv, EdgesPhase, AheadInv
    <3>2. BaseIs /\ LexTyped
      BY <3>1, BaseHolds DEF EdgesInv
    <3>3. at \in Base => at \in DOMAIN moves /\ Classes(at) = M /\ \A m \in M : moves[at][m] \in {0} \union States
      BY <3>2 DEF BaseIs, LexTyped
    <3> QED BY <3>1, <3>2, <3>3 DEF BaseIs, LexTyped
  <2> QED BY <2>1, <2>2
<1>6. moves \in [DOMAIN moves -> [0 .. NumEquivs - 1 -> Nat]]
  <2> DEFINE F == [M -> 0 .. Len(moves)]
             G == [M -> Nat]
  <2>1. \A u \in F : u \in G
    BY <1>5
  <2>2. moves = [x \in DOMAIN moves |-> moves[x]]
    <3> DEFINE H == [M -> 0 .. Len(moves)]
    <3>1. moves \in Seq(H)
      <4>1. phase = "parser" => Built
        BY DEF DfaInv, Built
      <4>2. phase = "edges" => LexTyped
        BY DEF LexInv, EdgesPhase, EdgesInv
      <4> QED BY <4>1, <4>2 DEF Built, BuildInv, MovesTyped, LexTyped
    <3> HIDE DEF H
    <3> QED BY <3>1
  <2> HIDE DEF F, G
  <2> QED BY <2>1, <2>2, <1>5 DEF F, G, M
<1>7. postAccepts \in [States -> (SUBSET Tokens) \ {{}}]
  <2>1. \A x \in States : postAccepts[x] \in (SUBSET Tokens) \ {{}}
    BY <1>5 DEF AllAhead
  <2> QED BY <2>1, <1>5
<1> QED BY <1>2, <1>4, <1>5, <1>6, <1>7 DEF TableFacts, M
-----------------------------------------------------------------------------
(* The invariants hold in every behaviour, the tokens to come among them.  *)
LEMMA FactsAlways == TokensAhead => (Spec => [](DfaInv /\ LexInv /\ AheadInv))
<1> SUFFICES ASSUME TokensAhead PROVE Spec => [](DfaInv /\ LexInv /\ AheadInv)
  OBVIOUS
<1>1. Init => DfaInv /\ LexInv /\ AheadInv
  BY DfaInvInit, LexInvInit DEF Init, LexInit, DfaInit, AheadInv
<1>2. DfaInv /\ LexInv /\ AheadInv /\ [Next]_vars => (DfaInv /\ LexInv /\ AheadInv)'
  BY DfaInvStep, LexInvStep, AheadStep
<1> QED
  BY <1>1, <1>2, PTL DEF Spec

(* No conflict of tokens is decided the same way in all parser states and  *)
(* no move deleted for good, whatever the input: what dfa2.cc:43 says may  *)
(* be impossible is, if every token is wanted somewhere.                   *)
THEOREM LexerDecidesNothingForAll == TokensAhead => (Spec => NothingDecidedForAll)
<1> SUFFICES ASSUME TokensAhead PROVE Spec => NothingDecidedForAll
  OBVIOUS
<1> DEFINE Kept == EveryTokenWanted =>
                        /\ phase = "parser" => accepts' = accepts
                        /\ phase = "edges" /\ startStates' = startStates => moves' = moves
<1>1. ASSUME DfaInv /\ LexInv /\ AheadInv, [Next]_vars PROVE [Kept]_conflictVars
  <2>1. CASE UNCHANGED vars
    BY <2>1 DEF vars, conflictVars
  <2>2. ASSUME LexNext, EveryTokenWanted, phase \in {"parser", "edges"}
        PROVE  Kept
    <3>1. TableFacts
      BY <1>1, <2>2, TableFactsHold
    <3>2. CASE CheckIdentities
      BY <3>1, <3>2, <2>2, NothingIsDecidedForAll DEF CheckIdentities
    <3>3. CASE CheckEdges
      BY <3>1, <3>3, <2>2, NothingIsDecidedForAll DEF CheckEdges
    <3>4. CASE CopyStartState
      <4>1. phase = "edges" /\ startStates' # startStates
        <5>1. EdgesInv
          BY <3>4, <1>1 DEF CopyStartState, LexInv, EdgesPhase
        <5>2. Len(startStates) \in Nat
          BY <5>1 DEF EdgesInv, LexTyped
        <5>3. \E e : startStates' = Append(startStates, e)
          BY <3>4, CopyStep
        <5>4. Len(startStates') = Len(startStates) + 1
          <6>1. PICK e : startStates' = Append(startStates, e)
            BY <5>3
          <6> DEFINE S == ToSet(startStates) \union {e}
          <6>2. startStates \in Seq(1 .. Len(moves))
            BY <5>1 DEF EdgesInv, LexTyped
          <6> QED BY <6>1, <6>2
        <5> QED BY <5>2, <5>4, <3>4 DEF CopyStartState
      <4> QED BY <4>1
    <3>5. CASE EndOfCopies
      BY <3>5 DEF EndOfCopies, predVars
    <3>6. CASE DfaNext \/ BuildParser
      BY <3>6, <2>2 DEF DfaNext, AddCharClass, NextCharMove, StartConstruction, ConstructMove, ConstructNext, ComputeAccepts,
             FindPredecessors, BuildParser
    <3> QED BY <2>2, <3>2, <3>3, <3>4, <3>5, <3>6 DEF LexNext
  <2>3. CASE StartMinimize \/ ClassOfToken \/ ClassesTidy \/ SweepMove \/ SweepClass \/ SweepAgain \/ Pack
    BY <2>3 DEF StartMinimize, ClassOfToken, ClassesTidy, SweepMove, SweepClass, SweepAgain, Pack
  <2>4. CASE LexNext
    BY <2>2, <2>4
  <2> QED BY <1>1, <2>1, <2>3, <2>4 DEF Next
<1>2. DfaInv /\ LexInv /\ AheadInv /\ [Next]_vars => [Kept]_conflictVars
  BY <1>1
<1> HIDE DEF Kept
<1>3. Spec => [][Kept]_conflictVars
  BY <1>2, FactsAlways, PTL DEF Spec
<1> QED BY <1>3 DEF NothingDecidedForAll, Kept
-----------------------------------------------------------------------------
(* While setChar moves elements there are classes without any.             *)
Loose(e, n) ==
    /\ EcsTypeOK(e, n) /\ e.nGroups \in 1 .. n
    /\ \A c \in 0 .. n - 1 : e.group[c] < e.nGroups
    /\ \A k \in 0 .. n - 1 : \/ \E L : IsList(e, k, L)
                             \/ e.repelems[k] = NIL /\ \A c \in 0 .. n - 1 : e.group[c] # k

(* What setChar does to an element that is not the head of its class.      *)
SetTo(f, e, n, c, k) ==
    /\ EcsTypeOK(f, n)
    /\ f.nGroups = IF e.nGroups <= k THEN k + 1 ELSE e.nGroups
    /\ \A d \in 0 .. n - 1 :
        /\ f.group[d] = IF d = c THEN k ELSE e.group[d]
        /\ f.repelems[d] = IF d = k THEN c ELSE e.repelems[d]
        /\ f.relems[d] = IF d = c THEN e.repelems[k] ELSE IF d = e.felems[c] THEN e.relems[c] ELSE e.relems[d]
        /\ f.felems[d] = IF d = c THEN NIL ELSE IF d = e.repelems[k] THEN c
                         ELSE IF d = e.relems[c] THEN e.felems[c] ELSE e.felems[d]

(* setChar gives a character its new class, makes it the representative    *)
(* there, and links it before the one there was.                           *)
LEMMA SetCharSets ==
    ASSUME NEW n \in Nat, NEW e, EcsTypeOK(e, n), NEW c \in 0 .. n - 1, NEW k \in 0 .. n - 1,
           e.group[c] # k, e.felems[c] # NIL, e.felems[c] # c, e.repelems[k] # c, e.relems[c] # c,
           e.repelems[k] # e.relems[c] \/ e.repelems[k] = NIL
    PROVE  SetTo(SetChar(e, c, k), e, n, c, k)
<1> DEFINE E == 0 .. n - 1
           B == {NIL} \union E
           before == e.felems[c]
           after == e.relems[c]
           head == e.repelems[k]
           linked(links, from, to) == IF from = NIL THEN links ELSE [links EXCEPT ![from] = to]
           re == [linked(e.relems, before, after) EXCEPT ![c] = head]
           fe == [linked(linked(e.felems, after, before), head, c) EXCEPT ![c] = NIL]
           f == SetChar(e, c, k)
<1>1. /\ e.group \in [E -> Nat] /\ e.felems \in [E -> B] /\ e.relems \in [E -> B] /\ e.repelems \in [E -> B]
      /\ e.nGroups \in Nat
  BY DEF EcsTypeOK
<1>2. before \in E /\ after \in B /\ head \in B /\ NIL \notin E
  BY <1>1 DEF NIL
<1>3. f = [group    |-> [e.group EXCEPT ![c] = k],
           relems   |-> re, felems |-> fe,
           repelems |-> [e.repelems EXCEPT ![k] = c],
           nGroups  |-> IF e.nGroups <= k THEN k + 1 ELSE e.nGroups]
  BY DEF SetChar
<1>4. re \in [E -> B] /\ \A d \in E : re[d] = IF d = c THEN head ELSE IF d = before THEN after ELSE e.relems[d]
  BY <1>1, <1>2
<1>5. fe \in [E -> B] /\ \A d \in E : fe[d] = IF d = c THEN NIL ELSE IF d = head THEN c ELSE IF d = after THEN before ELSE e.felems[d]
  <2> DEFINE f1 == linked(e.felems, after, before)
             f2 == linked(f1, head, c)
  <2> HIDE DEF E, B, before, after, head
  <2>1. f1 \in [E -> B] /\ \A d \in E : f1[d] = IF d = after THEN before ELSE e.felems[d]
    <3>1. before \in B /\ e.felems \in [E -> B]
      BY <1>1, <1>2 DEF B
    <3>2. CASE after = NIL
      BY <3>1, <3>2, <1>2
    <3>3. CASE after # NIL
      <4>1. after \in E
        BY <3>3, <1>2 DEF B
      <4> QED BY <3>1, <3>3, <4>1
    <3> QED BY <3>2, <3>3
  <2> HIDE DEF f1
  <2>2. f2 \in [E -> B] /\ \A d \in E : f2[d] = IF d = head THEN c ELSE f1[d]
    <3>1. c \in B
      BY DEF B, E
    <3>2. CASE head = NIL
      BY <2>1, <3>2, <1>2
    <3>3. CASE head # NIL
      <4>1. head \in E
        BY <3>3, <1>2 DEF B
      <4> QED BY <2>1, <3>1, <3>3, <4>1
    <3> QED BY <3>2, <3>3
  <2> HIDE DEF f2
  <2>3. NIL \in B /\ fe = [f2 EXCEPT ![c] = NIL]
    BY DEF B, f1, f2
  <2>c. c \in E
    BY DEF E
  <2> HIDE DEF fe
  <2>4. fe \in [E -> B] /\ \A d \in E : fe[d] = IF d = c THEN NIL ELSE f2[d]
    BY ONLY <2>2, <2>3, <2>c
  <2>5. \A d \in E : f2[d] = IF d = head THEN c ELSE IF d = after THEN before ELSE e.felems[d]
    BY ONLY <2>1, <2>2
  <2> QED BY ONLY <2>4, <2>5
<1>6. /\ f.group = [e.group EXCEPT ![c] = k] /\ f.relems = re /\ f.felems = fe
      /\ f.repelems = [e.repelems EXCEPT ![k] = c]
      /\ f.nGroups = IF e.nGroups <= k THEN k + 1 ELSE e.nGroups
  BY <1>3
<1> HIDE DEF re, fe, f, before, after, head
<1>7. EcsTypeOK(f, n)
  <2>1. [e.group EXCEPT ![c] = k] \in [E -> Nat] /\ [e.repelems EXCEPT ![k] = c] \in [E -> B]
    BY <1>1
  <2> QED BY <2>1, <1>1, <1>3, <1>4, <1>5 DEF EcsTypeOK
<1>8. \A d \in E : f.group[d] = IF d = c THEN k ELSE e.group[d]
  BY <1>1, <1>6
<1>9. \A d \in E : f.repelems[d] = IF d = k THEN c ELSE e.repelems[d]
  BY <1>1, <1>6
<1> QED
  BY <1>4, <1>5, <1>6, <1>7, <1>8, <1>9 DEF SetTo, f, before, after, head
-----------------------------------------------------------------------------
(* IsList, for a list that is a function of the numbers from 1 to m.       *)
Listed(e, n, k, m, L) ==
    /\ m \in Nat \ {0} /\ L \in [1 .. m -> 0 .. n - 1]
    /\ e.repelems[k] = L[1] /\ e.felems[L[1]] = NIL /\ e.relems[L[m]] = NIL
    /\ \A i, j \in 1 .. m : j = i + 1 => e.relems[L[i]] = L[j] /\ e.felems[L[j]] = L[i]
    /\ \A i, j \in 1 .. m : L[i] = L[j] => i = j
    /\ \A c \in 0 .. n - 1 : (e.group[c] = k) <=> \E i \in 1 .. m : L[i] = c

(* A list with its length at hand.                                         *)
LEMMA ListedIs ==
    ASSUME NEW n \in Nat, NEW e, EcsTypeOK(e, n), NEW k, NEW m, NEW L
    PROVE  Listed(e, n, k, m, L) <=> IsList(e, k, L) /\ m = Len(L)
<1> DEFINE E == 0 .. n - 1
<1>1. Elements(e) = E
  BY DEF EcsTypeOK, Elements
<1>2. ASSUME m \in Nat \ {0}, L \in [1 .. m -> E] PROVE L \in Seq(E) /\ Len(L) = m /\ L # <<>>
  <2>1. L \in Seq(E) /\ Len(L) = m
    BY <1>2
  <2>2. L # <<>>
    <3>1. Len(<<>>) = 0
      OBVIOUS
    <3> QED BY ONLY <3>1, <2>1, <1>2
  <2> QED BY ONLY <2>1, <2>2
<1>3. ASSUME L \in Seq(E), m = Len(L), L # <<>> PROVE m \in Nat \ {0} /\ L \in [1 .. m -> E]
  BY <1>3
<1> HIDE DEF E
<1>4. ASSUME IsList(e, k, L), m = Len(L) PROVE Listed(e, n, k, m, L)
  <2>1. L \in Seq(E) /\ L # <<>>
    BY <1>1, <1>4 DEF IsList
  <2>2. m \in Nat \ {0} /\ L \in [1 .. m -> E]
    BY <2>1, <1>3, <1>4
  <2>3. /\ e.repelems[k] = L[1] /\ e.felems[L[1]] = NIL /\ e.relems[L[m]] = NIL
        /\ \A i, j \in 1 .. m : j = i + 1 => e.relems[L[i]] = L[j] /\ e.felems[L[j]] = L[i]
        /\ \A i, j \in 1 .. m : L[i] = L[j] => i = j
        /\ \A c \in E : (e.group[c] = k) <=> \E i \in 1 .. m : L[i] = c
    BY <1>1, <1>4 DEF IsList
  <2> QED BY <2>2, <2>3 DEF Listed, E
<1>5. ASSUME Listed(e, n, k, m, L) PROVE IsList(e, k, L) /\ m = Len(L)
  <2>1. /\ m \in Nat \ {0} /\ L \in [1 .. m -> E]
        /\ e.repelems[k] = L[1] /\ e.felems[L[1]] = NIL /\ e.relems[L[m]] = NIL
        /\ \A i, j \in 1 .. m : j = i + 1 => e.relems[L[i]] = L[j] /\ e.felems[L[j]] = L[i]
        /\ \A i, j \in 1 .. m : L[i] = L[j] => i = j
        /\ \A c \in E : (e.group[c] = k) <=> \E i \in 1 .. m : L[i] = c
    BY <1>5 DEF Listed, E
  <2>2. L \in Seq(E) /\ Len(L) = m /\ L # <<>>
    BY <1>2, <2>1
  <2> QED BY <1>1, <2>1, <2>2 DEF IsList
<1> QED BY <1>4, <1>5

(* The list an element leaves, and the one it gets to the head of.         *)
LEMMA ListLeft ==
    ASSUME NEW n \in Nat, NEW e, NEW f, NEW c \in 0 .. n - 1, NEW k \in 0 .. n - 1, NEW l \in 0 .. n - 1,
           NEW m, NEW L, NEW i \in 1 .. m, Listed(e, n, l, m, L), SetTo(f, e, n, c, k),
           l # k, L[i] = c, i # 1,
           e.repelems[k] # NIL => e.repelems[k] \in 0 .. n - 1 /\ e.group[e.repelems[k]] = k
    PROVE  \E R : Listed(f, n, l, m - 1, R)
<1> DEFINE E == 0 .. n - 1
           R == [p \in 1 .. m - 1 |-> IF p < i THEN L[p] ELSE L[p + 1]]
<1>1. /\ m \in Nat \ {0} /\ L \in [1 .. m -> E]
      /\ e.repelems[l] = L[1] /\ e.felems[L[1]] = NIL /\ e.relems[L[m]] = NIL
      /\ \A p, q \in 1 .. m : q = p + 1 => e.relems[L[p]] = L[q] /\ e.felems[L[q]] = L[p]
      /\ \A p, q \in 1 .. m : L[p] = L[q] => p = q
      /\ \A d \in E : (e.group[d] = l) <=> \E p \in 1 .. m : L[p] = d
  BY DEF Listed
<1>2. \A p \in 1 .. m : L[p] \in E /\ e.group[L[p]] = l
  BY <1>1
<1>3. /\ \A d \in E : f.group[d] = IF d = c THEN k ELSE e.group[d]
      /\ \A d \in E : f.repelems[d] = IF d = k THEN c ELSE e.repelems[d]
      /\ \A d \in E : f.relems[d] = IF d = c THEN e.repelems[k] ELSE IF d = e.felems[c] THEN e.relems[c] ELSE e.relems[d]
      /\ \A d \in E : f.felems[d] = IF d = c THEN NIL ELSE IF d = e.repelems[k] THEN c
                             ELSE IF d = e.relems[c] THEN e.felems[c] ELSE e.felems[d]
  BY DEF SetTo
<1>4. i \in Nat /\ i > 1 /\ i <= m /\ i - 1 \in 1 .. m /\ m - 1 \in Nat \ {0} /\ c \in E /\ l \in E
  BY <1>1
<1>n. NIL \notin E
  BY DEF NIL
<1> HIDE DEF E
<1>5. e.felems[c] = L[i - 1]
  <2>1. i = (i - 1) + 1
    BY <1>4
  <2> QED BY <2>1, <1>1, <1>4
<1>6. i # m => i + 1 \in 1 .. m /\ e.relems[c] = L[i + 1]
  <2>1. i # m => i + 1 \in 1 .. m
    BY <1>1, <1>4
  <2> QED BY <2>1, <1>1
<1>6a. i = m => e.relems[c] = NIL
  BY <1>1
<1>7. \A p \in 1 .. m : L[p] # e.repelems[k]
  BY <1>2, <1>n
<1>8. ASSUME NEW p \in 1 .. m, p # i
      PROVE  /\ L[p] # c /\ L[p] \in E
             /\ f.relems[L[p]] = IF p = i - 1 THEN e.relems[c] ELSE e.relems[L[p]]
             /\ f.felems[L[p]] = IF p = i + 1 THEN e.felems[c] ELSE e.felems[L[p]]
  <2>1. L[p] # c /\ L[p] \in E /\ L[p] # e.repelems[k]
    BY <1>1, <1>2, <1>7, <1>8
  <2>2. (L[p] = e.felems[c]) <=> p = i - 1
    BY <1>1, <1>4, <1>5
  <2>3. (L[p] = e.relems[c]) <=> p = i + 1
    <3>1. CASE i = m
      <4>1. e.relems[c] = NIL /\ p # i + 1
        BY <3>1, <1>6a, <1>4, <1>1
      <4> QED BY <4>1, <2>1, <1>n
    <3>2. CASE i # m
      BY <3>2, <1>6, <1>1
    <3> QED BY <3>1, <3>2
  <2> QED BY <2>1, <2>2, <2>3, <1>3
<1>11. \A p \in 1 .. m - 1 : p \in 1 .. m /\ p + 1 \in 1 .. m /\ p \in Nat
  BY <1>1
<1>9. R \in [1 .. m - 1 -> E]
  <2>2. \A p \in 1 .. m - 1 : (IF p < i THEN L[p] ELSE L[p + 1]) \in E
    BY <1>11, <1>2
  <2> QED BY <2>2
<1>10. \A p \in 1 .. m - 1 : R[p] = IF p < i THEN L[p] ELSE L[p + 1]
  OBVIOUS
<1> HIDE DEF R
<1>12. f.repelems[l] = R[1] /\ f.felems[R[1]] = NIL
  <2>1. 1 \in 1 .. m - 1 /\ 1 < i /\ 1 \in 1 .. m /\ 1 # i /\ 1 # i + 1
    BY <1>4, <1>1
  <2>2. R[1] = L[1]
    BY <2>1, <1>10
  <2>3. f.felems[L[1]] = NIL
    BY <2>1, <1>1, <1>8
  <2> QED BY <2>2, <2>3, <1>1, <1>3, <1>4
<1>13. f.relems[R[m - 1]] = NIL
  <2>0. m - 1 \in 1 .. m - 1 /\ (m - 1) + 1 = m /\ m \in 1 .. m
    BY <1>1, <1>4
  <2>1. CASE i = m
    <3>1. R[m - 1] = L[i - 1] /\ i - 1 # i
      BY <2>0, <2>1, <1>4, <1>10
    <3> QED BY <3>1, <2>1, <1>6a, <1>4, <1>8
  <2>2. CASE i # m
    <3>1. ~(m - 1 < i) /\ m # i - 1
      BY <2>2, <1>1, <1>4
    <3>2. R[m - 1] = L[m]
      BY <3>1, <2>0, <1>10
    <3> QED BY <3>1, <3>2, <2>0, <2>2, <1>1, <1>8
  <2> QED BY <2>1, <2>2
<1>14. ASSUME NEW p \in 1 .. m - 1, NEW q \in 1 .. m - 1, q = p + 1
       PROVE  f.relems[R[p]] = R[q] /\ f.felems[R[q]] = R[p]
  <2>0. p \in 1 .. m /\ q \in 1 .. m /\ q + 1 \in 1 .. m /\ p \in Nat /\ q \in Nat
    BY <1>11
  <2>1. CASE q < i
    <3>1. p # i /\ q # i /\ p # i - 1 /\ q # i + 1 /\ p < i
      BY <2>0, <2>1, <1>4, <1>14
    <3>2. R[p] = L[p] /\ R[q] = L[q]
      BY <2>1, <3>1, <1>10
    <3>3. f.relems[L[p]] = e.relems[L[p]] /\ f.felems[L[q]] = e.felems[L[q]]
      BY <3>1, <2>0, <1>8
    <3> QED BY <3>2, <3>3, <2>0, <1>1, <1>14
  <2>2. CASE q = i
    <3>1. p < i /\ ~(q < i) /\ p # i /\ q + 1 # i /\ p = i - 1 /\ i # m /\ q + 1 = i + 1
      BY <2>0, <2>2, <1>1, <1>4, <1>14
    <3>2. R[p] = L[p] /\ R[q] = L[q + 1]
      BY <3>1, <1>10
    <3>3. f.relems[L[p]] = e.relems[c] /\ f.felems[L[q + 1]] = e.felems[c]
      BY <3>1, <2>0, <1>8
    <3> QED BY <3>1, <3>2, <3>3, <1>5, <1>6
  <2>3. CASE q > i
    <3>1. ~(p < i) /\ ~(q < i) /\ q # i /\ q + 1 # i /\ q # i - 1 /\ q + 1 # i + 1
      BY <2>0, <2>3, <1>4, <1>14
    <3>2. R[p] = L[q] /\ R[q] = L[q + 1]
      BY <3>1, <1>10, <1>14
    <3>3. f.relems[L[q]] = e.relems[L[q]] /\ f.felems[L[q + 1]] = e.felems[L[q + 1]]
      BY <3>1, <2>0, <1>8
    <3> QED BY <3>2, <3>3, <2>0, <1>1
  <2> QED BY <2>0, <2>1, <2>2, <2>3, <1>4
<1>15. ASSUME NEW p \in 1 .. m - 1, NEW q \in 1 .. m - 1, R[p] = R[q] PROVE p = q
  <2>1. PICK p1 \in 1 .. m : R[p] = L[p1] /\ p1 = IF p < i THEN p ELSE p + 1
    BY <1>10, <1>11
  <2>2. PICK q1 \in 1 .. m : R[q] = L[q1] /\ q1 = IF q < i THEN q ELSE q + 1
    BY <1>10, <1>11
  <2>3. p1 = q1
    BY <2>1, <2>2, <1>1, <1>15
  <2> QED BY <2>1, <2>2, <2>3, <1>4, <1>11
<1>16. ASSUME NEW d \in E PROVE (f.group[d] = l) <=> \E p \in 1 .. m - 1 : R[p] = d
  <2>1. ASSUME f.group[d] = l PROVE \E p \in 1 .. m - 1 : R[p] = d
    <3>1. d # c /\ e.group[d] = l
      BY <2>1, <1>3
    <3>2. PICK p \in 1 .. m : L[p] = d
      BY <3>1, <1>1
    <3>3. p # i
      BY <3>1, <3>2
    <3>4. CASE p < i
      <4>1. p \in 1 .. m - 1
        BY <3>4, <1>4, <1>1
      <4> QED BY <4>1, <3>2, <3>4, <1>10
    <3>5. CASE p > i
      <4>1. p - 1 \in 1 .. m - 1 /\ ~(p - 1 < i) /\ p - 1 + 1 = p
        BY <3>5, <1>1, <1>4
      <4> QED BY <4>1, <3>2, <1>10
    <3> QED BY <3>3, <3>4, <3>5, <1>4, <1>1
  <2>2. ASSUME NEW p \in 1 .. m - 1, R[p] = d PROVE f.group[d] = l
    <3>1. PICK q \in 1 .. m : q # i /\ R[p] = L[q]
      <4>1. CASE p < i
        BY <4>1, <1>4, <1>10, <1>11
      <4>2. CASE ~(p < i)
        <5>1. p + 1 # i /\ p + 1 \in 1 .. m
          BY <4>2, <1>4, <1>11
        <5> QED BY <5>1, <4>2, <1>10
      <4> QED BY <4>1, <4>2
    <3>2. L[q] # c /\ L[q] \in E
      BY <3>1, <1>8
    <3>3. f.group[L[q]] = e.group[L[q]] /\ e.group[L[q]] = l
      BY ONLY <3>2, q \in 1 .. m, <1>2, <1>3
    <3> QED BY ONLY <3>1, <3>3, <2>2
  <2> QED BY <2>1, <2>2
<1>17. \A c1 \in E : (f.group[c1] = l) <=> \E p \in 1 .. m - 1 : R[p] = c1
  BY <1>16
<1>18. Listed(f, n, l, m - 1, R)
  BY <1>4, <1>9, <1>12, <1>13, <1>14, <1>15, <1>17 DEF Listed, E
<1> QED BY <1>18
-----------------------------------------------------------------------------
(* setChar puts the character at the head of the list of its new class.    *)
LEMMA ListJoined ==
    ASSUME NEW n \in Nat, NEW e, NEW f, NEW c \in 0 .. n - 1, NEW k \in 0 .. n - 1,
           NEW m, NEW L, Listed(e, n, k, m, L), SetTo(f, e, n, c, k), e.group[c] # k,
           \A d \in 0 .. n - 1 : d = e.felems[c] \/ d = e.relems[c] => e.group[d] # k
    PROVE  \E R : Listed(f, n, k, m + 1, R)
<1> DEFINE E == 0 .. n - 1
           R == [p \in 1 .. m + 1 |-> IF p = 1 THEN c ELSE L[p - 1]]
<1>1. /\ m \in Nat \ {0} /\ L \in [1 .. m -> E]
      /\ e.repelems[k] = L[1] /\ e.felems[L[1]] = NIL /\ e.relems[L[m]] = NIL
      /\ \A p, q \in 1 .. m : q = p + 1 => e.relems[L[p]] = L[q] /\ e.felems[L[q]] = L[p]
      /\ \A p, q \in 1 .. m : L[p] = L[q] => p = q
      /\ \A d \in E : (e.group[d] = k) <=> \E p \in 1 .. m : L[p] = d
  BY DEF Listed
<1>2. \A p \in 1 .. m : L[p] \in E /\ e.group[L[p]] = k
  BY <1>1
<1>3. /\ \A d \in E : f.group[d] = IF d = c THEN k ELSE e.group[d]
      /\ \A d \in E : f.repelems[d] = IF d = k THEN c ELSE e.repelems[d]
      /\ \A d \in E : f.relems[d] = IF d = c THEN e.repelems[k] ELSE IF d = e.felems[c] THEN e.relems[c] ELSE e.relems[d]
      /\ \A d \in E : f.felems[d] = IF d = c THEN NIL ELSE IF d = e.repelems[k] THEN c
                             ELSE IF d = e.relems[c] THEN e.felems[c] ELSE e.felems[d]
  BY DEF SetTo
<1>4. c \in E /\ k \in E
  OBVIOUS
<1>5. \A d \in E : d = e.felems[c] \/ d = e.relems[c] => e.group[d] # k
  OBVIOUS
<1> HIDE DEF E
<1>6. 1 \in 1 .. m /\ 1 \in 1 .. m + 1 /\ m \in 1 .. m /\ m + 1 \in 1 .. m + 1 /\ m + 1 # 1 /\ (m + 1) - 1 = m
      /\ m + 1 \in Nat \ {0}
  BY <1>1
<1>7. \A p \in 1 .. m + 1 : p # 1 => p - 1 \in 1 .. m
  BY <1>1
<1>8. \A p \in 1 .. m : /\ L[p] # c
                        /\ f.relems[L[p]] = e.relems[L[p]]
                        /\ f.felems[L[p]] = IF p = 1 THEN c ELSE e.felems[L[p]]
  <2> SUFFICES ASSUME NEW p \in 1 .. m
               PROVE  /\ L[p] # c
                      /\ f.relems[L[p]] = e.relems[L[p]]
                      /\ f.felems[L[p]] = IF p = 1 THEN c ELSE e.felems[L[p]]
    OBVIOUS
  <2>1. L[p] \in E /\ L[p] # c /\ L[p] # e.felems[c] /\ L[p] # e.relems[c]
    BY <1>2, <1>5
  <2>2. L[p] = e.repelems[k] <=> p = 1
    BY <1>1, <1>6
  <2> QED BY <2>1, <2>2, <1>3
<1>9. R \in [1 .. m + 1 -> E] /\ R[1] = c /\ \A p \in 1 .. m + 1 : p # 1 => R[p] = L[p - 1]
  <2>1. \A p \in 1 .. m + 1 : (IF p = 1 THEN c ELSE L[p - 1]) \in E
    BY <1>7, <1>2, <1>4
  <2> QED BY <2>1, <1>6
<1> HIDE DEF R
<1>10. f.repelems[k] = R[1] /\ f.felems[R[1]] = NIL
  BY <1>3, <1>4, <1>9
<1>11. f.relems[R[m + 1]] = NIL
  BY <1>1, <1>6, <1>8, <1>9
<1>12. ASSUME NEW p \in 1 .. m + 1, NEW q \in 1 .. m + 1, q = p + 1
       PROVE  f.relems[R[p]] = R[q] /\ f.felems[R[q]] = R[p]
  <2>1. CASE p = 1
    <3>1. q # 1 /\ q - 1 = 1
      BY <2>1, <1>12
    <3>2. R[q] = L[1] /\ R[p] = c
      BY <3>1, <2>1, <1>9
    <3> QED BY <3>2, <1>1, <1>3, <1>4, <1>6, <1>8
  <2>2. CASE p # 1
    <3>1. p \in Nat /\ q # 1 /\ q - 1 \in 1 .. m /\ p - 1 \in 1 .. m /\ q - 1 = (p - 1) + 1 /\ q - 1 # 1
      BY <2>2, <1>1, <1>7, <1>12
    <3>2. R[q] = L[q - 1] /\ R[p] = L[p - 1]
      BY <3>1, <2>2, <1>9
    <3> QED BY <3>1, <3>2, <1>1, <1>8
  <2> QED BY <2>1, <2>2
<1>13. ASSUME NEW p \in 1 .. m + 1, NEW q \in 1 .. m + 1, R[p] = R[q] PROVE p = q
  <2>1. p = 1 <=> q = 1
    BY <1>7, <1>8, <1>9, <1>13
  <2>2. CASE p # 1
    <3>1. q # 1 /\ p - 1 = q - 1
      BY <2>1, <2>2, <1>1, <1>7, <1>9, <1>13
    <3> QED BY <3>1
  <2> QED BY <2>1, <2>2
<1>14. \A d \in E : (f.group[d] = k) <=> \E p \in 1 .. m + 1 : R[p] = d
  <2> SUFFICES ASSUME NEW d \in E PROVE (f.group[d] = k) <=> \E p \in 1 .. m + 1 : R[p] = d
    OBVIOUS
  <2>1. CASE d = c
    BY <2>1, <1>3, <1>6, <1>9
  <2>2. ASSUME d # c, f.group[d] = k PROVE \E p \in 1 .. m + 1 : R[p] = d
    <3>1. PICK p \in 1 .. m : L[p] = d
      BY <2>2, <1>1, <1>3
    <3>2. p + 1 \in 1 .. m + 1 /\ p + 1 # 1 /\ (p + 1) - 1 = p
      BY <1>1
    <3> QED BY <3>1, <3>2, <1>9
  <2>3. ASSUME d # c, NEW p \in 1 .. m + 1, R[p] = d PROVE f.group[d] = k
    <3>1. p # 1 /\ R[p] = L[p - 1] /\ p - 1 \in 1 .. m
      BY <2>3, <1>7, <1>9
    <3>2. f.group[d] = e.group[d] /\ e.group[L[p - 1]] = k
      BY <3>1, <2>3, <1>2, <1>3
    <3> QED BY ONLY <3>1, <3>2, <2>3
  <2> QED BY <2>1, <2>2, <2>3
<1>15. Listed(f, n, k, m + 1, R)
  BY <1>6, <1>9, <1>10, <1>11, <1>12, <1>13, <1>14 DEF Listed, E
<1> QED BY <1>15

(* In a class that was empty setChar makes a list of one.                  *)
LEMMA ListStarted ==
    ASSUME NEW n \in Nat, NEW e, NEW f, NEW c \in 0 .. n - 1, NEW k \in 0 .. n - 1,
           SetTo(f, e, n, c, k), e.repelems[k] = NIL, \A d \in 0 .. n - 1 : e.group[d] # k
    PROVE  \E R : Listed(f, n, k, 1, R)
<1> DEFINE R == [p \in 1 .. 1 |-> c]
<1>1. R \in [1 .. 1 -> 0 .. n - 1] /\ R[1] = c /\ 1 \in Nat \ {0}
  OBVIOUS
<1>2. \A p \in 1 .. 1 : p = 1
  OBVIOUS
<1> HIDE DEF R
<1>3. f.repelems[k] = c /\ f.relems[c] = NIL /\ f.felems[c] = NIL
      /\ \A d \in 0 .. n - 1 : (f.group[d] = k) <=> d = c
  BY DEF SetTo
<1>4. \A p, q \in 1 .. 1 : q = p + 1 => FALSE
  OBVIOUS
<1>5. Listed(f, n, k, 1, R)
  BY <1>1, <1>2, <1>3, <1>4 DEF Listed
<1> QED BY <1>5
-----------------------------------------------------------------------------
(* setChar for an element that is not the head of its class.               *)
LEMMA SetCharLoose ==
    ASSUME NEW n \in Nat, NEW e, Loose(e, n), NEW c \in 0 .. n - 1, NEW k \in 0 .. n - 1,
           e.group[c] # k, e.repelems[e.group[c]] # c
    PROVE  /\ Loose(SetChar(e, c, k), n)
           /\ \A d \in 0 .. n - 1 : SetChar(e, c, k).group[d] = IF d = c THEN k ELSE e.group[d]
           /\ \A d \in 0 .. n - 1 : SetChar(e, c, k).repelems[d] = IF d = k THEN c ELSE e.repelems[d]
<1> DEFINE E == 0 .. n - 1
           f == SetChar(e, c, k)
           l == e.group[c]
<1>1. /\ EcsTypeOK(e, n) /\ e.nGroups \in 1 .. n /\ \A d \in E : e.group[d] \in Nat /\ e.group[d] < e.nGroups
      /\ \A j \in E : \/ \E L : IsList(e, j, L)
                      \/ e.repelems[j] = NIL /\ \A d \in E : e.group[d] # j
  BY DEF Loose, EcsTypeOK
<1>n. NIL \notin E
  BY DEF NIL
<1>2. l \in E /\ c \in E /\ k \in E /\ l # k
  BY <1>1
<1>3. PICK L0 : IsList(e, l, L0)
  BY <1>1, <1>2
<1>4. PICK m, L : Listed(e, n, l, m, L)
  BY <1>1, <1>3, ListedIs
<1> HIDE DEF E, l
<1>5. /\ m \in Nat \ {0} /\ L \in [1 .. m -> E]
      /\ e.repelems[l] = L[1] /\ e.felems[L[1]] = NIL /\ e.relems[L[m]] = NIL
      /\ \A p, q \in 1 .. m : q = p + 1 => e.relems[L[p]] = L[q] /\ e.felems[L[q]] = L[p]
      /\ \A p, q \in 1 .. m : L[p] = L[q] => p = q
      /\ \A d \in E : (e.group[d] = l) <=> \E p \in 1 .. m : L[p] = d
  BY <1>4 DEF Listed, E
<1>6. PICK i \in 1 .. m : L[i] = c
  BY <1>2, <1>5 DEF l
<1>7. i # 1 /\ i \in Nat
  BY <1>5, <1>6 DEF l
<1>8. e.felems[c] \in E /\ e.group[e.felems[c]] = l /\ e.felems[c] # c
  <2>1. i - 1 \in 1 .. m /\ i = (i - 1) + 1 /\ i - 1 # i
    BY <1>5, <1>6, <1>7
  <2>2. e.felems[c] = L[i - 1]
    BY <2>1, <1>5, <1>6
  <2>3. L[i - 1] # c
    BY <2>1, <1>5, <1>6
  <2> QED BY <2>1, <2>2, <2>3, <1>5
<1>9. e.relems[c] = NIL \/ (e.relems[c] \in E /\ e.group[e.relems[c]] = l /\ e.relems[c] # c)
  <2>1. CASE i = m
    BY <2>1, <1>5, <1>6
  <2>2. CASE i # m
    <3>1. i + 1 \in 1 .. m /\ i + 1 # i
      BY <2>2, <1>5, <1>6, <1>7
    <3>2. e.relems[c] = L[i + 1]
      BY <3>1, <1>5, <1>6
    <3>3. L[i + 1] # c
      BY <3>1, <1>5, <1>6
    <3> QED BY <3>1, <3>2, <3>3, <1>5
  <2> QED BY <2>1, <2>2
<1>10. e.repelems[k] = NIL \/ (e.repelems[k] \in E /\ e.group[e.repelems[k]] = k)
  <2>1. CASE \E L1 : IsList(e, k, L1)
    BY <2>1, <1>1, IsListDefs DEF E
  <2>2. CASE e.repelems[k] = NIL
    BY <2>2
  <2> QED BY <2>1, <2>2, <1>1, <1>2
<1>11. SetTo(f, e, n, c, k)
  <2>1. /\ e.group[c] # k /\ e.felems[c] # NIL /\ e.felems[c] # c /\ e.repelems[k] # c /\ e.relems[c] # c
        /\ e.repelems[k] # e.relems[c] \/ e.repelems[k] = NIL
    BY <1>2, <1>8, <1>9, <1>10, <1>n DEF l
  <2>2. EcsTypeOK(e, n) /\ n \in Nat /\ c \in 0 .. n - 1 /\ k \in 0 .. n - 1
    BY <1>1
  <2> QED BY ONLY <2>1, <2>2, SetCharSets DEF f
<1> HIDE DEF f
<1>12. /\ EcsTypeOK(f, n) /\ f.nGroups = IF e.nGroups <= k THEN k + 1 ELSE e.nGroups
       /\ \A d \in E : /\ f.group[d] = IF d = c THEN k ELSE e.group[d]
                       /\ f.repelems[d] = IF d = k THEN c ELSE e.repelems[d]
       /\ \A d \in E : /\ f.relems[d] = IF d = c THEN e.repelems[k] ELSE IF d = e.felems[c] THEN e.relems[c] ELSE e.relems[d]
                       /\ f.felems[d] = IF d = c THEN NIL ELSE IF d = e.repelems[k] THEN c
                             ELSE IF d = e.relems[c] THEN e.felems[c] ELSE e.felems[d]
  BY <1>11 DEF SetTo, E
<1>13. f.nGroups \in 1 .. n /\ \A d \in E : f.group[d] < f.nGroups
  <2>1. k \in Nat /\ k < n /\ e.nGroups \in 1 .. n /\ n \in Nat
    BY <1>1, <1>2 DEF E
  <2>2. f.nGroups \in 1 .. n /\ k < f.nGroups /\ e.nGroups <= f.nGroups
    BY ONLY <2>1, <1>12
  <2>3. \A d \in E : e.group[d] \in Nat /\ e.group[d] < e.nGroups
    BY <1>1 DEF E
  <2>4. \A d \in E : f.group[d] = IF d = c THEN k ELSE e.group[d]
    BY <1>12
  <2> QED BY ONLY <2>1, <2>2, <2>3, <2>4
<1>14. \E R : IsList(f, l, R)
  <2>1. \E R : Listed(f, n, l, m - 1, R)
    BY <1>2, <1>4, <1>6, <1>7, <1>10, <1>11, ListLeft DEF E
  <2> QED BY <2>1, <1>12, ListedIs
<1>15. \E R : IsList(f, k, R)
  <2>1. CASE \E L1 : IsList(e, k, L1)
    <3>1. PICK m1, L1 : Listed(e, n, k, m1, L1)
      BY <2>1, <1>1, ListedIs
    <3>2. \A d \in 0 .. n - 1 : d = e.felems[c] \/ d = e.relems[c] => e.group[d] # k
      BY <1>2, <1>8, <1>9, <1>n DEF E
    <3>3. \E R : Listed(f, n, k, m1 + 1, R)
      BY <1>2, <1>11, <3>1, <3>2, ListJoined DEF E, l
    <3> QED BY <3>3, <1>12, ListedIs
  <2>2. CASE e.repelems[k] = NIL /\ \A d \in E : e.group[d] # k
    <3>1. \E R : Listed(f, n, k, 1, R)
      BY <1>2, <1>11, <2>2, ListStarted DEF E
    <3> QED BY <3>1, <1>12, ListedIs
  <2> QED BY <2>1, <2>2, <1>1, <1>2 DEF E
<1>16. ASSUME NEW j \in E, j # k, j # l
       PROVE  \/ \E R : IsList(f, j, R)
              \/ f.repelems[j] = NIL /\ \A d \in E : f.group[d] # j
  <2>1. f.repelems[j] = e.repelems[j] /\ \A d \in E : (f.group[d] = j) <=> (e.group[d] = j)
    <3>1. e.group[c] # j
      BY <1>16 DEF l
    <3> QED BY <3>1, <1>12, <1>16
  <2>2. \A d \in E : e.group[d] = j => f.felems[d] = e.felems[d] /\ f.relems[d] = e.relems[d]
    <3> SUFFICES ASSUME NEW d \in E, e.group[d] = j PROVE f.felems[d] = e.felems[d] /\ f.relems[d] = e.relems[d]
      OBVIOUS
    <3>1. d # c /\ d # e.felems[c] /\ d # e.relems[c] /\ d # e.repelems[k]
      BY <1>8, <1>9, <1>10, <1>16, <1>n DEF l
    <3> QED BY <3>1, <1>12
  <2>3. CASE \E L1 : IsList(e, j, L1)
    <3>1. PICK L1 : IsList(e, j, L1)
      BY <2>3
    <3>2. IsList(f, j, L1)
      BY <1>1, <1>12, <2>1, <2>2, <3>1, IsListKept DEF E
    <3> QED BY <3>2
  <2>4. CASE e.repelems[j] = NIL /\ \A d \in E : e.group[d] # j
    BY <2>1, <2>4
  <2> QED BY <2>3, <2>4, <1>1, <1>16 DEF E
<1>17. \A j \in E : \/ \E R : IsList(f, j, R)
                    \/ f.repelems[j] = NIL /\ \A d \in E : f.group[d] # j
  BY <1>14, <1>15, <1>16
<1>18. Loose(f, n)
  BY <1>12, <1>13, <1>17 DEF Loose, E
<1> QED
  BY <1>18, <1>12 DEF f, E
-----------------------------------------------------------------------------
SameKernel(f, e, n) == \A c, d \in 0 .. n - 1 : f.group[c] = f.group[d] <=> e.group[c] = e.group[d]
Filled(e, k) == \A j \in 0 .. k - 1 : e.repelems[j] # NIL \/ j >= LastNonEmpty(e)

(* tidy: the last class that is not empty is one of those in use.          *)
LEMMA LastIs ==
    ASSUME NEW n \in Nat \ {0}, NEW e, Loose(e, n)
    PROVE  /\ LastNonEmpty(e) \in 0 .. e.nGroups - 1 /\ e.repelems[LastNonEmpty(e)] # NIL
           /\ \A j \in 0 .. e.nGroups - 1 : e.repelems[j] # NIL => j <= LastNonEmpty(e)
<1> DEFINE N == e.nGroups
           used == {k \in 0 .. N - 1 : e.repelems[k] # NIL}
           Top(k) == k \in used /\ \A l \in used : l <= k
<1>1. N \in 1 .. n /\ EcsTypeOK(e, n) /\ e.group[0] \in 0 .. N - 1 /\ 0 \in 0 .. n - 1
  BY DEF Loose, EcsTypeOK
<1>2. e.group[0] \in used
  <2>1. e.group[0] \in 0 .. n - 1
    BY <1>1
  <2>2. \E L : IsList(e, e.group[0], L)
    BY <1>1, <2>1 DEF Loose
  <2>3. e.repelems[e.group[0]] \in 0 .. n - 1
    BY <1>1, <2>2, IsListDefs
  <2> QED BY <1>1, <2>3 DEF NIL
<1> HIDE DEF N
<1>3. \E k : Top(k)
  <2> DEFINE S == {N - k : k \in used}
             t == Least(S)
  <2>1. N \in Nat /\ \A k \in used : k \in Int /\ N - k \in Nat
    BY <1>1
  <2>2. S \in SUBSET Nat /\ S # {}
    BY <2>1, <1>2
  <2> HIDE DEF S, used
  <2>3. t \in S /\ \A u \in S : t <= u
    BY <2>2, LeastIs
  <2>4. PICK k \in used : t = N - k
    BY <2>3 DEF S
  <2>5. \A l \in used : l <= k
    <3> SUFFICES ASSUME NEW l \in used PROVE l <= k
      OBVIOUS
    <3>1. N - l \in S /\ l \in Int /\ k \in Int
      BY <2>1 DEF S
    <3>2. N - k <= N - l
      BY <3>1, <2>3, <2>4
    <3> QED BY <3>1, <3>2, <2>1
  <2> QED BY <2>5
<1>4. LastNonEmpty(e) = CHOOSE k : Top(k)
  <2>1. LastNonEmpty(e) = CHOOSE k \in used : \A l \in used : l <= k
    BY <1>2 DEF LastNonEmpty, N
  <2> QED BY <2>1
<1>5. Top(LastNonEmpty(e))
  <2> HIDE DEF Top
  <2> QED BY <1>3, <1>4
<1> QED
  BY <1>5, <1>1 DEF N

(* tidy: an empty class takes the members of the last one; which members   *)
(* are together stays as it was.                                           *)
LEMMA MoveDownIs ==
    ASSUME NEW n \in Nat \ {0}, NEW e, Loose(e, n), NEW k \in 0 .. e.nGroups - 1
    PROVE  LET f == MoveDown(e, LastNonEmpty(e), k)
           IN  /\ Loose(f, n) /\ f.nGroups = e.nGroups /\ SameKernel(f, e, n)
               /\ Filled(e, k) => Filled(f, k + 1)
<1> DEFINE E == 0 .. n - 1
           B == {NIL} \union E
           last == LastNonEmpty(e)
           f == MoveDown(e, last, k)
<1>1. /\ last \in 0 .. e.nGroups - 1 /\ e.repelems[last] # NIL
      /\ \A j \in 0 .. e.nGroups - 1 : e.repelems[j] # NIL => j <= last
  BY LastIs
<1>2. /\ EcsTypeOK(e, n) /\ Elements(e) = E /\ e.nGroups \in 1 .. n /\ n \in Nat
      /\ e.group \in [E -> Nat] /\ e.felems \in [E -> B] /\ e.relems \in [E -> B] /\ e.repelems \in [E -> B]
      /\ \A d \in E : e.group[d] < e.nGroups
      /\ \A j \in E : \/ \E L : IsList(e, j, L)
                      \/ e.repelems[j] = NIL /\ \A d \in E : e.group[d] # j
  BY DEF Loose, EcsTypeOK, Elements
<1>n. NIL \notin E
  BY DEF NIL
<1>3. last \in E /\ k \in E /\ k \in Nat /\ last \in Nat
  BY <1>1, <1>2
<1> SUFFICES /\ Loose(f, n) /\ f.nGroups = e.nGroups /\ SameKernel(f, e, n)
             /\ Filled(e, k) => Filled(f, k + 1)
  OBVIOUS
<1>4. CASE k >= last \/ e.repelems[k] # NIL
  <2>1. f = e
    BY <1>4 DEF MoveDown
  <2>2. ASSUME Filled(e, k), NEW j \in 0 .. (k + 1) - 1 PROVE e.repelems[j] # NIL \/ j >= last
    <3>1. j = k \/ j \in 0 .. k - 1
      BY <1>3
    <3> QED BY <3>1, <2>2, <1>4 DEF Filled
  <2> HIDE DEF f, last
  <2>3. Filled(e, k) => Filled(e, k + 1)
    BY <2>2 DEF Filled, last
  <2> QED BY ONLY <2>1, <2>3, Loose(e, n) DEF SameKernel
<1>5. CASE k < last /\ e.repelems[k] = NIL
  <2>1. PICK L : IsList(e, last, L)
    BY <1>1, <1>2, <1>3
  <2>2. /\ Members(e, last) = L /\ e.repelems[last] = L[1]
        /\ e.repelems[last] \in E /\ e.group[e.repelems[last]] = last /\ Len(L) \in Nat
    BY <1>2, <2>1, MembersAre, IsListDefs
  <2>3. \A c \in E : c \in ToSet(L) <=> e.group[c] = last
    <3>1. L \in Seq(E)
      BY <1>2, <2>1, IsListDefs
    <3>2. DOMAIN L = 1 .. Len(L)
      BY <3>1
    <3>3. \A c \in E : c \in ToSet(L) <=> \E p \in 1 .. Len(L) : L[p] = c
      BY <3>2 DEF ToSet
    <3> QED BY <3>3, <2>1, <1>2 DEF IsList
  <2> DEFINE G == [c \in E |-> IF e.group[c] = last THEN k ELSE e.group[c]]
             P == [j \in E |-> IF j = last THEN NIL ELSE IF j = k THEN e.repelems[last] ELSE e.repelems[j]]
             G1 == [c \in Elements(e) |-> IF c \in ToSet(Members(e, last)) THEN k ELSE e.group[c]]
             P1 == [e.repelems EXCEPT ![k] = e.repelems[last], ![last] = NIL]
  <2>4. G1 = G
    BY <1>2, <2>2, <2>3
  <2>5. P1 = P
    <3> DEFINE h == e.repelems
    <3>1. h \in [E -> B]
      BY <1>2
    <3> HIDE DEF h, E, B, last
    <3>2. [h EXCEPT ![k] = h[last], ![last] = NIL]
             = [j \in E |-> IF j = last THEN NIL ELSE IF j = k THEN h[last] ELSE h[j]]
      BY <3>1, <1>3
    <3> QED BY <3>2 DEF h
  <2>6. f = [e EXCEPT !.group = G1, !.repelems = P1]
    <3>1. ~(k >= last \/ e.repelems[k] # NIL)
      BY <1>3, <1>5
    <3> QED BY <3>1 DEF MoveDown
  <2> HIDE DEF G1, P1
  <2>7. G \in [E -> Nat] /\ P \in [E -> B]
    <3>1. \A c \in E : (IF e.group[c] = last THEN k ELSE e.group[c]) \in Nat
      BY <1>2, <1>3
    <3>2. \A j \in E : (IF j = last THEN NIL ELSE IF j = k THEN e.repelems[last] ELSE e.repelems[j]) \in B
      BY <1>2, <1>3
    <3> QED BY <3>1, <3>2
  <2>8. /\ \A c \in E : G[c] = IF e.group[c] = last THEN k ELSE e.group[c]
        /\ \A j \in E : P[j] = IF j = last THEN NIL ELSE IF j = k THEN e.repelems[last] ELSE e.repelems[j]
    OBVIOUS
  <2> HIDE DEF G, P, f
  <2>9. f = [e EXCEPT !.group = G, !.repelems = P]
    BY ONLY <2>4, <2>5, <2>6
  <2>10. /\ EcsTypeOK(f, n) /\ f.group = G /\ f.repelems = P /\ f.felems = e.felems /\ f.relems = e.relems
         /\ f.nGroups = e.nGroups
    BY <1>2, <2>7, <2>9 DEF EcsTypeOK
  <2> HIDE DEF E, B, last
  <2>11. \A d \in E : f.group[d] < f.nGroups
    <3>1. k < e.nGroups
      BY <1>2, <1>3
    <3> QED BY <3>1, <1>2, <2>8, <2>10
  <2>12. \A d \in E : e.group[d] # k
    BY <1>2, <1>3, <1>5, <2>1, IsListDefs, <1>n DEF E
  <2>k. k # last
    BY <1>3, <1>5
  <2>13. IsList(f, k, L)
    <3>1. \A c \in E : (f.group[c] = k) <=> (e.group[c] = last)
      BY <2>8, <2>10, <2>12, <2>k
    <3>2. f.repelems[k] = e.repelems[last]
      BY <2>8, <2>10, <1>3, <2>k
    <3>3. Elements(f) = E /\ f.felems = e.felems /\ f.relems = e.relems
      BY <2>10 DEF EcsTypeOK, Elements, E
    <3> QED BY ONLY <3>1, <3>2, <3>3, <2>1, <1>2 DEF IsList
  <2>14. f.repelems[last] = NIL /\ \A d \in E : f.group[d] # last
    BY <2>8, <2>10, <1>3, <2>k
  <2>15. ASSUME NEW j \in E, j # k, j # last
         PROVE  \/ \E R : IsList(f, j, R)
                \/ f.repelems[j] = NIL /\ \A d \in E : f.group[d] # j
    <3>1. f.repelems[j] = e.repelems[j] /\ \A d \in E : (f.group[d] = j) <=> (e.group[d] = j)
      BY <2>8, <2>10, <2>15
    <3>2. ASSUME NEW R, IsList(e, j, R) PROVE IsList(f, j, R)
      <4>1. \A d \in 0 .. n - 1 : e.group[d] = j => f.felems[d] = e.felems[d] /\ f.relems[d] = e.relems[d]
        BY <2>10
      <4> QED BY <1>2, <2>10, <3>1, <3>2, <4>1, IsListKept DEF E
    <3> QED BY <3>1, <3>2, <1>2, <2>15
  <2>16. \A j \in E : \/ \E R : IsList(f, j, R)
                      \/ f.repelems[j] = NIL /\ \A d \in E : f.group[d] # j
    BY <2>13, <2>14, <2>15
  <2>17. Loose(f, n)
    BY <2>10, <2>11, <2>16, <1>2 DEF Loose, E
  <2>18. SameKernel(f, e, n)
    <3>1. \A c, d \in E : f.group[c] = f.group[d] <=> e.group[c] = e.group[d]
      BY <2>8, <2>10, <2>12
    <3> QED BY <3>1 DEF SameKernel, E
  <2>19. ASSUME Filled(e, k), NEW j \in 0 .. (k + 1) - 1 PROVE f.repelems[j] # NIL
    <3>1. CASE j = k
      BY <3>1, <2>2, <2>8, <2>10, <2>k, <1>3, <1>n
    <3>2. CASE j \in 0 .. k - 1
      <4>1. j < last /\ j \in E /\ j # k /\ j # last /\ j \in Nat
        BY <3>2, <1>2, <1>3, <1>5 DEF E
      <4>2. e.repelems[j] # NIL
        BY <4>1, <3>2, <2>19, <1>3 DEF Filled, last
      <4> QED BY <4>1, <4>2, <2>8, <2>10
    <3> QED BY <3>1, <3>2, <1>3
  <2>20. Filled(e, k) => Filled(f, k + 1)
    BY <2>19 DEF Filled
  <2> QED BY <2>10, <2>17, <2>18, <2>20
<1> QED BY <1>3, <1>4, <1>5
-----------------------------------------------------------------------------
(* After tidy no class is empty and the same members are together.         *)
LEMMA TidyIs ==
    ASSUME NEW n \in Nat \ {0}, NEW e, Loose(e, n)
    PROVE  Partition(Tidy(e), n) /\ SameKernel(Tidy(e), e, n)
<1> DEFINE N == e.nGroups
           E == 0 .. n - 1
           B == {NIL} \union E
           R == [group : [E -> Nat], felems : [E -> B], relems : [E -> B], repelems : [E -> B], nGroups : Nat]
           A == {f \in R : Loose(f, n) /\ f.nGroups = N /\ SameKernel(f, e, n)}
           down(f, k) == MoveDown(f, LastNonEmpty(f), k - 1)
           g == [p \in A \X (1 .. N) |-> down(p[1], p[2])]
           Is(f) == f = [k \in 0 .. N |-> IF k = 0 THEN e ELSE Then(f[k - 1], LAMBDA d : MoveDown(d, LastNonEmpty(d), k - 1))]
           moved == CHOOSE f : Is(f)
<1>1. N \in 1 .. n /\ n \in Nat
  BY DEF Loose
<1>2. e \in A
  BY DEF Loose, EcsTypeOK, SameKernel
<1> HIDE DEF N
<1>3. ASSUME NEW f \in A, NEW k \in 1 .. N
      PROVE  down(f, k) \in A /\ (Filled(f, k - 1) => Filled(down(f, k), k))
  <2>1. k - 1 \in 0 .. f.nGroups - 1 /\ k = (k - 1) + 1
    BY <1>1, <1>3
  <2>2. Loose(f, n) /\ f.nGroups = N /\ SameKernel(f, e, n)
    OBVIOUS
  <2>3. /\ Loose(down(f, k), n) /\ down(f, k).nGroups = f.nGroups /\ SameKernel(down(f, k), f, n)
        /\ Filled(f, k - 1) => Filled(down(f, k), k)
    BY <2>1, <2>2, MoveDownIs
  <2>4. SameKernel(down(f, k), e, n)
    BY <2>2, <2>3 DEF SameKernel
  <2>5. down(f, k) \in R
    BY <2>3 DEF Loose, EcsTypeOK
  <2> HIDE DEF down
  <2> QED BY <2>2, <2>3, <2>4, <2>5
<1>4. g \in [A \X (1 .. N) -> A] /\ \A f \in A, k \in 1 .. N : g[<<f, k>>] = down(f, k)
  <2> HIDE DEF A, down
  <2>1. \A p \in A \X (1 .. N) : down(p[1], p[2]) \in A
    BY <1>3
  <2> QED BY <2>1
<1> HIDE DEF A, g
<1>5. PICK h : DefinedBy(h, N, A, e, g)
  <2>1. N \in Nat /\ g \in [A \X (1 .. N) -> A]
    BY <1>1, <1>4
  <2> QED BY ONLY <2>1, <1>2, RecursionExists
<1>6. h \in [0 .. N -> A] /\ h[0] = e /\ \A k \in 1 .. N : h[k] = down(h[k - 1], k)
  <2>1. h \in [0 .. N -> A] /\ h[0] = e /\ \A k \in 1 .. N : h[k] = g[<<h[k - 1], k>>]
    BY <1>5 DEF DefinedBy
  <2>2. \A k \in 1 .. N : k - 1 \in 0 .. N
    BY <1>1
  <2>3. \A k \in 1 .. N : h[k - 1] \in A
    BY ONLY <2>1, <2>2
  <2>4. \A f \in A, k \in 1 .. N : g[<<f, k>>] = down(f, k)
    BY <1>4
  <2> HIDE DEF down
  <2> QED BY ONLY <2>1, <2>3, <2>4
<1>7. \A f, k : Then(f, LAMBDA d : MoveDown(d, LastNonEmpty(d), k - 1)) = down(f, k)
  BY DEF Then
<1> HIDE DEF down
<1>8. Is(h)
  <2>1. \A k \in 0 .. N : h[k] = IF k = 0 THEN e ELSE Then(h[k - 1], LAMBDA d : MoveDown(d, LastNonEmpty(d), k - 1))
    <3> SUFFICES ASSUME NEW k \in 0 .. N
                 PROVE  h[k] = IF k = 0 THEN e ELSE Then(h[k - 1], LAMBDA d : MoveDown(d, LastNonEmpty(d), k - 1))
      OBVIOUS
    <3>1. k # 0 => k \in 1 .. N
      BY <1>1
    <3> QED BY <3>1, <1>6, <1>7
  <2> QED BY <2>1, <1>6
<1>9. Is(moved)
  <2> HIDE DEF Is
  <2> QED BY <1>8
<1>10. /\ moved[0] = e /\ \A k \in 1 .. N : moved[k] = down(moved[k - 1], k)
  <2>1. \A k \in 0 .. N : moved[k] = IF k = 0 THEN e ELSE down(moved[k - 1], k)
    <3> HIDE DEF moved
    <3> QED BY <1>9, <1>7
  <2> HIDE DEF moved
  <2>2. 0 \in 0 .. N /\ \A k \in 1 .. N : k \in 0 .. N /\ k # 0
    BY <1>1
  <2> QED BY <2>1, <2>2
<1> HIDE DEF moved
<1> DEFINE T == {k \in 0 .. N : moved[k] \in A /\ Filled(moved[k], k)}
<1>11. 0 \in T
  <2>1. Filled(e, 0)
    BY DEF Filled
  <2> QED BY <2>1, <1>1, <1>2, <1>10
<1>12. \A i, j \in 0 .. N : i \in T /\ j = i + 1 => j \in T
  <2> SUFFICES ASSUME NEW i \in T, NEW j \in 0 .. N, j = i + 1 PROVE moved[j] \in A /\ Filled(moved[j], j)
    OBVIOUS
  <2>1. j \in 1 .. N /\ j - 1 = i
    BY <1>1
  <2> QED BY <2>1, <1>3, <1>10
<1>13. N \in T
  <2> HIDE DEF T
  <2>1. N \in Nat
    BY <1>1
  <2>2. 0 .. N \subseteq T
    BY ONLY <2>1, <1>11, <1>12, UpTo
  <2> QED BY <2>1, <2>2
<1> DEFINE f == moved[N]
           r == [f EXCEPT !.nGroups = LastNonEmpty(f) + 1]
<1>14. Loose(f, n) /\ f.nGroups = N /\ SameKernel(f, e, n) /\ Filled(f, N)
  BY <1>13 DEF A
<1>15. Tidy(e) = r
  <2>1. Tidy(e) = Then(moved[N], LAMBDA d : [d EXCEPT !.nGroups = LastNonEmpty(d) + 1])
    BY DEF Tidy, moved, N
  <2> QED BY <2>1 DEF Then
<1> HIDE DEF f
<1>16. /\ LastNonEmpty(f) \in 0 .. N - 1 /\ f.repelems[LastNonEmpty(f)] # NIL
       /\ \A j \in 0 .. N - 1 : f.repelems[j] # NIL => j <= LastNonEmpty(f)
  BY <1>14, LastIs
<1> DEFINE last == LastNonEmpty(f)
<1>17. /\ EcsTypeOK(f, n) /\ \A d \in E : f.group[d] \in Nat /\ f.group[d] < N
       /\ \A j \in E : \/ \E L : IsList(f, j, L)
                       \/ f.repelems[j] = NIL /\ \A d \in E : f.group[d] # j
  BY <1>14 DEF Loose, EcsTypeOK
<1>18. /\ EcsTypeOK(r, n) /\ r.nGroups = last + 1 /\ r.group = f.group /\ r.repelems = f.repelems
       /\ r.felems = f.felems /\ r.relems = f.relems
  <2>1. last + 1 \in Nat
    BY <1>16, <1>1
  <2> HIDE DEF last
  <2> QED BY <2>1, <1>17 DEF EcsTypeOK, last
<1> HIDE DEF r, last
<1>a. last \in 0 .. N - 1 /\ last \in Nat
  BY <1>16, <1>1 DEF last
<1>19. \A j, L : IsList(f, j, L) => IsList(r, j, L)
  BY <1>18 DEF IsList, Elements
<1>20. \A d \in E : r.group[d] < r.nGroups
  <2> SUFFICES ASSUME NEW d \in E PROVE f.group[d] <= last
    BY <1>17, <1>18, <1>a
  <2>1. f.group[d] \in E /\ f.group[d] \in 0 .. N - 1
    BY <1>1, <1>17
  <2>2. \E L : IsList(f, f.group[d], L)
    BY <2>1, <1>17
  <2>3. f.repelems[f.group[d]] \in E
    BY <2>2, <1>17, IsListDefs
  <2> QED BY <2>1, <2>3, <1>16 DEF NIL, last
<1>21. ASSUME NEW k \in 0 .. r.nGroups - 1 PROVE \E L : IsList(r, k, L)
  <2>1. k \in E /\ k \in 0 .. N - 1 /\ k <= last /\ k \in Nat
    BY <1>1, <1>18, <1>a
  <2>2. f.repelems[k] # NIL
    <3>1. CASE k = last
      BY <3>1, <1>16 DEF last
    <3>2. CASE k # last
      <4>1. ~(k >= last)
        BY <3>2, <2>1, <1>a
      <4> QED BY <4>1, <2>1, <1>14 DEF Filled, last
    <3> QED BY <3>1, <3>2
  <2> QED BY <2>1, <2>2, <1>17, <1>19
<1>22. ASSUME NEW k \in E, k >= r.nGroups PROVE r.repelems[k] = NIL
  <2>1. k >= last + 1 /\ k \in Nat
    BY <1>22, <1>18
  <2>2. CASE k \in 0 .. N - 1
    BY <2>1, <2>2, <1>16, <1>18, <1>a DEF last
  <2>3. CASE k \notin 0 .. N - 1
    <3>1. \A d \in E : f.group[d] # k
      BY <2>1, <2>3, <1>17, <1>1
    <3>2. ~ \E L : IsList(f, k, L)
      BY <3>1, <1>17, IsListDefs
    <3> QED BY <3>2, <1>17, <1>18, <1>22
  <2> QED BY <2>2, <2>3
<1>23. Partition(r, n)
  <2>1. r.nGroups \in 1 .. n
    BY <1>1, <1>18, <1>a
  <2> QED BY <2>1, <1>18, <1>20, <1>21, <1>22 DEF Partition
<1>24. SameKernel(r, e, n)
  BY <1>14, <1>18 DEF SameKernel
<1> QED
  BY <1>15, <1>23, <1>24 DEF r
-----------------------------------------------------------------------------
(* The table that is minimized; state 0 is none.                           *)
TableTyped ==
    /\ moves \in Seq([M -> 0 .. Len(moves)]) /\ moves # <<>>
    /\ accept \in Seq({0} \union Tokens) /\ Len(accept) = Len(moves)
    /\ startStates \in Seq(1 .. Len(moves)) /\ (startStates = <<>> \/ Len(startStates) = Len(parser))
AllStates == 0 .. Len(moves)

(* Two states are apart that no relation can keep together which keeps     *)
(* apart different tokens and what leads to states kept apart.             *)
Telling(P) ==
    /\ \A c, d \in AllStates : Token(c) # Token(d) => <<c, d>> \in P
    /\ \A c, d \in AllStates, m \in M : <<Goal(c, m), Goal(d, m)>> \in P => <<c, d>> \in P
Apart(c, d) == \A P \in SUBSET (AllStates \X AllStates) : Telling(P) => <<c, d>> \in P

(* No call of splitCharClass is wanted for a class and a character class.  *)
Agrees(e, k, m) == \A q \in AllStates : e.group[q] = k => e.group[Goal(q, m)] = e.group[Goal(e.repelems[k], m)]

(* A partition that is not too coarse for the tokens, and not too fine.    *)
Refined(e) ==
    /\ Partition(e, Len(moves) + 1)
    /\ \A c, d \in AllStates : e.group[c] = e.group[d] => Token(c) = Token(d)
    /\ \A c, d \in AllStates : e.group[c] # e.group[d] => Apart(c, d)

Swept(k, m) == k < at \/ (k = at /\ m < ch)
TokensInv ==
    /\ at \in 0 .. Len(moves) + 1 /\ \A x \in DOMAIN accept : accept[x] <= Len(moves)
    /\ Loose(ecs, Len(moves) + 1) /\ ecs.repelems[0] = 0
    /\ \A c \in AllStates : ecs.group[c] = IF c < at THEN Token(c) ELSE 0
SweepInv ==
    /\ Refined(ecs) /\ at \in 0 .. ecs.nGroups /\ ch \in 0 .. NumEquivs /\ (at = ecs.nGroups => ch = 0)
    /\ ~changed => \A k \in 0 .. ecs.nGroups - 1, m \in M : Swept(k, m) => Agrees(ecs, k, m)
MinInv ==
    /\ phase \in {"classes", "tokens", "sweep", "pack"} => TableTyped
    /\ phase # "sweep" => changed = FALSE
    /\ phase = "tokens" => TokensInv
    /\ phase = "sweep" => SweepInv
    /\ phase = "pack" => Refined(ecs) /\ \A k \in 0 .. ecs.nGroups - 1, m \in M : Agrees(ecs, k, m)

(* A partition is a list of classes some of which might be empty.          *)
LEMMA PartitionLoose ==
    ASSUME NEW n \in Nat, NEW e, Partition(e, n)
    PROVE  Loose(e, n)
<1>1. /\ EcsTypeOK(e, n) /\ e.nGroups \in 1 .. n /\ \A c \in 0 .. n - 1 : e.group[c] < e.nGroups
      /\ \A k \in 0 .. e.nGroups - 1 : \E L : IsList(e, k, L)
      /\ \A k \in 0 .. n - 1 : k >= e.nGroups => e.repelems[k] = NIL
  BY DEF Partition
<1>2. ASSUME NEW k \in 0 .. n - 1
      PROVE  (\E L : IsList(e, k, L)) \/ (e.repelems[k] = NIL /\ \A c \in 0 .. n - 1 : e.group[c] # k)
  <2>1. CASE k < e.nGroups
    <3>1. k \in 0 .. e.nGroups - 1
      BY <2>1, <1>1
    <3> QED BY <3>1, <1>1
  <2>2. CASE ~(k < e.nGroups)
    <3>1. k >= e.nGroups
      BY <2>2, <1>1
    <3>2. \A c \in 0 .. n - 1 : e.group[c] # k
      BY <2>2, <1>1
    <3> QED BY <3>1, <3>2, <1>1
  <2> QED BY <2>1, <2>2
<1> QED BY <1>1, <1>2 DEF Loose

(* Every member has a class in use and every class a representative in it. *)
LEMMA GroupsOf ==
    ASSUME NEW n \in Nat, NEW e, Partition(e, n)
    PROVE  /\ \A c \in 0 .. n - 1 : e.group[c] \in 0 .. e.nGroups - 1
           /\ \A k \in 0 .. e.nGroups - 1 :
                /\ e.repelems[k] \in 0 .. n - 1 /\ e.group[e.repelems[k]] = k
                /\ ToSet(Members(e, k)) = {c \in 0 .. n - 1 : e.group[c] = k}
<1>1. /\ EcsTypeOK(e, n) /\ e.nGroups \in 1 .. n /\ \A c \in 0 .. n - 1 : e.group[c] < e.nGroups
      /\ \A k \in 0 .. e.nGroups - 1 : \E L : IsList(e, k, L)
  BY DEF Partition
<1>2. \A c \in 0 .. n - 1 : e.group[c] \in 0 .. e.nGroups - 1
  BY <1>1 DEF EcsTypeOK
<1>3. ASSUME NEW k \in 0 .. e.nGroups - 1
      PROVE  /\ e.repelems[k] \in 0 .. n - 1 /\ e.group[e.repelems[k]] = k
             /\ ToSet(Members(e, k)) = {c \in 0 .. n - 1 : e.group[c] = k}
  <2>1. PICK L : IsList(e, k, L)
    BY <1>1
  <2>2. Members(e, k) = L /\ e.repelems[k] \in 0 .. n - 1 /\ e.group[e.repelems[k]] = k
    BY <1>1, <2>1, MembersAre, IsListDefs
  <2>3. /\ L \in Seq(0 .. n - 1)
        /\ \A i \in 1 .. Len(L) : L[i] \in 0 .. n - 1 /\ e.group[L[i]] = k
        /\ \A c \in 0 .. n - 1 : e.group[c] = k => \E i \in 1 .. Len(L) : L[i] = c
    <3>1. n \in Nat /\ EcsTypeOK(e, n)
      BY <1>1
    <3>2. L \in Seq(0 .. n - 1)
      BY ONLY <3>1, <2>1, IsListDefs
    <3>3. \A i \in 1 .. Len(L) : L[i] \in 0 .. n - 1 /\ e.group[L[i]] = k
      BY ONLY <3>1, <2>1, IsListDefs
    <3>4. \A c \in 0 .. n - 1 : e.group[c] = k => \E i \in 1 .. Len(L) : L[i] = c
      BY ONLY <3>1, <2>1, IsListDefs
    <3> QED BY ONLY <3>2, <3>3, <3>4
  <2>4. DOMAIN L = 1 .. Len(L)
    BY <2>3
  <2>5. \A c : c \in ToSet(L) <=> \E i \in 1 .. Len(L) : L[i] = c
    BY <2>4 DEF ToSet
  <2>6. ToSet(L) = {c \in 0 .. n - 1 : e.group[c] = k}
    BY ONLY <2>3, <2>5
  <2> QED BY <2>2, <2>6
<1> QED BY <1>2, <1>3

(* The moves of the table lead to states of the table.                     *)
LEMMA GoalsIn ==
    ASSUME TableTyped
    PROVE  /\ Len(moves) \in Nat /\ Len(moves) + 1 \in Nat \ {0} /\ AllStates = 0 .. (Len(moves) + 1) - 1 /\ 0 \in AllStates
           /\ \A q \in AllStates, m \in M : Goal(q, m) \in AllStates
<1>1. Len(moves) \in Nat /\ moves \in Seq([M -> 0 .. Len(moves)])
  BY DEF TableTyped
<1>2. \A q \in AllStates : q # 0 => moves[q] \in [M -> AllStates]
  BY <1>1 DEF AllStates
<1>3. 0 \in AllStates /\ AllStates = 0 .. (Len(moves) + 1) - 1
  BY <1>1 DEF AllStates
<1> QED
  BY <1>1, <1>2, <1>3 DEF Goal

(* The members of a class that go elsewhere than the representative; there *)
(* are none when the class agrees.                                         *)
LEMMA DisagreeingIs ==
    ASSUME TableTyped, Partition(ecs, Len(moves) + 1), NEW k \in 0 .. ecs.nGroups - 1, NEW m \in M
    PROVE  /\ \A q : q \in Disagreeing(k, m) <=>
                /\ q \in AllStates /\ ecs.group[q] = k
                /\ ecs.group[Goal(q, m)] # ecs.group[Goal(ecs.repelems[k], m)]
           /\ Disagreeing(k, m) = {} <=> Agrees(ecs, k, m)
<1>1. ToSet(Members(ecs, k)) = {c \in AllStates : ecs.group[c] = k}
  BY GoalsIn, GroupsOf
<1>2. Disagreeing(k, m) = {q \in AllStates : ecs.group[q] = k /\ ecs.group[Goal(q, m)] # ecs.group[Goal(ecs.repelems[k], m)]}
  BY <1>1 DEF Disagreeing
<1> QED
  BY <1>2 DEF Agrees

(* A split sets apart what is apart.                                       *)
LEMMA SplitRefines ==
    ASSUME TableTyped, Refined(ecs), NEW k \in 0 .. ecs.nGroups - 1, NEW m \in M,
           NEW e, e = SplitClass(ecs, k, Disagreeing(k, m))
    PROVE  /\ Refined(e) /\ e.nGroups >= ecs.nGroups
           /\ Disagreeing(k, m) = {} => /\ e.nGroups = ecs.nGroups
                                        /\ \A q \in AllStates : e.group[q] = ecs.group[q]
                                        /\ \A j \in 0 .. ecs.nGroups - 1 : e.repelems[j] = ecs.repelems[j]
<1> DEFINE n == Len(moves) + 1
           S == Disagreeing(k, m)
           rep == ecs.repelems[k]
<1>1. n \in Nat \ {0} /\ AllStates = 0 .. n - 1 /\ \A q \in AllStates : Goal(q, m) \in AllStates
  BY GoalsIn
<1>2. /\ Partition(ecs, n)
      /\ \A c, d \in AllStates : ecs.group[c] = ecs.group[d] => Token(c) = Token(d)
      /\ \A c, d \in AllStates : ecs.group[c] # ecs.group[d] => Apart(c, d)
  BY DEF Refined
<1>3. /\ \A c \in AllStates : ecs.group[c] \in 0 .. ecs.nGroups - 1
      /\ rep \in AllStates /\ ecs.group[rep] = k /\ ecs.nGroups \in Nat
  <2>1. /\ \A c \in 0 .. n - 1 : ecs.group[c] \in 0 .. ecs.nGroups - 1
        /\ rep \in 0 .. n - 1 /\ ecs.group[rep] = k
    BY <1>1, <1>2, GroupsOf
  <2>2. ecs.nGroups \in Nat
    BY <1>2 DEF Partition, EcsTypeOK
  <2> QED BY <2>1, <2>2, <1>1
<1>4. \A q : q \in S <=> q \in AllStates /\ ecs.group[q] = k /\ ecs.group[Goal(q, m)] # ecs.group[Goal(rep, m)]
  BY <1>2, DisagreeingIs
<1> HIDE DEF n
<1>5. Splits(e, ecs, n, k, S)
  BY <1>1, <1>2, SplitClassIs
<1> HIDE DEF S, rep
<1>6. rep \notin S
  BY <1>4
<1>7. \A c \in AllStates : Leaves(ecs, k, S, c) <=> c \in S
  BY <1>4, <1>6 DEF Leaves, rep
<1>8. /\ Partition(e, n) /\ \A c \in AllStates : e.group[c] = IF c \in S THEN ecs.nGroups ELSE ecs.group[c]
      /\ e.nGroups = IF \E c \in AllStates : c \in S THEN ecs.nGroups + 1 ELSE ecs.nGroups
      /\ \A j \in 0 .. ecs.nGroups - 1 : e.repelems[j] = ecs.repelems[j]
  BY <1>1, <1>5, <1>7 DEF Splits
<1>9. ASSUME NEW c \in AllStates, NEW d \in AllStates, e.group[c] = e.group[d] PROVE Token(c) = Token(d)
  <2>1. \A q \in AllStates : ecs.group[q] # ecs.nGroups
    BY <1>3
  <2>2. ecs.group[c] = ecs.group[d]
    BY <1>4, <1>8, <1>9, <2>1
  <2> QED BY <2>2, <1>2
<1>10. ASSUME NEW c \in AllStates, NEW d \in AllStates, e.group[c] # e.group[d], ecs.group[c] = ecs.group[d]
       PROVE  Apart(c, d)
  <2>1. ecs.group[Goal(c, m)] # ecs.group[Goal(d, m)]
    BY <1>4, <1>8, <1>10
  <2>2. Apart(Goal(c, m), Goal(d, m))
    BY <1>1, <1>2, <2>1
  <2> QED BY <2>2 DEF Apart, Telling
<1>11. \A c, d \in AllStates : e.group[c] # e.group[d] => Apart(c, d)
  BY <1>2, <1>10
<1>12. Refined(e)
  BY <1>8, <1>9, <1>11 DEF Refined, n
<1>13. e.nGroups >= ecs.nGroups
  BY <1>3, <1>8
<1>14. ASSUME S = {}
       PROVE  /\ e.nGroups = ecs.nGroups /\ \A q \in AllStates : e.group[q] = ecs.group[q]
  BY <1>8, <1>14
<1> QED
  BY <1>8, <1>12, <1>13, <1>14 DEF S
-----------------------------------------------------------------------------
MinVars == <<moves, accept, startStates, parser, input, equivs>>

(* What is said of a partition depends on the table alone.                 *)
LEMMA TableSame ==
    ASSUME UNCHANGED MinVars
    PROVE  /\ TableTyped' <=> TableTyped
           /\ M' = M /\ AllStates' = AllStates /\ NumEquivs' = NumEquivs
           /\ \A e : /\ Refined(e)' <=> Refined(e)
                     /\ \A k, m : Agrees(e, k, m)' <=> Agrees(e, k, m)
<1>1. UNCHANGED <<moves, accept, startStates, parser, input, equivs>>
  BY DEF MinVars
<1>2. M' = M /\ AllStates' = AllStates /\ NumEquivs' = NumEquivs /\ Tokens' = Tokens
  BY <1>1 DEF M, NumEquivs, AllStates, Tokens
<1>3. TableTyped' <=> TableTyped
  BY <1>1, <1>2 DEF TableTyped
<1>4. \A q : Token(q)' = Token(q) /\ \A m : Goal(q, m)' = Goal(q, m)
  BY <1>1 DEF Token, Goal
<1>5. \A P : Telling(P)' <=> Telling(P)
  BY <1>2, <1>4 DEF Telling
<1>6. \A c, d : Apart(c, d)' <=> Apart(c, d)
  BY <1>2, <1>5 DEF Apart
<1>7. \A e : Refined(e)' <=> Refined(e)
  BY <1>1, <1>2, <1>4, <1>6 DEF Refined
<1>8. \A e, k, m : Agrees(e, k, m)' <=> Agrees(e, k, m)
  BY <1>2, <1>4 DEF Agrees
<1> QED
  BY <1>2, <1>3, <1>7, <1>8

(* resolveConflictsNoContext leaves a table in its ranges.                 *)
LEMMA TableWithoutContext ==
    ASSUME EquivInv, Built, PostFacts, parser \in input.parsers, startStates = <<>>,
           CheckIdentities, ~input.context
    PROVE  TableTyped'
<1> DEFINE N == Len(moves)
           L == {0} \union Tokens
<1>1. /\ StatesAre /\ StatesTyped /\ MovesTyped /\ input \in Inputs
  BY BuiltIs DEF Built, BuildInv, EquivInv
<1>2. /\ accept' = [x \in States |-> DefaultAccept(x)]
      /\ UNCHANGED <<moves, input, equivs, parser, startStates>>
  BY DEF CheckIdentities, predVars
<1>3. M' = M /\ Tokens' = Tokens
  BY <1>2 DEF M, NumEquivs, Tokens
<1>4. IsFiniteSet(ParserStates)
  BY <1>1, ParserStatesFinite
<1>5. \A x \in States : /\ accepts[x] \in SUBSET Tokens
                        /\ accepts[x] \in SUBSET (Nat \ {0}) /\ IsFiniteSet(accepts[x])
  BY AcceptedTokens
<1>6. N \in Nat /\ N > 0 /\ States = 1 .. N
  BY <1>1 DEF StatesAre
<1>7. \A x \in 1 .. N : DefaultAccept(x) \in L
  BY <1>4, <1>5, <1>6, DefaultAcceptIn
<1>8. accept' = [x \in 1 .. N |-> DefaultAccept(x)]
  BY <1>2, <1>6
<1> HIDE DEF L
<1>9. moves \in Seq([M -> 0 .. N]) /\ moves # <<>>
  <2>1. moves \in Seq([M -> 0 .. N])
    BY <1>1 DEF MovesTyped
  <2>2. Len(<<>>) = 0
    OBVIOUS
  <2> QED BY <2>1, <2>2, <1>6
<1>10. accept' \in Seq(L) /\ Len(accept') = N
  <2> HIDE DEF N
  <2>1. accept' \in [1 .. N -> L]
    BY <1>7, <1>8
  <2> QED BY <2>1, <1>6
<1>11. startStates' \in Seq(1 .. N) /\ startStates' = <<>>
  BY <1>2
<1> QED
  BY <1>2, <1>3, <1>9, <1>10, <1>11 DEF TableTyped, L

(* So does resolveConflicts.                                               *)
LEMMA TableWithContext ==
    ASSUME EquivInv, EdgesInv, phase = "edges", EndOfCopies
    PROVE  TableTyped'
<1>1. UNCHANGED MinVars /\ Len(startStates) = Len(parser)
  BY DEF EndOfCopies, MinVars, lexVars, predVars
<1>2. LexTyped /\ BaseIs
  BY BaseHolds DEF EdgesInv
<1>3. moves # <<>>
  <2>1. 1 \in 1 .. Len(moves)
    BY <1>2 DEF BaseIs
  <2>2. Len(<<>>) = 0
    OBVIOUS
  <2> QED BY <2>1, <2>2
<1>4. TableTyped
  BY <1>1, <1>2, <1>3 DEF TableTyped, LexTyped
<1> QED
  BY <1>1, <1>4, TableSame

(* The classes by token: at the start every state is in class 0.           *)
LEMMA TokensStart ==
    ASSUME TableTyped, StartMinimize
    PROVE  TokensInv'
<1> DEFINE n == Len(moves) + 1
<1>1. /\ ecs' = AllInOne(n) /\ at' = 0 /\ UNCHANGED MinVars
      /\ \A x \in DOMAIN accept : accept[x] <= Len(moves)
  BY DEF StartMinimize, MinVars, lexVars, predVars
<1>2. n \in Nat \ {0} /\ AllStates = 0 .. n - 1 /\ Len(moves) \in Nat
  BY GoalsIn
<1>3. Partition(AllInOne(n), n) /\ \A c \in 0 .. n - 1 : AllInOne(n).group[c] = 0
  BY <1>2, AllInOnePartition
<1>4. Loose(AllInOne(n), n)
  BY <1>2, <1>3, PartitionLoose
<1>5. AllInOne(n).repelems[0] = 0
  BY <1>2 DEF AllInOne
<1>6. /\ at' \in 0 .. n /\ \A x \in DOMAIN accept' : accept'[x] <= Len(moves')
      /\ Len(moves') + 1 = n
  BY <1>1, <1>2 DEF MinVars
<1>7. \A c \in AllStates : ~(c < 0)
  BY <1>2
<1>8. AllStates' = AllStates
  BY <1>1, TableSame
<1> HIDE DEF n
<1>9. \A c \in AllStates' : ecs'.group[c] = IF c < at' THEN Token(c)' ELSE 0
  BY <1>1, <1>2, <1>3, <1>7, <1>8
<1>10. Loose(ecs', Len(moves') + 1) /\ ecs'.repelems[0] = 0
  BY <1>1, <1>4, <1>5, <1>6
<1> QED
  BY <1>6, <1>9, <1>10 DEF TokensInv

(* The classes by token: setChar puts one more state into the class of its *)
(* token.                                                                  *)
LEMMA TokensStep ==
    ASSUME input \in Inputs, TableTyped, TokensInv, ClassOfToken
    PROVE  TokensInv'
<1> DEFINE n == Len(moves) + 1
           k == Token(at)
<1>1. /\ at <= Len(moves) /\ ecs' = SetChar(ecs, at, k) /\ at' = at + 1 /\ UNCHANGED MinVars
  BY DEF ClassOfToken, MinVars, lexVars, predVars
<1>2. /\ at \in 0 .. n /\ \A x \in DOMAIN accept : accept[x] <= Len(moves)
      /\ Loose(ecs, n) /\ ecs.repelems[0] = 0
      /\ \A c \in AllStates : ecs.group[c] = IF c < at THEN Token(c) ELSE 0
  BY DEF TokensInv
<1>3. n \in Nat \ {0} /\ AllStates = 0 .. n - 1 /\ Len(moves) \in Nat
  BY GoalsIn
<1>4. at \in AllStates /\ ecs.group[at] = 0 /\ at \in Nat
  BY <1>1, <1>2, <1>3
<1>5. k \in AllStates
  <2>1. CASE at = 0
    BY <2>1, <1>4 DEF Token
  <2>2. CASE at # 0
    <3>1. at \in 1 .. Len(moves)
      BY <2>2, <1>1, <1>3, <1>4
    <3>2. DOMAIN accept = 1 .. Len(moves) /\ accept[at] \in {0} \union Tokens
      BY <3>1 DEF TableTyped
    <3>3. \A t \in {0} \union Tokens : t \in Nat
      BY InputsAssumption DEF Tokens
    <3>a. accept[at] <= Len(moves)
      BY ONLY <3>1, <3>2, <1>2
    <3>b. accept[at] \in Nat
      BY ONLY <3>2, <3>3
    <3>4. accept[at] <= Len(moves) /\ accept[at] \in Nat /\ k = accept[at]
      BY <3>a, <3>b, <2>2 DEF Token
    <3> QED BY <3>4, <1>3
  <2> QED BY <2>1, <2>2
<1>6. UNCHANGED <<moves, accept>> /\ AllStates' = AllStates /\ \A c : Token(c)' = Token(c)
  BY <1>1 DEF MinVars, AllStates, Token
<1>7. at' \in 0 .. n /\ Len(moves') + 1 = n /\ \A x \in DOMAIN accept' : accept'[x] <= Len(moves')
  BY <1>1, <1>2, <1>3, <1>4, <1>6
<1>8. \A c \in AllStates : c < at' <=> c < at \/ c = at
  BY <1>1, <1>3, <1>4
<1> HIDE DEF n, k
<1>9. /\ Loose(ecs', n) /\ ecs'.repelems[0] = 0
      /\ \A c \in AllStates : ecs'.group[c] = IF c = at THEN k ELSE ecs.group[c]
  <2>1. CASE k = 0
    <3>1. ecs' = ecs
      BY <2>1, <1>1, <1>4 DEF SetChar
    <3> QED BY <3>1, <2>1, <1>2, <1>4
  <2>2. CASE k # 0
    <3>1. at # 0
      BY <2>2 DEF k, Token
    <3>2. ecs.repelems[ecs.group[at]] # at /\ ecs.group[at] # k
      BY <3>1, <2>2, <1>2, <1>4
    <3>3. /\ Loose(ecs', n)
          /\ \A c \in 0 .. n - 1 : ecs'.group[c] = IF c = at THEN k ELSE ecs.group[c]
          /\ \A c \in 0 .. n - 1 : ecs'.repelems[c] = IF c = k THEN at ELSE ecs.repelems[c]
      <4>1. n \in Nat /\ at \in 0 .. n - 1 /\ k \in 0 .. n - 1 /\ Loose(ecs, n)
        BY <1>2, <1>3, <1>4, <1>5
      <4>2. ecs' = SetChar(ecs, at, k)
        BY <1>1
      <4> QED BY ONLY <3>2, <4>1, <4>2, SetCharLoose
    <3> QED BY <3>3, <2>2, <1>2, <1>3, GoalsIn
  <2> QED BY <2>1, <2>2
<1>10. \A c \in AllStates' : ecs'.group[c] = IF c < at' THEN Token(c)' ELSE 0
  <2> SUFFICES ASSUME NEW c \in AllStates PROVE ecs'.group[c] = IF c < at' THEN Token(c) ELSE 0
    BY <1>6
  <2> QED BY <1>2, <1>4, <1>8, <1>9 DEF k
<1>11. Loose(ecs', Len(moves') + 1) /\ at' \in 0 .. Len(moves') + 1
  BY <1>7, <1>9
<1> QED
  BY <1>7, <1>9, <1>10, <1>11 DEF TokensInv
-----------------------------------------------------------------------------
(* States with different tokens are apart.                                 *)
LEMMA DifferentTokensApart ==
    ASSUME NEW c \in AllStates, NEW d \in AllStates, Token(c) # Token(d)
    PROVE  Apart(c, d)
<1> SUFFICES ASSUME NEW P, Telling(P) PROVE <<c, d>> \in P
  BY DEF Apart
<1>1. \A x, y \in AllStates : Token(x) # Token(y) => <<x, y>> \in P
  BY DEF Telling
<1> QED
  BY <1>1

(* The first partition: after tidy two states are together exactly if they *)
(* have one token.                                                         *)
LEMMA SweepStart ==
    ASSUME EquivInv, TableTyped, TokensInv, changed = FALSE, ClassesTidy
    PROVE  SweepInv'
<1> DEFINE n == Len(moves) + 1
<1> PICK e : e = Tidy(ecs)
  OBVIOUS
<1>1. /\ at > Len(moves) /\ ecs' = e /\ at' = 0 /\ ch' = 0 /\ changed' = changed /\ UNCHANGED MinVars
  BY DEF ClassesTidy, MinVars, lexVars, predVars
<1>2. /\ at \in 0 .. n /\ Loose(ecs, n) /\ \A c \in AllStates : ecs.group[c] = IF c < at THEN Token(c) ELSE 0
  BY DEF TokensInv
<1>3. n \in Nat \ {0} /\ AllStates = 0 .. n - 1 /\ Len(moves) \in Nat
  BY GoalsIn
<1>4. \A c \in AllStates : ecs.group[c] = Token(c)
  <2>1. at = n
    BY <1>1, <1>2, <1>3
  <2>2. \A c \in 0 .. n - 1 : c < n
    BY <1>3
  <2> QED BY ONLY <2>1, <2>2, <1>2, <1>3
<1>5. Partition(e, n) /\ SameKernel(e, ecs, n)
  <2>1. n \in Nat \ {0} /\ Loose(ecs, n)
    BY <1>2, <1>3
  <2> QED BY ONLY <2>1, e = Tidy(ecs), TidyIs
<1> HIDE DEF n
<1>6. \A c, d \in AllStates : e.group[c] = e.group[d] <=> Token(c) = Token(d)
  BY <1>3, <1>4, <1>5 DEF SameKernel
<1>8. Refined(e)
  BY <1>5, <1>6, DifferentTokensApart DEF Refined, n
<1>9. Refined(ecs)'
  <2>1. Refined(e)'
    BY <1>1, <1>8, TableSame
  <2> QED BY <2>1, <1>1 DEF Refined
<1>10. e.nGroups \in Nat /\ e.nGroups > 0
  BY <1>3, <1>5 DEF Partition
<1>11. NumEquivs' = NumEquivs /\ M' = M /\ NumEquivs \in Nat
  BY <1>1, TableSame, NumEquivsIs
<1>12. \A k \in 0 .. ecs'.nGroups - 1, m \in M : ~Swept(k, m)'
  BY <1>1, <1>10, <1>11 DEF Swept, M
<1>13. at' \in 0 .. ecs'.nGroups /\ ch' \in 0 .. NumEquivs' /\ ch' = 0
  BY <1>1, <1>10, <1>11
<1> QED
  BY <1>9, <1>11, <1>12, <1>13 DEF SweepInv

(* A move of the sweep keeps its invariant.                                *)
LEMMA SweepMoveKeeps ==
    ASSUME EquivInv, TableTyped, SweepInv, SweepMove
    PROVE  SweepInv'
<1> PICK e : e = SplitClass(ecs, at, Disagreeing(at, ch))
  OBVIOUS
<1>1. /\ at < ecs.nGroups /\ ch < NumEquivs /\ ecs' = e /\ ch' = ch + 1 /\ at' = at /\ UNCHANGED MinVars
      /\ changed' = (changed \/ Disagreeing(at, ch) # {})
  BY DEF SweepMove, MinVars, lexVars, predVars
<1>2. /\ Refined(ecs) /\ at \in 0 .. ecs.nGroups /\ ch \in 0 .. NumEquivs
      /\ ~changed => \A k \in 0 .. ecs.nGroups - 1, m \in M : Swept(k, m) => Agrees(ecs, k, m)
  BY DEF SweepInv
<1>3. /\ Partition(ecs, Len(moves) + 1) /\ ecs.nGroups \in Nat /\ NumEquivs \in Nat
  BY <1>2, NumEquivsIs DEF Refined, Partition, EcsTypeOK
<1>4. at \in 0 .. ecs.nGroups - 1 /\ ch \in M /\ at \in Nat /\ ch \in Nat
  BY <1>1, <1>2, <1>3 DEF M
<1>5. /\ Refined(e) /\ e.nGroups >= ecs.nGroups
      /\ Disagreeing(at, ch) = {} => /\ e.nGroups = ecs.nGroups
                                     /\ \A q \in AllStates : e.group[q] = ecs.group[q]
                                     /\ \A j \in 0 .. ecs.nGroups - 1 : e.repelems[j] = ecs.repelems[j]
  BY <1>2, <1>4, SplitRefines
<1>6. Disagreeing(at, ch) = {} <=> Agrees(ecs, at, ch)
  BY <1>3, <1>4, DisagreeingIs
<1>7. Refined(ecs)'
  <2>1. Refined(e)'
    BY <1>1, <1>5, TableSame
  <2> QED BY <2>1, <1>1 DEF Refined
<1>8. M' = M /\ NumEquivs' = NumEquivs /\ \A k, m : Agrees(e, k, m)' <=> Agrees(e, k, m)
  BY <1>1, TableSame
<1>9. e.nGroups \in Nat
  BY <1>5 DEF Refined, Partition, EcsTypeOK
<1>10. at' \in 0 .. ecs'.nGroups /\ ch' \in 0 .. NumEquivs' /\ at' # ecs'.nGroups
  BY <1>1, <1>3, <1>4, <1>5, <1>8, <1>9
<1>11. ASSUME ~changed', NEW k \in 0 .. e.nGroups - 1, NEW m \in M, Swept(k, m)' PROVE Agrees(e, k, m)
  <2>1. Disagreeing(at, ch) = {} /\ ~changed
    BY <1>11, <1>1
  <2>2. /\ k \in 0 .. ecs.nGroups - 1 /\ \A q \in AllStates : e.group[q] = ecs.group[q]
        /\ e.repelems[k] = ecs.repelems[k]
    BY <2>1, <1>5
  <2>3. Swept(k, m) \/ (k = at /\ m = ch)
    BY <1>1, <1>4, <1>11 DEF Swept, M
  <2>4. Agrees(ecs, k, m)
    BY <2>1, <2>2, <2>3, <1>2, <1>6
  <2>5. ecs.repelems[k] \in AllStates /\ \A q \in AllStates : Goal(q, m) \in AllStates
    BY <2>2, <1>3, GoalsIn, GroupsOf
  <2>6. Goal(ecs.repelems[k], m) \in AllStates
    BY <2>5
  <2> QED BY <2>2, <2>4, <2>5, <2>6 DEF Agrees
<1>12. ~changed' => \A k \in 0 .. ecs'.nGroups - 1, m \in M' : Swept(k, m)' => Agrees(ecs, k, m)'
  <2> SUFFICES ASSUME ~changed', NEW k \in 0 .. e.nGroups - 1, NEW m \in M, Swept(k, m)' PROVE Agrees(ecs, k, m)'
    BY <1>1, <1>8
  <2>1. Agrees(e, k, m)'
    BY <1>8, <1>11
  <2> QED BY <2>1, <1>1 DEF Agrees
<1> QED
  BY <1>7, <1>10, <1>12 DEF SweepInv

(* So does going on to the next class.                                     *)
LEMMA SweepClassKeeps ==
    ASSUME EquivInv, TableTyped, SweepInv, SweepClass
    PROVE  SweepInv'
<1>1. /\ at < ecs.nGroups /\ ch = NumEquivs /\ ecs' = ecs /\ ch' = 0 /\ at' = at + 1 /\ UNCHANGED MinVars
      /\ changed' = changed
  BY DEF SweepClass, MinVars, lexVars, predVars
<1>2. /\ Refined(ecs) /\ at \in 0 .. ecs.nGroups
      /\ ~changed => \A k \in 0 .. ecs.nGroups - 1, m \in M : Swept(k, m) => Agrees(ecs, k, m)
  BY DEF SweepInv
<1>3. ecs.nGroups \in Nat /\ NumEquivs \in Nat
  BY <1>2, NumEquivsIs DEF Refined, Partition, EcsTypeOK
<1> PICK e : e = ecs
  OBVIOUS
<1>4. M' = M /\ NumEquivs' = NumEquivs /\ (Refined(e)' <=> Refined(e)) /\ \A k, m : Agrees(e, k, m)' <=> Agrees(e, k, m)
  BY <1>1, TableSame
<1>5. Refined(ecs)'
  <2>1. Refined(e)'
    BY <1>2, <1>4
  <2> QED BY <2>1, <1>1 DEF Refined
<1>6. \A k, m : Agrees(ecs, k, m)' <=> Agrees(ecs, k, m)
  <2>1. \A k, m : Agrees(e, k, m)' <=> Agrees(ecs, k, m)
    BY <1>4
  <2> QED BY <2>1, <1>1 DEF Agrees
<1>7. \A k \in 0 .. ecs.nGroups - 1, m \in M : Swept(k, m)' => Swept(k, m)
  BY <1>1, <1>2, <1>3 DEF Swept, M
<1>8. at' \in 0 .. ecs'.nGroups /\ ch' \in 0 .. NumEquivs' /\ ch' = 0
  BY <1>1, <1>2, <1>3, <1>4
<1>9. ~changed' => \A k \in 0 .. ecs'.nGroups - 1, m \in M' : Swept(k, m)' => Agrees(ecs, k, m)'
  BY <1>1, <1>2, <1>4, <1>6, <1>7
<1> QED
  BY <1>5, <1>8, <1>9 DEF SweepInv
-----------------------------------------------------------------------------
(* What the sweeps and the packing are left with depends on the table and  *)
(* on the classes only.                                                    *)
LEMMA ClassesSame ==
    ASSUME UNCHANGED MinVars, UNCHANGED ecs
    PROVE  /\ M' = M /\ NumEquivs' = NumEquivs /\ (TableTyped' <=> TableTyped) /\ (Refined(ecs)' <=> Refined(ecs))
           /\ \A k, m : Agrees(ecs, k, m)' <=> Agrees(ecs, k, m)
<1> PICK e : e = ecs
  OBVIOUS
<1>1. /\ M' = M /\ NumEquivs' = NumEquivs /\ (TableTyped' <=> TableTyped) /\ (Refined(e)' <=> Refined(e))
      /\ \A k, m : Agrees(e, k, m)' <=> Agrees(e, k, m)
  BY TableSame
<1>2. e = ecs /\ e = ecs'
  OBVIOUS
<1>3. Refined(ecs)' <=> Refined(e)'
  BY <1>2 DEF Refined
<1>4. \A k, m : Agrees(ecs, k, m)' <=> Agrees(e, k, m)'
  BY <1>2 DEF Agrees
<1> QED
  BY <1>1, <1>2, <1>3, <1>4

(* A sweep that has changed nothing leaves nothing to split.               *)
LEMMA SweepAgainIs ==
    ASSUME EquivInv, TableTyped, SweepInv, SweepAgain
    PROVE  /\ TableTyped' /\ changed' = FALSE /\ phase' \in {"sweep", "pack"}
           /\ phase' = "sweep" => SweepInv'
           /\ phase' = "pack" => /\ Refined(ecs)'
                                 /\ \A k \in 0 .. ecs'.nGroups - 1, m \in M' : Agrees(ecs, k, m)'
<1>1. /\ at = ecs.nGroups /\ changed' = FALSE /\ ch' = ch /\ ecs' = ecs /\ UNCHANGED MinVars
      /\ IF changed THEN phase' = "sweep" /\ at' = 0 ELSE phase' = "pack" /\ at' = at
  BY DEF SweepAgain, MinVars, lexVars, predVars
<1>2. /\ Refined(ecs) /\ ch = 0
      /\ ~changed => \A k \in 0 .. ecs.nGroups - 1, m \in M : Swept(k, m) => Agrees(ecs, k, m)
  BY <1>1 DEF SweepInv
<1>3. ecs.nGroups \in Nat /\ ecs.nGroups > 0 /\ NumEquivs \in Nat
  <2>1. Len(moves) + 1 \in Nat /\ Partition(ecs, Len(moves) + 1)
    BY <1>2, GoalsIn DEF Refined
  <2>2. ecs.nGroups \in 1 .. Len(moves) + 1
    BY <2>1 DEF Partition
  <2> QED BY <2>1, <2>2, NumEquivsIs
<1>4. /\ M' = M /\ NumEquivs' = NumEquivs /\ TableTyped' /\ Refined(ecs)'
      /\ \A k, m : Agrees(ecs, k, m)' <=> Agrees(ecs, k, m)
  BY <1>1, <1>2, ClassesSame
<1>5. ASSUME phase' = "sweep" PROVE SweepInv'
  <2>1. at' = 0 /\ ch' = 0
    BY <1>1, <1>2, <1>5
  <2>2. \A k \in 0 .. ecs'.nGroups - 1, m \in M' : ~Swept(k, m)'
    BY <2>1, <1>1, <1>3, <1>4 DEF Swept, M
  <2>3. at' \in 0 .. ecs'.nGroups /\ ch' \in 0 .. NumEquivs'
    BY <2>1, <1>1, <1>3, <1>4
  <2> QED BY <2>1, <2>2, <2>3, <1>4 DEF SweepInv
<1>6. ASSUME phase' = "pack" PROVE \A k \in 0 .. ecs'.nGroups - 1, m \in M' : Agrees(ecs, k, m)'
  <2>1. ~changed
    BY <1>1, <1>6
  <2>2. \A k \in 0 .. ecs.nGroups - 1, m \in M : Swept(k, m)
    BY <1>1, <1>3 DEF Swept
  <2> QED BY <2>1, <2>2, <1>1, <1>2, <1>4
<1> QED
  BY <1>1, <1>4, <1>5, <1>6

(* The invariant of the minimization: at the start.                        *)
LEMMA MinInvInit == Init => MinInv
BY DEF Init, LexInit, DfaInit, MinInv

(* Up to the minimization the invariant asks for the table alone.          *)
LEMMA MinInvLex ==
    ASSUME DfaInv, LexInv, MinInv, LexNext, UNCHANGED <<ecs, changed>>
    PROVE  MinInv'
<1>1. phase \in Early \union {"edges"} /\ changed = FALSE /\ changed' = FALSE
  <2>1. phase \in {"characters", "subsets", "predecessors", "parser", "edges"}
    BY DEF LexNext, DfaNext, AddCharClass, NextCharMove, StartConstruction, ConstructMove, ConstructNext,
           ComputeAccepts, FindPredecessors, BuildParser, CheckIdentities, CheckEdges, CopyStartState, EndOfCopies
  <2> QED BY <2>1 DEF MinInv, Early
<1>2. CASE DfaNext /\ UNCHANGED lexVars
  <2>1. phase' \in {"characters", "subsets", "predecessors"}
    BY <1>2 DEF DfaNext, AddCharClass, NextCharMove, StartConstruction, ConstructMove, ConstructNext, ComputeAccepts,
           FindPredecessors, dfaVars
  <2> QED BY <2>1, <1>1 DEF MinInv
<1>3. CASE BuildParser
  BY <1>1, <1>3 DEF BuildParser, MinInv
<1>4. CASE CheckIdentities
  <2>1. phase = "parser" /\ phase' = IF input.context THEN "edges" ELSE "classes"
    BY <1>4 DEF CheckIdentities
  <2>2. EquivInv /\ Built /\ PostFacts /\ parser \in input.parsers /\ startStates = <<>>
    BY <2>1 DEF DfaInv, LexInv, Built, Early
  <2>3. ~input.context => TableTyped'
    BY <2>2, <1>4, TableWithoutContext
  <2> QED BY <2>1, <2>3, <1>1 DEF MinInv
<1>5. CASE CheckEdges
  BY <1>1, <1>5 DEF CheckEdges, MinInv
<1>6. CASE CopyStartState
  BY <1>1, <1>6 DEF CopyStartState, dfaVars, MinInv
<1>7. CASE EndOfCopies
  <2>1. phase = "edges" /\ phase' = "classes"
    BY <1>7 DEF EndOfCopies
  <2>2. EquivInv /\ EdgesInv
    BY <2>1 DEF DfaInv, LexInv, EdgesPhase
  <2>3. TableTyped'
    BY <2>1, <2>2, <1>7, TableWithContext
  <2> QED BY <2>1, <2>3, <1>1 DEF MinInv
<1> QED
  BY <1>2, <1>3, <1>4, <1>5, <1>6, <1>7 DEF LexNext

(* The invariant of the minimization: every step keeps it.                 *)
LEMMA MinInvStep == DfaInv /\ LexInv /\ MinInv /\ [Next]_vars => MinInv'
<1> SUFFICES ASSUME DfaInv, LexInv, MinInv, [Next]_vars PROVE MinInv'
  OBVIOUS
<1>0. EquivInv /\ input \in Inputs
  BY DEF DfaInv, EquivInv
<1>1. CASE LexNext /\ UNCHANGED <<ecs, changed>>
  BY <1>1, MinInvLex
<1>2. CASE StartMinimize
  <2>1. phase = "classes" /\ phase' = "tokens" /\ changed' = changed /\ UNCHANGED MinVars
    BY <1>2 DEF StartMinimize, MinVars, lexVars, predVars
  <2>2. TableTyped /\ changed = FALSE
    BY <2>1 DEF MinInv
  <2>3. TableTyped' /\ TokensInv'
    BY <2>1, <2>2, <1>2, TokensStart, TableSame
  <2> QED BY <2>1, <2>2, <2>3 DEF MinInv
<1>3. CASE ClassOfToken
  <2>1. phase = "tokens" /\ phase' = "tokens" /\ changed' = changed /\ UNCHANGED MinVars
    BY <1>3 DEF ClassOfToken, MinVars, lexVars, predVars
  <2>2. TableTyped /\ changed = FALSE /\ TokensInv
    BY <2>1 DEF MinInv
  <2>3. TableTyped' /\ TokensInv'
    BY <2>1, <2>2, <1>0, <1>3, TokensStep, TableSame
  <2> QED BY <2>1, <2>2, <2>3 DEF MinInv
<1>4. CASE ClassesTidy
  <2>1. phase = "tokens" /\ phase' = "sweep" /\ UNCHANGED MinVars
    BY <1>4 DEF ClassesTidy, MinVars, lexVars, predVars
  <2>2. TableTyped /\ changed = FALSE /\ TokensInv
    BY <2>1 DEF MinInv
  <2>3. TableTyped' /\ SweepInv'
    BY <2>1, <2>2, <1>0, <1>4, SweepStart, TableSame
  <2> QED BY <2>1, <2>3 DEF MinInv
<1>5. CASE SweepMove
  <2>1. phase = "sweep" /\ phase' = "sweep" /\ UNCHANGED MinVars
    BY <1>5 DEF SweepMove, MinVars, lexVars, predVars
  <2>2. TableTyped /\ SweepInv
    BY <2>1 DEF MinInv
  <2>3. TableTyped' /\ SweepInv'
    BY <2>1, <2>2, <1>0, <1>5, SweepMoveKeeps, TableSame
  <2> QED BY <2>1, <2>3 DEF MinInv
<1>6. CASE SweepClass
  <2>1. phase = "sweep" /\ phase' = "sweep" /\ UNCHANGED MinVars
    BY <1>6 DEF SweepClass, MinVars, lexVars, predVars
  <2>2. TableTyped /\ SweepInv
    BY <2>1 DEF MinInv
  <2>3. TableTyped' /\ SweepInv'
    BY <2>1, <2>2, <1>0, <1>6, SweepClassKeeps, TableSame
  <2> QED BY <2>1, <2>3 DEF MinInv
<1>7. CASE SweepAgain
  <2>1. phase = "sweep"
    BY <1>7 DEF SweepAgain
  <2>2. TableTyped /\ SweepInv
    BY <2>1 DEF MinInv
  <2> QED BY <2>2, <1>0, <1>7, SweepAgainIs DEF MinInv
<1>8. CASE Pack
  <2>1. phase = "pack" /\ phase' = "done" /\ changed' = changed
    BY <1>8 DEF Pack
  <2> QED BY <2>1 DEF MinInv
<1>9. CASE UNCHANGED vars
  <2>1. UNCHANGED MinVars /\ UNCHANGED <<ecs, phase, at, ch, changed>>
    BY <1>9 DEF vars, predVars, dfaVars, lexVars, MinVars
  <2>2. /\ M' = M /\ NumEquivs' = NumEquivs /\ (TableTyped' <=> TableTyped) /\ (Refined(ecs)' <=> Refined(ecs))
        /\ \A k, m : Agrees(ecs, k, m)' <=> Agrees(ecs, k, m)
    BY <2>1, ClassesSame
  <2>3. \A k, m : Swept(k, m)' <=> Swept(k, m)
    BY <2>1 DEF Swept
  <2>4. SweepInv => SweepInv'
    BY <2>1, <2>2, <2>3 DEF SweepInv
  <2>5. TokensInv => TokensInv'
    <3>1. AllStates' = AllStates /\ \A c : Token(c)' = Token(c)
      BY <2>1 DEF MinVars, AllStates, Token
    <3> QED BY <3>1, <2>1 DEF TokensInv, MinVars
  <2> QED BY <2>1, <2>2, <2>4, <2>5 DEF MinInv
<1> QED
  BY <1>1, <1>2, <1>3, <1>4, <1>5, <1>6, <1>7, <1>8, <1>9 DEF Next

(* The invariants hold in every behaviour, that of the minimization among  *)
(* them.                                                                   *)
LEMMA MinInvAlways == Spec => [](DfaInv /\ LexInv /\ MinInv)
<1>1. Init => DfaInv /\ LexInv /\ MinInv
  BY DfaInvInit, LexInvInit, MinInvInit DEF Init, LexInit
<1>2. DfaInv /\ LexInv /\ MinInv /\ [Next]_vars => (DfaInv /\ LexInv /\ MinInv)'
  BY DfaInvStep, LexInvStep, MinInvStep
<1> QED
  BY <1>1, <1>2, PTL DEF Spec
-----------------------------------------------------------------------------
Groups == 0 .. ecs.nGroups - 1
RepGoal(k, m) == ecs.group[Goal(ecs.repelems[k], m)]
ByToken == {p \in Groups \X Groups : Token(ecs.repelems[p[1]]) # Token(ecs.repelems[p[2]])}
Before(D) == {p \in Groups \X Groups : \E m \in M : <<RepGoal(p[1], m), RepGoal(p[2], m)>> \in D}

(* The pairs of classes that some string leads to different tokens are     *)
(* closed against the moves.                                               *)
LEMMA DistinguishedIs ==
    ASSUME ecs.nGroups \in Nat
    PROVE  Distinguished \in SUBSET (Groups \X Groups) /\ ByToken \subseteq Distinguished /\ Before(Distinguished) \subseteq Distinguished
<1> DEFINE A == Groups \X Groups
           n == Cardinality(A)
           g == [B \in SUBSET A |-> B \union Before(B)]
           h == [p \in (SUBSET A) \X (1 .. n) |-> g[p[1]]]
           Is(f) == f = [i \in 0 .. n |-> IF i = 0 THEN ByToken ELSE Then(f[i - 1], LAMBDA D : D \union Before(D))]
           grown == CHOOSE f : Is(f)
<1>1. IsFiniteSet(A) /\ n \in Nat
  <2>1. 0 \in Int /\ ecs.nGroups - 1 \in Int
    OBVIOUS
  <2>2. IsFiniteSet(Groups)
    BY <2>1, FS_Interval DEF Groups
  <2> QED BY <2>2, FS_Product, FS_CardinalityType
<1>2. ByToken \in SUBSET A /\ \A B : Before(B) \in SUBSET A
  BY DEF ByToken, Before
<1> HIDE DEF A
<1>3. g \in [SUBSET A -> SUBSET A] /\ \A B \in SUBSET A : g[B] = B \union Before(B)
  BY <1>2
<1> HIDE DEF g, n
<1>4. h \in [(SUBSET A) \X (1 .. n) -> SUBSET A] /\ \A B \in SUBSET A, i \in 1 .. n : h[<<B, i>>] = g[B]
  BY <1>3
<1> HIDE DEF h
<1>5. PICK f : DefinedBy(f, n, SUBSET A, ByToken, h)
  BY <1>1, <1>2, <1>4, RecursionExists
<1>6. f \in [0 .. n -> SUBSET A] /\ f[0] = ByToken /\ \A i \in 1 .. n : i - 1 \in 0 .. n /\ f[i] = g[f[i - 1]]
  <2>1. f \in [0 .. n -> SUBSET A] /\ f[0] = ByToken /\ \A i \in 1 .. n : f[i] = h[<<f[i - 1], i>>]
    BY <1>5 DEF DefinedBy
  <2>2. \A i \in 1 .. n : i - 1 \in 0 .. n
    BY <1>1
  <2>3. \A i \in 1 .. n : f[i - 1] \in SUBSET A
    BY ONLY <2>1, <2>2
  <2> QED BY <2>1, <2>2, <2>3, <1>4
<1>7. \A x : Then(x, LAMBDA D : D \union Before(D)) = x \union Before(x)
  BY DEF Then
<1>8. Is(f)
  <2>1. \A i \in 0 .. n : f[i] = IF i = 0 THEN ByToken ELSE Then(f[i - 1], LAMBDA D : D \union Before(D))
    <3> SUFFICES ASSUME NEW i \in 0 .. n
                 PROVE  f[i] = IF i = 0 THEN ByToken ELSE Then(f[i - 1], LAMBDA D : D \union Before(D))
      OBVIOUS
    <3>1. ASSUME i # 0 PROVE f[i] = f[i - 1] \union Before(f[i - 1])
      <4>1. i \in 1 .. n
        BY <1>1, <3>1
      <4>2. f[i] = g[f[i - 1]] /\ i - 1 \in 0 .. n
        BY <4>1, <1>6
      <4>3. f[i - 1] \in SUBSET A
        BY ONLY <4>2, <1>6
      <4> QED BY <4>2, <4>3, <1>3
    <3> QED BY <3>1, <1>6, <1>7
  <2> QED BY <2>1, <1>6
<1>9. Is(grown)
  <2> HIDE DEF Is
  <2> QED BY <1>8
<1>10. grown[0] = ByToken /\ \A i \in 1 .. n : grown[i] = grown[i - 1] \union Before(grown[i - 1])
  <2>1. \A i \in 0 .. n : grown[i] = IF i = 0 THEN ByToken ELSE grown[i - 1] \union Before(grown[i - 1])
    <3> HIDE DEF grown
    <3> QED BY <1>9, <1>7
  <2> HIDE DEF grown
  <2>2. 0 \in 0 .. n /\ \A i \in 1 .. n : i \in 0 .. n /\ i # 0
    BY <1>1
  <2> QED BY <2>1, <2>2
<1>11. Distinguished = grown[n]
  BY DEF Distinguished, n, A, grown, Groups, ByToken, Before, RepGoal, M
<1> HIDE DEF grown, Is
<1> DEFINE T == {i \in 0 .. n : grown[i] \in SUBSET A}
<1>12. 0 .. n \subseteq T
  <2>1. 0 \in T
    BY <1>1, <1>2, <1>10
  <2>2. \A i, j \in 0 .. n : i \in T /\ j = i + 1 => j \in T
    <3> SUFFICES ASSUME NEW i \in T, NEW j \in 0 .. n, j = i + 1 PROVE grown[j] \in SUBSET A
      OBVIOUS
    <3>1. j \in 1 .. n /\ j - 1 = i
      BY <1>1
    <3> QED BY <3>1, <1>2, <1>10
  <2> HIDE DEF T
  <2> QED BY ONLY <1>1, <2>1, <2>2, UpTo
<1>13. \A i \in 1 .. n : grown[i] = g[grown[i - 1]]
  <2> SUFFICES ASSUME NEW i \in 1 .. n PROVE grown[i] = g[grown[i - 1]]
    OBVIOUS
  <2>1. i - 1 \in 0 .. n
    BY <1>1
  <2>2. grown[i - 1] \in SUBSET A
    BY <2>1, <1>12
  <2> QED BY <2>2, <1>3, <1>10
<1>14. Chain(grown, g, A, ByToken)
  <2>1. \A B \in SUBSET A : B \subseteq g[B]
    BY <1>3
  <2> QED BY <2>1, <1>2, <1>3, <1>10, <1>13 DEF Chain, n
<1>15. FixedPoint(grown[n], g, A, ByToken)
  BY <1>1, <1>14, ChainStops DEF n
<1>16. grown[n] \in SUBSET A /\ ByToken \subseteq grown[n] /\ g[grown[n]] = grown[n]
  BY <1>15 DEF FixedPoint
<1>17. Before(grown[n]) \subseteq grown[n]
  BY <1>16, <1>3
<1> QED
  BY <1>11, <1>16, <1>17 DEF A

(* The representatives of two classes are apart, and the pairs of states   *)
(* in distinguished classes tell apart all they must.                      *)
LEMMA ApartDistinguished ==
    ASSUME TableTyped, Refined(ecs), \A k \in Groups, m \in M : Agrees(ecs, k, m),
           NEW k \in Groups, NEW l \in Groups, k # l
    PROVE  <<k, l>> \in Distinguished
<1> DEFINE D == Distinguished
           P == {p \in AllStates \X AllStates : <<ecs.group[p[1]], ecs.group[p[2]]>> \in D}
<1>1. /\ Partition(ecs, Len(moves) + 1)
      /\ \A c, d \in AllStates : ecs.group[c] = ecs.group[d] => Token(c) = Token(d)
      /\ \A c, d \in AllStates : ecs.group[c] # ecs.group[d] => Apart(c, d)
  BY DEF Refined
<1>2. /\ \A c \in AllStates : ecs.group[c] \in Groups
      /\ \A j \in Groups : ecs.repelems[j] \in AllStates /\ ecs.group[ecs.repelems[j]] = j
      /\ ecs.nGroups \in Nat
  <2>1. ecs.nGroups \in Nat
    BY <1>1 DEF Partition, EcsTypeOK
  <2> QED BY <2>1, <1>1, GoalsIn, GroupsOf DEF Groups
<1>3. ByToken \subseteq D /\ Before(D) \subseteq D
  BY <1>2, DistinguishedIs
<1> HIDE DEF D
<1>4. \A c, d : <<c, d>> \in P <=> c \in AllStates /\ d \in AllStates /\ <<ecs.group[c], ecs.group[d]>> \in D
  OBVIOUS
<1>p. P \in SUBSET (AllStates \X AllStates)
  OBVIOUS
<1> HIDE DEF P
<1>5. ASSUME NEW c \in AllStates, NEW d \in AllStates, Token(c) # Token(d) PROVE <<c, d>> \in P
  <2> DEFINE i == ecs.group[c]
             j == ecs.group[d]
  <2>1. i \in Groups /\ j \in Groups
    BY <1>2
  <2>2. Token(ecs.repelems[i]) = Token(c) /\ Token(ecs.repelems[j]) = Token(d)
    BY <2>1, <1>1, <1>2
  <2>3. <<i, j>> \in ByToken
    <3> HIDE DEF i, j
    <3> QED BY <2>1, <2>2, <1>5 DEF ByToken
  <2> QED BY <2>3, <1>3, <1>4
<1>6. ASSUME NEW c \in AllStates, NEW d \in AllStates, NEW m \in M, <<Goal(c, m), Goal(d, m)>> \in P
      PROVE  <<c, d>> \in P
  <2> DEFINE i == ecs.group[c]
             j == ecs.group[d]
  <2>1. i \in Groups /\ j \in Groups
    BY <1>2
  <2>2. RepGoal(i, m) = ecs.group[Goal(c, m)] /\ RepGoal(j, m) = ecs.group[Goal(d, m)]
    BY <2>1 DEF Agrees, RepGoal
  <2>3. <<ecs.group[Goal(c, m)], ecs.group[Goal(d, m)]>> \in D
    BY <1>4, <1>6
  <2>4. <<i, j>> \in Before(D)
    <3> HIDE DEF i, j
    <3> QED BY <2>1, <2>2, <2>3 DEF Before
  <2> QED BY <2>4, <1>3, <1>4
<1>7. Telling(P)
  BY <1>5, <1>6 DEF Telling
<1>8. Apart(ecs.repelems[k], ecs.repelems[l])
  BY <1>1, <1>2
<1>9. <<ecs.repelems[k], ecs.repelems[l]>> \in P
  BY <1>p, <1>7, <1>8 DEF Apart
<1> QED
  BY <1>2, <1>4, <1>9 DEF D

(* ClassesAreEquivalence for every lexer: when DFA::minimize is done       *)
(* sweeping, the members of a class have one token and go to the same      *)
(* classes, and no two classes could be one.                               *)
THEOREM ClassesAreEquivalenceAlways == Spec => []ClassesAreEquivalence
<1>1. ASSUME DfaInv, MinInv, phase = "pack" PROVE ClassesAreEquivalence
  <2>1. TableTyped /\ Refined(ecs) /\ \A k \in Groups, m \in M : Agrees(ecs, k, m)
    BY <1>1 DEF MinInv, Groups
  <2>2. Partition(ecs, Len(moves) + 1) /\ \A c, d \in AllStates : ecs.group[c] = ecs.group[d] => Token(c) = Token(d)
    BY <2>1 DEF Refined
  <2>3. ASSUME NEW k \in 0 .. ecs.nGroups - 1, NEW q \in ToSet(Members(ecs, k))
        PROVE  /\ Token(q) = Token(ecs.repelems[k])
               /\ \A m \in 0 .. NumEquivs - 1 : q \notin Disagreeing(k, m)
    <3>1. /\ ecs.repelems[k] \in AllStates /\ ecs.group[ecs.repelems[k]] = k
          /\ ToSet(Members(ecs, k)) = {c \in AllStates : ecs.group[c] = k}
      BY <2>1, <2>2, GoalsIn, GroupsOf
    <3>2. Token(q) = Token(ecs.repelems[k])
      BY <3>1, <2>2
    <3>3. \A m \in M : Disagreeing(k, m) = {}
      BY <2>1, <2>2, DisagreeingIs DEF Groups
    <3> QED BY <3>2, <3>3 DEF M
  <2>4. \A k, l \in Groups : k # l => <<k, l>> \in Distinguished
    BY <2>1, ApartDistinguished
  <2> QED BY <2>3, <2>4 DEF ClassesAreEquivalence, Groups
<1>2. DfaInv /\ MinInv => ClassesAreEquivalence
  BY <1>1 DEF ClassesAreEquivalence
<1> QED
  BY <1>2, MinInvAlways, PTL
-----------------------------------------------------------------------------
(* The least elements of the classes, and how many there are below one.    *)
Leasts(e) == {c \in Elements(e) : \A d \in 0 .. c - 1 : e.group[d] # e.group[c]}
Number(e, c) == Cardinality({d \in Leasts(e) : d < c})
LeastOf(e, c) == CHOOSE d \in Leasts(e) : e.group[d] = e.group[c]

(* sortClasses renumbers the classes and leaves them what they are.        *)
Sorts(r, e, n) ==
    /\ r.nGroups = e.nGroups
    /\ \A c \in 0 .. n - 1 : r.group[c] \in 0 .. e.nGroups - 1
    /\ SameKernel(r, e, n)
    /\ \A k \in 0 .. e.nGroups - 1 : r.repelems[k] \in k .. n - 1 /\ r.group[r.repelems[k]] = k
    /\ r.group[0] = 0 /\ r.repelems[0] = 0
    /\ n > 1 /\ e.group[1] # e.group[0] => r.group[1] = 1

(* Every class has one least element.                                      *)
LEMMA LeastsAre ==
    ASSUME NEW n \in Nat \ {0}, NEW e, Partition(e, n)
    PROVE  /\ Leasts(e) \in SUBSET (0 .. n - 1)
           /\ \A c \in 0 .. n - 1 : LeastOf(e, c) \in Leasts(e) /\ e.group[LeastOf(e, c)] = e.group[c]
           /\ \A c, d \in Leasts(e) : e.group[c] = e.group[d] => c = d
           /\ IsFiniteSet(Leasts(e)) /\ Cardinality(Leasts(e)) = e.nGroups
<1> DEFINE E == 0 .. n - 1
           L == Leasts(e)
           N == e.nGroups
<1>1. /\ Elements(e) = E /\ N \in 1 .. n /\ \A c \in E : e.group[c] \in 0 .. N - 1
  BY GroupsOf DEF Partition, EcsTypeOK, Elements
<1>2. ASSUME NEW c \in E PROVE \E d \in L : e.group[d] = e.group[c]
  <2> DEFINE S == {d \in E : e.group[d] = e.group[c]}
             t == Least(S)
  <2>1. S \in SUBSET Nat /\ S # {}
    OBVIOUS
  <2>2. t \in S /\ \A u \in S : t <= u
    <3> HIDE DEF S
    <3> QED BY <2>1, LeastIs
  <2> HIDE DEF t
  <2>3. t \in E /\ e.group[t] = e.group[c] /\ \A u \in E : e.group[u] = e.group[c] => t <= u
    BY <2>2
  <2>4. \A d \in 0 .. t - 1 : d \in E /\ ~(t <= d)
    BY <2>3
  <2>5. t \in L
    BY <2>3, <2>4, <1>1 DEF Leasts
  <2> QED BY <2>3, <2>5
<1>3. ASSUME NEW c \in L, NEW d \in L, e.group[c] = e.group[d] PROVE c = d
  <2>1. c \in E /\ d \in E
    BY <1>1 DEF Leasts
  <2>2. c \notin 0 .. d - 1 /\ d \notin 0 .. c - 1
    BY <1>3 DEF Leasts
  <2> QED BY <2>1, <2>2
<1>4. L \in SUBSET E
  BY <1>1 DEF Leasts
<1>5. \A c \in E : LeastOf(e, c) \in L /\ e.group[LeastOf(e, c)] = e.group[c]
  BY <1>2 DEF LeastOf
<1>6. IsFiniteSet(E) /\ IsFiniteSet(L)
  <2>1. 0 \in Int /\ n - 1 \in Int
    OBVIOUS
  <2> HIDE DEF L
  <2> QED BY <2>1, <1>4, FS_Interval, FS_Subset
<1>7. Cardinality(L) = N
  <2> DEFINE f == [c \in L |-> e.group[c]]
             G == 0 .. N - 1
  <2> HIDE DEF L
  <2>1. f \in [L -> G]
    BY <1>1, <1>4
  <2>2. \A c, d \in L : f[c] = f[d] => c = d
    BY <1>3
  <2>3. ASSUME NEW k \in G PROVE \E c \in L : f[c] = k
    <3>1. e.repelems[k] \in E /\ e.group[e.repelems[k]] = k
      BY GroupsOf
    <3>2. PICK c \in L : e.group[c] = k
      BY <3>1, <1>2
    <3> QED BY <3>2
  <2> HIDE DEF f
  <2>4. f \in Bijection(L, G)
    <3>1. f \in Injection(L, G)
      BY <2>1, <2>2 DEF Injection, IsInjective
    <3>2. f \in Surjection(L, G)
      BY <2>1, <2>3 DEF Surjection
    <3> QED BY <3>1, <3>2 DEF Bijection
  <2>5. Cardinality(G) = Cardinality(L)
    BY <2>4, <1>6, FS_Bijection DEF ExistsBijection
  <2>6. Cardinality(G) = N
    <3>1. 0 \in Int /\ N - 1 \in Int /\ N - 1 - 0 + 1 = N /\ ~(0 > N - 1)
      BY <1>1
    <3> QED BY <3>1, FS_Interval
  <2> QED BY <2>5, <2>6
<1> QED
  BY <1>3, <1>4, <1>5, <1>6, <1>7

(* The numbers of the least elements count from 0 without a gap, and are   *)
(* no greater than the elements.                                           *)
LEMMA NumbersAre ==
    ASSUME NEW n \in Nat \ {0}, NEW e, Partition(e, n)
    PROVE  /\ \A c \in Leasts(e) : Number(e, c) \in 0 .. e.nGroups - 1 /\ Number(e, c) <= c
           /\ \A c, d \in Leasts(e) : Number(e, c) = Number(e, d) => c = d
           /\ \A k \in 0 .. e.nGroups - 1 : \E c \in Leasts(e) : Number(e, c) = k
           /\ 0 \in Leasts(e) /\ Number(e, 0) = 0
           /\ n > 1 /\ e.group[1] # e.group[0] => 1 \in Leasts(e) /\ Number(e, 1) = 1
<1> DEFINE L == Leasts(e)
           N == e.nGroups
           below(c) == {d \in L : d < c}
<1>1. L \in SUBSET (0 .. n - 1) /\ IsFiniteSet(L) /\ Cardinality(L) = N
  BY LeastsAre
<1>2. L \in SUBSET Nat /\ N \in 1 .. n
  BY <1>1 DEF Partition
<1>a. Elements(e) = 0 .. n - 1
  BY DEF Partition, EcsTypeOK, Elements
<1>c. N \in Nat
  BY <1>2
<1> HIDE DEF L, N
<1>3. Ranked(L)
  BY <1>1, <1>2, RanksAre
<1>4. ASSUME NEW c \in L
      PROVE  IsFiniteSet(below(c)) /\ Number(e, c) = Cardinality(below(c)) /\ Number(e, c) \in Nat /\ Rank(L, c) = Number(e, c) + 1
  <2>1. IsFiniteSet(below(c))
    BY <1>1, FS_Subset
  <2>2. c \notin below(c) /\ {y \in L : y <= c} = below(c) \union {c}
    <3>1. c \in Nat /\ \A y \in L : y \in Nat
      BY <1>2
    <3>2. ~(c < c) /\ \A y \in L : y <= c <=> y < c \/ y = c
      BY ONLY <3>1
    <3> QED BY <3>2
  <2>3. Number(e, c) = Cardinality(below(c))
    BY DEF Number, L
  <2> HIDE DEF below
  <2>4. Cardinality(below(c) \union {c}) = Cardinality(below(c)) + 1
    BY <2>1, <2>2, FS_AddElement
  <2>5. Cardinality(below(c)) \in Nat
    BY <2>1, FS_CardinalityType
  <2> QED BY <2>1, <2>2, <2>3, <2>4, <2>5 DEF Rank
<1>5. ASSUME NEW c \in L PROVE Number(e, c) \in 0 .. N - 1 /\ Number(e, c) <= c
  <2>1. Rank(L, c) \in 1 .. N
    BY <1>3, <1>1 DEF Ranked
  <2>2. Number(e, c) \in 0 .. N - 1
    <3>1. Number(e, c) \in Nat /\ Rank(L, c) = Number(e, c) + 1
      BY <1>4
    <3> QED BY ONLY <2>1, <3>1, <1>c
  <2>3. c \in Nat
    BY <1>2
  <2>4. below(c) \in SUBSET (0 .. c - 1)
    <3>1. \A y \in L : y \in Nat
      BY <1>2
    <3>2. \A y \in L : y < c => y \in 0 .. c - 1
      BY ONLY <2>3, <3>1
    <3> QED BY <3>2
  <2>5. IsFiniteSet(0 .. c - 1) /\ Cardinality(0 .. c - 1) = c
    <3> DEFINE b == c - 1
    <3>1. 0 \in Int /\ b \in Int /\ (0 > b => c = 0) /\ b - 0 + 1 = c
      BY ONLY <2>3
    <3> HIDE DEF b
    <3>2. IsFiniteSet(0 .. b) /\ Cardinality(0 .. b) = IF 0 > b THEN 0 ELSE b - 0 + 1
      BY ONLY <3>1, FS_Interval
    <3>3. Cardinality(0 .. b) = c
      BY ONLY <3>1, <3>2
    <3> QED BY <3>2, <3>3 DEF b
  <2>6. Cardinality(below(c)) <= c
    <3> HIDE DEF below
    <3> QED BY <2>4, <2>5, FS_Subset
  <2> QED BY <2>2, <2>6, <1>4
<1>6. ASSUME NEW c \in L, NEW d \in L, Number(e, c) = Number(e, d) PROVE c = d
  <2>1. Rank(L, c) = Rank(L, d)
    <3>1. Rank(L, c) = Number(e, c) + 1 /\ Rank(L, d) = Number(e, d) + 1
      BY <1>4
    <3> QED BY <3>1, <1>6
  <2> QED BY <2>1, <1>3 DEF Ranked
<1>7. ASSUME NEW k \in 0 .. N - 1 PROVE \E c \in L : Number(e, c) = k
  <2>1. k + 1 \in 1 .. N
    BY <1>2
  <2>2. PICK c \in L : Rank(L, c) = k + 1
    BY <2>1, <1>1, <1>3 DEF Ranked
  <2>3. Number(e, c) = k
    <3>1. Number(e, c) \in Nat /\ Rank(L, c) = Number(e, c) + 1
      BY <1>4
    <3>2. k \in Nat
      BY <1>c
    <3> QED BY ONLY <2>2, <3>1, <3>2
  <2> QED BY <2>3
<1>8. 0 \in L /\ Number(e, 0) = 0
  <2>1. 0 \in L
    BY <1>a DEF Leasts, L
  <2>2. Number(e, 0) <= 0 /\ Number(e, 0) \in 0 .. N - 1
    BY <2>1, <1>5
  <2> QED BY <2>1, <2>2, <1>2
<1>9. ASSUME n > 1, e.group[1] # e.group[0] PROVE 1 \in L /\ Number(e, 1) = 1
  <2>1. 1 \in L
    <3>1. \A d \in 0 .. 1 - 1 : d = 0
      OBVIOUS
    <3>2. 1 \in 0 .. n - 1
      BY <1>9
    <3> QED BY <3>1, <3>2, <1>9, <1>a DEF Leasts, L
  <2>2. Number(e, 1) \in 0 .. N - 1 /\ Number(e, 1) <= 1 /\ Number(e, 1) # 0
    BY <2>1, <1>5, <1>6, <1>8
  <2> QED BY <2>1, <2>2, <1>2
<1> QED
  BY <1>5, <1>6, <1>7, <1>8, <1>9 DEF L, N

(* sortClasses renumbers the classes by the least of their members.        *)
LEMMA SortClassesIs ==
    ASSUME NEW n \in Nat \ {0}, NEW e, Partition(e, n)
    PROVE  Sorts(SortClasses(e), e, n)
<1> DEFINE E == 0 .. n - 1
           L == Leasts(e)
           N == e.nGroups
           r == SortClasses(e)
<1>1. /\ L \in SUBSET E
      /\ \A c \in E : LeastOf(e, c) \in L /\ e.group[LeastOf(e, c)] = e.group[c]
      /\ \A c, d \in L : e.group[c] = e.group[d] => c = d
      /\ Cardinality(L) = N
  BY LeastsAre
<1>2. /\ \A c \in L : Number(e, c) \in 0 .. N - 1 /\ Number(e, c) <= c
      /\ \A c, d \in L : Number(e, c) = Number(e, d) => c = d
      /\ \A k \in 0 .. N - 1 : \E c \in L : Number(e, c) = k
      /\ 0 \in L /\ Number(e, 0) = 0
      /\ n > 1 /\ e.group[1] # e.group[0] => 1 \in L /\ Number(e, 1) = 1
  BY NumbersAre
<1>3. /\ Elements(e) = E /\ DOMAIN e.group = E /\ e.nGroups \in 1 .. n /\ 0 \in E
      /\ e \in [group : [E -> Nat], felems : [E -> {NIL} \union E], relems : [E -> {NIL} \union E],
                repelems : [E -> {NIL} \union E], nGroups : Nat]
  BY DEF Partition, EcsTypeOK, Elements
<1>4. /\ r.nGroups = N
      /\ r.group = [c \in E |-> Number(e, LeastOf(e, c))]
      /\ r.repelems = [k \in E |-> IF k < Cardinality(L) THEN CHOOSE d \in L : Number(e, d) = k ELSE e.repelems[k]]
  BY <1>3 DEF SortClasses, Leasts, Number, LeastOf
<1> HIDE DEF r, L
<1>a. \A c \in L : Number(e, c) \in 0 .. N - 1
  BY <1>2
<1>b. \A c \in E : LeastOf(e, c) \in L
  BY <1>1
<1>5. \A c \in E : r.group[c] = Number(e, LeastOf(e, c)) /\ r.group[c] \in 0 .. N - 1
  BY ONLY <1>a, <1>b, <1>4
<1>6. \A c \in L : LeastOf(e, c) = c
  BY <1>1
<1>7. \A c \in L : r.group[c] = Number(e, c)
  BY <1>1, <1>5, <1>6
<1>8. ASSUME NEW c \in E, NEW d \in E PROVE r.group[c] = r.group[d] <=> e.group[c] = e.group[d]
  <2>1. r.group[c] = r.group[d] <=> LeastOf(e, c) = LeastOf(e, d)
    <3>1. \A x, y \in L : Number(e, x) = Number(e, y) => x = y
      BY <1>2
    <3> QED BY ONLY <3>1, <1>b, <1>5, c \in E, d \in E
  <2>2. LeastOf(e, c) = LeastOf(e, d) <=> e.group[c] = e.group[d]
    BY <1>1
  <2> QED BY <2>1, <2>2
<1>9. ASSUME NEW k \in 0 .. N - 1
      PROVE  r.repelems[k] \in k .. n - 1 /\ r.group[r.repelems[k]] = k /\ r.repelems[k] \in L /\ Number(e, r.repelems[k]) = k
  <2>1. k \in E /\ k < Cardinality(L)
    BY <1>1, <1>3
  <2>2. r.repelems[k] = CHOOSE d \in L : Number(e, d) = k
    BY <2>1, <1>4
  <2>3. r.repelems[k] \in L /\ Number(e, r.repelems[k]) = k
    BY <2>2, <1>2
  <2>4. k <= r.repelems[k] /\ r.repelems[k] \in E /\ r.group[r.repelems[k]] = k
    <3>1. \A x \in L : Number(e, x) <= x
      BY <1>2
    <3>2. r.repelems[k] \in E
      BY ONLY <2>3, <1>1
    <3> QED BY ONLY <2>3, <3>1, <3>2, <1>7
  <2> QED BY <2>3, <2>4
<1>10. r.group[0] = 0 /\ r.repelems[0] = 0
  <2>1. 0 \in 0 .. N - 1
    BY <1>3
  <2> QED BY <2>1, <1>2, <1>7, <1>9
<1>11. n > 1 /\ e.group[1] # e.group[0] => r.group[1] = 1
  BY <1>2, <1>7
<1> QED
  BY <1>4, <1>5, <1>8, <1>9, <1>10, <1>11 DEF Sorts, SameKernel, r
-----------------------------------------------------------------------------
(* A state of the table, and what the packing makes of it.                 *)
StateOf(x) == [accept |-> accept[x], moves |-> moves[x]]
MadeFrom(e, state) == [accept |-> state.accept, moves |-> [m \in 0 .. NumEquivs - 1 |-> e.group[state.moves[m]]]]

(* No state is read after it is overwritten: class k is made from a state  *)
(* with no lesser number.                                                  *)
LEMMA PackedIs ==
    ASSUME Len(moves) \in Nat, DOMAIN moves = 1 .. Len(moves), NEW e, e.nGroups \in 1 .. Len(moves) + 1,
           \A k \in 0 .. e.nGroups - 1 : e.repelems[k] \in k .. Len(moves)
    PROVE  Packed(e) = [k \in 1 .. e.nGroups - 1 |-> MadeFrom(e, StateOf(e.repelems[k]))]
<1> DEFINE N == e.nGroups
           D == 1 .. Len(moves)
           base == [x \in DOMAIN moves |-> [accept |-> accept[x], moves |-> moves[x]]]
           made(t, k) == [t EXCEPT ![k] = MadeFrom(e, t[e.repelems[k]])]
           Is(f) == f = [k \in 0 .. N - 1 |-> IF k = 0 THEN base
                            ELSE Then(f[k - 1], LAMBDA t : [t EXCEPT ![k] = MadeFrom(e, t[e.repelems[k]])])]
           table == CHOOSE f : Is(f)
           h == [k \in 0 .. N - 1 |-> [x \in D |-> IF x <= k THEN MadeFrom(e, StateOf(e.repelems[x])) ELSE StateOf(x)]]
<1>1. \A t, k : Then(t, LAMBDA v : [v EXCEPT ![k] = MadeFrom(e, v[e.repelems[k]])]) = made(t, k)
  BY DEF Then
<1>2. N \in Nat /\ N > 0
  OBVIOUS
<1>3. h[0] = base
  <2>1. \A x \in D : ~(x <= 0)
    OBVIOUS
  <2>2. 0 \in 0 .. N - 1
    BY <1>2
  <2>3. h[0] = [x \in D |-> StateOf(x)]
    BY <2>1, <2>2
  <2> QED BY <2>3 DEF StateOf
<1>4. ASSUME NEW k \in 1 .. N - 1 PROVE h[k] = made(h[k - 1], k)
  <2> DEFINE j == k - 1
             g == h[j]
             rep == e.repelems[k]
  <2>1. k \in 0 .. N - 1 /\ j \in 0 .. N - 1 /\ k \in D /\ rep \in D /\ ~(rep <= j) /\ \A x \in D : x <= k <=> x <= j \/ x = k
    BY <1>2
  <2>2. ~(k <= j)
    BY <1>2
  <2> HIDE DEF D, j, rep
  <2>3. /\ g = [x \in D |-> IF x <= j THEN MadeFrom(e, StateOf(e.repelems[x])) ELSE StateOf(x)]
        /\ h[k] = [x \in D |-> IF x <= k THEN MadeFrom(e, StateOf(e.repelems[x])) ELSE StateOf(x)]
    BY <2>1
  <2> HIDE DEF g, h
  <2>4. g[rep] = StateOf(rep)
    BY <2>1, <2>3
  <2>5. made(g, k) = [x \in D |-> IF x = k THEN MadeFrom(e, StateOf(rep)) ELSE g[x]]
    BY <2>1, <2>3, <2>4 DEF rep
  <2>6. \A x \in D : (IF x = k THEN MadeFrom(e, StateOf(rep)) ELSE g[x])
                        = IF x <= k THEN MadeFrom(e, StateOf(e.repelems[x])) ELSE StateOf(x)
    BY <2>1, <2>2, <2>3 DEF rep
  <2>7. made(g, k) = h[k]
    BY <2>3, <2>5, <2>6
  <2> QED BY <2>7 DEF g, j
<1> HIDE DEF h, base, made
<1>5. Is(h)
  <2>1. \A k \in 0 .. N - 1 : h[k] = IF k = 0 THEN base
                ELSE Then(h[k - 1], LAMBDA t : [t EXCEPT ![k] = MadeFrom(e, t[e.repelems[k]])])
    <3> SUFFICES ASSUME NEW k \in 0 .. N - 1
                 PROVE  h[k] = IF k = 0 THEN base
                            ELSE Then(h[k - 1], LAMBDA t : [t EXCEPT ![k] = MadeFrom(e, t[e.repelems[k]])])
      OBVIOUS
    <3>1. k # 0 => k \in 1 .. N - 1
      BY <1>2
    <3>2. k # 0 => h[k] = made(h[k - 1], k)
      BY <3>1, <1>4
    <3>3. Then(h[k - 1], LAMBDA t : [t EXCEPT ![k] = MadeFrom(e, t[e.repelems[k]])]) = made(h[k - 1], k)
      BY <1>1
    <3> QED BY <3>2, <3>3, <1>3
  <2>2. h = [k \in 0 .. N - 1 |-> h[k]]
    BY DEF h
  <2> QED BY <2>1, <2>2
<1>6. Is(table)
  <2> HIDE DEF Is
  <2> QED BY <1>5
<1>7. table[0] = base /\ \A k \in 1 .. N - 1 : table[k] = made(table[k - 1], k)
  <2>1. \A k \in 0 .. N - 1 : table[k] = IF k = 0 THEN base
                ELSE Then(table[k - 1], LAMBDA t : [t EXCEPT ![k] = MadeFrom(e, t[e.repelems[k]])])
    <3> HIDE DEF table
    <3> QED BY <1>6
  <2> HIDE DEF table
  <2>2. 0 \in 0 .. N - 1 /\ \A k \in 1 .. N - 1 : k \in 0 .. N - 1 /\ k # 0
    BY <1>2
  <2>3. \A k \in 1 .. N - 1 : table[k] = Then(table[k - 1], LAMBDA t : [t EXCEPT ![k] = MadeFrom(e, t[e.repelems[k]])])
    BY <2>1, <2>2
  <2>4. table[0] = base
    BY <2>1, <2>2
  <2> QED BY <2>3, <2>4, <1>1
<1>8. Packed(e) = Then(table[N - 1], LAMBDA t : [k \in 1 .. N - 1 |-> t[k]])
  BY DEF Packed, table, N, base, MadeFrom
<1> HIDE DEF table, Is
<1> DEFINE T == {k \in 0 .. N - 1 : table[k] = h[k]}
<1>9. 0 .. N - 1 \subseteq T
  <2> DEFINE b == N - 1
  <2>1. 0 \in T
    BY <1>2, <1>3, <1>7
  <2>2. \A i, j \in 0 .. b : i \in T /\ j = i + 1 => j \in T
    <3> SUFFICES ASSUME NEW i \in T, NEW j \in 0 .. N - 1, j = i + 1 PROVE table[j] = h[j]
      OBVIOUS
    <3>1. j \in 1 .. N - 1 /\ j - 1 = i /\ table[i] = h[i]
      BY <1>2
    <3> QED BY <3>1, <1>4, <1>7
  <2>3. b \in Nat
    BY <1>2
  <2> HIDE DEF T, b
  <2>4. 0 .. b \subseteq T
    BY ONLY <2>1, <2>2, <2>3, UpTo
  <2> QED BY <2>4 DEF b
<1>10. table[N - 1] = h[N - 1] /\ N - 1 \in 0 .. N - 1
  BY <1>2, <1>9
<1>11. Packed(e) = [k \in 1 .. N - 1 |-> h[N - 1][k]]
  BY <1>8, <1>10 DEF Then
<1>12. \A k \in 1 .. N - 1 : h[N - 1][k] = MadeFrom(e, StateOf(e.repelems[k]))
  <2>1. \A k \in 1 .. N - 1 : k \in D /\ k <= N - 1
    BY <1>2
  <2> QED BY <2>1, <1>10 DEF h
<1> QED
  BY <1>11, <1>12
-----------------------------------------------------------------------------
(* From every state of the table a token can be reached: what has none and *)
(* is not left is the null state.                                          *)
Silent(Z) == \A x \in Z : Token(x) = 0 /\ \A m \in M : Goal(x, m) \in Z
NoDeadEnds == \A Z \in SUBSET AllStates : Silent(Z) => Z \subseteq {0}

(* No parser state has a move deleted or a token of its own where the      *)
(* state has no token at all.                                              *)
NothingDecided ==
    \A x \in States : accept[x] = 0 => /\ accepts[x] = {} /\ identity[x] = <<>>
                                       /\ \A m \in M : edgeRow[x][m] = <<>>

DeadInv ==
    /\ phase \in {"edges", "classes", "tokens", "sweep", "pack"} => NoDeadEnds /\ parser \in input.parsers
    /\ phase = "edges" => NothingDecided

(* The resolution of the conflicts starts without dead ends.               *)
LEMMA DeadStart ==
    ASSUME EquivInv, Built, ClassesExact, LeadsForward(input.nfa), parser \in input.parsers, CheckIdentities
    PROVE  NoDeadEnds' /\ (input.context => NothingDecided')
<1>1. /\ StatesAre /\ input \in Inputs /\ \A x \in States, m \in M : Constructed(x, m)
  BY BuiltIs DEF EquivInv
<1>2. /\ accept' = [x \in States |-> DefaultAccept(x)]
      /\ UNCHANGED <<moves, input, equivs, parser, startStates, nfaStates>>
      /\ input.context => \A x \in States : Cardinality(accepts[x]) > 1 => Status(x) # 0
      /\ input.context =>
            /\ identity' = [x \in States |->
                    IF Cardinality(accepts[x]) > 1 /\ Status(x) < 0 THEN IdentityRow(accepts[x]) ELSE <<>>]
            /\ accepts' = [x \in States |->
                    IF Cardinality(accepts[x]) > 1 /\ Status(x) >= 0 THEN {Status(x)} ELSE accepts[x]]
            /\ edgeRow' = [x \in States |-> [m \in Classes(x) |-> <<>>]]
  BY DEF CheckIdentities, predVars, DontCare
<1>3. M' = M /\ States' = States /\ AllStates' = AllStates
  BY <1>2 DEF M, NumEquivs, States, AllStates
<1>4. IsFiniteSet(ParserStates)
  BY <1>1, ParserStatesFinite
<1>5. ASSUME NEW x \in States, accepts[x] # {} PROVE accept'[x] # 0
  <2>1. accepts[x] \in SUBSET (Nat \ {0}) /\ IsFiniteSet(accepts[x])
    BY AcceptedTokens
  <2>2. Least(accepts[x]) \in accepts[x]
    BY <2>1, <1>5, LeastIs
  <2>3. accept'[x] = DefaultAccept(x)
    BY <1>2
  <2>4. CASE input.context /\ Cardinality(accepts[x]) > 1 /\ Status(x) >= 0
    BY <2>3, <2>4, <1>2, <1>5 DEF DefaultAccept
  <2>5. CASE ~(input.context /\ Cardinality(accepts[x]) > 1 /\ Status(x) >= 0)
    BY <2>1, <2>2, <2>3, <2>5, <1>5 DEF DefaultAccept
  <2> QED BY <2>4, <2>5
<1>6. ASSUME NEW Z \in SUBSET AllStates, Silent(Z)' PROVE Z \subseteq {0}
  <2> DEFINE Y == Z \ {0}
  <2>1. Y \in SUBSET States
    BY <1>1 DEF AllStates, StatesAre
  <2>2. ASSUME NEW x \in Y
        PROVE  accepts[x] = {} /\ \A m \in M : moves[x][m] # 0 => moves[x][m] \in Y
    <3>1. x \in Z /\ x # 0 /\ x \in States
      BY <2>1
    <3>2. Token(x)' = accept'[x] /\ \A m \in M : Goal(x, m)' = moves[x][m]
      BY <3>1, <1>2 DEF Token, Goal
    <3>3. Token(x)' = 0 /\ \A m \in M : Goal(x, m)' \in Z
      BY <3>1, <1>3, <1>6 DEF Silent
    <3>4. accept'[x] = 0 /\ \A m \in M : moves[x][m] \in Z
      BY <3>2, <3>3
    <3> QED BY <3>1, <3>4, <1>5
  <2> HIDE DEF Y
  <2>3. Y = {}
    BY <2>1, <2>2, NoSilentStates
  <2> QED BY <2>3 DEF Y
<1>7. NoDeadEnds'
  BY <1>3, <1>6 DEF NoDeadEnds
<1>8. ASSUME input.context, NEW x \in States, accept'[x] = 0
      PROVE  accepts'[x] = {} /\ identity'[x] = <<>> /\ \A m \in M : edgeRow'[x][m] = <<>>
  <2>1. accepts[x] = {} /\ Cardinality(accepts[x]) = 0
    BY <1>5, <1>8, FS_EmptySet
  <2>2. Classes(x) = M
    BY BuiltIs DEF Classes
  <2>3. ~(Cardinality(accepts[x]) > 1)
    BY <2>1
  <2>4. accepts'[x] = accepts[x] /\ identity'[x] = <<>> /\ edgeRow'[x] = [m \in Classes(x) |-> <<>>]
    BY <2>3, <1>2, <1>8
  <2> QED BY <2>1, <2>2, <2>4
<1>9. input.context => NothingDecided'
  BY <1>3, <1>8 DEF NothingDecided
<1> QED
  BY <1>7, <1>9

(* What keeps the table keeps it without dead ends.                        *)
LEMMA DeadSame ==
    ASSUME UNCHANGED MinVars
    PROVE  NoDeadEnds' <=> NoDeadEnds
<1>1. UNCHANGED <<moves, accept, startStates, parser, input, equivs>>
  BY DEF MinVars
<1>2. M' = M /\ AllStates' = AllStates
  BY <1>1 DEF M, NumEquivs, AllStates
<1>3. \A q : Token(q)' = Token(q) /\ \A m : Goal(q, m)' = Goal(q, m)
  BY <1>1 DEF Token, Goal
<1>4. \A Z : Silent(Z)' <=> Silent(Z)
  BY <1>2, <1>3 DEF Silent
<1> QED
  BY <1>2, <1>4 DEF NoDeadEnds

(* A move is deleted only where there is a token.                          *)
LEMMA DeadEdges ==
    ASSUME EquivInv, EdgesInv, NoDeadEnds, NothingDecided, CheckEdges
    PROVE  NoDeadEnds' /\ NothingDecided'
<1> DEFINE checked == IF accepts[at] = {} THEN {} ELSE {m \in Classes(at) : moves[at][m] # 0}
           status(m) == CollapseRow(EdgeRowOf(at, m))
<1>1. /\ at \in Base
      /\ edgeRow' = [edgeRow EXCEPT ![at] = [m \in Classes(at) |->
                IF m \in checked /\ status(m) = -1 THEN EdgeRowOf(at, m) ELSE <<>>]]
      /\ moves' = [moves EXCEPT ![at] = [m \in Classes(at) |->
                IF m \in checked /\ status(m) = Accept THEN 0 ELSE moves[at][m]]]
      /\ UNCHANGED <<nfaStates, accepts, input, equivs, accept, identity>>
  BY DEF CheckEdges
<1>2. LexTyped /\ BaseIs
  BY BaseHolds DEF EdgesInv
<1>3. /\ at \in States /\ States \subseteq 1 .. Len(moves) /\ DOMAIN moves = 1 .. Len(moves) /\ DOMAIN edgeRow = States
      /\ \A x \in 1 .. Len(moves) : Classes(x) = M
  BY <1>1, <1>2 DEF BaseIs, LexTyped
<1>4. M' = M /\ States' = States
  BY <1>1 DEF M, NumEquivs, States
<1> HIDE DEF checked, status
<1>5. /\ \A x : x \in DOMAIN moves /\ x # at => moves'[x] = moves[x] /\ (x \in States => edgeRow'[x] = edgeRow[x])
      /\ \A m \in M : moves'[at][m] = IF m \in checked /\ status(m) = Accept THEN 0 ELSE moves[at][m]
      /\ \A m \in M : edgeRow'[at][m] = IF m \in checked /\ status(m) = -1 THEN EdgeRowOf(at, m) ELSE <<>>
  BY <1>1, <1>3
<1>6. accept[at] = 0 => checked = {}
  BY <1>3 DEF NothingDecided, checked
<1>7. NothingDecided'
  <2> SUFFICES ASSUME NEW x \in States, accept[x] = 0
               PROVE  accepts[x] = {} /\ identity[x] = <<>> /\ \A m \in M : edgeRow'[x][m] = <<>>
    BY <1>1, <1>4 DEF NothingDecided
  <2>1. accepts[x] = {} /\ identity[x] = <<>> /\ \A m \in M : edgeRow[x][m] = <<>>
    BY DEF NothingDecided
  <2>2. \A m \in M : edgeRow'[x][m] = <<>>
    BY <2>1, <1>3, <1>5, <1>6
  <2> QED BY <2>1, <2>2
<1>8. AllStates' = AllStates
  <2>1. DOMAIN moves' = DOMAIN moves
    BY <1>1
  <2>2. moves' = [x \in 1 .. Len(moves) |-> moves'[x]]
    BY <1>1, <1>3
  <2>3. Len(moves') = Len(moves)
    <3>1. Len(moves) \in Nat
      BY <1>2 DEF BaseIs
    <3> QED BY <2>2, <3>1
  <2> QED BY <2>3 DEF AllStates
<1>9. ASSUME NEW Z \in SUBSET AllStates, Silent(Z)' PROVE Z \subseteq {0}
  <2>1. ASSUME NEW x \in Z PROVE Token(x) = 0 /\ \A m \in M : Goal(x, m) \in Z
    <3>1. Token(x)' = 0 /\ \A m \in M : Goal(x, m)' \in Z
      BY <1>4, <1>9 DEF Silent
    <3>2. Token(x) = 0
      BY <3>1, <1>1 DEF Token
    <3>3. \A m \in M : Goal(x, m)' = Goal(x, m)
      <4>1. CASE x = 0
        BY <4>1 DEF Goal
      <4>2. CASE x # 0
        <5>1. x \in DOMAIN moves
          BY <4>2, <1>2, <1>3 DEF AllStates, BaseIs
        <5>2. \A m \in M : moves'[x][m] = moves[x][m]
          <6>1. CASE x = at
            <7>1. checked = {}
              BY <6>1, <3>2, <4>2, <1>6 DEF Token
            <7> QED BY <6>1, <7>1, <1>5
          <6>2. CASE x # at
            BY <6>2, <5>1, <1>5
          <6> QED BY <6>1, <6>2
        <5> QED BY <5>2, <4>2 DEF Goal
      <4> QED BY <4>1, <4>2
    <3> QED BY <3>1, <3>2, <3>3
  <2>2. Silent(Z)
    BY <2>1 DEF Silent
  <2> QED BY <2>2 DEF NoDeadEnds
<1>10. NoDeadEnds'
  BY <1>8, <1>9 DEF NoDeadEnds
<1> QED
  BY <1>7, <1>10
-----------------------------------------------------------------------------
(* A copy has a dead end only where the original has one.                  *)
LEMMA DeadCopies ==
    ASSUME EquivInv, EdgesInv, NoDeadEnds, NothingDecided, CopyStartState
    PROVE  NoDeadEnds' /\ NothingDecided'
<1> DEFINE N == Len(moves)
<1>1. StatesTyped /\ LexTyped /\ PredFacts /\ EdgeFacts /\ TokenFacts /\ input \in Inputs /\ BaseIs
  BY BaseHolds DEF EdgesInv, EquivInv
<1>2. PICK s : s = Len(startStates) + 1
  OBVIOUS
<1> DEFINE n == Cardinality(Changed(s))
           C == Changed(s)
<1>3. /\ accept' = accept \o CopyAccepts(s) /\ moves' = moves \o CopyMoves(s)
      /\ UNCHANGED <<identity, edgeRow, nfaStates, accepts, equivs>> /\ Len(startStates) < Len(parser)
  BY <1>2, CopyStep
<1>4. s \in ParserStates
  <2>1. ParserStates = 1 .. Len(parser) /\ Len(parser) \in Nat /\ Len(startStates) \in Nat
    BY <1>1, ParserStatesFinite DEF LexTyped
  <2> QED BY <2>1, <1>2, <1>3
<1>5. Appended(s, n)
  BY <1>1, <1>3, <1>4, AppendedIs
<1>6. /\ n \in Nat /\ DOMAIN Order(s) = 1 .. n
      /\ \A q \in C : Rank(C, q) \in 1 .. n /\ Order(s)[Rank(C, q)] = q /\ Copied(s, N, q) = N + Rank(C, q)
  BY <1>1, OrderIs
<1>7. C \in SUBSET States /\ C \in SUBSET Nat /\ IsFiniteSet(C)
  BY <1>1, ChangedIs
<1>8. /\ N \in Nat /\ States \subseteq 1 .. N /\ 0 \notin States /\ AllStates = 0 .. N
      /\ \A x \in 1 .. N : moves[x] \in [M -> 0 .. N] /\ Classes(x) = M
      /\ \A x \in States, m \in M : moves[x][m] \in States \union {0}
  BY <1>1 DEF BaseIs, LexTyped, AllStates
<1>9. /\ Len(moves') = N + n
      /\ \A i \in 1 .. N : moves'[i] = moves[i] /\ accept'[i] = accept[i]
      /\ \A k \in 1 .. n : moves'[N + k] = CopyMoves(s)[k] /\ accept'[N + k] = CopyAccepts(s)[k]
  BY <1>5 DEF Appended
<1>10. M' = M /\ States' = States /\ AllStates' = 0 .. N + n
  BY <1>3, <1>9 DEF M, NumEquivs, States, AllStates
<1>11. ASSUME NEW q \in C
       PROVE  /\ accept'[Copied(s, N, q)] = AcceptFor(q, s)
              /\ \A m \in M : moves'[Copied(s, N, q)][m] = IF MoveFor(q, m, s) = 0 THEN 0 ELSE Copied(s, N, moves[q][m])
  <2> DEFINE k == Rank(C, q)
  <2>1. k \in 1 .. n /\ Order(s)[k] = q /\ Copied(s, N, q) = N + k /\ Classes(q) = M
    BY <1>6, <1>7, <1>8
  <2> HIDE DEF k
  <2>2. CopyAccepts(s)[k] = AcceptFor(q, s)
    BY <2>1, <1>6 DEF CopyAccepts
  <2>3. CopyMoves(s)[k] = [m \in M |-> IF MoveFor(q, m, s) = 0 THEN 0 ELSE Copied(s, N, moves[q][m])]
    BY <2>1, <1>6 DEF CopyMoves
  <2>4. moves'[Copied(s, N, q)] = CopyMoves(s)[k] /\ accept'[Copied(s, N, q)] = CopyAccepts(s)[k]
    BY <2>1, <1>9
  <2> QED BY <2>2, <2>3, <2>4
<1>a. States \subseteq AllStates /\ 0 \in AllStates
  BY <1>8
<1>b. C \subseteq States
  BY <1>7
<1> HIDE DEF N, n, C
<1>12. NothingDecided'
  BY <1>3, <1>8, <1>9, <1>10 DEF NothingDecided
<1>13. ASSUME NEW Z \in SUBSET AllStates', Silent(Z)' PROVE Z \subseteq {0}
  <2> DEFINE Y == Z \intersect AllStates
             W == {0} \union {q \in C : Copied(s, N, q) \in Z}
  <2>1. \A x \in Z : Token(x)' = 0 /\ \A m \in M : Goal(x, m)' \in Z
    BY <1>10, <1>13 DEF Silent
  <2>2. ASSUME NEW x \in Y PROVE Token(x) = 0 /\ \A m \in M : Goal(x, m) \in Y
    <3>1. CASE x = 0
      BY <3>1, <1>8 DEF Token, Goal
    <3>2. CASE x # 0
      <4>1. x \in 1 .. N
        BY <3>2, <1>8
      <4>2. Token(x) = 0
        BY <4>1, <2>1, <3>2, <1>9 DEF Token
      <4>3. \A m \in M : Goal(x, m)' = moves[x][m] /\ Goal(x, m) = moves[x][m] /\ moves[x][m] \in AllStates
        BY <4>1, <3>2, <1>8, <1>9 DEF Goal
      <4> QED BY <4>2, <4>3, <2>1
    <3> QED BY <3>1, <3>2
  <2>3. Y \subseteq {0}
    <3>1. Silent(Y) /\ Y \in SUBSET AllStates
      BY <2>2 DEF Silent
    <3> HIDE DEF Y
    <3> QED BY <3>1 DEF NoDeadEnds
  <2>4. ASSUME NEW q \in C, Copied(s, N, q) \in Z PROVE Token(q) = 0 /\ \A m \in M : Goal(q, m) \in W
    <3>1. q \in States /\ q # 0 /\ q \in 1 .. N
      BY <1>7, <1>8
    <3>2. Copied(s, N, q) # 0
      <4>1. Rank(C, q) \in 1 .. n /\ Copied(s, N, q) = N + Rank(C, q)
        BY <1>6 DEF N, C, n
      <4> QED BY <4>1, <1>6, <1>8
    <3>3. AcceptFor(q, s) = 0
      BY <3>2, <2>1, <2>4, <1>11 DEF Token
    <3>4. accept[q] = 0
      <4>1. Identity(q, s) \in Int
        BY <3>1, <1>1, <1>4 DEF TokenFacts
      <4> QED BY <4>1, <3>3 DEF AcceptFor
    <3>5. \A m \in M : edgeRow[q][m] = <<>>
      BY <3>1, <3>4 DEF NothingDecided
    <3>6. \A m \in M : MoveFor(q, m, s) = moves[q][m]
      BY <3>5 DEF MoveFor, Edge, DontCare, Accept
    <3>7. ASSUME NEW m \in M, moves[q][m] # 0 PROVE moves[q][m] \in W
      <4> DEFINE y == moves[q][m]
      <4>1. y \in States
        BY <3>1, <3>7, <1>8
      <4>2. Copied(s, N, y) \in Z
        <5>1. moves'[Copied(s, N, q)][m] = Copied(s, N, y)
          BY <3>6, <3>7, <1>11
        <5> PICK x : x = Copied(s, N, q)
          OBVIOUS
        <5>2. Goal(x, m)' \in Z
          BY <2>1, <2>4
        <5>3. Goal(x, m)' = moves'[x][m]
          BY <3>2 DEF Goal
        <5> QED BY <5>1, <5>2, <5>3
      <4>3. y \in C
        <5>1. y \notin C => Copied(s, N, y) = y
          BY DEF Copied, C
        <5>2. y \in AllStates /\ y # 0
          BY <4>1, <1>8, <1>a
        <5>3. ASSUME y \notin C PROVE FALSE
          <6> HIDE DEF y
          <6>1. y \in Y
            BY <5>1, <5>2, <5>3, <4>2
          <6> QED BY <6>1, <5>2, <2>3
        <5> QED BY <5>3
      <4> QED BY <4>2, <4>3
    <3>8. \A m \in M : Goal(q, m) = moves[q][m] /\ 0 \in W
      BY <3>1 DEF Goal
    <3> QED BY <3>1, <3>4, <3>7, <3>8 DEF Token
  <2>5. W \subseteq {0}
    <3>1. W \in SUBSET AllStates
      BY <1>a, <1>b
    <3>2. \A q \in W : Token(q) = 0 /\ \A m \in M : Goal(q, m) \in W
      BY <2>4 DEF Token, Goal
    <3> HIDE DEF W
    <3> QED BY <3>1, <3>2 DEF NoDeadEnds, Silent
  <2> SUFFICES ASSUME NEW z \in Z, z # 0 PROVE FALSE
    OBVIOUS
  <2>6. z \notin AllStates
    BY <2>3
  <2>7. z - N \in 1 .. n /\ N + (z - N) = z
    BY <2>6, <1>6, <1>8, <1>10 DEF n
  <2>8. Ranked(C)
    BY <1>7, RanksAre DEF C
  <2>9. PICK q \in C : Rank(C, q) = z - N
    BY <2>7, <2>8 DEF Ranked, n, C
  <2>10. Copied(s, N, q) = z
    BY <2>7, <2>9, <1>6 DEF N, C
  <2>11. q \in W /\ q \in States
    BY <2>9, <2>10, <1>7 DEF C
  <2> QED BY <2>5, <2>11, <1>8
<1>14. NoDeadEnds'
  BY <1>13 DEF NoDeadEnds
<1> QED
  BY <1>12, <1>14
-----------------------------------------------------------------------------
(* What packing makes of the table, by the numbers it gives the states:    *)
(* the null state keeps its own, the start state too, and the moves and    *)
(* tokens are those there were.                                            *)
Packs(g) ==
    /\ g \in [AllStates -> 0 .. Len(moves')] /\ \A q \in AllStates : g[q] = 0 <=> q = 0
    /\ 1 \in AllStates /\ g[1] = 1
    /\ \A q \in AllStates : q # 0 => accept'[g[q]] = accept[q] /\ \A m \in M : moves'[g[q]][m] = g[moves[q][m]]
    /\ startStates' = [s \in DOMAIN startStates |-> g[startStates[s]]]
    /\ moves' \in Seq([M -> 0 .. Len(moves')])
    /\ accept' \in Seq({0} \union Tokens) /\ Len(accept') = Len(moves')
    /\ UNCHANGED <<input, equivs, parser>>

(* A table whose states are all alone in their classes is left as it is.   *)
LEMMA PackedNothing ==
    ASSUME TableTyped, Pack, ecs.nGroups = Len(moves) + 1
    PROVE  \E g : Packs(g)
<1> DEFINE g == [q \in AllStates |-> q]
           F == [M -> 0 .. Len(moves)]
<1>1. UNCHANGED <<moves, accept, startStates, input, equivs, parser>>
  BY DEF Pack
<1>2. moves \in Seq(F) /\ moves # <<>> /\ startStates \in Seq(1 .. Len(moves))
  BY DEF TableTyped
<1>3. Len(moves) \in Nat /\ DOMAIN moves = 1 .. Len(moves) /\ Len(moves) > 0 /\ \A q \in 1 .. Len(moves) : moves[q] \in F
  <2> HIDE DEF F
  <2> QED BY <1>2
<1>4. 1 \in AllStates /\ g \in [AllStates -> 0 .. Len(moves)]
  BY <1>3 DEF AllStates
<1>5. \A q \in AllStates : q # 0 => q \in 1 .. Len(moves) /\ \A m \in M : moves[q][m] \in AllStates
  BY <1>3 DEF AllStates
<1>6. startStates = [s \in DOMAIN startStates |-> g[startStates[s]]]
  <2>1. \A s \in DOMAIN startStates : startStates[s] \in AllStates
    BY <1>2, <1>3 DEF AllStates
  <2>2. startStates = [s \in DOMAIN startStates |-> startStates[s]]
    BY <1>2
  <2> QED BY <2>1, <2>2
<1>7. \A q \in AllStates : g[q] = q
  OBVIOUS
<1> HIDE DEF g
<1>8. Packs(g)
  BY <1>1, <1>2, <1>4, <1>5, <1>6, <1>7 DEF Packs, TableTyped, F
<1> QED
  BY <1>8

(* The null state is alone in its class.                                   *)
LEMMA NullAlone ==
    ASSUME TableTyped, Refined(ecs), NoDeadEnds, \A k \in Groups, m \in M : Agrees(ecs, k, m)
    PROVE  /\ \A q \in AllStates : ecs.group[q] = ecs.group[0] => q = 0
           /\ \A q, d \in AllStates, m \in M : ecs.group[q] = ecs.group[d] => ecs.group[Goal(q, m)] = ecs.group[Goal(d, m)]
<1>1. /\ Partition(ecs, Len(moves) + 1)
      /\ \A c, d \in AllStates : ecs.group[c] = ecs.group[d] => Token(c) = Token(d)
  BY DEF Refined
<1>2. \A c \in AllStates : ecs.group[c] \in Groups
  BY <1>1, GoalsIn, GroupsOf DEF Groups
<1>3. 0 \in AllStates /\ \A q \in AllStates, m \in M : Goal(q, m) \in AllStates
  BY GoalsIn
<1>4. ASSUME NEW q \in AllStates, NEW d \in AllStates, NEW m \in M, ecs.group[q] = ecs.group[d]
      PROVE  ecs.group[Goal(q, m)] = ecs.group[Goal(d, m)]
  BY <1>2, <1>4 DEF Agrees
<1> DEFINE Z == {q \in AllStates : ecs.group[q] = ecs.group[0]}
<1>5. ASSUME NEW q \in Z PROVE Token(q) = 0 /\ \A m \in M : Goal(q, m) \in Z
  <2>1. Token(q) = Token(0) /\ \A m \in M : ecs.group[Goal(q, m)] = ecs.group[Goal(0, m)]
    BY <1>1, <1>3, <1>4
  <2> QED BY <2>1, <1>3 DEF Token, Goal
<1>6. Z \in SUBSET AllStates
  OBVIOUS
<1> HIDE DEF Z
<1>7. Z \subseteq {0}
  BY <1>5, <1>6 DEF NoDeadEnds, Silent
<1> QED
  BY <1>4, <1>7 DEF Z

(* The table packed by the sorted classes is the one there was, by the     *)
(* number of the class of a state.                                         *)
LEMMA PackedAll ==
    ASSUME EquivInv, TableTyped, Refined(ecs), NoDeadEnds, \A k \in Groups, m \in M : Agrees(ecs, k, m),
           Pack, ecs.nGroups # Len(moves) + 1
    PROVE  \E g : Packs(g)
<1> DEFINE n == Len(moves) + 1
           N == ecs.nGroups
<1> PICK r : r = SortClasses(ecs)
  OBVIOUS
<1> DEFINE g == [q \in AllStates |-> r.group[q]]
<1>1. /\ n \in Nat \ {0} /\ Len(moves) \in Nat /\ AllStates = 0 .. n - 1 /\ n - 1 = Len(moves)
      /\ \A q \in AllStates, m \in M : Goal(q, m) \in AllStates
  BY GoalsIn
<1>2. /\ Partition(ecs, n) /\ N \in 1 .. n
      /\ \A c, d \in AllStates : ecs.group[c] = ecs.group[d] => Token(c) = Token(d)
  BY DEF Refined, Partition
<1>a. moves \in Seq([M -> 0 .. Len(moves)]) /\ moves # <<>> /\ startStates \in Seq(1 .. Len(moves))
      /\ accept \in Seq({0} \union Tokens) /\ Len(accept) = Len(moves)
  BY DEF TableTyped
<1>b. DOMAIN moves = 1 .. Len(moves) /\ Len(moves) > 0 /\ DOMAIN accept = 1 .. Len(moves)
      /\ \A q \in 1 .. Len(moves) : accept[q] \in {0} \union Tokens
  <2> DEFINE F == [M -> 0 .. Len(moves)]
             L == {0} \union Tokens
  <2>1. moves \in Seq(F) /\ moves # <<>> /\ accept \in Seq(L) /\ Len(accept) = Len(moves)
    BY <1>a
  <2> HIDE DEF F, L
  <2>2. DOMAIN moves = 1 .. Len(moves) /\ Len(moves) > 0
    BY <2>1, <1>1
  <2>3. DOMAIN accept = 1 .. Len(moves) /\ \A q \in 1 .. Len(moves) : accept[q] \in L
    BY <2>1
  <2> QED BY <2>2, <2>3 DEF L
<1> HIDE DEF n, N
<1>3. Sorts(r, ecs, n)
  BY <1>1, <1>2, SortClassesIs
<1>4. /\ r.nGroups = N /\ r.group[0] = 0
      /\ \A c \in AllStates : r.group[c] \in 0 .. N - 1
      /\ \A c, d \in AllStates : r.group[c] = r.group[d] <=> ecs.group[c] = ecs.group[d]
      /\ \A k \in 0 .. N - 1 : r.repelems[k] \in k .. Len(moves) /\ r.group[r.repelems[k]] = k
      /\ n > 1 /\ ecs.group[1] # ecs.group[0] => r.group[1] = 1
  BY <1>1, <1>3 DEF Sorts, SameKernel, N
<1>k. \A c, d \in AllStates : r.group[c] = r.group[d] <=> ecs.group[c] = ecs.group[d]
  BY <1>4
<1>r. /\ r.nGroups = N /\ \A c \in AllStates : r.group[c] \in 0 .. N - 1
      /\ \A k \in 0 .. N - 1 : r.repelems[k] \in k .. Len(moves)
  BY <1>4
<1>5. /\ \A q \in AllStates : ecs.group[q] = ecs.group[0] => q = 0
      /\ \A q, d \in AllStates, m \in M : ecs.group[q] = ecs.group[d] => ecs.group[Goal(q, m)] = ecs.group[Goal(d, m)]
  BY NullAlone
<1>6. 0 \in AllStates /\ 1 \in AllStates /\ n > 1
  BY <1>1, <1>b
<1>7. \A q \in AllStates : r.group[q] = 0 <=> q = 0
  BY <1>4, <1>5, <1>6
<1>8. r.group[1] = 1
  BY <1>4, <1>5, <1>6
<1>9. N \in Nat /\ N > 1
  <2>1. N \in Nat
    BY <1>1, <1>2
  <2> QED BY <2>1, <1>4, <1>6, <1>8
<1> PICK table : table = Packed(r)
  OBVIOUS
<1>10. table = [k \in 1 .. N - 1 |-> MadeFrom(r, StateOf(r.repelems[k]))]
  <2>1. r.nGroups \in 1 .. Len(moves) + 1
    BY <1>2, <1>4 DEF n
  <2>2. \A k \in 0 .. r.nGroups - 1 : r.repelems[k] \in k .. Len(moves)
    BY ONLY <1>r
  <2>3. table = [k \in 1 .. r.nGroups - 1 |-> MadeFrom(r, StateOf(r.repelems[k]))]
    BY <2>1, <2>2, <1>1, <1>r, <1>b, PackedIs
  <2> QED BY ONLY <2>3, <1>r
<1>11. /\ moves' = [k \in DOMAIN table |-> table[k].moves] /\ accept' = [k \in DOMAIN table |-> table[k].accept]
       /\ startStates' = [s \in DOMAIN startStates |-> r.group[startStates[s]]]
       /\ UNCHANGED <<input, equivs, parser>>
  BY DEF Pack, Sorted
<1>12. \A k \in 1 .. N - 1 :
          /\ r.repelems[k] \in 1 .. Len(moves) /\ r.repelems[k] \in AllStates /\ r.group[r.repelems[k]] = k
          /\ moves'[k] = [m \in M |-> r.group[moves[r.repelems[k]][m]]] /\ accept'[k] = accept[r.repelems[k]]
  <2> SUFFICES ASSUME NEW k \in 1 .. N - 1
               PROVE  /\ r.repelems[k] \in 1 .. Len(moves) /\ r.repelems[k] \in AllStates /\ r.group[r.repelems[k]] = k
                      /\ moves'[k] = [m \in M |-> r.group[moves[r.repelems[k]][m]]]
                      /\ accept'[k] = accept[r.repelems[k]]
    OBVIOUS
  <2>1. k \in 0 .. N - 1 /\ k \in Nat /\ k > 0
    BY <1>9
  <2>2. r.repelems[k] \in k .. Len(moves) /\ r.group[r.repelems[k]] = k
    BY <2>1, <1>4
  <2>3. r.repelems[k] \in 1 .. Len(moves) /\ r.repelems[k] \in AllStates
    BY <2>1, <2>2, <1>1
  <2>4. table[k] = MadeFrom(r, StateOf(r.repelems[k])) /\ k \in DOMAIN table
    BY <1>10
  <2>5. moves'[k] = table[k].moves /\ accept'[k] = table[k].accept
    BY <2>4, <1>11
  <2> QED BY <2>2, <2>3, <2>4, <2>5 DEF MadeFrom, StateOf, M
<1>13. /\ DOMAIN moves' = 1 .. N - 1 /\ DOMAIN accept' = 1 .. N - 1
       /\ moves' = [k \in 1 .. N - 1 |-> moves'[k]] /\ accept' = [k \in 1 .. N - 1 |-> accept'[k]]
  <2>1. DOMAIN table = 1 .. N - 1
    BY <1>10
  <2> QED BY ONLY <2>1, <1>11
<1>14. \A q \in AllStates, m \in M : q # 0 => Goal(q, m) = moves[q][m] /\ Token(q) = accept[q]
  BY DEF Goal, Token
<1>15. \A k \in 1 .. N - 1 : moves'[k] \in [M -> 0 .. N - 1] /\ accept'[k] \in {0} \union Tokens
  <2> SUFFICES ASSUME NEW k \in 1 .. N - 1 PROVE moves'[k] \in [M -> 0 .. N - 1] /\ accept'[k] \in {0} \union Tokens
    OBVIOUS
  <2> PICK p : p = r.repelems[k]
    OBVIOUS
  <2>1. p \in AllStates /\ p # 0 /\ p \in 1 .. Len(moves) /\ moves'[k] = [m \in M |-> r.group[moves[p][m]]] /\ accept'[k] = accept[p]
    BY <1>12
  <2>2. \A m \in M : moves[p][m] \in AllStates
    BY <2>1, <1>1, <1>14
  <2>3. \A m \in M : r.group[moves[p][m]] \in 0 .. N - 1
    BY <2>2, <1>4
  <2> QED BY <2>1, <2>3, <1>b
<1>16. /\ moves' \in Seq([M -> 0 .. Len(moves')]) /\ Len(moves') = N - 1
       /\ accept' \in Seq({0} \union Tokens) /\ Len(accept') = Len(moves')
  <2> DEFINE F == [M -> 0 .. N - 1]
             L == {0} \union Tokens
             b == N - 1
  <2>1. \A k \in 1 .. b : moves'[k] \in F /\ accept'[k] \in L
    BY <1>15
  <2>2. b \in Nat
    BY <1>9
  <2> HIDE DEF F, L
  <2>3. moves' \in [1 .. b -> F] /\ accept' \in [1 .. b -> L]
    BY <2>1, <1>13
  <2> HIDE DEF b
  <2>4. moves' \in Seq(F) /\ Len(moves') = b /\ accept' \in Seq(L) /\ Len(accept') = b
    BY <2>2, <2>3
  <2> QED BY <2>4 DEF F, L, b
<1>17. g \in [AllStates -> 0 .. Len(moves')] /\ \A q \in AllStates : g[q] = r.group[q]
  BY <1>4, <1>16
<1>18. \A s \in DOMAIN startStates : startStates[s] \in AllStates
  BY <1>a, <1>1
<1> HIDE DEF g
<1>19. startStates' = [s \in DOMAIN startStates |-> g[startStates[s]]]
  BY <1>11, <1>17, <1>18
<1>20. ASSUME NEW q \in AllStates, q # 0
       PROVE  accept'[g[q]] = accept[q] /\ \A m \in M : moves'[g[q]][m] = g[moves[q][m]]
  <2> PICK k : k = g[q]
    OBVIOUS
  <2> PICK p : p = r.repelems[k]
    OBVIOUS
  <2>a. \A x \in AllStates : g[x] = r.group[x]
    BY <1>17
  <2>1. k = r.group[q] /\ k \in 1 .. N - 1
    <3>1. k = r.group[q] /\ k \in 0 .. N - 1 /\ k # 0
      BY ONLY <2>a, k = g[q], q \in AllStates, q # 0, <1>r, <1>7
    <3> QED BY ONLY <3>1, <1>9
  <2>2. /\ p \in AllStates /\ p # 0 /\ r.group[p] = k
        /\ moves'[k] = [m \in M |-> r.group[moves[p][m]]] /\ accept'[k] = accept[p]
    <3>1. /\ p \in AllStates /\ p \in 1 .. Len(moves) /\ r.group[p] = k
          /\ moves'[k] = [m \in M |-> r.group[moves[p][m]]] /\ accept'[k] = accept[p]
      BY ONLY <2>1, p = r.repelems[k], <1>12
    <3>2. p \in 1 .. Len(moves) /\ Len(moves) \in Nat
      BY ONLY <3>1, <1>1
    <3>3. p # 0
      BY ONLY <3>2
    <3> QED BY ONLY <3>1, <3>3
  <2>3. ecs.group[q] = ecs.group[p]
    BY ONLY <2>1, <2>2, q \in AllStates, <1>k
  <2>4. accept[p] = accept[q]
    BY <2>2, <2>3, <1>2, <1>20 DEF Token
  <2>5. ASSUME NEW m \in M PROVE moves'[k][m] = g[moves[q][m]]
    <3>1. moves[p][m] = Goal(p, m) /\ moves[q][m] = Goal(q, m)
      BY ONLY <2>2, <1>14, q \in AllStates, q # 0, m \in M
    <3>2. ecs.group[Goal(q, m)] = ecs.group[Goal(p, m)]
      BY ONLY <2>2, <2>3, <1>5, q \in AllStates, m \in M
    <3>3. Goal(q, m) \in AllStates /\ Goal(p, m) \in AllStates
      BY ONLY <2>2, <1>1, q \in AllStates, m \in M
    <3>4. r.group[Goal(q, m)] = r.group[Goal(p, m)]
      BY ONLY <3>2, <3>3, <1>k
    <3> QED BY ONLY <3>1, <3>3, <3>4, <2>2, <2>a, m \in M
  <2> QED BY ONLY <2>2, <2>4, <2>5, k = g[q]
<1>21. \A q \in AllStates : g[q] = 0 <=> q = 0
  BY <1>7, <1>17
<1>22. g[1] = 1
  BY <1>6, <1>8, <1>17
<1>23. Packs(g)
  BY <1>6, <1>11, <1>16, <1>17, <1>19, <1>20, <1>21, <1>22 DEF Packs
<1> QED
  BY <1>23
-----------------------------------------------------------------------------
(* The invariant of the dead ends: at the start.                           *)
LEMMA DeadInvInit == Init => DeadInv
BY DEF Init, LexInit, DfaInit, DeadInv

(* The invariant of the dead ends: every step keeps it, if the automaton   *)
(* given leads every state to a token.                                     *)
LEMMA DeadInvStep == TokensAhead => (DfaInv /\ LexInv /\ DeadInv /\ [Next]_vars => DeadInv')
<1> SUFFICES ASSUME TokensAhead, DfaInv, LexInv, DeadInv, [Next]_vars PROVE DeadInv'
  OBVIOUS
<1>1. CASE UNCHANGED vars
  <2>1. UNCHANGED MinVars /\ UNCHANGED <<phase, parser, input, accept, accepts, identity, edgeRow, nfaStates, equivs>>
    BY <1>1 DEF vars, predVars, dfaVars, lexVars, MinVars
  <2>2. NothingDecided' <=> NothingDecided
    <3>1. M' = M /\ States' = States
      BY <2>1 DEF M, NumEquivs, States
    <3> QED BY <2>1, <3>1 DEF NothingDecided
  <2> QED BY <2>1, <2>2, DeadSame DEF DeadInv
<1>2. CASE DfaNext /\ UNCHANGED lexVars
  <2>1. phase' \in {"characters", "subsets", "predecessors"}
    BY <1>2 DEF LexInv, Later, Early, DfaNext, AddCharClass, NextCharMove, StartConstruction, ConstructMove,
                ConstructNext, ComputeAccepts, FindPredecessors, dfaVars
  <2> QED BY <2>1 DEF DeadInv
<1>3. CASE BuildParser
  BY <1>3 DEF BuildParser, DeadInv
<1>4. CASE CheckIdentities
  <2>1. phase = "parser" /\ UNCHANGED <<parser, input>> /\ phase' = (IF input.context THEN "edges" ELSE "classes")
    BY <1>4 DEF CheckIdentities
  <2>2. EquivInv /\ Built /\ ClassesExact /\ LeadsForward(input.nfa) /\ parser \in input.parsers
    BY <2>1, LeadsForwardIs DEF DfaInv, Built, EquivInv, TokensAhead, LexInv
  <2>3. NoDeadEnds' /\ (input.context => NothingDecided')
    BY <2>2, <1>4, DeadStart
  <2> QED BY <2>1, <2>2, <2>3 DEF DeadInv
<1>5. CASE CheckEdges
  <2>1. phase = "edges" /\ UNCHANGED <<phase, parser, input>>
    BY <1>5 DEF CheckEdges
  <2>2. EquivInv /\ EdgesInv /\ NoDeadEnds /\ NothingDecided /\ parser \in input.parsers
    BY <2>1 DEF DfaInv, EquivInv, LexInv, EdgesPhase, DeadInv
  <2> QED BY <2>1, <2>2, <1>5, DeadEdges DEF DeadInv
<1>6. CASE CopyStartState
  <2>1. phase = "edges" /\ UNCHANGED <<phase, parser, input>>
    BY <1>6 DEF CopyStartState, dfaVars
  <2>2. EquivInv /\ EdgesInv /\ NoDeadEnds /\ NothingDecided /\ parser \in input.parsers
    BY <2>1 DEF DfaInv, EquivInv, LexInv, EdgesPhase, DeadInv
  <2> QED BY <2>1, <2>2, <1>6, DeadCopies DEF DeadInv
<1>7. CASE EndOfCopies \/ StartMinimize \/ ClassOfToken \/ ClassesTidy \/ SweepMove \/ SweepClass \/ SweepAgain
  <2>1. /\ phase \in {"edges", "classes", "tokens", "sweep", "pack"} /\ phase' # "edges"
        /\ UNCHANGED MinVars /\ UNCHANGED <<parser, input>>
    BY <1>7 DEF EndOfCopies, StartMinimize, ClassOfToken, ClassesTidy, SweepMove, SweepClass, SweepAgain, MinVars,
                predVars, lexVars
  <2> QED BY <2>1, DeadSame DEF DeadInv
<1>8. CASE Pack
  BY <1>8 DEF Pack, DeadInv
<1> QED
  BY <1>1, <1>2, <1>3, <1>4, <1>5, <1>6, <1>7, <1>8 DEF Next, LexNext

(* The invariants of the construction, the conflicts, the minimization and *)
(* the dead ends hold together.                                            *)
LEMMA DeadInvAlways == TokensAhead => (Spec => [](DfaInv /\ LexInv /\ MinInv /\ DeadInv))
<1> SUFFICES ASSUME TokensAhead PROVE Spec => [](DfaInv /\ LexInv /\ MinInv /\ DeadInv)
  OBVIOUS
<1>1. Init => DfaInv /\ LexInv /\ MinInv /\ DeadInv
  BY DfaInvInit, LexInvInit, MinInvInit, DeadInvInit DEF Init, LexInit
<1>2. DfaInv /\ LexInv /\ MinInv /\ DeadInv /\ [Next]_vars => (DfaInv /\ LexInv /\ MinInv /\ DeadInv)'
  BY DfaInvStep, LexInvStep, MinInvStep, DeadInvStep
<1> QED
  BY <1>1, <1>2, PTL DEF Spec

(* What a table of moves does with a character.                            *)
ReadBy(mv) == [p \in (0 .. Len(mv)) \X (0 .. Size - 1) |-> IF p[1] = 0 THEN 0 ELSE mv[p[1]][equivs.group[p[2]]]]

Steps(f, mv, x, w) ==
    /\ f \in [0 .. Len(w) -> 0 .. Len(mv)] /\ f[0] = x /\ Run(ReadBy(mv), x, w) = f[Len(w)]
    /\ \A i, j \in 0 .. Len(w) : j = i + 1 =>
          /\ equivs.group[w[j]] \in M
          /\ f[j] = IF f[i] = 0 THEN 0 ELSE mv[f[i]][equivs.group[w[j]]]

(* The states a table goes through on a string.                            *)
LEMMA ReadByIs ==
    ASSUME EquivInv, NEW mv, mv \in Seq([M -> 0 .. Len(mv)]), NEW x \in 0 .. Len(mv), NEW w \in Strings
    PROVE  \E f : Steps(f, mv, x, w)
<1> DEFINE A == 0 .. Len(mv)
           F == [M -> A]
           next == ReadBy(mv)
           n == Len(w)
<1>1. n \in Nat /\ \A i \in 1 .. n : w[i] \in Chars
  BY StringIs
<1>2. \A c \in Chars : equivs.group[c] \in M
  BY NumEquivsIs
<1>3. \A q \in A : q # 0 => mv[q] \in F
  <2>1. mv \in Seq(F)
    OBVIOUS
  <2>2. Len(mv) \in Nat
    BY <2>1
  <2> HIDE DEF F
  <2> QED BY <2>1, <2>2
<1>4. 0 \in A /\ x \in A
  OBVIOUS
<1>5. next = [p \in A \X Chars |-> IF p[1] = 0 THEN 0 ELSE mv[p[1]][equivs.group[p[2]]]]
  BY DEF ReadBy, Chars
<1> HIDE DEF A, next, n
<1>6. /\ next \in [A \X Chars -> A]
      /\ \A q \in A, c \in Chars : next[<<q, c>>] = IF q = 0 THEN 0 ELSE mv[q][equivs.group[c]]
  BY <1>2, <1>3, <1>4, <1>5
<1>7. PICK f : Trace(f, next, A, x, w)
  <2>1. Len(w) \in Nat /\ \A i \in 1 .. Len(w) : w[i] \in Chars
    BY <1>1 DEF n
  <2> QED BY ONLY <2>1, <1>4, <1>6, RunIs
<1>8. /\ f \in [0 .. n -> A] /\ f[0] = x /\ Run(next, x, w) = f[n]
      /\ \A i, j \in 0 .. n : j = i + 1 => f[j] = next[<<f[i], w[j]>>]
  BY <1>7 DEF Trace, n
<1>9. ASSUME NEW i \in 0 .. n, NEW j \in 0 .. n, j = i + 1
      PROVE  equivs.group[w[j]] \in M /\ f[j] = IF f[i] = 0 THEN 0 ELSE mv[f[i]][equivs.group[w[j]]]
  <2>1. w[j] \in Chars
    BY <1>1, <1>9
  <2>2. f[i] \in A /\ f[j] = next[<<f[i], w[j]>>]
    BY <1>8, <1>9
  <2> QED BY ONLY <2>1, <2>2, <1>2, <1>6
<1> QED
  BY <1>8, <1>9 DEF Steps, A, next, n

(* One table is another one by the numbers it gives the states.            *)
Renames(g, mv, pv) ==
    /\ mv \in Seq([M -> 0 .. Len(mv)]) /\ pv \in Seq([M -> 0 .. Len(pv)])
    /\ g \in [0 .. Len(mv) -> 0 .. Len(pv)] /\ \A q \in 0 .. Len(mv) : g[q] = 0 <=> q = 0
    /\ \A q \in 0 .. Len(mv) : q # 0 => \A m \in M : pv[g[q]][m] = g[mv[q][m]]

(* A string leads from the number of a state to the number of where it     *)
(* leads from the state.                                                   *)
LEMMA RunPacked ==
    ASSUME EquivInv, NEW mv, NEW pv, NEW g, Renames(g, mv, pv), NEW x \in 0 .. Len(mv), NEW w \in Strings
    PROVE  Run(ReadBy(mv), x, w) \in 0 .. Len(mv) /\ Run(ReadBy(pv), g[x], w) = g[Run(ReadBy(mv), x, w)]
<1> DEFINE n == Len(w)
<1>1. n \in Nat
  BY StringIs
<1>r. /\ mv \in Seq([M -> 0 .. Len(mv)]) /\ pv \in Seq([M -> 0 .. Len(pv)])
      /\ g \in [0 .. Len(mv) -> 0 .. Len(pv)] /\ \A q \in 0 .. Len(mv) : g[q] = 0 <=> q = 0
      /\ \A q \in 0 .. Len(mv) : q # 0 => \A m \in M : pv[g[q]][m] = g[mv[q][m]]
  BY DEF Renames
<1> PICK y : y = g[x]
  OBVIOUS
<1>a. y \in 0 .. Len(pv)
  BY <1>r
<1>b. PICK f : Steps(f, mv, x, w)
  BY <1>r, ReadByIs
<1>c. PICK h : Steps(h, pv, y, w)
  BY <1>r, <1>a, ReadByIs
<1>2. /\ f \in [0 .. n -> 0 .. Len(mv)] /\ f[0] = x /\ Run(ReadBy(mv), x, w) = f[n]
      /\ \A i, j \in 0 .. n : j = i + 1 =>
            equivs.group[w[j]] \in M /\ f[j] = IF f[i] = 0 THEN 0 ELSE mv[f[i]][equivs.group[w[j]]]
  BY <1>b DEF Steps
<1>4. /\ h \in [0 .. n -> 0 .. Len(pv)] /\ h[0] = g[x] /\ Run(ReadBy(pv), g[x], w) = h[n]
      /\ \A i, j \in 0 .. n : j = i + 1 =>
            equivs.group[w[j]] \in M /\ h[j] = IF h[i] = 0 THEN 0 ELSE pv[h[i]][equivs.group[w[j]]]
  BY <1>c DEF Steps
<1> DEFINE T == {i \in 0 .. n : h[i] = g[f[i]]}
<1> HIDE DEF n
<1>5. 0 \in T
  BY <1>1, <1>2, <1>4
<1>6. ASSUME NEW i \in 0 .. n, NEW j \in 0 .. n, i \in T, j = i + 1 PROVE j \in T
  <2>1. h[i] = g[f[i]] /\ f[i] \in 0 .. Len(mv)
    BY <1>2, <1>6
  <2> PICK m : m = equivs.group[w[j]]
    OBVIOUS
  <2>2. /\ m \in M /\ f[j] = IF f[i] = 0 THEN 0 ELSE mv[f[i]][m]
        /\ h[j] = IF h[i] = 0 THEN 0 ELSE pv[h[i]][m]
    BY <1>2, <1>4, <1>6
  <2>3. 0 \in 0 .. Len(mv) /\ g[0] = 0
    BY <2>1, <1>r
  <2>4. h[j] = g[f[j]]
    BY <2>1, <2>2, <2>3, <1>r
  <2> QED BY <2>4
<1>7. 0 .. n \subseteq T
  <2> HIDE DEF T
  <2>1. \A i, j \in 0 .. n : i \in T /\ j = i + 1 => j \in T
    BY <1>6
  <2> QED BY ONLY <1>1, <1>5, <2>1, UpTo
<1>8. n \in T /\ n \in 0 .. n
  BY <1>1, <1>7
<1> QED
  BY <1>2, <1>4, <1>8

(* The packed table gives the tokens the table gave.                       *)
LEMMA PackedTokens ==
    ASSUME EquivInv, TableTyped, NEW g, Packs(g), ParserStates = 1 .. Len(parser), Len(parser) \in Nat,
           NEW s \in ParserStates, NEW w \in Strings
    PROVE  TokenAfter(s, w)' = TokenAfter(s, w)
<1> PICK pv : pv = moves'
  OBVIOUS
<1> PICK x : x = Start(s)
  OBVIOUS
<1> PICK y : y = Start(s)'
  OBVIOUS
<1>1. /\ moves \in Seq([M -> 0 .. Len(moves)]) /\ startStates \in Seq(1 .. Len(moves))
      /\ startStates = <<>> \/ Len(startStates) = Len(parser)
  BY DEF TableTyped
<1>2. /\ g \in [0 .. Len(moves) -> 0 .. Len(pv)] /\ \A q \in 0 .. Len(moves) : g[q] = 0 <=> q = 0
      /\ 1 \in 0 .. Len(moves) /\ g[1] = 1 /\ pv \in Seq([M -> 0 .. Len(pv)])
      /\ \A q \in 0 .. Len(moves) : q # 0 => \A m \in M : pv[g[q]][m] = g[moves[q][m]]
  BY DEF Packs, AllStates
<1>3. x \in 0 .. Len(moves) /\ y = g[x]
  <2>1. y = IF startStates' = <<>> THEN 1 ELSE startStates'[s]
    BY DEF Start
  <2>2. startStates' = [t \in DOMAIN startStates |-> g[startStates[t]]]
    BY DEF Packs
  <2>3. CASE startStates = <<>>
    <3>1. DOMAIN startStates = {}
      BY <2>3
    <3>2. DOMAIN startStates' = {}
      BY <3>1, <2>2
    <3>3. startStates' = <<>>
      BY <2>2, <2>3
    <3> QED BY <2>1, <2>3, <3>3, <1>2 DEF Start
  <2>4. CASE startStates # <<>>
    <3>1. s \in DOMAIN startStates /\ startStates[s] \in 1 .. Len(moves)
      BY <2>4, <1>1
    <3>2. startStates' # <<>> /\ startStates'[s] = g[startStates[s]]
      BY <2>2, <3>1
    <3> QED BY <2>1, <2>4, <3>1, <3>2, <1>1 DEF Start
  <2> QED BY <2>3, <2>4
<1>4. After(x, w) = Run(ReadBy(moves), x, w)
  BY DEF After, StatesAndChars, ReadBy
<1>5. After(y, w)' = Run(ReadBy(pv), y, w)
  BY DEF After, StatesAndChars, ReadBy, Packs
<1>6. Run(ReadBy(moves), x, w) \in 0 .. Len(moves) /\ Run(ReadBy(pv), g[x], w) = g[Run(ReadBy(moves), x, w)]
  <2> PICK mv : mv = moves
    OBVIOUS
  <2>1. Renames(g, mv, pv) /\ x \in 0 .. Len(mv)
    BY <1>1, <1>2, <1>3 DEF Renames
  <2>2. Run(ReadBy(mv), x, w) \in 0 .. Len(mv) /\ Run(ReadBy(pv), g[x], w) = g[Run(ReadBy(mv), x, w)]
    BY <2>1, RunPacked
  <2> QED BY <2>2
<1> PICK z : z = After(x, w)
  OBVIOUS
<1>7. z \in 0 .. Len(moves) /\ After(y, w)' = g[z]
  BY <1>3, <1>4, <1>5, <1>6
<1>8. TokenAfter(s, w) = IF z = 0 THEN 0 ELSE accept[z]
  BY DEF TokenAfter
<1>9. TokenAfter(s, w)' = IF g[z] = 0 THEN 0 ELSE accept'[g[z]]
  BY <1>7 DEF TokenAfter
<1>10. z # 0 => accept'[g[z]] = accept[z]
  BY <1>7 DEF Packs, AllStates
<1> QED
  BY <1>2, <1>7, <1>8, <1>9, <1>10

(* Packing changes the token of no string in any parser state: the classes *)
(* agree about moves and tokens, and the null state, alone in its class,   *)
(* keeps its number in the sort.                                           *)
THEOREM PackingKeepsTokens == TokensAhead => (Spec => PackKeepsTokens)
<1> SUFFICES ASSUME TokensAhead PROVE Spec => PackKeepsTokens
  OBVIOUS
<1> DEFINE Kept == phase = "pack" => \A s \in ParserStates : \A w \in Strings : TokenAfter(s, w)' = TokenAfter(s, w)
<1>1. ASSUME DfaInv /\ LexInv /\ MinInv /\ DeadInv, [Next]_vars PROVE [Kept]_vars
  <2>1. CASE Pack
    <3>1. phase = "pack"
      BY <2>1 DEF Pack
    <3>2. EquivInv /\ TableTyped /\ Refined(ecs) /\ NoDeadEnds /\ parser \in input.parsers /\ input \in Inputs
      BY <1>1, <3>1 DEF DfaInv, EquivInv, MinInv, DeadInv
    <3>3. \A k \in Groups, m \in M : Agrees(ecs, k, m)
      BY <1>1, <3>1 DEF MinInv, Groups
    <3>4. \E g : Packs(g)
      BY <3>2, <3>3, <2>1, PackedNothing, PackedAll
    <3>5. ParserStates = 1 .. Len(parser) /\ Len(parser) \in Nat
      BY <3>2, ParserStatesFinite
    <3> QED BY <3>2, <3>4, <3>5, PackedTokens
  <2>2. CASE ~Pack /\ Next
    <3>1. phase # "pack"
      BY <2>2 DEF Next, LexNext, DfaNext, AddCharClass, NextCharMove, StartConstruction, ConstructMove, ConstructNext,
                  ComputeAccepts, FindPredecessors, BuildParser, CheckIdentities, CheckEdges, CopyStartState,
                  EndOfCopies, StartMinimize, ClassOfToken, ClassesTidy, SweepMove, SweepClass, SweepAgain
    <3> QED BY <3>1
  <2> QED BY <1>1, <2>1, <2>2
<1>2. DfaInv /\ LexInv /\ MinInv /\ DeadInv /\ [Next]_vars => [Kept]_vars
  BY <1>1
<1> HIDE DEF Kept
<1>3. Spec => [][Kept]_vars
  BY <1>2, DeadInvAlways, PTL DEF Spec
<1> QED BY <1>3 DEF PackKeepsTokens, Kept
-----------------------------------------------------------------------------
(* The ranges that no other invariant states in every phase.               *)
RangesInv ==
    /\ accepts \in Seq(SUBSET Tokens)
    /\ parser = <<>> \/ parser \in input.parsers
    /\ phase # "predecessors" => predCalls = <<>>
    /\ phase = "characters" => moves = <<>>
    /\ phase = "done" => TableTyped

(* The invariant of the ranges: at the start.                              *)
LEMMA RangesInvInit == Init => RangesInv
BY DEF Init, LexInit, DfaInit, RangesInv

(* The invariant of the ranges: the construction of the table keeps it.    *)
LEMMA RangesDfa ==
    ASSUME DfaInv, DfaInv', RangesInv, DfaNext, UNCHANGED lexVars
    PROVE  RangesInv'
<1>1. UNCHANGED <<input, parser>> /\ Tokens' = Tokens /\ phase' # "done"
  BY DEF DfaNext, AddCharClass, NextCharMove, StartConstruction, ConstructMove, ConstructNext, ComputeAccepts,
         FindPredecessors, dfaVars, lexVars, Tokens, RangesInv, DfaInv
<1>2. accepts' \in Seq(SUBSET Tokens)
  <2>1. CASE AddCharClass \/ NextCharMove \/ ConstructNext \/ ComputeAccepts \/ FindPredecessors
    <3>1. accepts' = accepts
      BY <2>1 DEF AddCharClass, NextCharMove, ConstructNext, ComputeAccepts, FindPredecessors, dfaVars
    <3> QED BY <3>1 DEF RangesInv
  <2>2. CASE StartConstruction \/ ConstructMove
    <3>1. phase' = "subsets"
      BY <2>2 DEF StartConstruction, ConstructMove
    <3> QED BY <3>1, <1>1 DEF DfaInv, BuildInv, AcceptsTyped, Tokens
  <2> QED BY <2>1, <2>2 DEF DfaNext
<1>3. phase' # "predecessors" => predCalls' = <<>>
  BY DEF DfaNext, AddCharClass, NextCharMove, StartConstruction, ConstructMove, ConstructNext, ComputeAccepts,
         FindPredecessors, dfaVars, predVars, RangesInv
<1>4. phase' = "characters" => moves' = <<>>
  BY DEF DfaNext, AddCharClass, NextCharMove, StartConstruction, ConstructMove, ConstructNext, ComputeAccepts,
         FindPredecessors, dfaVars, predVars, RangesInv
<1> QED
  BY <1>1, <1>2, <1>3, <1>4 DEF RangesInv

(* The invariant of the ranges: the packed table is in them too.           *)
LEMMA RangesPack ==
    ASSUME EquivInv, MinInv, DeadInv, RangesInv, Pack
    PROVE  TableTyped' /\ accepts' \in Seq(SUBSET Tokens)
<1>1. /\ phase = "pack" /\ TableTyped /\ Refined(ecs) /\ NoDeadEnds
      /\ \A k \in Groups, m \in M : Agrees(ecs, k, m)
  BY DEF Pack, MinInv, DeadInv, Groups
<1>2. PICK g : Packs(g)
  BY <1>1, PackedNothing, PackedAll
<1> PICK pv : pv = moves'
  OBVIOUS
<1>3. /\ pv \in Seq([M -> 0 .. Len(pv)]) /\ g \in [AllStates -> 0 .. Len(pv)] /\ 1 \in AllStates /\ g[1] = 1
      /\ \A q \in AllStates : g[q] = 0 <=> q = 0
      /\ accept' \in Seq({0} \union Tokens) /\ Len(accept') = Len(pv)
      /\ startStates' = [s \in DOMAIN startStates |-> g[startStates[s]]] /\ UNCHANGED <<input, equivs, parser>>
  BY <1>2 DEF Packs
<1>4. Len(pv) \in Nat /\ DOMAIN pv = 1 .. Len(pv) /\ Len(pv) # 0
  <2> DEFINE F == [M -> 0 .. Len(pv)]
  <2>1. pv \in Seq(F)
    BY <1>3
  <2> HIDE DEF F
  <2>2. Len(pv) \in Nat /\ DOMAIN pv = 1 .. Len(pv)
    BY <2>1
  <2>3. g[1] \in 0 .. Len(pv)
    BY <1>3
  <2> QED BY <2>2, <2>3, <1>3
<1>5. /\ startStates' \in Seq(1 .. Len(pv))
      /\ (startStates = <<>> /\ startStates' = <<>>) \/ Len(startStates') = Len(parser)
  <2> PICK n : n = Len(startStates)
    OBVIOUS
  <2>1. startStates \in Seq(1 .. Len(moves)) /\ (startStates = <<>> \/ n = Len(parser))
    BY <1>1 DEF TableTyped
  <2>2. n \in Nat /\ DOMAIN startStates = 1 .. n /\ \A s \in 1 .. n : startStates[s] \in AllStates /\ startStates[s] # 0
    BY <2>1 DEF AllStates
  <2>3. \A s \in 1 .. n : g[startStates[s]] \in 1 .. Len(pv)
    BY <2>2, <1>3, <1>4
  <2>4. startStates' = [s \in 1 .. n |-> g[startStates[s]]]
    BY <2>2, <1>3
  <2>5. startStates' \in Seq(1 .. Len(pv)) /\ Len(startStates') = n
    BY <2>2, <2>3, <2>4
  <2>6. startStates = <<>> => startStates' = <<>>
    BY <2>4, <2>5
  <2> QED BY <2>1, <2>5, <2>6
<1>6. M' = M /\ Tokens' = Tokens
  BY <1>3 DEF M, NumEquivs, Tokens
<1>7. TableTyped'
  <2>1. pv # <<>>
    BY <1>4
  <2> QED BY <2>1, <1>3, <1>5, <1>6 DEF TableTyped
<1>8. accepts' \in Seq(SUBSET Tokens)
  <2>1. CASE accepts' = accepts
    BY <2>1 DEF RangesInv
  <2>2. CASE accepts' # accepts
    <3>1. \E table : moves' = [k \in DOMAIN table |-> table[k].moves] /\ accepts' = [k \in DOMAIN table |-> {}]
      BY <2>2 DEF Pack
    <3>2. accepts' = [k \in 1 .. Len(pv) |-> {}]
      <4>1. PICK table : pv = [k \in DOMAIN table |-> table[k].moves] /\ accepts' = [k \in DOMAIN table |-> {}]
        BY <3>1
      <4>2. DOMAIN pv = DOMAIN table
        BY ONLY <4>1
      <4> QED BY <4>1, <4>2, <1>4
    <3> DEFINE L == SUBSET Tokens
    <3>3. {} \in L
      OBVIOUS
    <3> HIDE DEF L
    <3>4. accepts' \in Seq(L)
      BY <3>2, <3>3, <1>4
    <3> QED BY <3>4 DEF L
  <2> QED BY <2>1, <2>2
<1> QED
  BY <1>7, <1>8

(* The invariant of the ranges: every step keeps it.                       *)
LEMMA RangesStep ==
    ASSUME DfaInv, LexInv, MinInv, DeadInv, RangesInv, DfaInv', LexInv', [Next]_vars
    PROVE  RangesInv'
<1>1. CASE UNCHANGED vars
  BY <1>1 DEF vars, predVars, dfaVars, lexVars, RangesInv, TableTyped, Tokens, M, NumEquivs
<1>2. CASE DfaNext /\ UNCHANGED lexVars
  BY <1>2, RangesDfa
<1>3. CASE BuildParser
  BY <1>3 DEF BuildParser, RangesInv, predVars, Tokens
<1>4. CASE CheckIdentities
  <2>1. /\ UNCHANGED <<input, parser, predCalls>> /\ Tokens' = Tokens /\ phase = "parser"
        /\ phase' \in {"edges", "classes"} /\ (phase' = "edges" \/ accepts' = accepts)
    BY <1>4 DEF CheckIdentities, predVars, Tokens
  <2>2. accepts' \in Seq(SUBSET Tokens)
    <3>1. CASE phase' = "edges"
      <4> DEFINE L == SUBSET Tokens
      <4>1. EdgesInv'
        BY <3>1 DEF LexInv, EdgesPhase
      <4>2. (accepts \in [States -> SUBSET Tokens])' /\ (nfaStates \in Seq(SUBSET NfaNumbers))'
        <5>1. LexTyped' /\ StatesTyped'
          BY <4>1 DEF EdgesInv
        <5> QED BY <5>1 DEF LexTyped, StatesTyped
      <4>3. accepts' \in [States' -> L] /\ nfaStates' \in Seq((SUBSET NfaNumbers)') /\ States' = DOMAIN nfaStates'
        BY <4>2, <2>1 DEF States
      <4> HIDE DEF L
      <4>4. accepts' \in Seq(L)
        BY <4>3
      <4> QED BY <4>4 DEF L
    <3>2. CASE accepts' = accepts
      BY <3>2 DEF RangesInv
    <3> QED BY <2>1, <3>1, <3>2
  <2> QED BY <2>1, <2>2 DEF RangesInv
<1>5. CASE \/ CheckEdges \/ CopyStartState \/ EndOfCopies \/ StartMinimize \/ ClassOfToken \/ ClassesTidy
           \/ SweepMove \/ SweepClass \/ SweepAgain
  <2>1. /\ UNCHANGED <<input, parser, predCalls, accepts>>
        /\ phase \notin {"characters", "predecessors"} /\ phase' \notin {"characters", "predecessors", "done"}
    BY <1>5 DEF CheckEdges, CopyStartState, EndOfCopies, StartMinimize, ClassOfToken, ClassesTidy, SweepMove, SweepClass,
                SweepAgain, dfaVars, predVars, lexVars
  <2> QED BY <2>1 DEF RangesInv, Tokens
<1>6. CASE Pack
  <2>1. TableTyped' /\ accepts' \in Seq(SUBSET Tokens)
    BY <1>6, RangesPack DEF DfaInv
  <2>2. phase = "pack" /\ phase' = "done" /\ UNCHANGED <<input, parser, predCalls>>
    BY <1>6 DEF Pack
  <2> QED BY <2>1, <2>2 DEF RangesInv, Tokens
<1> QED
  BY <1>1, <1>2, <1>3, <1>4, <1>5, <1>6 DEF Next, LexNext

LexerInv == DfaInv /\ LexInv /\ AheadInv /\ MinInv /\ DeadInv /\ RangesInv

(* All the invariants together imply the type invariant.                   *)
LEMMA RangesIn ==
    ASSUME TokensAhead, LexerInv
    PROVE  TypeOK
<1>1. /\ EquivInv /\ input \in Inputs /\ DfaInv /\ LexInv /\ AheadInv /\ MinInv /\ RangesInv
      /\ phase \in Early \union Later
  BY DEF LexerInv, DfaInv, EquivInv, LexInv
<1>2. Len(parser) \in Nat
  BY <1>1, ParserStatesFinite DEF RangesInv
<1>3. /\ moves \in Seq([M -> 0 .. Len(moves)]) /\ Len(accept) \in {0, Len(moves)} /\ accept \in Seq({0} \union Tokens)
      /\ startStates \in Seq(1 .. Len(moves)) /\ Len(startStates) <= Len(parser)
  <2>1. CASE phase \in Early
    <3>1. startStates = <<>> /\ accept = <<>>
      BY <2>1, <1>1 DEF LexInv
    <3>2. moves \in Seq([M -> 0 .. Len(moves)])
      <4>1. phase = "characters" => moves = <<>>
        BY <1>1 DEF RangesInv
      <4>2. phase \in {"subsets", "predecessors", "parser"} => moves \in Seq([M -> 0 .. Len(moves)])
        BY <1>1 DEF DfaInv, BuildInv, MovesTyped
      <4>3. CASE phase = "characters"
        <5> DEFINE F == [M -> 0 .. Len(moves)]
        <5>1. moves \in Seq(F)
          <6> HIDE DEF F
          <6> QED BY <4>1, <4>3
        <5> QED BY <5>1
      <4> QED BY <4>2, <4>3, <2>1 DEF Early
    <3> QED BY <3>1, <3>2, <1>2
  <2>2. CASE phase = "edges"
    BY <2>2, <1>1 DEF LexInv, EdgesPhase, EdgesInv, LexTyped
  <2>3. CASE phase \in {"classes", "tokens", "sweep", "pack", "done"}
    <3>1. TableTyped
      BY <2>3, <1>1 DEF MinInv, RangesInv
    <3>2. startStates = <<>> => Len(startStates) = 0
      OBVIOUS
    <3> QED BY <3>1, <3>2, <1>2 DEF TableTyped
  <2> QED BY <1>1, <2>1, <2>2, <2>3 DEF Later
<1>4. Len(predCalls) > 0 => phase = "predecessors"
  BY <1>1 DEF RangesInv
<1>5. phase \in {"parser", "edges"} => TableFacts
  BY <1>1, TableFactsHold
<1>6. phase = "sweep" => ListsHold(ecs)
  <2> SUFFICES ASSUME phase = "sweep" PROVE ListsHold(ecs)
    OBVIOUS
  <2>1. Partition(ecs, Len(moves) + 1) /\ TableTyped
    BY <1>1 DEF MinInv, SweepInv, Refined
  <2>2. Len(moves) + 1 \in Nat
    BY GoalsIn, <2>1
  <2> QED BY <2>1, <2>2, PartitionListsHold
<1> QED
  BY <1>1, <1>3, <1>4, <1>5, <1>6 DEF TypeOK, RangesInv, Early, Later, M, Tokens

(* The fields of the lexer generator stay in their ranges in every phase,  *)
(* what the conflicts take from the construction of the table is so, and   *)
(* the lists of the classes satisfy invariant() (equivclass.cc) in every   *)
(* sweep.                                                                  *)
THEOREM LexerTypeOK == TokensAhead => (Spec => []TypeOK)
<1> SUFFICES ASSUME TokensAhead PROVE Spec => []TypeOK
  OBVIOUS
<1>1. Init => LexerInv
  BY DfaInvInit, LexInvInit, MinInvInit, DeadInvInit, RangesInvInit DEF Init, LexInit, DfaInit, AheadInv, LexerInv
<1>2. LexerInv /\ [Next]_vars => LexerInv'
  <2> SUFFICES ASSUME LexerInv, [Next]_vars PROVE LexerInv'
    OBVIOUS
  <2>1. DfaInv /\ LexInv /\ AheadInv /\ MinInv /\ DeadInv /\ RangesInv
    BY DEF LexerInv
  <2>2. DfaInv' /\ LexInv' /\ AheadInv' /\ MinInv' /\ DeadInv'
    BY <2>1, DfaInvStep, LexInvStep, AheadStep, MinInvStep, DeadInvStep
  <2>3. RangesInv'
    BY <2>1, <2>2, RangesStep
  <2> QED BY <2>2, <2>3 DEF LexerInv
<1>3. LexerInv => TypeOK
  BY RangesIn
<1> QED
  BY <1>1, <1>2, <1>3, PTL DEF Spec
=============================================================================
