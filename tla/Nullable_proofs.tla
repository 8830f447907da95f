-------------------------- MODULE Nullable_proofs --------------------------
(***************************************************************************)
(* The proof grammar2.cc:183 asks for: computeNullable() covers all cases, *)
(* for every grammar.  No decrement is lost, so at the end the count of a  *)
(* rule with only nullable symbols is 0 or less; a count that has come to  *)
(* 0 has marked its nonterminal, so the marked nonterminals are closed     *)
(* under the rules and contain the least such set.                         *)
(***************************************************************************)
EXTENDS Nullable, SequenceTheorems, FiniteSetTheorems, TLAPS

OccurrencesExist ==
    \A c \in DOMAIN calls : \A o \in calls[c].todo : o.pos \in 1 .. RuleLength(grammar, o.rule)

(* An empty rule waits for the outer loop, any other rule that comes to 0  *)
(* marks its nonterminal at once.                                          *)
ZeroMarks ==
    \A r \in RuleIds(grammar) :
        /\ RuleLength(grammar, r) = 0 => minLength[r] = 0
        /\ minLength[r] <= 0 =>
              \/ grammar.rules[r].nonterm \in isNullable
              \/ RuleLength(grammar, r) = 0 /\ nonterm <= grammar.rules[r].nonterm

IInv == TypeOK /\ OccurrencesExist /\ ZeroMarks /\ NoDecrementLost

LEMMA GrammarFacts ==
    ASSUME TypeOK
    PROVE  /\ grammar.lastTerminal \in Nat /\ grammar.numSymbols \in Nat
           /\ \A r \in RuleIds(grammar) :
                 /\ grammar.rules[r].nonterm \in Nonterminals(grammar)
                 /\ RuleLength(grammar, r) \in Nat
                 /\ DOMAIN grammar.rules[r].syms = 1 .. RuleLength(grammar, r)
<1>1. IsGrammar(grammar)
  BY GrammarsAssumption DEF TypeOK
<1>2. /\ grammar.lastTerminal \in Nat /\ grammar.numSymbols \in Nat
      /\ grammar.rules \in Seq([nonterm : Nonterminals(grammar), syms : Seq(Symbols(grammar))])
  BY <1>1 DEF IsGrammar
<1>3. \A r \in RuleIds(grammar) :
          grammar.rules[r] \in [nonterm : Nonterminals(grammar), syms : Seq(Symbols(grammar))]
  BY <1>2, ElementOfSeq DEF RuleIds
<1>4. ASSUME NEW r \in RuleIds(grammar)
      PROVE  /\ grammar.rules[r].nonterm \in Nonterminals(grammar)
             /\ grammar.rules[r].syms \in Seq(Symbols(grammar))
  BY <1>3
<1> QED
  BY <1>2, <1>4, LenProperties DEF RuleLength

(* used[A] holds every occurrence of A and nothing else.                   *)
LEMMA UsedFacts ==
    ASSUME TypeOK, NEW A
    PROVE  /\ Used(A) \in SUBSET [rule : RuleIds(grammar), pos : Nat \ {0}]
           /\ \A o \in Used(A) : o.pos \in 1 .. RuleLength(grammar, o.rule)
           /\ \A r \in RuleIds(grammar) : \A k \in 1 .. RuleLength(grammar, r) :
                 grammar.rules[r].syms[k] = A => [rule |-> r, pos |-> k] \in Used(A)
<1>1. \A o \in Used(A) : \E r \in RuleIds(grammar) : \E k \in 1 .. RuleLength(grammar, r) :
          o = [rule |-> r, pos |-> k]
  BY DEF Used
<1>2. \A r \in RuleIds(grammar) : RuleLength(grammar, r) \in Nat
  BY GrammarFacts
<1>3. \A o \in Used(A) : /\ o \in [rule : RuleIds(grammar), pos : Nat \ {0}]
                         /\ o.pos \in 1 .. RuleLength(grammar, o.rule)
  BY <1>1, <1>2
<1>4. ASSUME NEW r \in RuleIds(grammar), NEW k \in 1 .. RuleLength(grammar, r),
             grammar.rules[r].syms[k] = A
      PROVE  [rule |-> r, pos |-> k] \in Used(A)
  BY <1>4 DEF Used
<1> QED
  BY <1>3, <1>4

LEMMA CardinalityBounds ==
    ASSUME NEW n \in Nat, NEW S \in SUBSET (1 .. n), NEW T \in SUBSET (1 .. n), NEW k,
           S \ {k} \subseteq T
    PROVE  /\ Cardinality(S) \in Nat /\ Cardinality(T) \in Nat
           /\ Cardinality(S) - 1 <= Cardinality(T)
           /\ S \subseteq T => Cardinality(S) <= Cardinality(T)
<1>0. IsFiniteSet(1 .. n)
  BY FS_Interval
<1>1. IsFiniteSet(S) /\ IsFiniteSet(T)
  BY <1>0, FS_Subset
<1>2. Cardinality(S) \in Nat /\ Cardinality(T) \in Nat
  BY <1>1, FS_CardinalityType
<1>3. S \subseteq T => Cardinality(S) <= Cardinality(T)
  BY <1>1, FS_Subset
<1>4. Cardinality(S \ {k}) <= Cardinality(T)
  BY <1>1, FS_Subset
<1>5. Cardinality(S \ {k}) = IF k \in S THEN Cardinality(S) - 1 ELSE Cardinality(S)
  BY <1>1, FS_RemoveElement
<1> QED
  BY <1>2, <1>3, <1>4, <1>5

(* What a step must do to keep the bound of the count of a rule.           *)
LEMMA BoundKept ==
    ASSUME TypeOK, NoDecrementLost, grammar' = grammar, NEW r \in RuleIds(grammar), NEW k,
           \/ minLength'[r] = minLength[r] /\ Unresolved(r) \subseteq Unresolved(r)'
           \/ minLength'[r] = minLength[r] - 1 /\ Unresolved(r) \ {k} \subseteq Unresolved(r)'
    PROVE  minLength'[r] <= Cardinality(Unresolved(r)')
<1>1. RuleLength(grammar, r) \in Nat
  BY GrammarFacts
<1>2. Unresolved(r) \in SUBSET (1 .. RuleLength(grammar, r))
  BY DEF Unresolved
<1>3. Unresolved(r)' \in SUBSET (1 .. RuleLength(grammar, r))
  BY DEF Unresolved
<1>4. Unresolved(r) \ {k} \subseteq Unresolved(r)'
  OBVIOUS
<1> HIDE DEF Unresolved
<1>5. /\ Cardinality(Unresolved(r)) \in Nat /\ Cardinality(Unresolved(r)') \in Nat
      /\ Cardinality(Unresolved(r)) - 1 <= Cardinality(Unresolved(r)')
      /\ Unresolved(r) \subseteq Unresolved(r)' =>
            Cardinality(Unresolved(r)) <= Cardinality(Unresolved(r)')
  BY <1>1, <1>2, <1>3, <1>4, CardinalityBounds
<1>6. minLength[r] \in Int /\ minLength[r] <= Cardinality(Unresolved(r))
  BY DEF TypeOK, NoDecrementLost
<1> QED
  BY <1>5, <1>6

LEMMA InitInv == Init => IInv
<1> SUFFICES ASSUME Init PROVE IInv
  OBVIOUS
<1>0. grammar \in Grammars /\ IsGrammar(grammar)
  BY GrammarsAssumption DEF Init
<1>1. IsGrammar(grammar) => /\ grammar.lastTerminal \in Nat /\ grammar.numSymbols \in Nat
                            /\ grammar.lastTerminal < grammar.numSymbols
  BY DEF IsGrammar
<1>2. \A r \in RuleIds(grammar) : RuleLength(grammar, r) \in Nat
  <2>1. grammar.rules \in Seq([nonterm : Nonterminals(grammar), syms : Seq(Symbols(grammar))])
    BY <1>0 DEF IsGrammar
  <2>2. \A r \in RuleIds(grammar) :
          grammar.rules[r] \in [nonterm : Nonterminals(grammar), syms : Seq(Symbols(grammar))]
    BY <2>1, ElementOfSeq DEF RuleIds
  <2> QED
    BY <2>2, LenProperties DEF RuleLength
<1>3. TypeOK
  BY <1>0, <1>1, <1>2, EmptySeq DEF Init, TypeOK
<1>4. OccurrencesExist
  BY EmptySeq DEF Init, OccurrencesExist
<1>5. ZeroMarks
  BY <1>1, <1>2, <1>3, GrammarFacts DEF Init, ZeroMarks, Nonterminals
<1>6. ASSUME NEW r \in RuleIds(grammar)
      PROVE  minLength[r] <= Cardinality(Unresolved(r))
  <2>1. Unresolved(r) = 1 .. RuleLength(grammar, r)
    BY DEF Unresolved, Init
  <2>2. Cardinality(1 .. RuleLength(grammar, r)) = RuleLength(grammar, r)
    BY <1>2, FS_Interval
  <2> QED
    BY <2>1, <2>2, <1>2 DEF Init
<1> QED
  BY <1>3, <1>4, <1>5, <1>6 DEF IInv, NoDecrementLost

LEMMA CallFacts ==
    ASSUME TypeOK, calls # <<>>
    PROVE  /\ Len(calls) \in Nat \ {0} /\ DOMAIN calls = 1 .. Len(calls)
           /\ \A c \in 1 .. Len(calls) : calls[c] \in Activations
           /\ LastCall \in Activations
           /\ Outer \in Seq(Activations) /\ DOMAIN Outer = 1 .. Len(calls) - 1
           /\ \A c \in 1 .. Len(calls) - 1 : Outer[c] = calls[c]
<1>1. calls \in Seq(Activations)
  BY DEF TypeOK
<1>2. Len(calls) \in Nat \ {0} /\ DOMAIN calls = 1 .. Len(calls)
  BY <1>1, EmptySeq, LenProperties
<1>3. \A c \in 1 .. Len(calls) : calls[c] \in Activations
  BY <1>1, ElementOfSeq
<1>4. /\ Outer \in Seq(Activations)
      /\ Len(Outer) = IF 1 <= Len(calls) - 1 THEN Len(calls) - 1 - 1 + 1 ELSE 0
      /\ \A c \in 1 .. Len(calls) - 1 - 1 + 1 : Outer[c] = calls[1 + c - 1]
  BY <1>2, <1>3, SubSeqProperties DEF Outer
<1>5. Len(Outer) = Len(calls) - 1
  <2> DEFINE m == Len(Outer)
  <2>1. m = IF 1 <= Len(calls) - 1 THEN Len(calls) - 1 - 1 + 1 ELSE 0
    BY <1>4
  <2> HIDE DEF m
  <2>2. Len(calls) \in Nat \ {0}
    BY <1>2
  <2>3. ASSUME NEW l \in Nat \ {0}, m = IF 1 <= l - 1 THEN l - 1 - 1 + 1 ELSE 0
        PROVE  m = l - 1
    BY <2>3
  <2>4. m = Len(calls) - 1
    BY <2>1, <2>2, <2>3
  <2> QED
    BY <2>4 DEF m
<1>6. DOMAIN Outer = 1 .. Len(calls) - 1
  BY <1>4, <1>5, LenProperties
<1>7. \A c \in 1 .. Len(calls) - 1 : c \in 1 .. Len(calls) - 1 - 1 + 1 /\ 1 + c - 1 = c
  BY <1>2
<1>8. \A c \in 1 .. Len(calls) - 1 : Outer[c] = calls[c]
  BY <1>4, <1>7
<1>9. LastCall \in Activations
  BY <1>2, <1>3 DEF LastCall
<1> QED
  BY <1>2, <1>3, <1>4, <1>6, <1>8, <1>9

LEMMA NullifyNextInv == IInv /\ NullifyNext => IInv'
<1> SUFFICES ASSUME IInv, NullifyNext PROVE IInv'
  OBVIOUS
<1> DEFINE new == [nt |-> nonterm, todo |-> Used(nonterm)]
<1>0. /\ calls' = <<new>> /\ calls = <<>> /\ nonterm <= grammar.numSymbols
      /\ isNullable' = isNullable \union {nonterm} /\ nonterm' = nonterm + 1
      /\ grammar' = grammar /\ minLength' = minLength /\ TypeOK
  BY DEF NullifyNext, InLoop, IInv
<1>1. nonterm \in Nonterminals(grammar) /\ nonterm' \in Int /\ nonterm \in Int
      /\ nonterm' \in grammar.lastTerminal + 1 .. grammar.numSymbols + 1
  BY <1>0, GrammarFacts DEF TypeOK, Nonterminals
<1>2. new \in Activations
  BY <1>0, <1>1, UsedFacts DEF Activations
<1>3. calls' \in Seq(Activations) /\ DOMAIN calls' = {1} /\ calls'[1] = new
  BY <1>0, <1>2
<1>4. Activations' = Activations
  BY <1>0 DEF Activations
<1>5. TypeOK'
  BY <1>0, <1>1, <1>3, <1>4 DEF TypeOK
<1>6. OccurrencesExist'
  BY <1>0, <1>3, UsedFacts DEF OccurrencesExist
<1>7. ZeroMarks'
  <2>1. ASSUME NEW r \in RuleIds(grammar),
               RuleLength(grammar, r) = 0, nonterm <= grammar.rules[r].nonterm
        PROVE  \/ grammar.rules[r].nonterm \in isNullable'
               \/ nonterm' <= grammar.rules[r].nonterm
    <3>1. grammar.rules[r].nonterm \in Int
      BY <1>0, GrammarFacts DEF Nonterminals
    <3> QED
      BY <2>1, <3>1, <1>0, <1>1
  <2> QED
    BY <2>1, <1>0 DEF ZeroMarks, IInv
<1>8. ASSUME NEW r \in RuleIds(grammar)
      PROVE  minLength'[r] <= Cardinality(Unresolved(r)')
  <2>1. ASSUME NEW k \in Unresolved(r) PROVE k \in Unresolved(r)'
    <3>1. k \in 1 .. RuleLength(grammar, r) /\ grammar.rules[r].syms[k] \notin isNullable
      BY <1>0, EmptySeq DEF Unresolved, Pending
    <3>2. CASE grammar.rules[r].syms[k] = nonterm
      <4>1. [rule |-> r, pos |-> k] \in calls'[1].todo
        BY <3>1, <3>2, <1>0, <1>3, UsedFacts
      <4> QED
        BY <4>1, <3>1, <1>0, <1>3 DEF Unresolved, Pending
    <3>3. CASE grammar.rules[r].syms[k] # nonterm
      BY <3>1, <3>3, <1>0 DEF Unresolved
    <3> QED
      BY <3>2, <3>3
  <2> QED
    BY <2>1, <1>0, BoundKept DEF IInv
<1> QED
  BY <1>5, <1>6, <1>7, <1>8, <1>0 DEF IInv, NoDecrementLost

LEMMA SkipNextInv == IInv /\ SkipNext => IInv'
<1> SUFFICES ASSUME IInv, SkipNext PROVE IInv'
  OBVIOUS
<1>0. /\ nonterm <= grammar.numSymbols /\ ~HasEmptyRule(nonterm) /\ nonterm' = nonterm + 1
      /\ grammar' = grammar /\ minLength' = minLength
      /\ isNullable' = isNullable /\ calls' = calls /\ TypeOK
  BY DEF SkipNext, InLoop, IInv
<1>1. /\ nonterm \in Int
      /\ nonterm' \in grammar.lastTerminal + 1 .. grammar.numSymbols + 1
  BY <1>0, GrammarFacts DEF TypeOK, Nonterminals
<1>2. TypeOK'
  BY <1>0, <1>1 DEF TypeOK, Activations
<1>3. OccurrencesExist' /\ NoDecrementLost'
  BY <1>0 DEF IInv, OccurrencesExist, NoDecrementLost, Unresolved, Pending
<1>4. ZeroMarks'
  <2>1. ASSUME NEW r \in RuleIds(grammar),
               RuleLength(grammar, r) = 0, nonterm <= grammar.rules[r].nonterm
        PROVE  nonterm' <= grammar.rules[r].nonterm
    <3>1. grammar.rules[r].nonterm \in Int
      BY <1>0, GrammarFacts DEF Nonterminals
    <3>2. minLength[r] = 0
      BY <2>1 DEF IInv, ZeroMarks
    <3>3. grammar.rules[r].nonterm # nonterm
      BY <3>2, <1>0 DEF HasEmptyRule, RulesOf
    <3> QED
      BY <2>1, <3>1, <3>3, <1>0, <1>1
  <2> QED
    BY <2>1, <1>0 DEF ZeroMarks, IInv
<1> QED
  BY <1>2, <1>3, <1>4 DEF IInv

LEMMA ReturnInv == IInv /\ Return => IInv'
<1> SUFFICES ASSUME IInv, Return PROVE IInv'
  OBVIOUS
<1>0. /\ calls # <<>> /\ LastCall.todo = {} /\ calls' = Outer /\ grammar' = grammar
      /\ minLength' = minLength /\ isNullable' = isNullable /\ nonterm' = nonterm /\ TypeOK
  BY DEF Return, IInv
<1>1. TypeOK'
  BY <1>0, CallFacts DEF TypeOK, Activations
<1>2. DOMAIN calls' = 1 .. Len(calls) - 1 /\ DOMAIN calls = 1 .. Len(calls)
      /\ Len(calls) \in Nat \ {0}
      /\ \A c \in 1 .. Len(calls) - 1 : calls'[c] = calls[c]
  BY <1>0, CallFacts
<1>3. OccurrencesExist'
  BY <1>0, <1>2 DEF IInv, OccurrencesExist
<1>4. ZeroMarks'
  BY <1>0 DEF IInv, ZeroMarks
<1>5. ASSUME NEW o, Pending(o) PROVE Pending(o)'
  <2>1. PICK c \in 1 .. Len(calls) : o \in calls[c].todo
    BY <1>5, <1>2 DEF Pending
  <2>2. c # Len(calls)
    BY <2>1, <1>0 DEF LastCall
  <2>3. c \in 1 .. Len(calls) - 1
    <3>1. Len(calls) \in Nat \ {0}
      BY <1>2
    <3>2. ASSUME NEW l \in Nat \ {0}, NEW b \in 1 .. l, b # l PROVE b \in 1 .. l - 1
      BY <3>2
    <3> QED
      BY <2>2, <3>1, <3>2
  <2>4. c \in DOMAIN calls' /\ o \in calls'[c].todo
    <3>1. calls'[c] = calls[c]
      BY <2>3, <1>2
    <3> QED
      BY <2>1, <2>3, <3>1, <1>2
  <2> QED
    BY <2>4 DEF Pending
<1>6. ASSUME NEW r \in RuleIds(grammar)
      PROVE  minLength'[r] <= Cardinality(Unresolved(r)')
  <2>1. Unresolved(r) \subseteq Unresolved(r)'
    BY <1>0, <1>5 DEF Unresolved
  <2> QED
    BY <2>1, <1>0, BoundKept DEF IInv
<1> QED
  BY <1>0, <1>1, <1>3, <1>4, <1>6 DEF IInv, NoDecrementLost

(* Whatever the branch of TakeOccurrence: the activations there were keep  *)
(* what is pending but o, and a nonterminal that becomes nullable leaves   *)
(* all its occurrences pending.                                            *)
LEMMA TakeOccurrenceFacts ==
    ASSUME IInv, calls # <<>>, NEW o \in LastCall.todo, TakeOccurrence(o),
           grammar' = grammar
    PROVE  /\ calls' \in Seq(Activations)
           /\ isNullable' \subseteq Nonterminals(grammar) /\ isNullable \subseteq isNullable'
           /\ OccurrencesExist'
           /\ \A p : Pending(p) /\ p # o => Pending(p)'
           /\ \A A \in isNullable' \ isNullable : \A p \in Used(A) : Pending(p)'
<1> DEFINE n == Len(calls)
           A == grammar.rules[o.rule].nonterm
           top == [nt |-> LastCall.nt, todo |-> LastCall.todo \ {o}]
           rest == [calls EXCEPT ![n] = top]
           new == [nt |-> A, todo |-> Used(A)]
<1>1. /\ TypeOK /\ n \in Nat \ {0} /\ DOMAIN calls = 1 .. n
      /\ calls \in Seq(Activations) /\ LastCall \in Activations /\ LastCall = calls[n]
      /\ \A c \in 1 .. n : calls[c] \in Activations
  BY CallFacts DEF IInv, TypeOK, LastCall
<1>2. top \in Activations /\ o.rule \in RuleIds(grammar) /\ A \in Nonterminals(grammar)
  BY <1>1, GrammarFacts DEF Activations
<1>3. /\ rest \in Seq(Activations) /\ Len(rest) = n /\ DOMAIN rest = 1 .. n
      /\ \A c \in 1 .. n : rest[c] = IF c = n THEN top ELSE calls[c]
  <2>1. n \in 1 .. Len(calls)
    BY <1>1
  <2> HIDE DEF top
  <2>2. rest \in Seq(Activations) /\ Len(rest) = n
        /\ \A c \in 1 .. n : rest[c] = IF c = n THEN top ELSE calls[c]
    BY <2>1, <1>1, <1>2, ExceptSeq
  <2> HIDE DEF rest
  <2> QED
    BY <2>2, LenProperties
<1>4. new \in Activations
  BY <1>1, <1>2, UsedFacts DEF Activations
<1>5. \/ isNullable' = isNullable /\ calls' = rest
      \/ isNullable' = isNullable \union {A} /\ calls' = Append(rest, new)
  BY DEF TakeOccurrence
<1> HIDE DEF rest
<1>6. /\ \A c \in 1 .. n : c \in DOMAIN calls' /\ calls'[c] = rest[c]
      /\ calls' \in Seq(Activations)
      /\ \A c \in DOMAIN calls' : c \in 1 .. n \/ calls'[c] = new
  <2> HIDE DEF new, n
  <2>1. CASE calls' = rest
    BY <2>1, <1>3
  <2>2. CASE calls' = Append(rest, new)
    <3>1. /\ calls' \in Seq(Activations) /\ Len(calls') = n + 1 /\ DOMAIN calls' = 1 .. n + 1
          /\ \A c \in 1 .. n : calls'[c] = rest[c]
          /\ calls'[n + 1] = new
      BY <2>2, <1>1, <1>3, <1>4
    <3> QED
      BY <3>1, <1>1
  <2> QED
    BY <2>1, <2>2, <1>5
<1>7. isNullable' \subseteq Nonterminals(grammar) /\ isNullable \subseteq isNullable'
  BY <1>1, <1>2, <1>5 DEF TypeOK
<1>8. ASSUME NEW c \in DOMAIN calls', NEW p \in calls'[c].todo
      PROVE  p.pos \in 1 .. RuleLength(grammar, p.rule)
  <2>1. CASE c \in 1 .. n
    <3>1. p \in calls[c].todo
      <4>1. calls'[c] = IF c = n THEN top ELSE calls[c]
        BY <2>1, <1>3, <1>6
      <4>2. top.todo \subseteq LastCall.todo /\ LastCall = calls[n]
        BY <1>1
      <4> HIDE DEF top, n
      <4> QED
        BY <4>1, <4>2
    <3> QED
      BY <3>1, <2>1, <1>1 DEF IInv, OccurrencesExist
  <2>2. CASE calls'[c] = new
    BY <2>2, <1>1, UsedFacts
  <2> QED
    BY <2>1, <2>2, <1>6
<1>9. ASSUME NEW p, Pending(p), p # o PROVE Pending(p)'
  <2>1. PICK c \in 1 .. n : p \in calls[c].todo
    BY <1>9, <1>1 DEF Pending
  <2>2. p \in rest[c].todo
    <3>1. rest[c] = IF c = n THEN top ELSE calls[c]
      BY <1>3
    <3>2. top.todo = LastCall.todo \ {o} /\ LastCall = calls[n]
      BY <1>1
    <3> HIDE DEF top, n
    <3> QED
      BY <2>1, <3>1, <3>2, <1>9
  <2>3. c \in DOMAIN calls' /\ p \in calls'[c].todo
    BY <2>1, <2>2, <1>6
  <2> QED
    BY <2>3 DEF Pending
<1>10. ASSUME NEW B \in isNullable' \ isNullable, NEW p \in Used(B) PROVE Pending(p)'
  <2>1. B = A /\ calls' = Append(rest, new)
    BY <1>5
  <2>2. n + 1 \in DOMAIN calls' /\ calls'[n + 1] = new
    <3> HIDE DEF new, n
    <3> QED
      BY <2>1, <1>1, <1>3, <1>4
  <2> QED
    BY <2>1, <2>2 DEF Pending
<1> QED
  BY <1>6, <1>7, <1>8, <1>9, <1>10 DEF OccurrencesExist

LEMMA DecrementInv == IInv /\ Decrement => IInv'
<1> SUFFICES ASSUME IInv, Decrement PROVE IInv'
  OBVIOUS
<1>0. calls # <<>> /\ grammar' = grammar /\ nonterm' = nonterm /\ TypeOK
  BY DEF Decrement, IInv
<1>1. PICK o \in LastCall.todo : TakeOccurrence(o)
  BY DEF Decrement
<1>2. /\ calls' \in Seq(Activations)
      /\ isNullable' \subseteq Nonterminals(grammar) /\ isNullable \subseteq isNullable'
      /\ OccurrencesExist'
      /\ \A p : Pending(p) /\ p # o => Pending(p)'
      /\ \A A \in isNullable' \ isNullable : \A p \in Used(A) : Pending(p)'
  BY <1>0, <1>1, TakeOccurrenceFacts
<1>3. /\ o.rule \in RuleIds(grammar) /\ o.pos \in 1 .. RuleLength(grammar, o.rule)
      /\ RuleLength(grammar, o.rule) # 0
  <2>1. LastCall \in Activations /\ Len(calls) \in DOMAIN calls
    BY <1>0, CallFacts
  <2>2. o.rule \in RuleIds(grammar)
    BY <2>1 DEF Activations
  <2>3. o.pos \in 1 .. RuleLength(grammar, o.rule)
    BY <2>1 DEF IInv, OccurrencesExist, LastCall
  <2> QED
    BY <2>2, <2>3
<1>4. /\ minLength \in [RuleIds(grammar) -> Int]
      /\ minLength' = [minLength EXCEPT ![o.rule] = minLength[o.rule] - 1]
      /\ minLength[o.rule] - 1 = 0 => grammar.rules[o.rule].nonterm \in isNullable'
  BY <1>0, <1>1 DEF TakeOccurrence, TypeOK
<1>5. /\ minLength' \in [RuleIds(grammar) -> Int]
      /\ minLength'[o.rule] = minLength[o.rule] - 1
      /\ \A r \in RuleIds(grammar) \ {o.rule} : minLength'[r] = minLength[r]
  BY <1>3, <1>4
<1>6. TypeOK'
  BY <1>0, <1>2, <1>5 DEF TypeOK, Activations
<1>7. ZeroMarks'
  <2>1. ASSUME minLength'[o.rule] <= 0
        PROVE  grammar.rules[o.rule].nonterm \in isNullable'
    <3>1. minLength[o.rule] \in Int
      BY <1>3, <1>4
    <3>2. CASE minLength[o.rule] - 1 = 0
      BY <3>2, <1>4
    <3>3. CASE minLength[o.rule] <= 0
      BY <3>3, <1>2, <1>3 DEF IInv, ZeroMarks
    <3> QED
      BY <2>1, <3>1, <3>2, <3>3, <1>5
  <2>2. ASSUME NEW r \in RuleIds(grammar), r # o.rule
        PROVE  /\ RuleLength(grammar, r) = 0 => minLength'[r] = 0
               /\ minLength'[r] <= 0 =>
                     \/ grammar.rules[r].nonterm \in isNullable'
                     \/ RuleLength(grammar, r) = 0 /\ nonterm <= grammar.rules[r].nonterm
    BY <2>2, <1>2, <1>5 DEF IInv, ZeroMarks
  <2> QED
    BY <2>1, <2>2, <1>0, <1>3 DEF ZeroMarks
<1>8. ASSUME NEW r \in RuleIds(grammar)
      PROVE  minLength'[r] <= Cardinality(Unresolved(r)')
  <2>1. ASSUME NEW k \in Unresolved(r), [rule |-> r, pos |-> k] # o
        PROVE  k \in Unresolved(r)'
    <3>1. k \in 1 .. RuleLength(grammar, r)
      BY DEF Unresolved
    <3>2. CASE Pending([rule |-> r, pos |-> k])
      BY <2>1, <3>1, <3>2, <1>0, <1>2 DEF Unresolved
    <3>3. CASE grammar.rules[r].syms[k] \notin isNullable
      <4>1. [rule |-> r, pos |-> k] \in Used(grammar.rules[r].syms[k])
        BY <3>1, <1>0, UsedFacts
      <4>2. grammar.rules[r].syms[k] \in isNullable' => Pending([rule |-> r, pos |-> k])'
        BY <4>1, <3>3, <1>2
      <4> QED
        BY <4>2, <3>1, <1>0 DEF Unresolved
    <3> QED
      BY <3>2, <3>3 DEF Unresolved
  <2>2. CASE r = o.rule
    <3>1. Unresolved(r) \ {o.pos} \subseteq Unresolved(r)'
      BY <2>1
    <3> QED
      BY <3>1, <2>2, <1>0, <1>5, BoundKept DEF IInv
  <2>3. CASE r # o.rule
    <3>1. Unresolved(r) \subseteq Unresolved(r)'
      BY <2>1, <2>3
    <3> QED
      BY <3>1, <2>3, <1>0, <1>5, BoundKept DEF IInv
  <2> QED
    BY <2>2, <2>3
<1> QED
  BY <1>0, <1>2, <1>6, <1>7, <1>8 DEF IInv, NoDecrementLost

LEMMA Inductive == IInv /\ [Next]_vars => IInv'
<1> SUFFICES ASSUME IInv, [Next]_vars PROVE IInv'
  OBVIOUS
<1>1. CASE UNCHANGED vars
  BY <1>1 DEF vars, IInv, TypeOK, Activations, OccurrencesExist, ZeroMarks, NoDecrementLost,
              Unresolved, Pending
<1> QED
  BY <1>1, NullifyNextInv, SkipNextInv, DecrementInv, ReturnInv DEF Next

LEMMA InvariantHolds == Spec => []IInv
  BY InitInv, Inductive, PTL DEF Spec

(* Counts, flags and activations keep their types, whatever the grammar.   *)
THEOREM TypeCorrect == Spec => []TypeOK
<1>1. IInv => TypeOK
  BY DEF IInv
<1> QED
  BY <1>1, InvariantHolds, PTL

(* nullify() loses no decrement, however deep it is nested.                *)
THEOREM NothingLost == Spec => []NoDecrementLost
<1>1. IInv => NoDecrementLost
  BY DEF IInv
<1> QED
  BY <1>1, InvariantHolds, PTL

(* When the loops are done no rule is left that could mark its left side,  *)
(* so the marks contain the least set closed under the rules.              *)
LEMMA DoneCovers ==
    ASSUME IInv, Done
    PROVE  NullableSet(grammar) \subseteq isNullable
<1>1. ASSUME NEW r \in RuleIds(grammar), DerivesWithin(grammar, r, isNullable)
      PROVE  grammar.rules[r].nonterm \in isNullable
  <2>1. Unresolved(r) = {}
    BY <1>1, EmptySeq DEF Unresolved, Pending, Done, DerivesWithin
  <2>2. minLength[r] <= 0
    BY <2>1, FS_EmptySet DEF IInv, NoDecrementLost
  <2>3. /\ grammar.rules[r].nonterm \in Nonterminals(grammar)
        /\ grammar.numSymbols \in Nat /\ nonterm > grammar.numSymbols
        /\ nonterm \in Int
    BY GrammarFacts DEF IInv, Done, TypeOK
  <2>4. ~(nonterm <= grammar.rules[r].nonterm)
    BY <2>3 DEF Nonterminals
  <2> QED
    BY <2>2, <2>4 DEF IInv, ZeroMarks
<1>2. isNullable \in SUBSET Nonterminals(grammar)
  BY DEF IInv, TypeOK
<1> QED
  BY <1>1, <1>2 DEF NullableSet

(* grammar2.cc:183: computeNullable() covers all cases.                    *)
THEOREM CoversAll == Spec => []CoversAllCases
<1>1. IInv => CoversAllCases
  BY DoneCovers DEF CoversAllCases
<1> QED
  BY <1>1, InvariantHolds, PTL
=============================================================================
