--------------------------- MODULE Runtime_proofs ---------------------------
(***************************************************************************)
(* Proofs about the run-time system, for any tables with the items of an   *)
(* LR(0) automaton.  The key to the parser is that the stack is a path in  *)
(* the automaton along which the items of its states can be followed back: *)
(* so a reduction finds its right side on the stack.  Behind the parser    *)
(* come the buffer of the scanner, its longest match, and its lines.       *)
(***************************************************************************)
EXTENDS Runtime, SequenceTheorems, FunctionTheorems, FiniteSetTheorems, TLAPS

(* S is a path of n edges from the first state; an item with the dot       *)
(* behind p symbols was begun p states before.                             *)
IsPath(tab, n, S) ==
    /\ S \in [0 .. n -> States(tab)]
    /\ S[0] = 1
    /\ \A i \in 0 .. n - 1 : \E x \in Columns(tab) : tab.next[S[i]][x] = S[i + 1]
    /\ \A i \in 0 .. n, r \in DOMAIN tab.length : \A p \in 0 .. tab.length[r] :
          <<r, p>> \in tab.items[S[i]] => p <= i /\ <<r, 0>> \in tab.items[S[i - p]]

Pushed(n, S, t) == [i \in 0 .. n + 1 |-> IF i = n + 1 THEN t ELSE S[i]]
Popped(m, S) == [i \in 0 .. m |-> S[i]]

LEMMA TableFacts ==
    ASSUME NEW tab \in Tables
    PROVE  /\ IsTable(tab) /\ IsItemTable(tab) /\ IsAcceptTable(tab)
           /\ Len(tab.next) \in Nat \ {0} /\ States(tab) = 1 .. Len(tab.next)
           /\ \A s \in States(tab), x \in Columns(tab) : tab.next[s][x] \in 0 .. AcceptState(tab)
           /\ AcceptState(tab) \in Nat /\ Columns(tab) \subseteq Nat \ {0}
           /\ Len(tab.length) \in Nat /\ DOMAIN tab.length = 1 .. Len(tab.length)
           /\ \A r \in DOMAIN tab.length : tab.length[r] \in Nat /\ tab.token[r] \in Columns(tab)
<1>1. IsTable(tab) /\ IsItemTable(tab) /\ IsAcceptTable(tab)
  BY TablesAssumption
<1>2. /\ tab.next \in Seq(Seq(0 .. AcceptState(tab))) /\ tab.next # <<>>
      /\ tab.length \in Seq(Nat) /\ tab.token \in Seq(Columns(tab))
      /\ Len(tab.token) = Len(tab.length)
      /\ \A s \in States(tab) : DOMAIN tab.next[s] = Columns(tab)
  BY <1>1 DEF IsTable
<1>3. /\ Len(tab.next) \in Nat \ {0} /\ States(tab) = 1 .. Len(tab.next)
      /\ \A s \in States(tab) : tab.next[s] \in Seq(0 .. AcceptState(tab))
  BY <1>2, EmptySeq, LenProperties DEF States
<1>4. /\ Len(tab.length) \in Nat /\ DOMAIN tab.length = 1 .. Len(tab.length)
      /\ \A r \in DOMAIN tab.length : tab.length[r] \in Nat /\ tab.token[r] \in Columns(tab)
  BY <1>2, LenProperties
<1>5. ASSUME NEW s \in States(tab)
      PROVE  /\ Columns(tab) = 1 .. Len(tab.next[s]) /\ Len(tab.next[s]) \in Nat
             /\ \A x \in Columns(tab) : tab.next[s][x] \in 0 .. AcceptState(tab)
  <2>1. tab.next[s] \in Seq(0 .. AcceptState(tab)) /\ DOMAIN tab.next[s] = Columns(tab)
    BY <1>2, <1>3
  <2> QED
    BY <2>1, LenProperties
<1>6. Columns(tab) \subseteq Nat \ {0}
  <2>1. 1 \in States(tab)
    BY <1>3
  <2> QED
    BY <2>1, <1>5
<1>7. \A s \in States(tab), x \in Columns(tab) : tab.next[s][x] \in 0 .. AcceptState(tab)
  BY <1>5
<1>8. AcceptState(tab) \in Nat
  <2>1. \A a, b \in Nat : a + b \in Nat
    OBVIOUS
  <2>2. Len(tab.next) + Len(tab.length) \in Nat
    BY <1>3, <1>4, <2>1, Zenon
  <2> QED
    BY <2>2 DEF AcceptState
<1> QED
  BY ONLY <1>1, <1>3, <1>4, <1>6, <1>7, <1>8

(* An edge from the last state of a path makes it longer.                  *)
LEMMA PushPath ==
    ASSUME NEW tab \in Tables, NEW n \in Nat, NEW S, IsPath(tab, n, S),
           NEW x \in Columns(tab), NEW t \in States(tab), tab.next[S[n]][x] = t
    PROVE  IsPath(tab, n + 1, Pushed(n, S, t))
<1> DEFINE Q == Pushed(n, S, t)
<1>1. /\ Q \in [0 .. n + 1 -> States(tab)] /\ Q[n + 1] = t /\ Q[0] = 1
      /\ \A i \in 0 .. n : Q[i] = S[i]
  BY DEF Pushed, IsPath
<1>2. S[n] \in States(tab)
  BY DEF IsPath
<1> HIDE DEF Q
<1>3. ASSUME NEW i \in 0 .. n PROVE \E y \in Columns(tab) : tab.next[Q[i]][y] = Q[i + 1]
  <2>1. CASE i = n
    BY <1>1, <2>1
  <2>2. CASE i \in 0 .. n - 1
    BY <1>1, <2>2 DEF IsPath
  <2> QED
    BY <2>1, <2>2
<1>4. ASSUME NEW i \in 0 .. n + 1, NEW r \in DOMAIN tab.length, NEW p \in 0 .. tab.length[r],
             <<r, p>> \in tab.items[Q[i]]
      PROVE  p <= i /\ <<r, 0>> \in tab.items[Q[i - p]]
  <2>0. tab.length[r] \in Nat
    BY TableFacts
  <2>1. CASE i \in 0 .. n
    <3>1. p <= i /\ <<r, 0>> \in tab.items[S[i - p]]
      BY <1>1, <1>4, <2>1 DEF IsPath
    <3>2. i - p \in 0 .. n
      BY <3>1, <2>0, <2>1
    <3> QED
      BY <3>1, <3>2, <1>1
  <2>2. CASE i = n + 1 /\ p = 0
    BY <1>4, <2>2
  <2>3. CASE i = n + 1 /\ p # 0
    <3>1. p \in 1 .. tab.length[r] /\ p - 1 \in 0 .. tab.length[r]
      BY <2>0, <2>3
    <3>2. <<r, p - 1>> \in tab.items[S[n]]
      <4>1. \A q \in 1 .. tab.length[r] :
              <<r, q>> \in tab.items[tab.next[S[n]][x]] => <<r, q - 1>> \in tab.items[S[n]]
        BY <1>2, TableFacts DEF IsItemTable
      <4>2. <<r, p>> \in tab.items[tab.next[S[n]][x]]
        BY <1>1, <1>4, <2>3
      <4> QED
        BY <3>1, <4>1, <4>2
    <3>3. p - 1 <= n /\ <<r, 0>> \in tab.items[S[n - (p - 1)]]
      BY <3>1, <3>2 DEF IsPath
    <3>4. n - (p - 1) = i - p /\ i - p \in 0 .. n /\ p <= i
      BY <3>1, <3>3, <2>0, <2>3
    <3> QED
      BY <3>3, <3>4, <1>1
  <2> QED
    BY <2>1, <2>2, <2>3
<1>5. (n + 1) - 1 = n
  OBVIOUS
<1>6. IsPath(tab, n + 1, Q)
  BY <1>1, <1>3, <1>4, <1>5 DEF IsPath
<1> QED
  BY <1>6 DEF Q

(* The beginning of a path is a path.                                      *)
LEMMA PopPath ==
    ASSUME NEW tab \in Tables, NEW n \in Nat, NEW S, IsPath(tab, n, S), NEW m \in 0 .. n
    PROVE  IsPath(tab, m, Popped(m, S))
<1> DEFINE Q == Popped(m, S)
<1>1. Q \in [0 .. m -> States(tab)] /\ Q[0] = 1 /\ \A i \in 0 .. m : Q[i] = S[i]
  BY DEF Popped, IsPath
<1> HIDE DEF Q
<1>2. ASSUME NEW i \in 0 .. m - 1 PROVE \E x \in Columns(tab) : tab.next[Q[i]][x] = Q[i + 1]
  BY SMTT(30), <1>1 DEF IsPath
<1>3. ASSUME NEW i \in 0 .. m, NEW r \in DOMAIN tab.length, NEW p \in 0 .. tab.length[r],
             <<r, p>> \in tab.items[Q[i]]
      PROVE  p <= i /\ <<r, 0>> \in tab.items[Q[i - p]]
  <2>a. tab.length[r] \in Nat
    BY TableFacts
  <2>b. i \in 0 .. n /\ Q[i] = S[i]
    BY <1>1
  <2>1. tab.length[r] \in Nat /\ i \in 0 .. n /\ Q[i] = S[i]
    BY <2>a, <2>b
  <2>2. p <= i /\ <<r, 0>> \in tab.items[S[i - p]]
    BY <1>3, <2>1 DEF IsPath
  <2>3. i - p \in 0 .. m
    BY <2>1, <2>2
  <2> QED
    BY <1>1, <2>2, <2>3
<1> QED
  BY <1>1, <1>2, <1>3 DEF IsPath, Q
-----------------------------------------------------------------------------
ParserTypeOK ==
    /\ table \in Tables
    /\ yypstate \in States(table) /\ yypnextstate \in 0 .. AcceptState(table)
    /\ yytoken \in Terminals(table) \union {None}
    /\ yypstack \in [Addresses -> [state : Nat, strpos : 0 .. MemoryBound, len : Nat,
                                  owner : Nat, attr : Nat]]
    /\ yypstacktop \in 0 .. MemoryBound /\ yypstacklen \in Nat \ {0}
    /\ yypstrstack \in [Addresses -> Nat] /\ yypstrstacktop \in 0 .. MemoryBound
    /\ yylstrlen \in Nat /\ yylsynattr \in Nat /\ yypsynattr \in Nat
    /\ input \in Seq(Nat)
    /\ pc \in {"read", "look", "recover", "act", "fini"}

Path == [i \in 0 .. yypstacktop |-> IF i = yypstacktop THEN yypstate ELSE yypstack[i].state]

(* What the parser is about to do has an entry in the table.               *)
EntryFound ==
    /\ pc = "look" => yytoken # None
    /\ pc = "act" => \E x \in Terminals(table) : yypnextstate = Goto(yypstate, x) /\ yypnextstate # NoState

ParserInv ==
    /\ ParserTypeOK
    /\ ~Finished => IsPath(table, yypstacktop, Path)
    /\ EntryFound

LEMMA ParserFacts ==
    ASSUME ParserTypeOK
    PROVE  /\ Len(table.next) \in Nat \ {0} /\ States(table) = 1 .. Len(table.next)
           /\ LastShiftState(table) = Len(table.next)
           /\ AcceptState(table) = Len(table.next) + Len(table.length)
           /\ AcceptState(table) \in Nat
           /\ \A s \in States(table), x \in Columns(table) : Goto(s, x) \in 0 .. AcceptState(table)
           /\ Columns(table) \subseteq Nat \ {0}
           /\ Len(table.length) \in Nat /\ DOMAIN table.length = 1 .. Len(table.length)
           /\ \A r \in DOMAIN table.length : table.length[r] \in Nat /\ table.token[r] \in Columns(table)
           /\ Terminals(table) \subseteq Columns(table)
           /\ table.error \in Terminals(table) /\ table.eof \in Terminals(table)
           /\ table.tokens \subseteq Terminals(table)
           /\ Len(input) \in Nat
<1>1. table \in Tables /\ input \in Seq(Nat)
  BY DEF ParserTypeOK
<1>2. Terminals(table) \subseteq Columns(table)
  BY <1>1, TableFacts DEF IsTable
<1>3. Len(input) \in Nat
  BY <1>1, LenProperties
<1>4. table.error \in Terminals(table) /\ table.eof \in Terminals(table) /\ table.tokens \subseteq Terminals(table)
  BY DEF Terminals
<1> QED
  BY <1>1, <1>2, <1>3, <1>4, TableFacts DEF Goto, LastShiftState, AcceptState

LEMMA ParserInit == Init => ParserInv
<1> SUFFICES ASSUME Init PROVE ParserInv
  OBVIOUS
<1> USE DEF Init
<1>1. table \in Tables /\ Len(table.next) \in Nat \ {0} /\ States(table) = 1 .. Len(table.next)
  BY TableFacts
<1>2. /\ DOMAIN table.length = 1 .. Len(table.length) /\ Len(table.length) \in Nat
      /\ \A r \in DOMAIN table.length : table.length[r] \in Nat
      /\ IsItemTable(table)
  BY <1>1, TableFacts
<1>3. yypnextstate \in 0 .. AcceptState(table)
  BY <1>1, TableFacts DEF NoState
<1>4. PICK g \in Garbage : yypstack = [i \in Addresses |->
                                [state |-> 0, strpos |-> g, len |-> 0, owner |-> 0, attr |-> 0]]
  OBVIOUS
<1>5. g \in 0 .. MemoryBound
  BY BoundsAssumption
<1>6. yypstack \in [Addresses -> [state : Nat, strpos : 0 .. MemoryBound, len : Nat,
                                 owner : Nat, attr : Nat]]
  BY <1>4, <1>5
<1>7. input \in Seq(Nat)
  OBVIOUS
<1>8. ParserTypeOK
  BY <1>1, <1>3, <1>6, <1>7, BoundsAssumption DEF ParserTypeOK, None
<1>9. Path = [i \in 0 .. 0 |-> 1]
  BY DEF Path
<1>10. IsPath(table, 0, [i \in 0 .. 0 |-> 1])
  <2>1. \A r \in DOMAIN table.length : \A p \in 0 .. table.length[r] :
          <<r, p>> \in table.items[1] => p = 0
    BY <1>2 DEF IsItemTable
  <2> QED
    BY <1>1, <2>1 DEF IsPath
<1> QED
  BY <1>8, <1>9, <1>10 DEF ParserInv, EntryFound

(* The steps that leave the stack alone.                                   *)
LEMMA PathKept ==
    ASSUME ~Finished => IsPath(table, yypstacktop, Path), pc # "fini",
           UNCHANGED <<table, yypstate, yypstack, yypstacktop>>
    PROVE  IsPath(table', yypstacktop', Path')
BY DEF Finished, Path

LEMMA ReadTokenInv == ParserInv /\ ReadToken => ParserInv'
<1> SUFFICES ASSUME ParserInv, ReadToken PROVE ParserInv'
  OBVIOUS
<1>1. /\ pc = "read" /\ pc' = "look" /\ yypstacklen' = GrownLen
      /\ yylsynattr' = LexerAction(yytoken', Len(input'))
      /\ UNCHANGED <<table, yypstate, yypnextstate, yyprecovering, yypstack, yypstacktop,
                     yypstrstack, yypstrstacktop, yypsynattr, failed>>
  BY DEF ReadToken
<1>2. yytoken' \in Terminals(table) /\ input' \in Seq(Nat) /\ yylstrlen' \in Nat
  <2>1. /\ input \in Seq(Nat) /\ table.eof \in Terminals(table)
        /\ table.tokens \subseteq Terminals(table) /\ Terminals(table) \subseteq Nat
    BY ParserFacts DEF ParserInv, ParserTypeOK
  <2>2. CASE yytoken' = table.eof /\ yylstrlen' = 0 /\ input' = input
    BY <2>1, <2>2
  <2>3. CASE /\ yytoken' \in table.tokens
             /\ yylstrlen' \in IF yytoken' \in table.texts THEN TextLengths ELSE {0}
             /\ input' = Append(input, yytoken')
    BY <2>1, <2>3, BoundsAssumption
  <2> QED
    BY <2>2, <2>3 DEF ReadToken
<1>3. yypstacklen' \in Nat \ {0} /\ yylsynattr' \in Nat
  <2>1. Len(input') \in Nat
    BY <1>2, LenProperties
  <2> QED
    BY <1>1, <2>1 DEF ParserInv, ParserTypeOK, GrownLen, LexerAction
<1>4. ParserTypeOK'
  BY <1>1, <1>2, <1>3 DEF ParserInv, ParserTypeOK, Goto
<1>5. IsPath(table, yypstacktop, Path)'
  BY <1>1, PathKept DEF ParserInv
<1>6. yytoken' # None
  BY <1>2, ParserFacts DEF ParserInv, None
<1> QED
  BY <1>1, <1>4, <1>5, <1>6 DEF ParserInv, EntryFound

LEMMA LookUpInv == ParserInv /\ LookUp => ParserInv'
<1> SUFFICES ASSUME ParserInv, LookUp PROVE ParserInv'
  OBVIOUS
<1>1. /\ pc = "look" /\ pc' = "act" /\ Goto(yypstate, yytoken) # NoState
      /\ yypnextstate' = Goto(yypstate, yytoken)
      /\ UNCHANGED <<table, yypstate, yytoken, yyprecovering, yypstack, yypstacktop, yypstacklen,
                     yypstrstack, yypstrstacktop, yylstrlen, attributes, failed, input, ended>>
  BY DEF LookUp
<1>2. /\ yytoken \in Terminals(table) /\ Terminals(table) \subseteq Columns(table)
      /\ yypstate \in States(table)
  BY <1>1, ParserFacts DEF ParserInv, ParserTypeOK, EntryFound
<1>3. yypnextstate' \in 0 .. AcceptState(table)
  BY <1>1, <1>2, ParserFacts DEF ParserInv
<1>4. ParserTypeOK'
  BY <1>1, <1>3 DEF ParserInv, ParserTypeOK, attributes
<1>5. IsPath(table, yypstacktop, Path)'
  BY <1>1, PathKept DEF ParserInv
<1>6. \E x \in Terminals(table) : yypnextstate' = Goto(yypstate, x) /\ yypnextstate' # NoState
  BY <1>1, <1>2
<1>7. EntryFound'
  BY <1>1, <1>6 DEF EntryFound, Goto
<1> QED
  BY <1>4, <1>5, <1>7 DEF ParserInv

LEMMA RecoverStateInv == ParserInv /\ RecoverState => ParserInv'
<1> SUFFICES ASSUME ParserInv, RecoverState PROVE ParserInv'
  OBVIOUS
<1>1. /\ pc = "recover" /\ pc' = "act" /\ Goto(yypstate, table.error) # NoState
      /\ yypnextstate' = Goto(yypstate, table.error)
      /\ UNCHANGED <<table, yypstate, yytoken, yypstack, yypstacktop, yypstacklen,
                     yypstrstack, yypstrstacktop, yylstrlen, attributes, failed, input, ended>>
  BY DEF RecoverState
<1>2. /\ table.error \in Terminals(table) /\ Terminals(table) \subseteq Columns(table)
      /\ yypstate \in States(table)
  BY ParserFacts DEF ParserInv, ParserTypeOK
<1>3. yypnextstate' \in 0 .. AcceptState(table)
  BY <1>1, <1>2, ParserFacts DEF ParserInv
<1>4. ParserTypeOK'
  BY <1>1, <1>3 DEF ParserInv, ParserTypeOK, attributes
<1>5. IsPath(table, yypstacktop, Path)'
  BY <1>1, PathKept DEF ParserInv
<1>6. \E x \in Terminals(table) : yypnextstate' = Goto(yypstate, x) /\ yypnextstate' # NoState
  BY <1>1, <1>2
<1>7. EntryFound'
  BY <1>1, <1>6 DEF EntryFound, Goto
<1> QED
  BY <1>4, <1>5, <1>7 DEF ParserInv

LEMMA NoEntryInv == ParserInv /\ (DropToken \/ ReportError \/ NoRecovery) => ParserInv'
<1> SUFFICES ASSUME ParserInv, DropToken \/ ReportError \/ NoRecovery PROVE ParserInv'
  OBVIOUS
<1>1. /\ pc \in {"look", "recover"} /\ pc' \in {"read", "recover", "fini"}
      /\ yypnextstate' = NoState \/ UNCHANGED yypnextstate
      /\ UNCHANGED <<table, yypstate, yytoken, yypstack, yypstacktop, yypstacklen,
                     yypstrstack, yypstrstacktop, yylstrlen, attributes, input, ended>>
  BY DEF DropToken, ReportError, NoRecovery
<1>2. yypnextstate' \in 0 .. AcceptState(table)
  <2>1. AcceptState(table) \in Nat
    BY ParserFacts DEF ParserInv
  <2> QED
    BY <1>1, <2>1 DEF ParserInv, ParserTypeOK, NoState
<1>3. ParserTypeOK'
  BY <1>1, <1>2 DEF ParserInv, ParserTypeOK, attributes
<1>4. IsPath(table, yypstacktop, Path)'
  BY <1>1, PathKept DEF ParserInv
<1> QED
  BY <1>1, <1>3, <1>4 DEF ParserInv, EntryFound

LEMMA PopStateInv == ParserInv /\ PopState => ParserInv'
<1> SUFFICES ASSUME ParserInv, PopState PROVE ParserInv'
  OBVIOUS
<1>1. /\ pc = "recover" /\ yypstacktop > 0 /\ yypstacktop' = yypstacktop - 1
      /\ yypstate' = yypstack[yypstacktop'].state
      /\ UNCHANGED <<table, yypnextstate, yytoken, yypstack, yypstacklen, yypstrstack,
                     yypstrstacktop, yylstrlen, attributes, input, ended, pc>>
  BY DEF PopState
<1>2. /\ table \in Tables /\ yypstacktop \in 1 .. MemoryBound /\ MemoryBound \in Nat
      /\ yypstacktop' \in 0 .. yypstacktop
  BY <1>1, BoundsAssumption DEF ParserInv, ParserTypeOK
<1>3. IsPath(table, yypstacktop, Path)
  BY <1>1 DEF ParserInv, Finished
<1>4. IsPath(table, yypstacktop', Popped(yypstacktop', Path))
  BY <1>2, <1>3, PopPath
<1>5. Path' = Popped(yypstacktop', Path)
  BY <1>1, <1>2 DEF Path, Popped
<1>6. yypstate' \in States(table)
  <2>1. Path[yypstacktop'] = yypstate' /\ yypstacktop' \in 0 .. yypstacktop
    BY <1>1, <1>2 DEF Path
  <2> QED
    BY <1>3, <2>1 DEF IsPath
<1>7. ParserTypeOK'
  BY <1>1, <1>2, <1>6 DEF ParserInv, ParserTypeOK, attributes
<1> QED
  BY <1>1, <1>4, <1>5, <1>7 DEF ParserInv, EntryFound

LEMMA ShiftInv == ParserInv /\ Shift => ParserInv'
<1> SUFFICES ASSUME ParserInv, Shift PROVE ParserInv'
  OBVIOUS
<1>1. /\ pc = "act" /\ pc' = "read" /\ yypnextstate <= LastShiftState(table)
      /\ yypstacktop < MemoryBound /\ yypstrstacktop + yylstrlen <= MemoryBound
      /\ yypstrstack' = [i \in Addresses |->
                            IF i \in yypstrstacktop .. yypstrstacktop + yylstrlen - 1
                            THEN Len(input) ELSE yypstrstack[i]]
      /\ yypstrstacktop' = yypstrstacktop + yylstrlen
      /\ yypstack' = [yypstack EXCEPT ![yypstacktop] = ShiftEntry]
      /\ yypstacktop' = yypstacktop + 1
      /\ yypstate' = yypnextstate /\ yytoken' = None
      /\ UNCHANGED <<table, yypnextstate, yypstacklen, yylstrlen, attributes, failed, input, ended>>
  BY DEF Shift
<1>2. /\ table \in Tables /\ MemoryBound \in Nat /\ yypstacktop \in 0 .. MemoryBound - 1
      /\ yypstacktop \in Addresses /\ yypstacktop' \in 0 .. MemoryBound
      /\ yypstrstacktop \in 0 .. MemoryBound /\ yypstrstacktop' \in 0 .. MemoryBound
      /\ Len(input) \in Nat /\ yylstrlen \in Nat
  BY <1>1, ParserFacts, BoundsAssumption DEF ParserInv, ParserTypeOK, Addresses
<1>3. PICK x \in Columns(table) : yypnextstate = Goto(yypstate, x) /\ yypnextstate # NoState
  BY <1>1, ParserFacts DEF ParserInv, EntryFound
<1>4. yypstate \in States(table) /\ yypstate \in Nat /\ yypnextstate \in States(table)
  <2>1. /\ States(table) = 1 .. LastShiftState(table) /\ LastShiftState(table) \in Nat
        /\ AcceptState(table) \in Nat
    BY ParserFacts DEF ParserInv
  <2>2. yypstate \in States(table) /\ yypnextstate \in 0 .. AcceptState(table)
    BY DEF ParserInv, ParserTypeOK
  <2> QED
    BY <1>1, <1>3, <2>1, <2>2 DEF NoState
<1>5. IsPath(table, yypstacktop + 1, Pushed(yypstacktop, Path, yypnextstate))
  <2>1. IsPath(table, yypstacktop, Path)
    BY <1>1 DEF ParserInv, Finished
  <2>2. Path[yypstacktop] = yypstate
    BY <1>2 DEF Path
  <2>3. table.next[Path[yypstacktop]][x] = yypnextstate /\ yypstacktop \in Nat
    BY <1>2, <1>3, <2>2 DEF Goto
  <2> QED
    BY <1>2, <1>4, <2>1, <2>3, PushPath
<1>6. yypstack' \in [Addresses -> [state : Nat, strpos : 0 .. MemoryBound, len : Nat,
                                  owner : Nat, attr : Nat]]
  <2>1. ShiftEntry \in [state : Nat, strpos : 0 .. MemoryBound, len : Nat, owner : Nat, attr : Nat]
    BY <1>2, <1>4 DEF ShiftEntry, ParserInv, ParserTypeOK
  <2> QED
    BY <1>1, <2>1 DEF ParserInv, ParserTypeOK
<1>7. Path' = Pushed(yypstacktop, Path, yypnextstate)
  <2>1. /\ yypstack'[yypstacktop].state = yypstate
        /\ \A i \in 0 .. yypstacktop - 1 : yypstack'[i] = yypstack[i]
    BY <1>1, <1>2 DEF ShiftEntry, ParserInv, ParserTypeOK, Addresses
  <2> QED
    BY <1>1, <1>2, <2>1 DEF Path, Pushed
<1>8. ParserTypeOK'
  <2>1. yypstrstack' \in [Addresses -> Nat]
    BY <1>1, <1>2 DEF ParserInv, ParserTypeOK
  <2> QED
    BY <1>1, <1>2, <1>4, <1>6, <2>1 DEF ParserInv, ParserTypeOK, attributes
<1> QED
  BY <1>1, <1>5, <1>7, <1>8 DEF ParserInv, EntryFound

(* A reduction finds its right side on the stack, and below it the state   *)
(* where the rule was begun.                                               *)
ReducedRule == RuleOf(table, yypnextstate)
BaseOf == yypstacktop - table.length[ReducedRule]

LEMMA ReduceFacts ==
    ASSUME ParserInv, pc = "act", yypnextstate > LastShiftState(table)
    PROVE  /\ ReducedRule \in DOMAIN table.length /\ table.length[ReducedRule] \in Nat
           /\ <<ReducedRule, table.length[ReducedRule]>> \in table.items[yypstate]
           /\ BaseOf \in 0 .. yypstacktop
           /\ <<ReducedRule, 0>> \in table.items[Path[BaseOf]]
           /\ Path[BaseOf] \in States(table)
           /\ Path[BaseOf] = IF table.length[ReducedRule] = 0 THEN yypstate ELSE yypstack[BaseOf].state
<1> DEFINE r == ReducedRule
<1>1. /\ table \in Tables /\ yypstate \in States(table) /\ yypnextstate \in 0 .. AcceptState(table)
      /\ yypstacktop \in Nat
  BY BoundsAssumption DEF ParserInv, ParserTypeOK
<1>2. PICK x \in Columns(table) : yypnextstate = table.next[yypstate][x]
  BY ParserFacts DEF ParserInv, EntryFound, Goto
<1>3. IsItemTable(table)
  BY <1>1, TableFacts
<1>4. r \in DOMAIN table.length
  <2>1. /\ Len(table.next) \in Nat /\ Len(table.length) \in Nat
        /\ AcceptState(table) = Len(table.next) + Len(table.length)
        /\ LastShiftState(table) = Len(table.next) /\ DOMAIN table.length = 1 .. Len(table.length)
    BY ParserFacts DEF ParserInv
  <2> DEFINE a == Len(table.next)
             b == Len(table.length)
  <2>2. a \in Nat /\ b \in Nat /\ yypnextstate \in 0 .. a + b /\ yypnextstate > a
        /\ DOMAIN table.length = 1 .. b
    BY <1>1, <2>1
  <2>3. r = yypnextstate - a
    BY DEF ReducedRule, RuleOf
  <2> HIDE DEF a, b, r
  <2> QED
    BY <2>2, <2>3
<1>5. table.length[r] \in Nat
  BY <1>1, <1>4, TableFacts
<1>6. <<r, table.length[r]>> \in table.items[yypstate]
  BY <1>1, <1>2, <1>3, <1>4 DEF IsItemTable, ReducedRule
<1>7. IsPath(table, yypstacktop, Path) /\ Path[yypstacktop] = yypstate
  BY <1>1 DEF ParserInv, Finished, Path
<1>8. /\ table.length[r] <= yypstacktop
      /\ <<r, 0>> \in table.items[Path[yypstacktop - table.length[r]]]
  BY <1>1, <1>4, <1>5, <1>6, <1>7 DEF IsPath
<1>9. BaseOf \in 0 .. yypstacktop /\ <<r, 0>> \in table.items[Path[BaseOf]]
  BY <1>1, <1>5, <1>8 DEF BaseOf
<1>10. Path[BaseOf] \in States(table)
  BY <1>7, <1>9 DEF IsPath
<1>11. Path[BaseOf] = IF table.length[r] = 0 THEN yypstate ELSE yypstack[BaseOf].state
  BY <1>1, <1>5, <1>9 DEF Path, BaseOf
<1> QED
  BY <1>4, <1>5, <1>6, <1>9, <1>10, <1>11

LEMMA ReduceGoesOn ==
    ASSUME ParserInv, Reduce, yypnextstate # AcceptState(table)
    PROVE  /\ ReducedRule \in 1 .. Len(table.length) - 1
           /\ yypnextstate' = table.next[Path[BaseOf]][table.token[ReducedRule]]
           /\ yypnextstate' \in States(table) /\ yypnextstate' <= LastShiftState(table)
           /\ yypstate' = yypnextstate' /\ pc' \in {"read", "look"}
           /\ pc' = "look" => yytoken # None
<1> DEFINE r == ReducedRule
           st == Path[BaseOf]
<1>1. pc = "act" /\ yypnextstate > LastShiftState(table)
  BY DEF Reduce
<1>2. /\ r \in DOMAIN table.length /\ <<r, 0>> \in table.items[st] /\ st \in States(table)
      /\ st = IF table.length[r] = 0 THEN yypstate ELSE yypstack[BaseOf].state
  BY <1>1, ReduceFacts
<1>3. /\ yypnextstate' = Goto(st, table.token[r])
      /\ yypstate' = StateAfter(st, yypnextstate') /\ pc' = PcAfter(yypnextstate')
  BY <1>2 DEF Reduce, ReducedRule, BaseOf
<1>4. r \in 1 .. Len(table.length) - 1
  <2>1. /\ Len(table.next) \in Nat /\ AcceptState(table) = Len(table.next) + Len(table.length)
        /\ Len(table.length) \in Nat /\ DOMAIN table.length = 1 .. Len(table.length)
    BY ParserFacts DEF ParserInv
  <2>2. r = yypnextstate - Len(table.next) /\ yypnextstate \in Int
    BY ParserFacts DEF ReducedRule, RuleOf, ParserInv, ParserTypeOK
  <2> DEFINE a == Len(table.next)
             b == Len(table.length)
  <2>3. a \in Nat /\ b \in Nat /\ yypnextstate # a + b /\ r \in 1 .. b /\ r = yypnextstate - a
    BY <1>2, <2>1, <2>2
  <2> HIDE DEF a, b, r
  <2>4. r \in 1 .. b - 1
    BY <2>2, <2>3
  <2> QED
    BY <2>4 DEF b
<1>5. yypnextstate' = table.next[st][table.token[r]] /\ yypnextstate' \in States(table)
  <2>1. yypnextstate' = table.next[st][table.token[r]]
    BY <1>3 DEF Goto
  <2>2. IsItemTable(table)
    BY TableFacts DEF ParserInv, ParserTypeOK
  <2> QED
    BY <1>2, <1>4, <2>1, <2>2 DEF IsItemTable
<1>6. yypnextstate' <= LastShiftState(table)
  <2>1. States(table) = 1 .. LastShiftState(table) /\ LastShiftState(table) \in Nat
    BY ParserFacts DEF ParserInv
  <2> QED
    BY <1>5, <2>1
<1>7. /\ yypstate' = yypnextstate' /\ pc' \in {"read", "look"}
      /\ pc' = "look" => yytoken # None
  <2>1. ~(yypnextstate' > LastShiftState(table))
    <3>1. States(table) = 1 .. LastShiftState(table) /\ LastShiftState(table) \in Nat
      BY ParserFacts DEF ParserInv
    <3> QED
      BY <1>5, <3>1
  <2> QED
    BY <1>3, <2>1 DEF StateAfter, PcAfter
<1> QED
  BY <1>4, <1>5, <1>6, <1>7

LEMMA ReduceInv == ParserInv /\ Reduce => ParserInv'
<1> SUFFICES ASSUME ParserInv, Reduce PROVE ParserInv'
  OBVIOUS
<1> DEFINE r == ReducedRule
           top == BaseOf
           st == Path[BaseOf]
           value == ParserAction(r, yypstack[top])
<1>1. pc = "act" /\ yypnextstate > LastShiftState(table)
  BY DEF Reduce
<1>2. /\ r \in DOMAIN table.length /\ table.length[r] \in Nat /\ top \in 0 .. yypstacktop
      /\ <<r, 0>> \in table.items[st] /\ st \in States(table)
      /\ st = IF table.length[r] = 0 THEN yypstate ELSE yypstack[top].state
  BY <1>1, ReduceFacts
<1>3. /\ top < MemoryBound /\ yypstrstacktop' = yypstack[top].strpos
      /\ yypsynattr' = value
      /\ yypstack' = [yypstack EXCEPT ![top] = [@ EXCEPT !.state = st, !.len = 0, !.attr = value]]
      /\ yypstacktop' = top + 1
      /\ \/ yypnextstate = AcceptState(table) /\ yypstate' = st /\ pc' = "fini" /\ UNCHANGED yypnextstate
         \/ /\ yypnextstate # AcceptState(table) /\ yypnextstate' = Goto(st, table.token[r])
            /\ yypstate' = StateAfter(st, yypnextstate') /\ pc' = PcAfter(yypnextstate')
      /\ UNCHANGED <<table, yytoken, yyprecovering, yypstacklen, yypstrstack, yylstrlen,
                     yylsynattr, failed, input, ended>>
  BY <1>2 DEF Reduce, ReducedRule, BaseOf
<1>4. /\ table \in Tables /\ MemoryBound \in Nat /\ yypstacktop \in 0 .. MemoryBound
      /\ top \in Addresses /\ top + 1 \in 0 .. MemoryBound /\ st \in Nat
      /\ States(table) = 1 .. LastShiftState(table) /\ LastShiftState(table) \in Nat
  <2>1. /\ table \in Tables /\ yypstacktop \in 0 .. MemoryBound /\ MemoryBound \in Nat
    BY BoundsAssumption DEF ParserInv, ParserTypeOK
  <2>2. States(table) = 1 .. LastShiftState(table) /\ LastShiftState(table) \in Nat
    BY ParserFacts DEF ParserInv
  <2>3. st \in Nat
    BY <1>2, <2>2
  <2>4. top \in Addresses /\ top + 1 \in 0 .. MemoryBound
    BY <1>2, <1>3, <2>1 DEF Addresses
  <2> QED
    BY <2>1, <2>2, <2>3, <2>4
<1>5. /\ value \in Nat /\ yypstack[top].strpos \in 0 .. MemoryBound
      /\ yypstack' \in [Addresses -> [state : Nat, strpos : 0 .. MemoryBound, len : Nat,
                                     owner : Nat, attr : Nat]]
      /\ yypstack'[top].state = st /\ \A i \in Addresses \ {top} : yypstack'[i] = yypstack[i]
  <2> DEFINE Entry == [state : Nat, strpos : 0 .. MemoryBound, len : Nat, owner : Nat, attr : Nat]
  <2>1. yypstack \in [Addresses -> Entry] /\ yypsynattr \in Nat
    BY DEF ParserInv, ParserTypeOK
  <2>2. yypstack[top] \in Entry
    BY <1>4, <2>1
  <2>3. value \in Nat
    BY <2>1, <2>2 DEF ParserAction
  <2> HIDE DEF value, st, top
  <2>4. [yypstack[top] EXCEPT !.state = st, !.len = 0, !.attr = value] \in Entry
        /\ [yypstack[top] EXCEPT !.state = st, !.len = 0, !.attr = value].state = st
    BY <1>4, <2>2, <2>3
  <2>5. yypstack' = [yypstack EXCEPT ![top] = [yypstack[top] EXCEPT !.state = st, !.len = 0, !.attr = value]]
    BY <1>3
  <2> QED
    BY <1>4, <2>1, <2>2, <2>3, <2>4, <2>5
<1> HIDE DEF value
<1>6. CASE yypnextstate = AcceptState(table)
  <2>1. pc' = "fini" /\ yypstate' = st /\ UNCHANGED yypnextstate
    BY <1>3, <1>6
  <2>2. ParserTypeOK'
    BY <1>2, <1>3, <1>4, <1>5, <2>1 DEF ParserInv, ParserTypeOK
  <2> QED
    BY <2>1, <2>2 DEF ParserInv, EntryFound, Finished
<1>7. CASE yypnextstate # AcceptState(table)
  <2>1. yypnextstate' \in States(table) /\ yypnextstate' = table.next[st][table.token[r]]
    BY <1>7, ReduceGoesOn
  <2>2. /\ yypnextstate' <= LastShiftState(table)
        /\ yypstate' = yypnextstate' /\ pc' \in {"read", "look"}
        /\ pc' = "look" => yytoken # None
    BY <1>7, ReduceGoesOn
  <2>3. yypnextstate' \in 0 .. AcceptState(table)
    BY <1>2, <1>4, <2>1, TableFacts
  <2> HIDE DEF r, top, st
  <2>4. ParserTypeOK'
    <3>1. /\ yypstrstacktop' \in 0 .. MemoryBound /\ yypstacktop' \in 0 .. MemoryBound
          /\ yypsynattr' \in Nat /\ yypstate' \in States(table)
          /\ UNCHANGED <<table, yytoken, yypstacklen, yypstrstack, yylstrlen, yylsynattr, input>>
      BY <1>3, <1>4, <1>5, <2>1, <2>2
    <3>2. pc' \in {"read", "look", "recover", "act", "fini"}
      BY <2>2
    <3> QED
      BY <1>5, <2>3, <3>1, <3>2 DEF ParserInv, ParserTypeOK
  <2>5. IsPath(table, top + 1, Pushed(top, Popped(top, Path), yypnextstate'))
    <3>1. IsPath(table, top, Popped(top, Path)) /\ Popped(top, Path)[top] = st
      BY <1>1, <1>2, <1>4, PopPath DEF ParserInv, Finished, Popped, st, top
    <3>2. table.token[r] \in Columns(table) /\ top \in Nat
      BY <1>2, <1>4, TableFacts
    <3> QED
      BY <1>4, <2>1, <3>1, <3>2, PushPath
  <2>6. Path' = Pushed(top, Popped(top, Path), yypnextstate')
    <3>1. ASSUME NEW i \in 0 .. top - 1 PROVE yypstack'[i] = yypstack[i]
      <4>1. i \in Addresses \ {top}
        BY <1>4 DEF Addresses
      <4> QED
        BY <1>5, <4>1
    <3>2. yypstacktop' = top + 1 /\ yypstate' = yypnextstate' /\ yypstack'[top].state = st
      BY <1>3, <1>5, <2>2
    <3>3. /\ top \in Nat /\ yypstacktop \in Nat /\ top <= yypstacktop
          /\ st = Path[top] /\ \A i \in 0 .. top - 1 : Path[i] = yypstack[i].state
      BY <1>2, <1>4 DEF st, top, Path
    <3>4. \A i \in 0 .. top + 1 :
            (IF i = top + 1 THEN yypstate' ELSE yypstack'[i].state)
              = (IF i = top + 1 THEN yypnextstate' ELSE Popped(top, Path)[i])
      BY <3>1, <3>2, <3>3 DEF Popped
    <3> QED
      BY <3>2, <3>3, <3>4 DEF Path, Pushed
  <2>7. IsPath(table, yypstacktop, Path)'
    BY <1>3, <2>5, <2>6
  <2>8. EntryFound'
    BY <1>3, <2>2 DEF EntryFound
  <2> QED
    BY <2>4, <2>7, <2>8 DEF ParserInv
<1> QED
  BY <1>6, <1>7

LEMMA ParserInductive == ParserInv /\ [Next]_vars => ParserInv'
<1>1. ParserInv /\ UNCHANGED vars => ParserInv'
  BY DEF vars, attributes, ParserInv, ParserTypeOK, Finished, Path, EntryFound, Goto
<1> QED
  BY <1>1, ReadTokenInv, LookUpInv, NoEntryInv, PopStateInv, RecoverStateInv, ShiftInv, ReduceInv DEF Next

LEMMA PathIsOnStack == ParserInv => StackIsPath
<1> SUFFICES ASSUME ParserInv, ~Finished PROVE StackIsPath
  BY DEF StackIsPath
<1>1. IsPath(table, yypstacktop, Path) /\ yypstacktop \in Nat
  BY BoundsAssumption DEF ParserInv, ParserTypeOK
<1>2. Path[0] = 1 /\ Path[0] = IF yypstacktop = 0 THEN yypstate ELSE yypstack[0].state
  BY <1>1 DEF IsPath, Path
<1>3. ASSUME NEW i \in 0 .. yypstacktop - 1
      PROVE  \E x \in DOMAIN table.next[1] : Goto(yypstack[i].state, x) = Above(i)
  <2>1. PICK x \in Columns(table) : table.next[Path[i]][x] = Path[i + 1]
    BY <1>1 DEF IsPath
  <2>2. Path[i] = yypstack[i].state /\ Path[i + 1] = Above(i)
    BY <1>1 DEF Path, Above
  <2> QED
    BY <2>1, <2>2 DEF Goto, Columns
<1> QED
  BY <1>2, <1>3 DEF StackIsPath

LEMMA ParserSafe == Init /\ [][Next]_vars => []ParserInv
BY ParserInit, ParserInductive, PTL

(* Runtime is made of the parser's actions: what holds of the parser with  *)
(* any tokens holds of it with those the scanner delivers.                 *)
LEMMA RunIsParser == RunSpec => Init /\ [][Next]_vars
<1>1. RunInit => Init
  BY DEF RunInit
<1>2. [RunNext]_runVars => [Next]_vars
  BY DEF RunNext, runVars, Scan, Deliver, Parse, Next
<1> QED
  BY <1>1, <1>2, PTL DEF RunSpec

(* Whatever is shifted, reduced and popped in recovery, the states on the  *)
(* stack are a path in the automaton: a reduction takes its whole right    *)
(* side off the stack and never more, with the scanner and without.        *)
THEOREM PathCorrect == (Spec => []StackIsPath) /\ (RunSpec => []StackIsPath)
<1>1. Spec => Init /\ [][Next]_vars
  BY PTL DEF Spec
<1> QED
  BY <1>1, RunIsParser, ParserSafe, PathIsOnStack, PTL
-----------------------------------------------------------------------------
(* The stack is looked at once a token.  As long as each reduction takes   *)
(* off at least as much as it pushes, it fits and the texts stay intact;   *)
(* an empty rule ends that, for the stack until it is found to fit again.  *)
RoomForToken == yypstacktop < yypstacklen \/ (pc = "read" /\ yypstacktop = yypstacklen)

(* The texts of the entries lie one behind the other below the top.        *)
TextsInOrder ==
    /\ \A i \in 0 .. yypstacktop - 1 : yypstack[i].strpos + yypstack[i].len <= yypstrstacktop
    /\ \A i, j \in 0 .. yypstacktop - 1 :
          i < j => yypstack[i].strpos + yypstack[i].len <= yypstack[j].strpos

(* What every step does to the stack and the texts: it keeps them, pops    *)
(* some entries, pushes a token or puts a result in place of some entries. *)
KeepsStack == UNCHANGED <<yypstack, yypstacktop, yypstrstack, yypstrstacktop>>
PopsOne ==
    /\ yypstacktop > 0 /\ yypstacktop' = yypstacktop - 1
    /\ UNCHANGED <<yypstack, yypstrstack, yypstrstacktop>>
PushesText ==
    /\ yypstacktop < MemoryBound /\ yypstrstacktop + yylstrlen <= MemoryBound
    /\ yypstrstack' = [i \in Addresses |->
                          IF i \in yypstrstacktop .. yypstrstacktop + yylstrlen - 1
                          THEN Len(input) ELSE yypstrstack[i]]
    /\ yypstrstacktop' = yypstrstacktop + yylstrlen
    /\ yypstack' = [yypstack EXCEPT ![yypstacktop] = ShiftEntry]
    /\ yypstacktop' = yypstacktop + 1
ReplacesEntries ==
    /\ BaseOf \in 0 .. yypstacktop - 1
    /\ yypstrstacktop' = yypstack[BaseOf].strpos
    /\ yypstacktop' = BaseOf + 1
    /\ yypstack'[BaseOf].strpos = yypstack[BaseOf].strpos /\ yypstack'[BaseOf].len = 0
    /\ yypstack'[BaseOf].owner = yypstack[BaseOf].owner
    /\ yypstack'[BaseOf].attr = yypsynattr'
    /\ \A i \in 0 .. BaseOf - 1 : yypstack'[i] = yypstack[i]
    /\ UNCHANGED yypstrstack

LEMMA NotEmpty ==
    ASSUME ParserInv, Reduce, ~emptied' \/ ~unchecked'
    PROVE  table.length[ReducedRule] > 0
<1>1. pc = "act" /\ yypnextstate > LastShiftState(table)
  BY DEF Reduce
<1>2. table.length[ReducedRule] \in Nat
  BY <1>1, ReduceFacts
<1>3. /\ emptied' = (emptied \/ table.length[ReducedRule] = 0)
      /\ unchecked' = (unchecked \/ table.length[ReducedRule] = 0)
  BY Zenon DEF Reduce, ReducedRule
<1>4. table.length[ReducedRule] # 0
  BY <1>3, Zenon
<1> QED
  BY <1>2, <1>4

(* Only reading a token forgets that an empty rule was reduced.            *)
LEMMA HistoryKept ==
    ASSUME [Next]_vars
    PROVE  (emptied => emptied') /\ (unchecked => unchecked' \/ ReadToken)
<1>1. CASE ReadToken
  <2>1. emptied' = emptied
    BY <1>1 DEF ReadToken
  <2> QED
    BY <1>1, <2>1, Zenon
<1>2. CASE Reduce
  BY <1>2, Zenon DEF Reduce
<1>3. CASE \/ LookUp \/ DropToken \/ ReportError \/ PopState \/ NoRecovery \/ RecoverState \/ Shift
           \/ UNCHANGED vars
  <2>1. emptied' = emptied /\ unchecked' = unchecked
    BY <1>3 DEF vars, history, LookUp, DropToken, ReportError, PopState, NoRecovery, RecoverState, Shift
  <2> QED
    BY <2>1, Zenon
<1> QED
  BY <1>1, <1>2, <1>3, Zenon DEF Next

LEMMA ReduceReplaces ==
    ASSUME ParserInv, Reduce, table.length[ReducedRule] > 0
    PROVE  /\ ReplacesEntries /\ UNCHANGED yypstacklen
           /\ yypsynattr' = ParserAction(ReducedRule, yypstack[BaseOf])
<1> DEFINE r == ReducedRule
           top == BaseOf
           st == IF table.length[r] = 0 THEN yypstate ELSE yypstack[top].state
           value == ParserAction(r, yypstack[top])
<1>1. pc = "act" /\ yypnextstate > LastShiftState(table)
  BY DEF Reduce
<1>2. /\ r \in DOMAIN table.length /\ table.length[r] \in Nat /\ top \in 0 .. yypstacktop
      /\ yypstacktop \in 0 .. MemoryBound /\ MemoryBound \in Nat /\ table \in Tables
  BY <1>1, ReduceFacts, BoundsAssumption DEF ParserInv, ParserTypeOK
<1>3. top \in 0 .. yypstacktop - 1
  BY <1>2 DEF BaseOf
<1>4. /\ top < MemoryBound /\ yypstrstacktop' = yypstack[top].strpos
      /\ yypstack' = [yypstack EXCEPT ![top] = [@ EXCEPT !.state = st, !.len = 0, !.attr = value]]
      /\ yypstacktop' = top + 1 /\ yypsynattr' = value
      /\ UNCHANGED <<yypstacklen, yypstrstack>>
  BY DEF Reduce, ReducedRule, BaseOf
<1>5. yypstack \in [Addresses -> [state : Nat, strpos : 0 .. MemoryBound, len : Nat, owner : Nat,
                                 attr : Nat]]
  BY DEF ParserInv, ParserTypeOK
<1> HIDE DEF r, top, st, value
<1>6. top \in Addresses /\ \A i \in 0 .. top - 1 : i \in Addresses /\ i # top
  BY <1>2, <1>3 DEF Addresses
<1>7. /\ yypstack'[top].strpos = yypstack[top].strpos /\ yypstack'[top].len = 0
      /\ yypstack'[top].owner = yypstack[top].owner /\ yypstack'[top].attr = value
  BY <1>4, <1>5, <1>6
<1>8. \A i \in 0 .. top - 1 : yypstack'[i] = yypstack[i]
  BY <1>4, <1>5, <1>6
<1> QED
  BY <1>3, <1>4, <1>7, <1>8 DEF ReplacesEntries, top, value, r

LEMMA StepKinds ==
    ASSUME ParserInv, [Next]_vars, ~emptied'
    PROVE  KeepsStack \/ PopsOne \/ PushesText \/ ReplacesEntries
<1>1. CASE Reduce
  BY <1>1, NotEmpty, ReduceReplaces
<1>2. CASE Shift
  BY <1>2 DEF Shift, PushesText
<1>3. CASE PopState
  BY <1>3 DEF PopState, PopsOne
<1>4. CASE ReadToken \/ LookUp \/ DropToken \/ ReportError \/ NoRecovery \/ RecoverState \/ UNCHANGED vars
  BY <1>4 DEF ReadToken, LookUp, DropToken, ReportError, NoRecovery, RecoverState, vars, KeepsStack
<1> QED
  BY <1>1, <1>2, <1>3, <1>4 DEF Next

LEMMA RoomInductive ==
    ASSUME ParserInv, unchecked \/ RoomForToken, [Next]_vars, ~unchecked'
    PROVE  RoomForToken'
<1>a. RoomForToken \/ ReadToken
  BY HistoryKept, Zenon
<1>0. yypstacktop \in Nat /\ yypstacklen \in Nat \ {0} /\ yypstacklen' \in Nat \ {0}
  <2>1. ParserTypeOK /\ ParserTypeOK'
    BY ParserInductive DEF ParserInv
  <2> QED
    BY <2>1, BoundsAssumption DEF ParserTypeOK
<1>1. CASE ReadToken
  <2>1. yypstacklen' = GrownLen /\ UNCHANGED yypstacktop
    BY <1>1 DEF ReadToken
  <2>2. yypstacktop <= yypstacklen
    <3>1. RoomForToken \/ ~(yypstacktop > yypstacklen)
      BY <1>1, Zenon DEF ReadToken
    <3> QED
      BY <1>0, <3>1 DEF RoomForToken
  <2>3. yypstacktop < yypstacklen'
    BY <1>0, <2>1, <2>2 DEF GrownLen
  <2> QED
    BY <2>1, <2>3 DEF RoomForToken
<1>2. CASE Shift /\ RoomForToken
  BY <1>0, <1>2 DEF Shift, RoomForToken
<1>3. CASE Reduce /\ RoomForToken
  <2>1. ReplacesEntries /\ UNCHANGED yypstacklen
    BY <1>3, NotEmpty, ReduceReplaces
  <2>2. yypstacktop < yypstacklen
    BY <1>3 DEF Reduce, RoomForToken
  <2>3. BaseOf \in 0 .. yypstacktop - 1 /\ yypstacktop' = BaseOf + 1
    BY <2>1 DEF ReplacesEntries
  <2> QED
    BY <1>0, <2>1, <2>2, <2>3 DEF RoomForToken
<1>4. CASE PopState /\ RoomForToken
  BY <1>0, <1>4 DEF PopState, RoomForToken
<1>5. CASE /\ LookUp \/ DropToken \/ ReportError \/ NoRecovery \/ RecoverState \/ UNCHANGED vars
           /\ RoomForToken
  BY <1>0, <1>5 DEF LookUp, DropToken, ReportError, NoRecovery, RecoverState, vars, RoomForToken
<1> QED
  BY <1>a, <1>1, <1>2, <1>3, <1>4, <1>5 DEF Next

LEMMA TextsInductive ==
    ASSUME ParserInv, TextsInOrder, TextIntact, [Next]_vars, ~emptied'
    PROVE  TextsInOrder' /\ TextIntact'
<1>0. /\ yypstacktop \in 0 .. MemoryBound /\ MemoryBound \in Nat
      /\ yypstrstacktop \in 0 .. MemoryBound /\ yylstrlen \in Nat
      /\ \A i \in 0 .. yypstacktop - 1 :
            /\ i \in Addresses /\ yypstack[i].len \in Nat
            /\ yypstack[i].strpos \in 0 .. MemoryBound
      /\ \A i \in 0 .. yypstacktop - 1 : yypstack[i].strpos + yypstack[i].len <= yypstrstacktop
  <2>1. /\ yypstack \in [Addresses -> [state : Nat, strpos : 0 .. MemoryBound, len : Nat,
                                      owner : Nat, attr : Nat]]
        /\ yypstacktop \in 0 .. MemoryBound /\ MemoryBound \in Nat
        /\ yypstrstacktop \in 0 .. MemoryBound /\ yylstrlen \in Nat
    BY BoundsAssumption DEF ParserInv, ParserTypeOK
  <2>2. \A i \in 0 .. yypstacktop - 1 : i \in Addresses
    BY <2>1 DEF Addresses
  <2> QED
    BY <2>1, <2>2 DEF TextsInOrder
<1>1. CASE KeepsStack
  BY <1>1 DEF KeepsStack, TextsInOrder, TextIntact
<1>2. CASE PopsOne
  BY <1>0, <1>2 DEF PopsOne, TextsInOrder, TextIntact
<1>3. CASE PushesText
  <2>1. /\ yypstack' = [yypstack EXCEPT ![yypstacktop] = ShiftEntry]
        /\ yypstacktop' = yypstacktop + 1 /\ yypstacktop < MemoryBound
        /\ yypstrstacktop' = yypstrstacktop + yylstrlen
        /\ yypstrstacktop + yylstrlen <= MemoryBound
        /\ yypstrstack' = [i \in Addresses |->
                              IF i \in yypstrstacktop .. yypstrstacktop + yylstrlen - 1
                              THEN Len(input) ELSE yypstrstack[i]]
    BY <1>3 DEF PushesText
  <2>2. /\ yypstack'[yypstacktop] = ShiftEntry
        /\ \A i \in 0 .. yypstacktop - 1 : yypstack'[i] = yypstack[i]
    <3>1. yypstack \in [Addresses -> [state : Nat, strpos : 0 .. MemoryBound, len : Nat,
                                    owner : Nat, attr : Nat]]
      BY DEF ParserInv, ParserTypeOK
    <3>2. yypstacktop \in Addresses /\ \A i \in 0 .. yypstacktop - 1 : i \in Addresses /\ i # yypstacktop
      BY <1>0, <2>1 DEF Addresses
    <3> QED
      BY <2>1, <3>1, <3>2
  <2>3. ShiftEntry.strpos = yypstrstacktop /\ ShiftEntry.len = yylstrlen /\ ShiftEntry.owner = Len(input)
    BY DEF ShiftEntry
  <2>4. TextsInOrder'
    BY SMTT(30), <1>0, <2>1, <2>2, <2>3 DEF TextsInOrder
  <2>5. ASSUME NEW i \in 0 .. yypstacktop' - 1,
               NEW p \in yypstack'[i].strpos .. yypstack'[i].strpos + yypstack'[i].len - 1
        PROVE  yypstrstack'[p] = yypstack'[i].owner
    <3>1. CASE i = yypstacktop
      <4>1. p \in yypstrstacktop .. yypstrstacktop + yylstrlen - 1 /\ p \in Addresses
        BY <1>0, <2>1, <2>2, <2>3, <3>1, <2>5 DEF Addresses
      <4> QED
        BY <2>1, <2>2, <2>3, <3>1, <4>1
    <3>2. CASE i \in 0 .. yypstacktop - 1
      <4>1. /\ yypstack'[i] = yypstack[i]
            /\ p \in yypstack[i].strpos .. yypstack[i].strpos + yypstack[i].len - 1
        BY <2>2, <2>5, <3>2
      <4>2. p \in Addresses /\ p < yypstrstacktop
        BY <1>0, <3>2, <4>1 DEF Addresses
      <4>3. yypstrstack'[p] = yypstrstack[p]
        BY <1>0, <2>1, <4>2
      <4>4. yypstrstack[p] = yypstack[i].owner
        BY <3>2, <4>1 DEF TextIntact
      <4> QED
        BY <4>1, <4>3, <4>4
    <3> QED
      BY <1>0, <2>1, <3>1, <3>2
  <2> QED
    BY <2>4, <2>5 DEF TextIntact
<1>4. CASE ReplacesEntries
  <2> DEFINE top == BaseOf
  <2>1. /\ top \in 0 .. yypstacktop - 1
        /\ yypstrstacktop' = yypstack[top].strpos
        /\ yypstacktop' = top + 1
        /\ yypstack'[top].strpos = yypstack[top].strpos /\ yypstack'[top].len = 0
        /\ \A i \in 0 .. top - 1 : yypstack'[i] = yypstack[i]
        /\ UNCHANGED yypstrstack
    BY <1>4 DEF ReplacesEntries
  <2> HIDE DEF top
  <2>2. TextsInOrder'
    BY <1>0, <2>1 DEF TextsInOrder
  <2>3. ASSUME NEW i \in 0 .. yypstacktop' - 1,
               NEW p \in yypstack'[i].strpos .. yypstack'[i].strpos + yypstack'[i].len - 1
        PROVE  yypstrstack'[p] = yypstack'[i].owner
    <3>1. i # top
      BY <1>0, <2>1, <2>3
    <3>2. i \in 0 .. yypstacktop - 1 /\ yypstack'[i] = yypstack[i]
      BY <1>0, <2>1, <3>1
    <3> QED
      BY <2>1, <2>3, <3>2 DEF TextIntact
  <2> QED
    BY <2>2, <2>3 DEF TextIntact
<1> QED
  BY <1>1, <1>2, <1>3, <1>4, StepKinds

LEMMA StackSafe ==
    Init /\ [][Next]_vars => [](ParserInv /\ (unchecked \/ RoomForToken) /\ (emptied \/ TextIntact))
<1> DEFINE Room == unchecked \/ RoomForToken
           Texts == emptied \/ (TextsInOrder /\ TextIntact)
<1>1. ASSUME Init PROVE ParserInv /\ Room /\ Texts
  <2>1. yypstacktop = 0 /\ yypstacklen \in Nat \ {0}
    BY <1>1, BoundsAssumption DEF Init
  <2>2. RoomForToken /\ TextsInOrder /\ TextIntact
    BY <2>1 DEF RoomForToken, TextsInOrder, TextIntact
  <2> QED
    BY <1>1, <2>2, ParserInit
<1>2. ASSUME ParserInv, Room, Texts, [Next]_vars PROVE (ParserInv /\ Room /\ Texts)'
  <2>1. ParserInv'
    BY <1>2, ParserInductive
  <2>2. ASSUME ~unchecked' PROVE RoomForToken'
    BY <1>2, <2>2, RoomInductive
  <2>3. ASSUME ~emptied' PROVE TextsInOrder' /\ TextIntact'
    <3>1. TextsInOrder /\ TextIntact
      BY <1>2, <2>3, HistoryKept, Zenon
    <3> QED
      BY <1>2, <2>3, <3>1, TextsInductive
  <2> QED
    BY <2>1, <2>2, <2>3, Zenon
<1>3. ParserInv /\ Room /\ Texts => ParserInv /\ (unchecked \/ RoomForToken) /\ (emptied \/ TextIntact)
  BY Zenon
<1> QED
  BY <1>1, <1>2, <1>3, PTL

(* Looked at once a token, and grown only when it is exactly full, the     *)
(* stack is written past its end only behind an empty rule: until one was  *)
(* reduced, and again from the first token that finds it within its        *)
(* length, all it holds fits.                                              *)
THEOREM StackNeverOverflows ==
    (Spec => []OverflowNeedsEmptyRule) /\ (RunSpec => []OverflowNeedsEmptyRule)
<1>1. ParserInv /\ (unchecked \/ RoomForToken) => OverflowNeedsEmptyRule
  <2>1. ParserInv /\ RoomForToken => StackFits
    BY BoundsAssumption DEF ParserInv, ParserTypeOK, RoomForToken, StackFits
  <2> QED
    BY <2>1, Zenon DEF OverflowNeedsEmptyRule
<1>2. Spec => Init /\ [][Next]_vars
  BY PTL DEF Spec
<1> QED
  BY <1>1, <1>2, RunIsParser, StackSafe, PTL

(* As long as no empty rule was reduced the string stack holds the text of *)
(* every token on the stack until the rule that takes it off: what a       *)
(* reduction gives back and what a token writes is never in use.           *)
THEOREM TextsKept ==
    (Spec => []TextLossNeedsEmptyRule) /\ (RunSpec => []TextLossNeedsEmptyRule)
<1>1. Spec => Init /\ [][Next]_vars
  BY PTL DEF Spec
<1>2. emptied \/ TextIntact => TextLossNeedsEmptyRule
  BY Zenon DEF TextLossNeedsEmptyRule
<1> QED
  BY <1>1, <1>2, RunIsParser, StackSafe, PTL
-----------------------------------------------------------------------------
(* The value of the accepting rule, which has no action, is what the last  *)
(* reduction left in yypsynattr: so that has to be the value of the only   *)
(* symbol below "$", from the reduction that put it there until "$" is     *)
(* shifted and the rule reduced.                                           *)
AcceptItem(p) == <<Len(table.length), p>>
ResultDue ==
    \/ /\ yypstacktop = 1 /\ AcceptItem(1) \in table.items[yypstate]
       /\ \/ pc \in {"read", "look"}
          \/ /\ pc = "act" /\ yypnextstate \in States(table)
             /\ AcceptItem(2) \in table.items[yypnextstate]
    \/ yypstacktop = 2 /\ AcceptItem(2) \in table.items[yypstate]

OwnValues ==
    /\ yylsynattr = Len(input)
    /\ \A i \in 0 .. yypstacktop - 1 : yypstack[i].attr = yypstack[i].owner
    /\ ResultDue => yypsynattr = yypstack[0].attr

(* Without an error the lowest symbol begins with the first token.         *)
FirstIsLowest ==
    /\ pc = "act" => yypnextstate = Goto(yypstate, yytoken)
    /\ pc = "fini" => yypnextstate = AcceptState(table) /\ yypstacktop > 0
    /\ yypstacktop > 0 => yypstack[0].owner = 1
    /\ yypstacktop = 0 => \/ Len(input) = 0 /\ (pc = "read" \/ yytoken = table.eof)
                          \/ Len(input) = 1 /\ pc # "read"
NoErrorSoFar ==
    /\ pc = "recover" \/ yyprecovering => failed
    /\ failed \/ FirstIsLowest

HasAllValues == table.valued = table.tokens /\ table.acting = 1 .. Len(table.length) - 1

(* Only "$" leads to the end of the accepting rule, and nothing from it.   *)
LEMMA AcceptFacts ==
    ASSUME ParserInv, NEW s \in States(table), NEW x \in Columns(table),
           table.next[s][x] \in States(table)
    PROVE  /\ table.next[s][x] # 1 /\ AcceptItem(2) \notin table.items[s]
           /\ AcceptItem(1) \in table.items[table.next[s][x]] => x \notin Terminals(table)
           /\ AcceptItem(2) \in table.items[table.next[s][x]] =>
                 x = table.eof /\ AcceptItem(1) \in table.items[s]
           /\ x = table.eof => AcceptItem(1) \in table.items[s]
<1>1. table \in Tables /\ IsAcceptTable(table) /\ IsItemTable(table)
  BY TableFacts DEF ParserInv, ParserTypeOK
<1>2. /\ Len(table.length) \in DOMAIN table.length /\ table.length[Len(table.length)] = 2
  BY <1>1, TableFacts DEF IsAcceptTable
<1>3. AcceptItem(2) \in table.items[table.next[s][x]] => AcceptItem(1) \in table.items[s]
  <2>1. \A p \in 1 .. 2 : <<Len(table.length), p>> \in table.items[table.next[s][x]]
                           => <<Len(table.length), p - 1>> \in table.items[s]
    BY <1>1, <1>2 DEF IsItemTable
  <2>2. 2 \in 1 .. 2 /\ 2 - 1 = 1
    OBVIOUS
  <2> QED
    BY <2>1, <2>2 DEF AcceptItem
<1> QED
  BY <1>1, <1>3 DEF IsAcceptTable, AcceptItem

(* The accepting rule is reduced when only it is on the stack.             *)
LEMMA AcceptReduces ==
    ASSUME ParserInv, Reduce, yypnextstate = AcceptState(table)
    PROVE  /\ ReducedRule = Len(table.length) /\ BaseOf = 0
           /\ yypstacktop = 2 /\ AcceptItem(2) \in table.items[yypstate]
<1>0. yypstacktop \in Nat /\ table \in Tables /\ IsAcceptTable(table)
  BY BoundsAssumption, TableFacts DEF ParserInv, ParserTypeOK
<1>1. pc = "act" /\ yypnextstate > LastShiftState(table)
  BY DEF Reduce
<1>2. ReducedRule = Len(table.length)
  <2>1. /\ Len(table.next) \in Nat /\ AcceptState(table) = Len(table.next) + Len(table.length)
        /\ Len(table.length) \in Nat
    BY ParserFacts DEF ParserInv
  <2>2. ReducedRule = yypnextstate - Len(table.next)
    BY DEF ReducedRule, RuleOf
  <2> DEFINE a == Len(table.next)
             b == Len(table.length)
  <2>3. a \in Nat /\ b \in Nat /\ yypnextstate = a + b /\ ReducedRule = yypnextstate - a
    BY <2>1, <2>2
  <2> HIDE DEF a, b
  <2>4. ReducedRule = b
    BY <2>3
  <2> QED
    BY <2>4 DEF b
<1>3. /\ <<ReducedRule, table.length[ReducedRule]>> \in table.items[yypstate]
      /\ BaseOf \in 0 .. yypstacktop /\ <<ReducedRule, 0>> \in table.items[Path[BaseOf]]
      /\ Path[BaseOf] \in States(table)
  BY <1>1, ReduceFacts
<1>4. table.length[ReducedRule] = 2
  BY <1>0, <1>2 DEF IsAcceptTable
<1>5. Path[BaseOf] = 1
  BY <1>0, <1>2, <1>3 DEF IsAcceptTable
<1>6. BaseOf = 0
  <2> SUFFICES ASSUME BaseOf # 0 PROVE FALSE
    OBVIOUS
  <2>1. IsPath(table, yypstacktop, Path)
    BY <1>1 DEF ParserInv, Finished
  <2>2. BaseOf - 1 \in 0 .. yypstacktop - 1 /\ (BaseOf - 1) + 1 = BaseOf
    BY <1>0, <1>3
  <2>3. PICK x \in Columns(table) : table.next[Path[BaseOf - 1]][x] = Path[BaseOf]
    BY <2>1, <2>2 DEF IsPath
  <2>4. Path[BaseOf - 1] \in States(table)
    BY <1>0, <2>1, <2>2 DEF IsPath
  <2> QED
    BY <1>3, <1>5, <2>3, <2>4, AcceptFacts
<1> QED
  BY <1>0, <1>2, <1>3, <1>4, <1>6 DEF AcceptItem, BaseOf

LEMMA ValuesInductive ==
    ASSUME HasAllValues, ParserInv, OwnValues, [Next]_vars, ~emptied'
    PROVE  OwnValues'
<1>0. /\ yypstacktop \in 0 .. MemoryBound /\ MemoryBound \in Nat /\ yypstate \in States(table)
      /\ yypstack \in [Addresses -> [state : Nat, strpos : 0 .. MemoryBound, len : Nat,
                                    owner : Nat, attr : Nat]]
      /\ IsTable(table) /\ table.eof # table.error /\ table.error \in Columns(table)
      /\ Terminals(table) \subseteq Columns(table) /\ table.eof \in Terminals(table)
      /\ \A r \in DOMAIN table.length : table.token[r] \in Columns(table) \ Terminals(table)
  <2>1. /\ table \in Tables /\ yypstacktop \in 0 .. MemoryBound /\ MemoryBound \in Nat
        /\ yypstate \in States(table)
        /\ yypstack \in [Addresses -> [state : Nat, strpos : 0 .. MemoryBound, len : Nat,
                                      owner : Nat, attr : Nat]]
    BY BoundsAssumption DEF ParserInv, ParserTypeOK
  <2>2. IsTable(table) /\ \A r \in DOMAIN table.length : table.token[r] \in Columns(table)
    BY <2>1, TableFacts
  <2>3. DOMAIN table.token = DOMAIN table.length
    <3>1. table.token \in Seq(Columns(table)) /\ table.length \in Seq(Nat) /\ Len(table.token) = Len(table.length)
      BY <2>2 DEF IsTable
    <3> QED
      BY <3>1, LenProperties
  <2> QED
    BY <2>1, <2>2, <2>3 DEF IsTable, Terminals
<1>1. CASE ReadToken
  <2>1. /\ pc = "read" /\ yylsynattr' = LexerAction(yytoken', Len(input')) /\ pc' = "look"
        /\ UNCHANGED <<table, yypstate, yypnextstate, yypstack, yypstacktop, yypsynattr>>
        /\ yytoken' \in table.tokens \/ input' = input
    BY <1>1 DEF ReadToken
  <2>2. yylsynattr' = Len(input')
    BY <2>1 DEF LexerAction, HasAllValues, OwnValues
  <2> QED
    BY <2>1, <2>2 DEF OwnValues, ResultDue, AcceptItem
<1>2. CASE LookUp \/ DropToken \/ ReportError \/ NoRecovery
  <2>1. /\ pc \in {"look", "recover"} /\ pc' \in {"act", "read", "fini", "recover"}
        /\ pc' \in {"act", "read"} => pc = "look"
        /\ UNCHANGED <<table, yypstate, yypstack, yypstacktop, yypsynattr, yylsynattr, input>>
    BY <1>2 DEF LookUp, DropToken, ReportError, NoRecovery, attributes
  <2> QED
    BY <2>1 DEF OwnValues, ResultDue, AcceptItem
<1>3. CASE RecoverState
  <2>1. /\ yypnextstate' = table.next[yypstate][table.error] /\ pc' = "act"
        /\ UNCHANGED <<table, yypstate, yypstack, yypstacktop, yypsynattr, yylsynattr, input>>
    BY <1>3 DEF RecoverState, attributes, Goto
  <2>2. ResultDue' => ResultDue
    BY <1>0, <2>1, AcceptFacts DEF ResultDue, AcceptItem
  <2> QED
    BY <2>1, <2>2 DEF OwnValues
<1>4. CASE PopState
  <2>1. /\ pc = "recover" /\ yypstacktop > 0 /\ yypstacktop' = yypstacktop - 1
        /\ yypstate' = yypstack[yypstacktop'].state
        /\ UNCHANGED <<table, yypstack, yypsynattr, yylsynattr, input, pc>>
    BY <1>4 DEF PopState, attributes
  <2>2. ASSUME yypstacktop' = 2 PROVE AcceptItem(2) \notin table.items[yypstate']
    <3>1. IsPath(table, yypstacktop, Path) /\ yypstacktop = 3
      BY <1>0, <2>1, <2>2 DEF ParserInv, Finished
    <3>2. 2 \in 0 .. yypstacktop - 1 /\ 2 + 1 = 3 /\ 3 \in 0 .. yypstacktop
      BY <3>1
    <3>3. PICK x \in Columns(table) : table.next[Path[2]][x] = Path[3]
      BY <3>1, <3>2 DEF IsPath
    <3>4. Path[2] \in States(table) /\ Path[3] \in States(table)
      BY <3>1, <3>2 DEF IsPath
    <3>5. Path[2] = yypstate'
      BY <2>1, <2>2, <3>1 DEF Path
    <3> QED
      BY <3>3, <3>4, <3>5, AcceptFacts
  <2>3. ~ResultDue'
    BY <2>1, <2>2 DEF ResultDue, AcceptItem
  <2> QED
    BY <1>0, <2>1, <2>3 DEF OwnValues
<1>5. CASE Shift
  <2>1. /\ pc = "act" /\ pc' = "read" /\ yypnextstate <= LastShiftState(table)
        /\ yypstack' = [yypstack EXCEPT ![yypstacktop] = ShiftEntry]
        /\ yypstacktop' = yypstacktop + 1 /\ yypstacktop < MemoryBound
        /\ yypstate' = yypnextstate
        /\ UNCHANGED <<table, yypnextstate, yypsynattr, yylsynattr, input>>
    BY <1>5 DEF Shift, attributes
  <2>2. /\ yypstack'[yypstacktop] = ShiftEntry
        /\ \A i \in 0 .. yypstacktop - 1 : yypstack'[i] = yypstack[i]
    <3>1. yypstacktop \in Addresses /\ \A i \in 0 .. yypstacktop - 1 : i \in Addresses /\ i # yypstacktop
      BY <1>0, <2>1 DEF Addresses
    <3> QED
      BY <1>0, <2>1, <3>1
  <2>3. ShiftEntry.attr = ShiftEntry.owner
    BY DEF ShiftEntry, OwnValues
  <2>4. \A i \in 0 .. yypstacktop' - 1 : yypstack'[i].attr = yypstack'[i].owner
    BY <1>0, <2>1, <2>2, <2>3 DEF OwnValues
  <2>5. PICK x \in Terminals(table) : yypnextstate = table.next[yypstate][x] /\ yypnextstate # NoState
    BY <2>1 DEF ParserInv, EntryFound, Goto
  <2>6. x \in Columns(table) /\ yypnextstate \in States(table)
    <3>1. States(table) = 1 .. LastShiftState(table) /\ LastShiftState(table) \in Nat /\ AcceptState(table) \in Nat
      BY ParserFacts DEF ParserInv
    <3>2. yypnextstate \in 0 .. AcceptState(table)
      BY DEF ParserInv, ParserTypeOK
    <3> QED
      BY <1>0, <2>1, <2>5, <3>1, <3>2 DEF NoState
  <2>7. ASSUME ResultDue' PROVE yypsynattr = yypstack'[0].attr
    <3>1. CASE yypstacktop' = 1 /\ AcceptItem(1) \in table.items[yypnextstate]
      BY <1>0, <2>5, <2>6, <3>1, AcceptFacts
    <3>2. CASE yypstacktop' = 2 /\ AcceptItem(2) \in table.items[yypnextstate]
      <4>1. yypstacktop = 1 /\ yypstack'[0] = yypstack[0]
        BY <1>0, <2>1, <2>2, <3>2
      <4>2. AcceptItem(1) \in table.items[yypstate]
        BY <1>0, <2>5, <2>6, <3>2, AcceptFacts
      <4>3. ResultDue
        BY <2>1, <2>6, <3>2, <4>1, <4>2 DEF ResultDue
      <4> QED
        BY <4>1, <4>3 DEF OwnValues
    <3> QED
      BY <2>1, <2>7, <3>1, <3>2 DEF ResultDue, AcceptItem
  <2> QED
    BY <2>1, <2>4, <2>7 DEF OwnValues
<1>6. CASE Reduce
  <2> DEFINE r == ReducedRule
             base == BaseOf
  <2>1. /\ base \in 0 .. yypstacktop - 1 /\ yypstacktop' = base + 1
        /\ yypstack'[base].owner = yypstack[base].owner /\ yypstack'[base].attr = yypsynattr'
        /\ \A i \in 0 .. base - 1 : yypstack'[i] = yypstack[i]
        /\ yypsynattr' = ParserAction(r, yypstack[base])
        /\ UNCHANGED <<table, yylsynattr, input>>
    BY <1>6, NotEmpty, ReduceReplaces DEF ReplacesEntries, Reduce
  <2>2. CASE yypnextstate = AcceptState(table)
    <3>1. /\ r = Len(table.length) /\ base = 0 /\ yypstacktop = 2
          /\ AcceptItem(2) \in table.items[yypstate]
      BY <1>6, <2>2, AcceptReduces
    <3>2. r \notin table.acting
      <4>1. Len(table.length) \in Nat
        BY ParserFacts DEF ParserInv
      <4> QED
        BY <3>1, <4>1 DEF HasAllValues
    <3>3. yypsynattr' = yypsynattr /\ yypsynattr = yypstack[0].attr
      BY <2>1, <3>1, <3>2 DEF ParserAction, OwnValues, ResultDue
    <3>4. pc' = "fini"
      BY <1>6, <2>2 DEF Reduce
    <3>5. ~ResultDue'
      BY <1>0, <2>1, <3>1, <3>4 DEF ResultDue
    <3>6. yypstack[0].attr = yypstack[0].owner
      BY <3>1 DEF OwnValues
    <3> QED
      BY <2>1, <3>1, <3>3, <3>5, <3>6 DEF OwnValues
  <2>3. CASE yypnextstate # AcceptState(table)
    <3>1. /\ r \in 1 .. Len(table.length) - 1
          /\ yypstate' = table.next[Path[base]][table.token[r]] /\ yypstate' \in States(table)
      BY <1>6, <2>3, ReduceGoesOn
    <3>2. r \in DOMAIN table.length /\ Path[base] \in States(table)
      BY <1>6, ReduceFacts DEF Reduce
    <3>3. yypsynattr' = yypstack[base].attr
      BY <2>1, <3>1 DEF ParserAction, HasAllValues
    <3>4. yypstack[base].attr = yypstack[base].owner
      BY <2>1 DEF OwnValues
    <3>5. \A i \in 0 .. yypstacktop' - 1 : yypstack'[i].attr = yypstack'[i].owner
      BY <1>0, <2>1, <3>3, <3>4 DEF OwnValues
    <3>6. AcceptItem(2) \notin table.items[yypstate']
      BY <1>0, <3>1, <3>2, AcceptFacts
    <3>7. ResultDue' => base = 0
      BY <1>0, <2>1, <3>6 DEF ResultDue, AcceptItem
    <3> QED
      BY <2>1, <3>5, <3>7 DEF OwnValues
  <2> QED
    BY <2>2, <2>3
<1>7. CASE UNCHANGED vars
  BY <1>7 DEF vars, attributes, OwnValues, ResultDue, AcceptItem
<1> QED
  BY <1>1, <1>2, <1>3, <1>4, <1>5, <1>6, <1>7 DEF Next

LEMMA NoErrorInductive ==
    ASSUME ParserInv, NoErrorSoFar, [Next]_vars, ~emptied'
    PROVE  NoErrorSoFar'
<1>0. /\ yypstacktop \in 0 .. MemoryBound /\ MemoryBound \in Nat /\ yypstate \in States(table)
      /\ input \in Seq(Nat) /\ Len(input) \in Nat /\ table \in Tables
  BY BoundsAssumption, LenProperties DEF ParserInv, ParserTypeOK
<1>1. CASE ReadToken
  <2>1. /\ pc = "read" /\ pc' = "look"
        /\ UNCHANGED <<table, yypstate, yypnextstate, yyprecovering, yypstack, yypstacktop, failed>>
    BY <1>1 DEF ReadToken
  <2>2. \/ yytoken' = table.eof /\ input' = input
        \/ Len(input') = Len(input) + 1
    <3>1. ASSUME NEW t \in Nat PROVE Len(Append(input, t)) = Len(input) + 1
      BY <1>0
    <3>2. table.tokens \subseteq Nat
      BY <1>0, TableFacts DEF IsTable, Terminals
    <3> QED
      BY <1>1, <3>1, <3>2 DEF ReadToken
  <2>3. ASSUME FirstIsLowest PROVE FirstIsLowest'
    <3> DEFINE n == Len(input)
    <3>1. n \in Nat /\ (yypstacktop = 0 => n = 0) /\ (yypstacktop > 0 => yypstack[0].owner = 1)
      BY <1>0, <2>1, <2>3 DEF FirstIsLowest
    <3>2. (yytoken' = table'.eof /\ Len(input') = n) \/ Len(input') = n + 1
      BY <2>1, <2>2
    <3>3. pc' = "look" /\ UNCHANGED <<yypstack, yypstacktop>>
      BY <2>1
    <3> HIDE DEF n
    <3>4. yypstacktop' = 0 => (Len(input') = 0 /\ yytoken' = table'.eof) \/ Len(input') = 1
      BY <3>1, <3>2, <3>3
    <3>5. yypstacktop' > 0 => yypstack'[0].owner = 1
      BY <3>1, <3>3
    <3> QED
      BY <3>3, <3>4, <3>5 DEF FirstIsLowest
  <2>4. pc' # "recover" /\ UNCHANGED <<yyprecovering, failed>>
    BY <2>1
  <2> QED
    BY <2>3, <2>4, Zenon DEF NoErrorSoFar
<1>2. CASE LookUp
  <2>1. /\ pc = "look" /\ pc' = "act" /\ yypnextstate' = Goto(yypstate, yytoken)
        /\ UNCHANGED <<table, yypstate, yytoken, yyprecovering, yypstack, yypstacktop, failed, input>>
    BY <1>2 DEF LookUp
  <2>2. FirstIsLowest => FirstIsLowest'
    BY <2>1 DEF FirstIsLowest, Goto
  <2>3. pc' # "recover" /\ UNCHANGED <<yyprecovering, failed>>
    BY <2>1
  <2> QED
    BY <2>2, <2>3, Zenon DEF NoErrorSoFar
<1>3. CASE DropToken \/ ReportError \/ NoRecovery \/ PopState \/ RecoverState
  <2>1. failed'
    BY <1>3, Zenon DEF DropToken, ReportError, NoRecovery, PopState, RecoverState, NoErrorSoFar
  <2> QED
    BY <2>1, Zenon DEF NoErrorSoFar
<1>4. CASE Shift
  <2>1. /\ pc = "act" /\ pc' = "read" /\ yypnextstate <= LastShiftState(table)
        /\ yypstack' = [yypstack EXCEPT ![yypstacktop] = ShiftEntry]
        /\ yypstacktop' = yypstacktop + 1 /\ yypstacktop < MemoryBound
        /\ UNCHANGED <<table, yypnextstate, input>>
    BY <1>4 DEF Shift
  <2>2. IF yypstacktop = 0 THEN yypstack'[0].owner = Len(input) ELSE yypstack'[0] = yypstack[0]
    <3>1. 0 \in Addresses /\ yypstacktop \in Addresses
      BY <1>0, <2>1 DEF Addresses
    <3>2. yypstack \in [Addresses -> [state : Nat, strpos : 0 .. MemoryBound, len : Nat,
                                    owner : Nat, attr : Nat]]
      BY DEF ParserInv, ParserTypeOK
    <3>3. ShiftEntry.owner = Len(input)
      BY DEF ShiftEntry
    <3> QED
      BY <2>1, <3>1, <3>2, <3>3
  <2>3. ASSUME FirstIsLowest, yypstacktop = 0 PROVE Len(input) = 1
    <3> SUFFICES ASSUME yytoken = table.eof PROVE FALSE
      BY <2>1, <2>3 DEF FirstIsLowest
    <3>1. IsPath(table, yypstacktop, Path)
      BY <2>1 DEF ParserInv, Finished
    <3>2. yypstate = 1
      BY <2>3, <3>1 DEF IsPath, Path
    <3>3. yypnextstate = table.next[yypstate][table.eof] /\ yypnextstate # NoState
      BY <2>1, <2>3 DEF FirstIsLowest, ParserInv, EntryFound, Goto
    <3>4. yypnextstate \in States(table) /\ table.eof \in Columns(table)
      <4>1. /\ States(table) = 1 .. LastShiftState(table) /\ LastShiftState(table) \in Nat
            /\ AcceptState(table) \in Nat /\ table.eof \in Columns(table)
        BY ParserFacts DEF ParserInv
      <4>2. yypnextstate \in 0 .. AcceptState(table)
        BY DEF ParserInv, ParserTypeOK
      <4> QED
        BY <2>1, <3>3, <4>1, <4>2 DEF NoState
    <3>5. AcceptItem(1) \in table.items[1]
      BY <1>0, <3>2, <3>3, <3>4, AcceptFacts
    <3>6. /\ IsItemTable(table) /\ Len(table.length) \in DOMAIN table.length
          /\ table.length[Len(table.length)] = 2
      <4>1. IsItemTable(table) /\ IsAcceptTable(table) /\ DOMAIN table.length = 1 .. Len(table.length)
            /\ Len(table.length) \in Nat
        BY <1>0, TableFacts
      <4> QED
        BY <4>1 DEF IsAcceptTable
    <3>7. 1 \in 1 .. 2
      OBVIOUS
    <3>8. <<Len(table.length), 1>> \notin table.items[1]
      BY <3>6, <3>7 DEF IsItemTable
    <3> QED
      BY <3>5, <3>8 DEF AcceptItem
  <2>4. ASSUME FirstIsLowest PROVE FirstIsLowest'
    <3>1. yypstack'[0].owner = 1
      <4>1. CASE yypstacktop = 0
        BY <2>2, <2>3, <2>4, <4>1
      <4>2. CASE yypstacktop > 0
        BY <2>2, <2>4, <4>2 DEF FirstIsLowest
      <4> QED
        BY <1>0, <4>1, <4>2
    <3> QED
      BY <1>0, <2>1, <3>1 DEF FirstIsLowest
  <2>5. ~yyprecovering' /\ failed' = failed /\ pc' # "recover"
    BY <1>4, <2>1 DEF Shift
  <2> QED
    BY <2>4, <2>5, Zenon DEF NoErrorSoFar
<1>5. CASE Reduce
  <2>1. /\ BaseOf \in 0 .. yypstacktop - 1 /\ yypstacktop' = BaseOf + 1
        /\ yypstack'[BaseOf].owner = yypstack[BaseOf].owner
        /\ \A i \in 0 .. BaseOf - 1 : yypstack'[i] = yypstack[i]
    BY <1>5, NotEmpty, ReduceReplaces DEF ReplacesEntries
  <2>2. UNCHANGED <<table, yyprecovering, failed, input>>
    BY <1>5 DEF Reduce
  <2>3. pc' \in {"read", "look"} \/ (pc' = "fini" /\ yypnextstate' = AcceptState(table))
    BY <1>5, ReduceGoesOn DEF Reduce
  <2>4. yypstacktop > 0 /\ yypstacktop' > 0 /\ yypstack'[0].owner = yypstack[0].owner
    <3>1. CASE BaseOf = 0
      BY <1>0, <2>1, <3>1
    <3>2. CASE BaseOf # 0
      <4>1. 0 \in 0 .. BaseOf - 1
        BY <1>0, <2>1, <3>2
      <4> QED
        BY <1>0, <2>1, <4>1
    <3> QED
      BY <3>1, <3>2
  <2>5. yypstacktop' # 0
    BY <2>4
  <2>6. FirstIsLowest => FirstIsLowest'
    BY <2>2, <2>3, <2>4, <2>5 DEF FirstIsLowest
  <2>7. pc' # "recover"
    BY <2>3
  <2> QED
    BY <2>2, <2>6, <2>7, Zenon DEF NoErrorSoFar
<1>6. CASE UNCHANGED vars
  <2>1. FirstIsLowest' <=> FirstIsLowest
    BY <1>6 DEF vars, FirstIsLowest, Goto
  <2> QED
    BY <1>6, <2>1, Zenon DEF vars, NoErrorSoFar
<1> QED
  BY <1>1, <1>2, <1>3, <1>4, <1>5, <1>6 DEF Next

LEMMA ValuesFromInv ==
    ASSUME ParserInv, NoErrorSoFar, HasAllValues => OwnValues
    PROVE  ValuesAreOwn
<1> SUFFICES ASSUME HasAllValues PROVE /\ \A i \in 0 .. yypstacktop - 1 : yypstack[i].attr = yypstack[i].owner
                                       /\ Accepted /\ ~failed => Result = 1
  BY DEF ValuesAreOwn, HasAllValues
<1>1. \A i \in 0 .. yypstacktop - 1 : yypstack[i].attr = yypstack[i].owner
  BY DEF OwnValues
<1>2. ASSUME Accepted, ~failed PROVE Result = 1
  <2>1. yypstacktop > 0 /\ yypstack[0].owner = 1
    BY <1>2 DEF NoErrorSoFar, FirstIsLowest, Accepted, Finished
  <2>2. 0 \in 0 .. yypstacktop - 1
    BY <2>1, BoundsAssumption DEF ParserInv, ParserTypeOK
  <2> QED
    BY <1>1, <2>1, <2>2 DEF Result
<1> QED
  BY <1>1, <1>2

LEMMA ValuesSafe ==
    Init /\ [][Next]_vars => []ValuesAreOwn
<1> DEFINE Values == NoErrorSoFar /\ (HasAllValues => OwnValues)
           Inv == ParserInv /\ (emptied \/ Values)
<1>1. ASSUME Init PROVE Inv
  <2>1. /\ yypstacktop = 0 /\ pc = "read" /\ yyprecovering = FALSE /\ failed = FALSE
        /\ yylsynattr = 0 /\ input = <<>>
    BY <1>1 DEF Init
  <2>2. Len(input) = 0
    BY <2>1
  <2> QED
    BY <1>1, <2>1, <2>2, ParserInit DEF NoErrorSoFar, FirstIsLowest, OwnValues, ResultDue
<1>2. ASSUME Inv, [Next]_vars PROVE Inv'
  <2>1. table' = table
    BY <1>2 DEF Next, vars, ReadToken, LookUp, DropToken, ReportError, PopState, NoRecovery, RecoverState,
           Shift, Reduce
  <2>2. HasAllValues' => HasAllValues
    BY <2>1 DEF HasAllValues
  <2>3. ASSUME ~emptied' PROVE Values'
    <3>1. NoErrorSoFar /\ (HasAllValues => OwnValues)
      BY <1>2, <2>3, HistoryKept, Zenon
    <3> QED
      BY <1>2, <2>2, <2>3, <3>1, NoErrorInductive, ValuesInductive
  <2>4. ParserInv'
    BY <1>2, ParserInductive
  <2> QED
    BY <2>3, <2>4, Zenon
<1>3. Inv => ValuesAreOwn
  <2>1. emptied => ValuesAreOwn
    BY Zenon DEF ValuesAreOwn
  <2> QED
    BY <2>1, ValuesFromInv, Zenon
<1> QED
  BY <1>1, <1>2, <1>3, PTL

(* In a parser with a value for every token and an action for every rule,  *)
(* as long as no empty rule was reduced, each symbol on the stack has the  *)
(* value of its own first token through errors and recovery, and a parse   *)
(* without an error returns the first token's: also the accepting rule,    *)
(* which has no action and takes what yypsynattr holds, takes the value of *)
(* its own symbol.                                                         *)
THEOREM ValuesCorrect == (Spec => []ValuesAreOwn) /\ (RunSpec => []ValuesAreOwn)
<1>1. Spec => Init /\ [][Next]_vars
  BY PTL DEF Spec
<1> QED
  BY <1>1, RunIsParser, ValuesSafe, PTL
-----------------------------------------------------------------------------
(* The buffer.  The positions in it are those of the text after the        *)
(* characters moved out, before and after every call of yyfFill.           *)
Scanner == table.lexer
Starts == {Scanner.start[s] : s \in States(table)}
Fields == {"buffer", "buflen", "bufend", "mine", "freed", "yylfirst", "yylpos", "yyllastpos",
           "yylline", "yylcol"}

Holds(f, t, m) ==
    /\ DOMAIN f = Fields /\ t \in Seq(Scanner.chars) /\ m \in Nat
    /\ f.buflen \in Nat /\ f.bufend \in 0 .. f.buflen /\ DOMAIN f.buffer = 0 .. f.buflen - 1
    /\ m + f.bufend = Len(t)
    /\ \A i \in 0 .. f.bufend - 1 : f.buffer[i] = t[m + i + 1]
    /\ f.yylfirst \in Nat /\ f.yylpos \in Nat /\ f.yyllastpos \in Int

(* What was scanned of the token: nothing is accepted yet; a token was,    *)
(* before the end of the text; or "$" was, one behind it.                  *)
Scanned(f) ==
    \/ /\ yyllastaccept = NoToken /\ f.yylfirst <= f.yylpos /\ f.yylpos <= f.bufend
       /\ f.yylfirst = f.yylpos => yylstate \in Starts
    \/ /\ yyllastaccept \notin {NoToken, Scanner.eof}
       /\ f.yylfirst < f.yyllastpos /\ f.yyllastpos <= f.yylpos /\ f.yylpos <= f.bufend
    \/ /\ yyllastaccept = Scanner.eof /\ atEnd /\ Scanner.next[yylstate][Eof] = NoNext
       /\ f.yylfirst <= f.bufend /\ f.yyllastpos = f.bufend + 1 /\ f.yylpos = f.bufend + 1

(* "$" was taken, and the buffer is a caller's, which is not freed.        *)
BehindEnd(f) == f.yylpos = f.bufend + 1 /\ ~f.mine /\ tokenEnd > Len(text)

BufferInv ==
    /\ DOMAIN yyf = Fields
    /\ ~yyf.freed =>
          /\ Holds(yyf, text, moved)
          /\ scan = "char" =>
                \/ BehindEnd(yyf) /\ yyf.yylfirst = yyf.yylpos
                \/ yylstate \in DOMAIN Scanner.next /\ Scanned(yyf)
          /\ scan \in {"start", "accept"} => BehindEnd(yyf) \/ yyf.yylpos <= yyf.bufend
          /\ scan = "accept" => yyllastaccept = Scanner.eof \/ yyf.yylpos < yyf.buflen
          /\ scan = "crash" => ~yyf.mine /\ tokenEnd > Len(text)

LEMMA ScannerFacts ==
    ASSUME ParserInv
    PROVE  /\ Scanner.eof = table.eof /\ Scanner.eof # NoToken /\ Start \in Starts
           /\ \A s \in Starts : s \in DOMAIN Scanner.next /\ Scanner.next[s][Eof] # NoNext
           /\ \A s \in DOMAIN Scanner.next : \A c \in Scanner.chars :
                 LET t == Scanner.next[s][c]
                 IN  t # NoNext => /\ t \in DOMAIN Scanner.next /\ Scanner.next[t][Eof] = NoNext
                                   /\ t \in DOMAIN Scanner.accept => Scanner.accept[t] # Scanner.eof
           /\ \A s \in DOMAIN Scanner.next :
                 LET t == Scanner.next[s][Eof]
                 IN  t # NoNext => /\ t \in DOMAIN Scanner.next
                                   /\ t \in DOMAIN Scanner.accept /\ Scanner.accept[t] = Scanner.eof
                                   /\ Scanner.next[t][Eof] = NoNext
           /\ \A t \in DOMAIN Scanner.accept : Scanner.accept[t] # NoToken
           /\ Eof \notin Scanner.chars /\ GivenTexts[table] \subseteq Seq(Scanner.chars)
<1>1. table \in Tables /\ yypstate \in States(table)
  BY DEF ParserInv, ParserTypeOK
<1>2. table.lexer.eof = table.eof /\ IsScanner(Scanner, Starts, GivenTexts[table])
  BY <1>1, ScannersAssumption DEF Scanner, Starts
<1>3. Start \in Starts
  BY <1>1 DEF Start, Starts, Scanner
<1>a. table.eof # NoToken
  BY ParserFacts DEF ParserInv, NoToken
<1> HIDE DEF Starts
<1> DEFINE scanner == Scanner
           given == GivenTexts[table]
<1> HIDE DEF scanner, given
<1>4. IsScanner(scanner, Starts, given)
  BY <1>2 DEF scanner, given
<1>5. /\ \A s \in Starts : s \in DOMAIN scanner.next /\ scanner.next[s][Eof] # NoNext
      /\ \A s \in DOMAIN scanner.next : \A c \in scanner.chars :
            LET t == scanner.next[s][c]
            IN  t # NoNext => /\ t \in DOMAIN scanner.next /\ scanner.next[t][Eof] = NoNext
                              /\ t \in DOMAIN scanner.accept => scanner.accept[t] # scanner.eof
      /\ \A s \in DOMAIN scanner.next :
            LET t == scanner.next[s][Eof]
            IN  t # NoNext => /\ t \in DOMAIN scanner.next
                              /\ t \in DOMAIN scanner.accept /\ scanner.accept[t] = scanner.eof
                              /\ scanner.next[t][Eof] = NoNext
      /\ \A t \in DOMAIN scanner.accept : scanner.accept[t] # NoToken
      /\ Eof \notin scanner.chars /\ given \subseteq Seq(scanner.chars)
  BY <1>4 DEF IsScanner
<1> QED
  BY <1>2, <1>3, <1>a, <1>5 DEF scanner, given, Scanner

LEMMA MovedHolds ==
    ASSUME NEW f, NEW t, NEW m, Holds(f, t, m), f.yylfirst <= f.bufend, f.yylfirst <= f.yylpos
    PROVE  /\ Holds(Moved(f), t, m + f.yylfirst)
           /\ Moved(f).bufend = f.bufend - f.yylfirst /\ Moved(f).yylfirst = 0
           /\ Moved(f).yylpos = f.yylpos - f.yylfirst
           /\ Moved(f).yyllastpos = f.yyllastpos - f.yylfirst
           /\ Moved(f).buflen = f.buflen /\ Moved(f).mine = f.mine /\ Moved(f).freed = f.freed
<1> DEFINE g == Moved(f)
<1>1. /\ DOMAIN g = Fields
      /\ g.bufend = f.bufend - f.yylfirst /\ g.yylfirst = 0
      /\ g.yylpos = f.yylpos - f.yylfirst /\ g.yyllastpos = f.yyllastpos - f.yylfirst
      /\ g.buflen = f.buflen /\ g.mine = f.mine /\ g.freed = f.freed
      /\ g.buffer = [i \in DOMAIN f.buffer |->
                        IF i < f.bufend - f.yylfirst THEN f.buffer[i + f.yylfirst] ELSE f.buffer[i]]
  BY DEF Holds, Moved, Fields
<1>2. \A i \in 0 .. g.bufend - 1 : g.buffer[i] = t[m + f.yylfirst + i + 1]
  <2> SUFFICES ASSUME NEW i \in 0 .. g.bufend - 1 PROVE g.buffer[i] = t[m + f.yylfirst + i + 1]
    OBVIOUS
  <2> HIDE DEF g
  <2>1. i + f.yylfirst \in 0 .. f.bufend - 1 /\ i \in DOMAIN f.buffer
    BY SMTT(30), <1>1 DEF Holds
  <2>2. g.buffer[i] = f.buffer[i + f.yylfirst]
    BY <1>1, <2>1 DEF Holds
  <2>3. f.buffer[i + f.yylfirst] = t[m + (i + f.yylfirst) + 1]
    BY <2>1 DEF Holds
  <2>4. m + (i + f.yylfirst) + 1 = m + f.yylfirst + i + 1
    BY <2>1 DEF Holds
  <2> QED
    BY <2>2, <2>3, <2>4
<1> HIDE DEF g
<1> DEFINE n == Len(t)
<1>3. /\ n \in Nat /\ m \in Nat /\ m + f.bufend = n /\ f.yylfirst \in Nat /\ f.yylpos \in Nat
      /\ f.yyllastpos \in Int /\ f.buflen \in Nat /\ f.bufend \in 0 .. f.buflen
      /\ DOMAIN f.buffer = 0 .. f.buflen - 1
  BY LenProperties DEF Holds
<1> HIDE DEF n
<1>4. /\ g.bufend \in 0 .. g.buflen /\ g.buflen \in Nat /\ DOMAIN g.buffer = 0 .. g.buflen - 1
      /\ m + f.yylfirst + g.bufend = n /\ m + f.yylfirst \in Nat
      /\ g.yylfirst \in Nat /\ g.yylpos \in Nat /\ g.yyllastpos \in Int
  BY SMTT(30), <1>1, <1>3
<1>5. Holds(g, t, m + f.yylfirst)
  BY <1>1, <1>2, <1>4 DEF Holds, n
<1> QED
  BY <1>1, <1>5 DEF g

LEMMA GrownHolds ==
    ASSUME NEW f, NEW t, NEW m, Holds(f, t, m)
    PROVE  /\ Holds(Grown(f), t, m)
           /\ Grown(f).bufend = f.bufend /\ Grown(f).yylfirst = f.yylfirst
           /\ Grown(f).yylpos = f.yylpos /\ Grown(f).yyllastpos = f.yyllastpos
           /\ Grown(f).mine = f.mine /\ Grown(f).freed = f.freed
           /\ f.buflen > 0 => Grown(f).bufend < Grown(f).buflen
<1>1. MinBufferFill \in Nat \ {0}
  BY BufferAssumption
<1>2. CASE f.buflen - f.bufend >= MinBufferFill
  BY <1>1, <1>2 DEF Grown, Holds
<1>3. CASE ~(f.buflen - f.bufend >= MinBufferFill)
  <2> DEFINE g == Grown(f)
  <2>1. /\ DOMAIN g = Fields
        /\ g.bufend = f.bufend /\ g.yylfirst = f.yylfirst
        /\ g.yylpos = f.yylpos /\ g.yyllastpos = f.yyllastpos
        /\ g.mine = f.mine /\ g.freed = f.freed /\ g.buflen = 2 * f.buflen
        /\ g.buffer = [i \in 0 .. 2 * f.buflen - 1 |-> IF i < f.buflen THEN f.buffer[i] ELSE Unset]
    BY <1>3 DEF Grown, Holds, Fields
  <2> HIDE DEF g
  <2>2. \A i \in 0 .. g.bufend - 1 : g.buffer[i] = t[m + i + 1]
    BY <2>1 DEF Holds
  <2>3. Holds(g, t, m) /\ (f.buflen > 0 => g.bufend < g.buflen)
    BY SMTT(30), <2>1, <2>2 DEF Holds
  <2> QED
    BY <2>1, <2>3 DEF g
<1> QED
  BY <1>2, <1>3

(* "after" is the buffer with n characters more, "joined" the text.        *)
FilledWith(m, n, k, end, length, t, data, joined, buffer, after) ==
    /\ m \in Nat /\ n \in Nat /\ k \in Nat /\ end \in Nat /\ length \in Nat
    /\ m + end = k /\ n <= length - end
    /\ \A i \in 0 .. end - 1 : buffer[i] = t[m + i + 1]
    /\ \A i \in 1 .. k + n : IF i <= k THEN joined[i] = t[i] ELSE joined[i] = data[i - k]
    /\ after = [i \in 0 .. length - 1 |-> IF i \in end .. end + n - 1
                                          THEN data[i - end + 1] ELSE buffer[i]]

LEMMA FilledPlaces ==
    ASSUME NEW m, NEW n, NEW k, NEW end, NEW length,
           NEW t, NEW data, NEW joined, NEW buffer, NEW after,
           FilledWith(m, n, k, end, length, t, data, joined, buffer, after)
    PROVE  \A i \in 0 .. end + n - 1 : after[i] = joined[m + i + 1]
<1> USE DEF FilledWith
<1> SUFFICES ASSUME NEW i \in 0 .. end + n - 1 PROVE after[i] = joined[m + i + 1]
  OBVIOUS
<1>1. m + i + 1 \in 1 .. k + n /\ i \in 0 .. length - 1
  OBVIOUS
<1>2. CASE i < end
  <2>1. m + i + 1 <= k /\ i \in 0 .. end - 1 /\ i \notin end .. end + n - 1
    BY <1>2
  <2>2. joined[m + i + 1] = t[m + i + 1]
    BY <1>1, <2>1
  <2>3. after[i] = buffer[i]
    BY <1>1, <2>1
  <2> QED
    BY <2>1, <2>2, <2>3
<1>3. CASE ~(i < end)
  <2>1. ~(m + i + 1 <= k) /\ i \in end .. end + n - 1 /\ m + i + 1 - k = i - end + 1
    BY <1>3
  <2>2. joined[m + i + 1] = data[m + i + 1 - k]
    BY <1>1, <2>1
  <2>3. after[i] = data[i - end + 1]
    BY <1>1, <2>1
  <2> QED
    BY <2>1, <2>2, <2>3
<1> QED
  BY <1>2, <1>3

LEMMA FilledHolds ==
    ASSUME NEW f, NEW t, NEW m, NEW data \in Seq(Scanner.chars),
           Holds(f, t, m), Len(data) <= f.buflen - f.bufend
    PROVE  /\ Holds(Filled(f, data), t \o data, m)
           /\ Filled(f, data).bufend = f.bufend + Len(data)
           /\ Filled(f, data).yylfirst = f.yylfirst /\ Filled(f, data).yylpos = f.yylpos
           /\ Filled(f, data).yyllastpos = f.yyllastpos /\ Filled(f, data).buflen = f.buflen
           /\ Filled(f, data).mine = f.mine /\ Filled(f, data).freed = f.freed
<1> DEFINE g == Filled(f, data)
<1>1. /\ DOMAIN g = Fields
      /\ g.bufend = f.bufend + Len(data) /\ g.yylfirst = f.yylfirst /\ g.yylpos = f.yylpos
      /\ g.yyllastpos = f.yyllastpos /\ g.buflen = f.buflen /\ g.mine = f.mine /\ g.freed = f.freed
      /\ g.buffer = [i \in 0 .. f.buflen - 1 |->
                        IF i \in f.bufend .. f.bufend + Len(data) - 1
                        THEN data[i - f.bufend + 1] ELSE f.buffer[i]]
  BY DEF Holds, Filled, Fields
<1> HIDE DEF g
<1> DEFINE n == Len(data)
           k == Len(t)
           joined == t \o data
<1> HIDE DEF n, k, joined
<1>2. /\ m \in Nat /\ n \in Nat /\ k \in Nat /\ f.bufend \in Nat /\ f.buflen \in Nat
      /\ m + f.bufend = k /\ n <= f.buflen - f.bufend
  BY LenProperties DEF Holds, n, k
<1>3. \A i \in 0 .. f.bufend - 1 : f.buffer[i] = t[m + i + 1]
  BY DEF Holds
<1>4. /\ joined \in Seq(Scanner.chars) /\ Len(joined) = k + n
      /\ \A i \in 1 .. k + n : IF i <= k THEN joined[i] = t[i] ELSE joined[i] = data[i - k]
  BY ConcatProperties DEF Holds, n, k, joined
<1>5. /\ g.bufend = f.bufend + n
      /\ g.buffer = [i \in 0 .. f.buflen - 1 |->
                        IF i \in f.bufend .. f.bufend + n - 1
                        THEN data[i - f.bufend + 1] ELSE f.buffer[i]]
  BY <1>1 DEF n
<1>6. \A i \in 0 .. g.bufend - 1 : g.buffer[i] = joined[m + i + 1]
  <2>1. FilledWith(m, n, k, f.bufend, f.buflen, t, data, joined, f.buffer, g.buffer)
    BY <1>2, <1>3, <1>4, <1>5, Zenon DEF FilledWith
  <2>2. \A i \in 0 .. f.bufend + n - 1 : g.buffer[i] = joined[m + i + 1]
    BY ONLY <2>1, FilledPlaces
  <2>3. g.bufend = f.bufend + n
    BY <1>5
  <2>4. 0 .. g.bufend - 1 = 0 .. f.bufend + n - 1
    BY ONLY SMTT(30), <1>2, <2>3
  <2> QED
    BY ONLY <2>2, <2>4
<1>7. g.bufend \in 0 .. g.buflen /\ m + g.bufend = k + n
  <2>1. f.bufend + n \in 0 .. f.buflen /\ m + (f.bufend + n) = k + n
    BY ONLY <1>2
  <2>2. g.bufend = f.bufend + n /\ g.buflen = f.buflen
    BY <1>1, <1>5
  <2> QED
    BY ONLY <2>1, <2>2
<1>8. Holds(g, joined, m)
  BY <1>1, <1>2, <1>4, <1>6, <1>7 DEF Holds
<1> QED
  BY <1>1, <1>8 DEF g, joined

(* The buffer is f and c was read from it: one character more than what    *)
(* was Scanned.                                                            *)
Fetched(f, c) ==
    /\ Holds(f, text', moved') /\ ~f.freed /\ yylstate \in DOMAIN Scanner.next
    /\ (c \in Scanner.chars /\ f.yylpos <= f.bufend) \/ (c = Eof /\ atEnd')
    /\ \/ /\ yyllastaccept = NoToken /\ f.yylfirst < f.yylpos /\ f.yylpos <= f.bufend + 1
          /\ c = Eof => f.yylpos = f.bufend + 1
          /\ f.yylpos = f.yylfirst + 1 => yylstate \in Starts
       \/ /\ yyllastaccept \notin {NoToken, Scanner.eof}
          /\ f.yylfirst < f.yyllastpos /\ f.yyllastpos < f.yylpos /\ f.yylpos <= f.bufend + 1
          /\ c = Eof => f.yylpos = f.bufend + 1
          /\ f.yyllastpos < f.buflen
       \/ /\ yyllastaccept = Scanner.eof /\ c = Eof /\ Scanner.next[yylstate][Eof] = NoNext
          /\ f.yylfirst <= f.bufend /\ f.yyllastpos = f.bufend + 1

LEMMA AdvanceInv ==
    ASSUME ParserInv, NEW f, NEW c, Fetched(f, c), scan = "char", table' = table,
           NEW next, next = Scanner.next[yylstate][c], next # NoNext, Advance(Scanner, f, next)
    PROVE  BufferInv'
<1> DEFINE accepts == next \in DOMAIN Scanner.accept
<1>1. /\ yylstate' = next /\ scan' = "char" /\ Scanner' = Scanner
      /\ yyf' = IF accepts THEN [f EXCEPT !.yyllastpos = f.yylpos] ELSE f
      /\ yyllastaccept' = IF accepts THEN Scanner.accept[next] ELSE yyllastaccept
  BY DEF Advance, Scanner
<1>2. /\ next \in DOMAIN Scanner.next
      /\ c = Eof => accepts /\ Scanner.accept[next] = Scanner.eof /\ Scanner.next[next][Eof] = NoNext
      /\ c # Eof /\ accepts => Scanner.accept[next] # Scanner.eof
      /\ accepts => Scanner.accept[next] # NoToken
  BY ScannerFacts DEF Fetched
<1>3. /\ DOMAIN yyf' = Fields /\ yyf'.buffer = f.buffer /\ yyf'.buflen = f.buflen
      /\ yyf'.bufend = f.bufend /\ yyf'.yylfirst = f.yylfirst /\ yyf'.yylpos = f.yylpos
      /\ yyf'.yyllastpos = IF accepts THEN f.yylpos ELSE f.yyllastpos
  BY <1>1 DEF Fetched, Holds, Fields
<1>4. Holds(f, text', moved') /\ Holds(yyf, text, moved)'
  BY <1>1, <1>3 DEF Fetched, Holds
<1>5. /\ f.yylfirst \in Nat /\ f.yylpos \in Nat /\ f.yyllastpos \in Int /\ f.bufend \in Nat
  BY <1>4 DEF Holds
<1>6. Scanned(yyf)'
  <2>1. CASE c = Eof
    <3>1. yyllastaccept # Scanner.eof
      BY <2>1, ScannerFacts DEF Fetched
    <3>2. f.yylpos = f.bufend + 1 /\ f.yylfirst <= f.bufend /\ atEnd'
      BY <1>5, <2>1, <3>1, ScannerFacts DEF Fetched
    <3> QED
      BY <1>1, <1>2, <1>3, <2>1, <3>2 DEF Scanned
  <2>2. CASE c # Eof /\ accepts
    <3>1. f.yylpos <= f.bufend /\ f.yylfirst < f.yylpos
      BY <1>5, <2>2, ScannerFacts DEF Fetched
    <3>2. yyllastaccept' \notin {NoToken, Scanner.eof}
      BY <1>1, <1>2, <2>2
    <3> QED
      BY <1>1, <1>3, <1>5, <2>2, <3>1, <3>2 DEF Scanned
  <2>3. CASE c # Eof /\ ~accepts
    <3>1. f.yylpos <= f.bufend /\ yyllastaccept # Scanner.eof
      BY <2>3, ScannerFacts DEF Fetched
    <3>2. yyllastaccept' = yyllastaccept /\ yyf'.yyllastpos = f.yyllastpos
      BY <1>1, <1>3, <2>3
    <3>3. CASE yyllastaccept = NoToken
      <4>1. f.yylfirst < f.yylpos
        BY <3>1, <3>3 DEF Fetched
      <4> QED
        BY <1>1, <1>3, <1>5, <3>1, <3>2, <3>3, <4>1 DEF Scanned
    <3>4. CASE yyllastaccept # NoToken
      <4>1. f.yylfirst < f.yyllastpos /\ f.yyllastpos < f.yylpos
        BY <3>1, <3>4 DEF Fetched
      <4> QED
        BY <1>1, <1>3, <1>5, <3>1, <3>2, <3>4, <4>1 DEF Scanned
    <3> QED
      BY <3>3, <3>4
  <2> QED
    BY <2>1, <2>2, <2>3
<1> QED
  BY <1>1, <1>2, <1>3, <1>4, <1>6 DEF BufferInv

LEMMA UnrecognisedInv ==
    ASSUME ParserInv, NEW f, NEW c, Fetched(f, c), scan = "char", table' = table,
           Scanner.next[yylstate][c] = NoNext, yyllastaccept = NoToken, Unrecognised(Start, f)
    PROVE  BufferInv'
<1>1. /\ yylstate' = Start /\ scan' = "char" /\ Scanner' = Scanner /\ Starts' = Starts
      /\ yyllastaccept' = NoToken
  BY DEF Unrecognised, Scanner, Starts
<1>2. Start \in Starts /\ Start \in DOMAIN Scanner.next
  BY ScannerFacts
<1>3. /\ DOMAIN yyf' = Fields /\ yyf'.buffer = f.buffer /\ yyf'.buflen = f.buflen
      /\ yyf'.bufend = f.bufend /\ yyf'.yylfirst = f.yylfirst + 1 /\ yyf'.yylpos = f.yylfirst + 1
      /\ yyf'.yyllastpos = f.yyllastpos
  BY DEF Unrecognised, Fetched, Holds, Fields
<1>4. /\ Holds(f, text', moved')
      /\ f.yylfirst \in Nat /\ f.yylpos \in Nat /\ f.bufend \in Nat
  BY DEF Fetched, Holds
<1>5. Holds(yyf, text, moved)'
  BY SMTT(30), <1>1, <1>3, <1>4 DEF Holds
<1>6. f.yylfirst < f.yylpos /\ (c = Eof => f.yylpos # f.yylfirst + 1 /\ f.yylpos = f.bufend + 1)
      /\ (c # Eof => f.yylpos <= f.bufend)
  BY <1>4, ScannerFacts DEF Fetched
<1>7. yyf'.yylfirst <= yyf'.yylpos /\ yyf'.yylpos <= yyf'.bufend
  BY <1>3, <1>4, <1>6
<1>8. Scanned(yyf)'
  BY <1>1, <1>2, <1>7 DEF Scanned
<1> QED
  BY <1>1, <1>2, <1>3, <1>5, <1>8 DEF BufferInv

LEMMA BackToAcceptInv ==
    ASSUME ParserInv, NEW f, NEW c, Fetched(f, c), scan = "char", table' = table,
           Scanner.next[yylstate][c] = NoNext, yyllastaccept # NoToken, BackToAccept(Scanner, f)
    PROVE  BufferInv'
<1> DEFINE back == [f EXCEPT !.yylpos = f.yyllastpos]
           atEof == yyllastaccept = Scanner.eof
           freed == f.freed \/ (atEof /\ f.mine)
<1>1. /\ yyf' = IF freed THEN [back EXCEPT !.freed = TRUE] ELSE Counted(back)
      /\ scan' \in {"start", "accept"} /\ Scanner' = Scanner
      /\ tokenEnd' = moved' + f.yyllastpos /\ yyllastaccept' = yyllastaccept
  BY DEF BackToAccept, Scanner
<1>2. /\ DOMAIN back = Fields /\ back.buffer = f.buffer /\ back.buflen = f.buflen
      /\ back.bufend = f.bufend /\ back.yylfirst = f.yylfirst /\ back.yylpos = f.yyllastpos
      /\ back.yyllastpos = f.yyllastpos /\ back.mine = f.mine /\ back.freed = f.freed
  BY DEF Fetched, Holds, Fields
<1> HIDE DEF back
<1>3. CASE freed
  <2>1. DOMAIN yyf' = Fields /\ yyf'.freed = TRUE
    BY <1>1, <1>2, <1>3 DEF Fields
  <2> QED
    BY <2>1 DEF BufferInv
<1>4. CASE ~freed
  <2>1. /\ DOMAIN yyf' = Fields /\ yyf'.buffer = f.buffer /\ yyf'.buflen = f.buflen
        /\ yyf'.bufend = f.bufend /\ yyf'.yylfirst = f.yylfirst /\ yyf'.yylpos = f.yyllastpos
        /\ yyf'.yyllastpos = f.yyllastpos /\ yyf'.mine = f.mine
    BY <1>1, <1>2, <1>4 DEF Counted, Fields
  <2>2. /\ Holds(f, text', moved')
        /\ f.yylfirst \in Nat /\ f.yyllastpos \in Int /\ f.bufend \in Nat /\ f.buflen \in Nat
    BY DEF Fetched, Holds
  <2>3. CASE atEof
    <3>1. f.yyllastpos = f.bufend + 1 /\ ~f.mine
      BY <1>4, <2>3, ScannerFacts DEF Fetched
    <3>a. f.yyllastpos \in Nat
      BY <2>2, <3>1
    <3>2. Holds(yyf, text, moved)'
      BY <1>1, <2>1, <2>2, <3>a DEF Holds
    <3>3. tokenEnd' > Len(text')
      <4> DEFINE n == Len(text')
      <4> HIDE DEF n
      <4>1. moved' \in Nat /\ n \in Nat /\ moved' + f.bufend = n
        BY <2>2, LenProperties DEF Holds, n
      <4>2. tokenEnd' > n
        BY <1>1, <2>2, <3>1, <4>1
      <4> QED
        BY <4>2 DEF n
    <3>4. BehindEnd(yyf)'
      BY <2>1, <3>1, <3>3 DEF BehindEnd
    <3> QED
      BY <1>1, <2>1, <2>3, <3>2, <3>4 DEF BufferInv
  <2>4. CASE ~atEof
    <3>1. f.yylfirst < f.yyllastpos /\ f.yyllastpos < f.yylpos /\ f.yylpos <= f.bufend + 1
          /\ f.yyllastpos < f.buflen
      BY <2>4 DEF Fetched
    <3>2. f.yyllastpos \in Nat /\ f.yyllastpos <= f.bufend
      BY <2>2, <3>1 DEF Fetched, Holds
    <3>3. Holds(yyf, text, moved)'
      BY <1>1, <2>1, <2>2, <3>2 DEF Holds
    <3> QED
      BY <1>1, <2>1, <3>1, <3>2, <3>3 DEF BufferInv
  <2> QED
    BY <2>3, <2>4
<1> QED
  BY <1>3, <1>4

LEMMA ClassUndefinedInv ==
    ASSUME NEW f, NEW c, Fetched(f, c), table' = table, ClassUndefined(f)
    PROVE  BufferInv'
<1>1. yyf' = f /\ scan' = "undefined"
  BY DEF ClassUndefined
<1>2. DOMAIN f = Fields /\ Holds(f, text', moved')
  BY DEF Fetched, Holds
<1>3. Holds(yyf, text, moved)'
  BY <1>1, <1>2 DEF Holds, Scanner
<1> QED
  BY <1>1, <1>2, <1>3 DEF BufferInv

LEMMA ConsumeInv ==
    ASSUME ParserInv, NEW f, NEW c, Fetched(f, c), scan = "char", table' = table,
           Consume(Scanner, Start, f, c)
    PROVE  BufferInv'
<1>1. CASE c \in Scanner.high /\ ClassUndefined(f)
  BY <1>1, ClassUndefinedInv
<1>2. CASE c \notin Scanner.high
  BY <1>2, AdvanceInv, UnrecognisedInv, BackToAcceptInv DEF Consume, YYL_GOTO
<1> QED
  BY <1>1, <1>2 DEF Consume

(* A file that has ended is not read again.                                *)
LEMMA DeliveredData ==
    ASSUME NEW room \in Int, NEW data \in Delivered(Scanner.chars, room)
    PROVE  /\ data \in Seq(Scanner.chars)
           /\ data # <<>> => ~atEnd /\ Len(data) \in 1 .. room
<1>1. ReadSizes \subseteq Nat \ {0}
  BY BufferAssumption
<1>2. CASE data = <<>>
  BY <1>2
<1>3. CASE data # <<>>
  <2>1. ~atEnd /\ \E n \in ReadSizes : n <= room /\ data \in [1 .. n -> Scanner.chars]
    BY <1>3 DEF Delivered
  <2>2. PICK n \in ReadSizes : n <= room /\ data \in [1 .. n -> Scanner.chars]
    BY <2>1
  <2>3. n \in Nat \ {0}
    BY <1>1
  <2>4. data \in Seq(Scanner.chars)
    BY <2>2, <2>3, IsASeq
  <2>5. Len(data) = n
    BY <2>2, <2>3, <2>4, LenProperties
  <2> QED
    BY <2>1, <2>2, <2>3, <2>4, <2>5
<1> QED
  BY <1>2, <1>3

LEMMA FreedStays ==
    ASSUME NEW f, NEW c, DOMAIN f = Fields, f.freed, Consume(Scanner, Start, f, c)
    PROVE  BufferInv'
<1>1. DOMAIN yyf' = Fields /\ yyf'.freed
  <2>1. ASSUME NEW next, Advance(Scanner, f, next) PROVE DOMAIN yyf' = Fields /\ yyf'.freed
    BY <2>1 DEF Advance, Fields
  <2>2. ASSUME Unrecognised(Start, f) PROVE DOMAIN yyf' = Fields /\ yyf'.freed
    BY <2>2 DEF Unrecognised, Fields
  <2>3. ASSUME BackToAccept(Scanner, f) PROVE DOMAIN yyf' = Fields /\ yyf'.freed
    BY <2>3 DEF BackToAccept, Fields
  <2>4. ASSUME ClassUndefined(f) PROVE DOMAIN yyf' = Fields /\ yyf'.freed
    BY <2>4 DEF ClassUndefined
  <2> QED
    BY <2>1, <2>2, <2>3, <2>4 DEF Consume
<1> QED
  BY <1>1 DEF BufferInv

(* The character is in the buffer.                                         *)
LEMMA ReadFromBuffer ==
    ASSUME ParserInv, BufferInv, ~yyf.freed, scan = "char", yyf.yylpos < yyf.bufend,
           UNCHANGED <<text, atEnd, moved>>
    PROVE  Fetched([yyf EXCEPT !.yylpos = @ + 1], yyf.buffer[yyf.yylpos])
<1> DEFINE f == [yyf EXCEPT !.yylpos = @ + 1]
           c == yyf.buffer[yyf.yylpos]
<1>1. Holds(yyf, text, moved) /\ yyf.yylpos \in Nat /\ yyf.bufend \in Nat
  BY DEF BufferInv, Holds
<1>2. yylstate \in DOMAIN Scanner.next /\ Scanned(yyf)
  BY <1>1 DEF BufferInv, BehindEnd
<1>3. /\ DOMAIN f = Fields /\ f.buffer = yyf.buffer /\ f.buflen = yyf.buflen
      /\ f.bufend = yyf.bufend /\ f.yylfirst = yyf.yylfirst /\ f.yylpos = yyf.yylpos + 1
      /\ f.yyllastpos = yyf.yyllastpos /\ f.freed = yyf.freed
  BY <1>1 DEF Holds, Fields
<1>4. Holds(f, text', moved')
  BY <1>1, <1>3 DEF Holds
<1>5. c \in Scanner.chars
  <2> DEFINE n == Len(text)
  <2> HIDE DEF n
  <2>1. text \in Seq(Scanner.chars) /\ n \in Nat /\ moved \in Nat /\ moved + yyf.bufend = n
    BY <1>1, LenProperties DEF Holds, n
  <2>a. yyf.yylpos \in 0 .. yyf.bufend - 1
    BY <1>1
  <2>2. c = text[moved + yyf.yylpos + 1]
    BY <1>1, <2>a DEF Holds
  <2>3. moved + yyf.yylpos + 1 \in 1 .. n
    BY <1>1, <2>1
  <2>4. \A i \in 1 .. n : text[i] \in Scanner.chars
    BY <2>1, ElementOfSeq DEF n
  <2> QED
    BY <2>2, <2>3, <2>4
<1>6. c # Eof
  BY <1>5, ScannerFacts
<1>7. /\ yyf.yylfirst \in Nat /\ yyf.yyllastpos \in Int /\ yyf.buflen \in Nat
      /\ yyf.bufend <= yyf.buflen
  BY <1>1 DEF Holds
<1>8. yyllastaccept # Scanner.eof
  BY <1>1, <1>2, ScannerFacts DEF Scanned
<1> HIDE DEF f, c
<1>9. CASE yyllastaccept = NoToken
  <2>1. yyf.yylfirst <= yyf.yylpos /\ (yyf.yylfirst = yyf.yylpos => yylstate \in Starts)
    BY <1>2, <1>8, <1>9 DEF Scanned
  <2>2. f.yylfirst < f.yylpos /\ (f.yylpos = f.yylfirst + 1 => yylstate \in Starts) /\ f.yylpos <= f.bufend
    BY <1>1, <1>3, <1>7, <2>1
  <2>3. f.yylpos <= f.bufend + 1
    BY <1>1, <1>3
  <2> QED
    BY <1>2, <1>3, <1>4, <1>5, <1>6, <1>9, <2>2, <2>3 DEF Fetched, f, c
<1>10. CASE yyllastaccept # NoToken
  <2>1. yyf.yylfirst < yyf.yyllastpos /\ yyf.yyllastpos <= yyf.yylpos
    BY <1>2, <1>8, <1>10 DEF Scanned
  <2>2. /\ f.yylfirst < f.yyllastpos /\ f.yyllastpos < f.yylpos /\ f.yylpos <= f.bufend
        /\ f.yylpos <= f.bufend + 1 /\ f.yyllastpos < f.buflen
    BY <1>1, <1>3, <1>7, <2>1
  <2> QED
    BY <1>2, <1>3, <1>4, <1>5, <1>6, <1>8, <1>10, <2>2 DEF Fetched, f, c
<1> QED
  BY <1>9, <1>10 DEF f, c

(* The buffer after yyfFill, with what read() delivered.                   *)
LEMMA FillFacts ==
    ASSUME BufferInv, ~yyf.freed, scan = "char", yyf.yylfirst <= yyf.bufend,
           yyf.yylfirst <= yyf.yylpos,
           NEW f, f = Grown(Moved(yyf)), NEW data \in Delivered(Scanner.chars, f.buflen - f.bufend)
    PROVE  LET g == Filled(f, data)
           IN  /\ Holds(g, text \o data, moved + yyf.yylfirst) /\ ~g.freed
               /\ f.yylpos = yyf.yylpos - yyf.yylfirst /\ data \in Seq(Scanner.chars)
               /\ g.yylfirst = 0 /\ g.yylpos = yyf.yylpos - yyf.yylfirst
               /\ g.yyllastpos = yyf.yyllastpos - yyf.yylfirst
               /\ g.bufend = yyf.bufend - yyf.yylfirst + Len(data)
               /\ yyf.bufend > 0 => yyf.bufend - yyf.yylfirst < g.buflen
               /\ data # <<>> => ~atEnd /\ Len(data) \in Nat \ {0}
<1> DEFINE e == Moved(yyf)
           g == Filled(f, data)
<1> HIDE DEF e, g
<1>1. Holds(yyf, text, moved)
  BY DEF BufferInv
<1>2. /\ Holds(e, text, moved + yyf.yylfirst) /\ ~e.freed /\ e.yylfirst = 0
      /\ e.bufend = yyf.bufend - yyf.yylfirst /\ e.buflen = yyf.buflen
      /\ e.yylpos = yyf.yylpos - yyf.yylfirst /\ e.yyllastpos = yyf.yyllastpos - yyf.yylfirst
  BY <1>1, MovedHolds DEF e
<1>3. /\ Holds(f, text, moved + yyf.yylfirst) /\ ~f.freed /\ f.yylfirst = 0
      /\ f.bufend = e.bufend /\ f.yylpos = e.yylpos /\ f.yyllastpos = e.yyllastpos
      /\ e.buflen > 0 => f.bufend < f.buflen
  BY <1>2, GrownHolds DEF e
<1>4. f.buflen \in Nat /\ f.bufend \in 0 .. f.buflen
  BY <1>3 DEF Holds
<1>5. f.buflen - f.bufend \in Int /\ f.buflen - f.bufend >= 0
  BY <1>4
<1>6. data \in Seq(Scanner.chars) /\ (data # <<>> => ~atEnd /\ Len(data) \in 1 .. f.buflen - f.bufend)
  BY <1>5, DeliveredData
<1>7. Len(data) <= f.buflen - f.bufend
  BY <1>5, <1>6
<1>8. /\ Holds(g, text \o data, moved + yyf.yylfirst) /\ g.bufend = f.bufend + Len(data)
      /\ g.yylfirst = 0 /\ g.yylpos = f.yylpos /\ g.yyllastpos = f.yyllastpos
      /\ g.buflen = f.buflen /\ ~g.freed
  <2>1. Holds(f, text, moved + yyf.yylfirst) /\ data \in Seq(Scanner.chars)
    BY <1>3, <1>6
  <2>2. /\ Holds(g, text \o data, moved + yyf.yylfirst) /\ g.bufend = f.bufend + Len(data)
        /\ g.yylfirst = f.yylfirst /\ g.yylpos = f.yylpos /\ g.yyllastpos = f.yyllastpos
        /\ g.buflen = f.buflen /\ g.freed = f.freed
    BY ONLY <2>1, <1>7, FilledHolds DEF g
  <2> QED
    BY <1>3, <2>2
<1>9. data # <<>> => Len(data) \in Nat \ {0}
  BY <1>4, <1>6
<1>10. yyf.bufend > 0 => e.buflen > 0
  BY <1>1, <1>2 DEF Holds
<1> QED
  BY <1>2, <1>3, <1>6, <1>8, <1>9, <1>10 DEF g

LEMMA ReadFromFile ==
    ASSUME ParserInv, BufferInv, ~yyf.freed, scan = "char",
           yyf.yylpos >= yyf.bufend, yyf.yylfirst <= yyf.bufend,
           NEW f, f = Grown(Moved(yyf)), NEW data \in Delivered(Scanner.chars, f.buflen - f.bufend),
           text' = text \o data, atEnd' = (data = <<>>), moved' = moved + yyf.yylfirst
    PROVE  Fetched([Filled(f, data) EXCEPT !.yylpos = @ + 1],
                   IF data = <<>> THEN Eof ELSE Filled(f, data).buffer[f.yylpos])
<1> DEFINE g == Filled(f, data)
           h == [g EXCEPT !.yylpos = @ + 1]
           c == IF data = <<>> THEN Eof ELSE g.buffer[f.yylpos]
<1> SUFFICES Fetched(h, c)
  OBVIOUS
<1> HIDE DEF g, h, c
<1>1. /\ Holds(yyf, text, moved) /\ yyf.yylpos \in Nat /\ yyf.bufend \in Nat
      /\ yyf.yylfirst \in Nat /\ yyf.yyllastpos \in Int
  BY DEF BufferInv, Holds
<1>2. yylstate \in DOMAIN Scanner.next /\ Scanned(yyf)
  BY <1>1 DEF BufferInv, BehindEnd
<1>3. yyf.yylfirst <= yyf.yylpos
  BY <1>1
<1>4. /\ Holds(g, text', moved') /\ ~g.freed /\ f.yylpos = g.yylpos /\ data \in Seq(Scanner.chars)
      /\ g.yylfirst = 0 /\ g.yylpos = yyf.yylpos - yyf.yylfirst
      /\ g.yyllastpos = yyf.yyllastpos - yyf.yylfirst
      /\ g.bufend = yyf.bufend - yyf.yylfirst + Len(data)
      /\ yyf.bufend > 0 => yyf.bufend - yyf.yylfirst < g.buflen
      /\ data # <<>> => ~atEnd /\ Len(data) \in Nat \ {0}
  BY <1>3, FillFacts DEF g
<1>5. g.yylpos \in Nat /\ g.bufend \in Nat /\ g.buflen \in Nat /\ g.yyllastpos \in Int
  BY <1>4 DEF Holds
<1>6. /\ DOMAIN h = Fields /\ h.buffer = g.buffer /\ h.buflen = g.buflen /\ h.bufend = g.bufend
      /\ h.yylfirst = 0 /\ h.yylpos = g.yylpos + 1 /\ h.yyllastpos = g.yyllastpos
      /\ h.freed = g.freed
  BY <1>4 DEF h, Holds, Fields
<1>7. Holds(h, text', moved') /\ ~h.freed
  <2>1. Holds(g, text', moved') /\ ~g.freed
    BY <1>4
  <2> QED
    BY ONLY <1>5, <1>6, <2>1 DEF Holds
<1>8. CASE data = <<>>
  <2>1. c = Eof /\ atEnd' /\ c \notin Scanner.chars
    BY <1>8, ScannerFacts DEF c
  <2>2. g.bufend = yyf.bufend - yyf.yylfirst
    BY <1>1, <1>4, <1>8
  <2>3. CASE yyllastaccept = Scanner.eof
    <3>1. yyf.yyllastpos = yyf.bufend + 1 /\ Scanner.next[yylstate][Eof] = NoNext
      BY <1>2, <2>3, ScannerFacts DEF Scanned
    <3>2. h.yyllastpos = h.bufend + 1 /\ h.yylfirst <= h.bufend
      BY <1>1, <1>4, <1>6, <2>2, <3>1
    <3> QED
      BY ONLY <1>2, <1>7, <2>1, <2>3, <3>1, <3>2 DEF Fetched
  <2>4. CASE yyllastaccept = NoToken
    <3>1. /\ yyf.yylpos = yyf.bufend
          /\ yyf.yylfirst = yyf.yylpos => yylstate \in Starts
      BY <1>1, <1>2, <2>4, ScannerFacts DEF Scanned
    <3>2. /\ h.yylpos = h.bufend + 1 /\ h.yylpos <= h.bufend + 1 /\ h.yylfirst < h.yylpos
          /\ h.yylpos = h.yylfirst + 1 => yylstate \in Starts
      BY <1>1, <1>4, <1>5, <1>6, <2>2, <3>1
    <3> QED
      BY ONLY <1>2, <1>7, <2>1, <2>4, <3>2 DEF Fetched
  <2>5. CASE yyllastaccept \notin {NoToken, Scanner.eof}
    <3>1. /\ yyf.yylpos = yyf.bufend
          /\ yyf.yylfirst < yyf.yyllastpos /\ yyf.yyllastpos <= yyf.yylpos
      BY <1>1, <1>2, <2>5 DEF Scanned
    <3>2. yyf.bufend > 0
      BY <1>1, <3>1
    <3>3. /\ h.yylpos = h.bufend + 1 /\ h.yylpos <= h.bufend + 1
          /\ h.yylfirst < h.yyllastpos /\ h.yyllastpos < h.yylpos /\ h.yyllastpos < h.buflen
      BY <1>1, <1>4, <1>5, <1>6, <2>2, <3>1, <3>2
    <3> QED
      BY ONLY <1>2, <1>7, <2>1, <2>5, <3>3 DEF Fetched
  <2> QED
    BY <2>3, <2>4, <2>5
<1>9. CASE data # <<>>
  <2> DEFINE k == Len(data)
             n == Len(text')
  <2> HIDE DEF k, n
  <2>1. k \in Nat \ {0} /\ g.bufend = yyf.bufend - yyf.yylfirst + k /\ ~atEnd
    BY <1>4, <1>9 DEF k
  <2>2. yyf.yylpos = yyf.bufend /\ yyllastaccept # Scanner.eof
    BY <1>1, <1>2, <2>1, ScannerFacts DEF Scanned
  <2>3. g.yylpos \in 0 .. g.bufend - 1
    BY <1>1, <1>4, <1>5, <2>1, <2>2
  <2>4. c \in Scanner.chars
    <3>1. c = text'[moved' + g.yylpos + 1]
      BY <1>4, <1>9, <2>3 DEF Holds, c
    <3>2. n \in Nat /\ moved' \in Nat /\ moved' + g.bufend = n /\ text' \in Seq(Scanner.chars)
      BY <1>4, LenProperties DEF Holds, n
    <3>3. moved' + g.yylpos + 1 \in 1 .. n
      BY <1>5, <2>3, <3>2
    <3>4. \A i \in 1 .. n : text'[i] \in Scanner.chars
      BY <3>2, ElementOfSeq DEF n
    <3> QED
      BY <3>1, <3>3, <3>4
  <2>5. c # Eof
    BY <2>4, ScannerFacts
  <2>6. h.yylpos <= h.bufend /\ h.yylpos <= h.bufend + 1
    BY <1>5, <1>6, <2>3
  <2>7. CASE yyllastaccept = NoToken
    <3>1. yyf.yylfirst = yyf.yylpos => yylstate \in Starts
      BY <1>2, <2>2, <2>7 DEF Scanned
    <3>2. h.yylfirst < h.yylpos /\ (h.yylpos = h.yylfirst + 1 => yylstate \in Starts)
      BY <1>1, <1>4, <1>5, <1>6, <3>1
    <3> QED
      BY ONLY <1>2, <1>7, <2>4, <2>5, <2>6, <2>7, <3>2 DEF Fetched
  <2>8. CASE yyllastaccept # NoToken
    <3>1. yyf.yylfirst < yyf.yyllastpos /\ yyf.yyllastpos <= yyf.yylpos
      BY <1>2, <2>2, <2>8 DEF Scanned
    <3>2. yyf.bufend > 0
      BY <1>1, <2>2, <3>1
    <3>3. h.yylfirst < h.yyllastpos /\ h.yyllastpos < h.yylpos /\ h.yyllastpos < h.buflen
      BY SMTT(30), <1>1, <1>4, <1>5, <1>6, <2>2, <3>1, <3>2
    <3> QED
      BY ONLY <1>2, <1>7, <2>2, <2>4, <2>5, <2>6, <2>8, <3>3 DEF Fetched
  <2> QED
    BY <2>7, <2>8
<1> QED
  BY <1>8, <1>9

LEMMA ReadCharInv ==
    ASSUME ParserInv, BufferInv, table' = table, ReadChar(Scanner, Start)
    PROVE  BufferInv'
<1>1. scan = "char" /\ DOMAIN yyf = Fields
  BY DEF ReadChar, BufferInv
<1>2. CASE /\ yyf.yylpos < yyf.bufend /\ UNCHANGED <<text, atEnd, moved>>
           /\ Consume(Scanner, Start, [yyf EXCEPT !.yylpos = @ + 1], yyf.buffer[yyf.yylpos])
  <2> DEFINE f == [yyf EXCEPT !.yylpos = @ + 1]
  <2>1. CASE yyf.freed
    <3>1. DOMAIN f = Fields /\ f.freed
      BY <1>1, <2>1 DEF Fields
    <3> QED
      BY <1>2, <3>1, FreedStays
  <2>2. CASE ~yyf.freed
    <3>1. Fetched(f, yyf.buffer[yyf.yylpos])
      BY <1>1, <1>2, <2>2, ReadFromBuffer
    <3> QED
      BY <1>1, <1>2, <3>1, ConsumeInv
  <2> QED
    BY <2>1, <2>2
<1>3. CASE /\ yyf.freed
           /\ Consume(Scanner, Start,
                      [yyf EXCEPT !.yylpos = IF @ < PositionBound THEN @ + 1 ELSE @], Eof)
  <2> DEFINE f == [yyf EXCEPT !.yylpos = IF @ < PositionBound THEN @ + 1 ELSE @]
  <2>1. DOMAIN f = Fields /\ f.freed
    BY <1>1, <1>3 DEF Fields
  <2> QED
    BY <1>3, <2>1, FreedStays
<1>4. ASSUME NEW f, f = Grown(Moved(yyf)), NEW data \in Delivered(Scanner.chars, f.buflen - f.bufend),
             yyf.yylpos >= yyf.bufend, ~yyf.freed, yyf.yylfirst <= yyf.bufend,
             text' = text \o data, atEnd' = (data = <<>>), moved' = moved + yyf.yylfirst,
             Consume(Scanner, Start, [Filled(f, data) EXCEPT !.yylpos = @ + 1],
                     IF data = <<>> THEN Eof ELSE Filled(f, data).buffer[f.yylpos])
      PROVE  BufferInv'
  <2>1. Fetched([Filled(f, data) EXCEPT !.yylpos = @ + 1],
                IF data = <<>> THEN Eof ELSE Filled(f, data).buffer[f.yylpos])
    BY <1>1, <1>4, ReadFromFile
  <2> QED
    BY <1>1, <1>4, <2>1, ConsumeInv
<1> QED
  BY <1>2, <1>3, <1>4 DEF ReadChar

LEMMA BufferInit == RunInit => BufferInv
<1> SUFFICES ASSUME RunInit PROVE BufferInv
  OBVIOUS
<1>1. ParserInv
  BY ParserInit DEF RunInit
<1>2. ScanInit(GivenTexts[table]) /\ scan = "start" /\ moved = 0
  BY DEF RunInit, ScanInit
<1>3. Holds(yyf, text, moved) /\ yyf.yylpos = 0 /\ yyf.bufend \in Nat
  <2>1. CASE text = <<>> /\ yyf = yyfInit(OwnBuffer)
    <3>1. /\ DOMAIN yyf = Fields /\ yyf.buflen = DefaultBufferLen /\ yyf.bufend = 0
          /\ DOMAIN yyf.buffer = 0 .. DefaultBufferLen - 1
          /\ yyf.yylfirst = 0 /\ yyf.yylpos = 0 /\ yyf.yyllastpos = 0
      BY <2>1 DEF yyfInit, OwnBuffer, Fields
    <3>2. text \in Seq(Scanner.chars) /\ Len(text) = 0 /\ DefaultBufferLen \in Nat
      BY <2>1, BufferAssumption
    <3> QED
      BY <1>2, <3>1, <3>2 DEF Holds
  <2>2. CASE text \in GivenTexts[table] /\ yyf = yyfInit(CallersBuffer(text))
    <3> DEFINE n == Len(text)
    <3> HIDE DEF n
    <3>1. /\ DOMAIN yyf = Fields /\ yyf.buflen = n /\ yyf.bufend = n
          /\ yyf.buffer = [i \in 0 .. n - 1 |-> text[i + 1]]
          /\ yyf.yylfirst = 0 /\ yyf.yylpos = 0 /\ yyf.yyllastpos = 0
      BY <2>2 DEF yyfInit, CallersBuffer, Fields, n
    <3>2. text \in Seq(Scanner.chars) /\ n \in Nat
      BY <1>1, <2>2, ScannerFacts, LenProperties DEF n
    <3>3. \A i \in 0 .. yyf.bufend - 1 : yyf.buffer[i] = text[moved + i + 1]
      BY <1>2, <3>1, <3>2
    <3>4. /\ moved \in Nat /\ yyf.bufend \in 0 .. yyf.buflen /\ yyf.buflen \in Nat
          /\ DOMAIN yyf.buffer = 0 .. yyf.buflen - 1 /\ moved + yyf.bufend = n
      BY <1>2, <3>1, <3>2
    <3> QED
      BY <3>1, <3>2, <3>3, <3>4 DEF Holds, n
  <2> QED
    BY <1>2, <2>1, <2>2 DEF ScanInit
<1>4. DOMAIN yyf = Fields
  BY <1>3 DEF Holds
<1> QED
  BY <1>2, <1>3, <1>4 DEF BufferInv

LEMMA BufferInductive == ParserInv /\ BufferInv /\ [RunNext]_runVars => BufferInv'
<1> SUFFICES ASSUME ParserInv, BufferInv, [RunNext]_runVars PROVE BufferInv'
  OBVIOUS
<1>1. table' = table /\ Scanner' = Scanner /\ Starts' = Starts
  BY DEF RunNext, runVars, Scan, Deliver, Parse, vars, ReadToken, LookUp, DropToken, ReportError,
         PopState, NoRecovery, RecoverState, Shift, Reduce, Scanner, Starts
<1>2. ASSUME Parse \/ UNCHANGED runVars PROVE BufferInv'
  <2>1. UNCHANGED lexVars
    BY <1>2 DEF Parse, runVars
  <2> QED
    BY <1>1, <2>1 DEF lexVars, BufferInv, Holds, Scanned, BehindEnd
<1>3. ASSUME Deliver PROVE BufferInv'
  <2>1. /\ scan = "accept" /\ scan' = "start"
        /\ UNCHANGED <<yyf, yylstate, yyllastaccept, text, atEnd, moved, tokenEnd>>
    BY <1>3 DEF Deliver, TokenTaken
  <2> QED
    BY <1>1, <2>1 DEF BufferInv, Holds, BehindEnd
<1>4. ASSUME BeginToken(Start) PROVE BufferInv'
  <2>1. /\ scan = "start" /\ scan' = "char" /\ yylstate' = Start /\ yyllastaccept' = NoToken
        /\ yyf' = [yyf EXCEPT !.yylfirst = yyf.yylpos]
        /\ UNCHANGED <<text, atEnd, moved, tokenEnd>>
    BY <1>4 DEF BeginToken
  <2>2. DOMAIN yyf = Fields
    BY DEF BufferInv
  <2>3. /\ DOMAIN yyf' = Fields /\ yyf'.freed = yyf.freed /\ yyf'.mine = yyf.mine
        /\ yyf'.buffer = yyf.buffer /\ yyf'.buflen = yyf.buflen /\ yyf'.bufend = yyf.bufend
        /\ yyf'.yylfirst = yyf.yylpos /\ yyf'.yylpos = yyf.yylpos /\ yyf'.yyllastpos = yyf.yyllastpos
    BY <2>1, <2>2 DEF Fields
  <2>4. CASE yyf.freed
    BY <2>3, <2>4 DEF BufferInv
  <2>5. CASE ~yyf.freed
    <3>1. Holds(yyf, text, moved) /\ (BehindEnd(yyf) \/ yyf.yylpos <= yyf.bufend)
      BY <2>1, <2>5 DEF BufferInv
    <3>2. Holds(yyf, text, moved)'
      BY <1>1, <2>1, <2>3, <3>1 DEF Holds
    <3>3. CASE BehindEnd(yyf)
      <4>1. BehindEnd(yyf)' /\ yyf'.yylfirst = yyf'.yylpos
        BY <2>1, <2>3, <3>3 DEF BehindEnd
      <4> QED
        BY <2>1, <2>3, <3>2, <4>1 DEF BufferInv
    <3>4. CASE yyf.yylpos <= yyf.bufend
      <4>1. yyf.yylpos \in Nat
        BY <3>1 DEF Holds
      <4>2. Start \in Starts /\ Start \in DOMAIN Scanner.next
        BY ScannerFacts
      <4>3. yyf'.yylfirst <= yyf'.yylpos /\ yyf'.yylpos <= yyf'.bufend
        BY <2>3, <3>4, <4>1
      <4>4. Scanned(yyf)'
        BY <1>1, <2>1, <4>2, <4>3 DEF Scanned
      <4> QED
        BY <1>1, <2>1, <2>3, <3>2, <4>2, <4>4 DEF BufferInv
    <3> QED
      BY <3>1, <3>3, <3>4
  <2> QED
    BY <2>4, <2>5
<1>5. ASSUME MoveNegative PROVE BufferInv'
  <2>1. /\ scan = "char" /\ scan' = "crash" /\ ~yyf.freed
        /\ UNCHANGED <<yyf, text, moved, tokenEnd>>
        /\ yyf.yylpos >= yyf.bufend /\ yyf.yylfirst > yyf.bufend
    BY <1>5 DEF MoveNegative
  <2>2. Holds(yyf, text, moved) /\ (BehindEnd(yyf) \/ Scanned(yyf)) /\ DOMAIN yyf = Fields
    BY <2>1 DEF BufferInv
  <2>3. ~Scanned(yyf)
    <3>1. /\ yyf.bufend \in Nat /\ yyf.yylfirst \in Nat /\ yyf.yylpos \in Nat
          /\ yyf.yyllastpos \in Int
      BY <2>2 DEF Holds
    <3> QED
      BY <2>1, <3>1 DEF Scanned
  <2>4. ~yyf.mine /\ tokenEnd > Len(text)
    BY <2>2, <2>3 DEF BehindEnd
  <2>5. Holds(yyf, text, moved)'
    BY <1>1, <2>1, <2>2 DEF Holds
  <2>6. ~yyf'.mine /\ tokenEnd' > Len(text')
    BY <2>1, <2>4
  <2> QED
    BY <2>1, <2>2, <2>5, <2>6 DEF BufferInv
<1>6. ASSUME ReadChar(table.lexer, Start) PROVE BufferInv'
  BY <1>1, <1>6, ReadCharInv DEF Scanner
<1> QED
  BY <1>2, <1>3, <1>4, <1>5, <1>6 DEF RunNext, Scan

(* The buffer holds the text from "moved" on without a gap however it was  *)
(* moved, grown and filled by yyfFill, the NUL after a token's text fits,  *)
(* and memmove is given a negative length only when "$" is scanned again   *)
(* over a caller's buffer.                                                 *)
THEOREM BufferCorrect == RunSpec => []BufferHoldsText
<1>1. ParserInv /\ BufferInv => BufferHoldsText
  <2> SUFFICES ASSUME ParserInv, BufferInv, ~yyf.freed PROVE BufferHoldsText
    BY DEF BufferHoldsText
  <2>1. Holds(yyf, text, moved)
    BY DEF BufferInv
  <2>2. /\ yyf.bufend <= yyf.buflen /\ moved + yyf.bufend = Len(text)
        /\ \A i \in 0 .. yyf.bufend - 1 : yyf.buffer[i] = text[moved + i + 1]
    BY <2>1 DEF Holds
  <2>3. scan = "accept" /\ yyllastaccept # table.eof => yyf.yylpos < yyf.buflen
    BY ScannerFacts DEF BufferInv
  <2>4. scan = "crash" => ~yyf.mine /\ tokenEnd > Len(text)
    BY DEF BufferInv
  <2> QED
    BY <2>2, <2>3, <2>4 DEF BufferHoldsText
<1>2. RunSpec => []ParserInv
  BY RunIsParser, ParserSafe, PTL
<1>3. RunSpec => RunInit /\ [][RunNext]_runVars
  BY PTL DEF RunSpec
<1> QED
  BY <1>1, <1>2, <1>3, BufferInit, BufferInductive, PTL
-----------------------------------------------------------------------------
(* The scanner.  Its state is where the piece scanned leads from the state *)
(* the parser wants it to start in; what it accepted last is the longest   *)
(* piece so far that is a lexeme; and nothing before is one.               *)

(* What the scanner still can match from state s on.                       *)
Leads(s, k, w) == [token |-> k, chars |-> w] \in Scanner.lexemes[s]

LEMMA Cons ==
    ASSUME NEW S, NEW c \in S, NEW r \in Seq(S)
    PROVE  /\ <<c>> \o r \in Seq(S) /\ Len(<<c>> \o r) = Len(r) + 1 /\ (<<c>> \o r)[1] = c
           /\ <<c>> \o r # <<>>
           /\ \A d \in S, q \in Seq(S) : <<c>> \o r = <<d>> \o q => c = d /\ r = q
<1>1. ASSUME NEW d \in S, NEW q \in Seq(S)
      PROVE  /\ <<d>> \o q \in Seq(S) /\ Len(<<d>> \o q) = Len(q) + 1 /\ (<<d>> \o q)[1] = d
             /\ \A i \in 1 .. Len(q) : (<<d>> \o q)[i + 1] = q[i]
             /\ Len(q) \in Nat
  <2> DEFINE one == <<d>>
             both == one \o q
  <2>1. one \in Seq(S) /\ Len(one) = 1 /\ one[1] = d
    <3>1. one \in Seq(S)
      OBVIOUS
    <3>2. Len(one) = 1 /\ one[1] = d
      OBVIOUS
    <3> QED
      BY <3>1, <3>2
  <2> HIDE DEF one
  <2>a. /\ both \in Seq(S) /\ Len(both) = Len(one) + Len(q)
        /\ \A i \in 1 .. Len(one) + Len(q) :
              both[i] = IF i <= Len(one) THEN one[i] ELSE q[i - Len(one)]
    BY <2>1, ConcatProperties
  <2>2. /\ both \in Seq(S) /\ Len(both) = 1 + Len(q)
        /\ \A i \in 1 .. 1 + Len(q) : both[i] = IF i <= 1 THEN one[i] ELSE q[i - 1]
    BY <2>1, <2>a
  <2>3. Len(q) \in Nat
    BY LenProperties
  <2> HIDE DEF both
  <2>4. both[1] = d
    <3>1. 1 \in 1 .. 1 + Len(q)
      BY <2>3
    <3> QED
      BY <2>1, <2>2, <3>1
  <2>5. ASSUME NEW i \in 1 .. Len(q) PROVE both[i + 1] = q[i]
    <3>1. i + 1 \in 1 .. 1 + Len(q) /\ ~(i + 1 <= 1) /\ i + 1 - 1 = i
      BY <2>3
    <3> QED
      BY <2>2, <3>1
  <2>6. Len(both) = Len(q) + 1
    BY <2>2, <2>3
  <2> QED
    BY <2>2, <2>3, <2>4, <2>5, <2>6 DEF both, one
<1>2. <<c>> \o r # <<>>
  <2>1. Len(<<c>> \o r) # 0
    BY <1>1
  <2> QED
    BY <2>1, EmptySeq
<1>3. ASSUME NEW d \in S, NEW q \in Seq(S), <<c>> \o r = <<d>> \o q PROVE c = d /\ r = q
  <2> DEFINE a == <<c>> \o r
             b == <<d>> \o q
  <2>1. /\ a[1] = c /\ b[1] = d /\ Len(a) = Len(r) + 1 /\ Len(b) = Len(q) + 1
        /\ Len(r) \in Nat /\ Len(q) \in Nat
        /\ \A i \in 1 .. Len(r) : a[i + 1] = r[i]
        /\ \A i \in 1 .. Len(q) : b[i + 1] = q[i]
    BY <1>1
  <2>2. a = b
    BY <1>3
  <2> HIDE DEF a, b
  <2>3. c = d /\ Len(r) = Len(q)
    BY <2>1, <2>2
  <2>4. \A i \in 1 .. Len(r) : r[i] = q[i]
    BY <2>1, <2>2, <2>3
  <2> QED
    BY <2>3, <2>4, SeqEqual
<1> QED
  BY <1>1, <1>2, <1>3

(* HasLexemes, one character at a time.                                    *)
LEMMA LexemeFacts ==
    ASSUME ParserInv, NEW s \in DOMAIN Scanner.next
    PROVE  /\ \A k : Leads(s, k, <<>>) <=> s \in DOMAIN Scanner.accept /\ Scanner.accept[s] = k
           /\ \A k : \A c \in Scanner.chars, r \in Seq(Scanner.chars) :
                 Leads(s, k, <<c>> \o r) <=> /\ Scanner.next[s][c] # NoNext
                                             /\ Leads(Scanner.next[s][c], k, r)
           /\ \A l \in Scanner.lexemes[s] : l.chars \in Seq(Scanner.chars) /\ Leads(s, l.token, l.chars)
<1> DEFINE Ends == {[token |-> Scanner.accept[t], chars |-> <<>>] : t \in {s} \intersect DOMAIN Scanner.accept}
           By(c) == {[token |-> l.token, chars |-> <<c>> \o l.chars] : l \in Scanner.lexemes[Scanner.next[s][c]]}
           Moves == {d \in Scanner.chars : Scanner.next[s][d] # NoNext}
<1>1. table \in Tables
  BY DEF ParserInv, ParserTypeOK
<1>2. HasLexemes(Scanner)
  BY <1>1, ScannersAssumption DEF Scanner
<1>3. \A t \in DOMAIN Scanner.next : Scanner.lexemes[t] \subseteq [token : Nat, chars : Seq(Scanner.chars)]
  BY <1>2 DEF HasLexemes
<1>4. Scanner.lexemes[s] = Ends \union UNION {By(c) : c \in Moves}
  BY <1>2 DEF HasLexemes
<1>5. ASSUME NEW c \in Moves, NEW l \in Scanner.lexemes[Scanner.next[s][c]]
      PROVE  l.chars \in Seq(Scanner.chars) /\ l = [token |-> l.token, chars |-> l.chars]
  <2>1. Scanner.next[s][c] \in DOMAIN Scanner.next
    BY ScannerFacts
  <2> QED
    BY <1>3, <2>1
<1> HIDE DEF Moves
<1>6. ASSUME NEW k PROVE Leads(s, k, <<>>) <=> s \in DOMAIN Scanner.accept /\ Scanner.accept[s] = k
  <2>1. ASSUME NEW c \in Moves PROVE [token |-> k, chars |-> <<>>] \notin By(c)
    <3>1. ASSUME NEW l \in Scanner.lexemes[Scanner.next[s][c]],
                 [token |-> k, chars |-> <<>>] = [token |-> l.token, chars |-> <<c>> \o l.chars]
          PROVE  FALSE
      <4>1. <<c>> \o l.chars = <<>>
        BY <3>1
      <4> QED
        BY <1>5, <4>1, Cons DEF Moves
    <3> QED
      BY <3>1
  <2>2. [token |-> k, chars |-> <<>>] \in Ends <=> s \in DOMAIN Scanner.accept /\ Scanner.accept[s] = k
    OBVIOUS
  <2> HIDE DEF Ends, By
  <2> QED
    BY <1>4, <2>1, <2>2 DEF Leads
<1>7. ASSUME NEW k, NEW c \in Scanner.chars, NEW r \in Seq(Scanner.chars)
      PROVE  Leads(s, k, <<c>> \o r) <=> /\ Scanner.next[s][c] # NoNext
                                         /\ Leads(Scanner.next[s][c], k, r)
  <2> DEFINE l == [token |-> k, chars |-> <<c>> \o r]
  <2>1. l \notin Ends
    <3>1. <<c>> \o r # <<>>
      BY Cons
    <3> QED
      BY <3>1
  <2>2. ASSUME NEW d \in Moves, l \in By(d) PROVE d = c /\ Leads(Scanner.next[s][c], k, r)
    <3>1. PICK m \in Scanner.lexemes[Scanner.next[s][d]] :
             l = [token |-> m.token, chars |-> <<d>> \o m.chars]
      BY <2>2
    <3>2. k = m.token /\ <<c>> \o r = <<d>> \o m.chars
      BY <3>1
    <3>3. m.chars \in Seq(Scanner.chars) /\ m = [token |-> m.token, chars |-> m.chars] /\ d \in Scanner.chars
      BY <1>5 DEF Moves
    <3>4. \A e \in Scanner.chars, q \in Seq(Scanner.chars) : <<c>> \o r = <<e>> \o q => c = e /\ r = q
      BY Cons
    <3>5. c = d /\ r = m.chars
      BY <3>2, <3>3, <3>4
    <3> QED
      BY <3>2, <3>3, <3>5 DEF Leads
  <2>3. ASSUME c \in Moves, Leads(Scanner.next[s][c], k, r) PROVE l \in By(c)
    <3> DEFINE m == [token |-> k, chars |-> r]
    <3>1. m \in Scanner.lexemes[Scanner.next[s][c]] /\ m.token = k /\ m.chars = r
      BY <2>3 DEF Leads
    <3>2. l = [token |-> m.token, chars |-> <<c>> \o m.chars]
      BY <3>1
    <3> HIDE DEF l, m
    <3> QED
      BY <3>1, <3>2
  <2> HIDE DEF l, Ends, By
  <2>6. Leads(s, k, <<c>> \o r) <=> l \in Scanner.lexemes[s]
    BY DEF Leads, l
  <2>4. Leads(s, k, <<c>> \o r) <=> l \in Ends \union UNION {By(d) : d \in Moves}
    BY <1>4, <2>6
  <2>5. c \in Moves <=> Scanner.next[s][c] # NoNext
    BY DEF Moves
  <2> QED
    BY <2>1, <2>2, <2>3, <2>4, <2>5
<1>8. ASSUME NEW l \in Scanner.lexemes[s]
      PROVE  l.chars \in Seq(Scanner.chars) /\ Leads(s, l.token, l.chars)
  <2>1. l \in [token : Nat, chars : Seq(Scanner.chars)]
    BY <1>3
  <2>2. l.chars \in Seq(Scanner.chars) /\ l = [token |-> l.token, chars |-> l.chars]
    BY <2>1
  <2> QED
    BY <2>2 DEF Leads
<1> QED
  BY <1>6, <1>7, <1>8

(* The text behind place p up to q.                                        *)
Piece(t, p, q) == SubSeq(t, p + 1, q)

LEMMA PieceFacts ==
    ASSUME NEW S, NEW t \in Seq(S), NEW p \in Nat, NEW q \in Nat, p <= q, q <= Len(t)
    PROVE  /\ Piece(t, p, q) \in Seq(S) /\ Len(Piece(t, p, q)) = q - p
           /\ \A i \in 1 .. q - p : Piece(t, p, q)[i] = t[p + i]
<1>1. Len(t) \in Nat /\ \A i \in 1 .. Len(t) : t[i] \in S
  BY LenProperties, ElementOfSeq
<1>2. \A i \in p + 1 .. q : t[i] \in S
  BY <1>1
<1>3. /\ SubSeq(t, p + 1, q) \in Seq(S)
      /\ Len(SubSeq(t, p + 1, q)) = IF p + 1 <= q THEN q - (p + 1) + 1 ELSE 0
      /\ \A i \in 1 .. q - (p + 1) + 1 : SubSeq(t, p + 1, q)[i] = t[p + 1 + i - 1]
  BY <1>2, SubSeqProperties
<1> DEFINE w == SubSeq(t, p + 1, q)
<1> HIDE DEF w
<1>4. w \in Seq(S) /\ Len(w) = IF p + 1 <= q THEN q - (p + 1) + 1 ELSE 0
  BY <1>3 DEF w
<1>5. \A i \in 1 .. q - (p + 1) + 1 : w[i] = t[p + 1 + i - 1]
  BY <1>3 DEF w
<1>6. Len(w) = q - p
  BY <1>4
<1>7. ASSUME NEW i \in 1 .. q - p PROVE w[i] = t[p + i]
  <2>1. i \in 1 .. q - (p + 1) + 1 /\ p + 1 + i - 1 = p + i
    OBVIOUS
  <2> QED
    BY <1>5, <2>1
<1> QED
  BY <1>4, <1>6, <1>7 DEF w, Piece

LEMMA PieceEmpty == ASSUME NEW t, NEW p \in Nat PROVE Piece(t, p, p) = <<>>
<1>1. p < p + 1
  OBVIOUS
<1> QED
  BY <1>1, SubSeqEmpty DEF Piece

LEMMA PieceGrows ==
    ASSUME NEW S, NEW t \in Seq(S), NEW p \in Nat, NEW q \in Nat, p <= q, q < Len(t)
    PROVE  /\ t[q + 1] \in S /\ Piece(t, p, q) \in Seq(S)
           /\ \A z, r : z = q + 1 /\ r \in Seq(S) => Piece(t, p, z) \o r = Piece(t, p, q) \o (<<t[z]>> \o r)
<1>1. Len(t) \in Nat /\ \A i \in 1 .. Len(t) : t[i] \in S
  BY LenProperties, ElementOfSeq
<1>2. p + 1 \in 1 .. Len(t) /\ q + 1 \in p + 1 .. Len(t) /\ q + 1 - 1 = q /\ q + 1 \in 1 .. Len(t)
  BY <1>1
<1>3. SubSeq(t, p + 1, q + 1) = SubSeq(t, p + 1, q + 1 - 1) \o <<t[q + 1]>>
  BY <1>2, SubSeqRecursiveSecond
<1>4. Piece(t, p, q + 1) = Piece(t, p, q) \o <<t[q + 1]>>
  BY <1>2, <1>3 DEF Piece
<1>5. t[q + 1] \in S /\ Piece(t, p, q) \in Seq(S)
  BY <1>1, <1>2, PieceFacts
<1>6. <<t[q + 1]>> \in Seq(S)
  BY <1>5
<1>7. ASSUME NEW r \in Seq(S)
      PROVE  Piece(t, p, q + 1) \o r = Piece(t, p, q) \o (<<t[q + 1]>> \o r)
  <2> DEFINE a == Piece(t, p, q)
             b == <<t[q + 1]>>
  <2>1. a \in Seq(S) /\ b \in Seq(S)
    BY <1>5, <1>6
  <2>2. Piece(t, p, q + 1) = a \o b
    BY <1>4
  <2> HIDE DEF a, b
  <2>3. (a \o b) \o r = a \o (b \o r)
    BY <2>1, ConcatAssociative
  <2> QED
    BY <2>2, <2>3 DEF a, b
<1> QED
  BY <1>5, <1>7

LEMMA PieceOfMore ==
    ASSUME NEW S, NEW t \in Seq(S), NEW d \in Seq(S), NEW p \in Nat, NEW q \in Nat, p <= q, q <= Len(t)
    PROVE  /\ Piece(t \o d, p, q) = Piece(t, p, q) /\ t \o d \in Seq(S)
           /\ Len(t \o d) = Len(t) + Len(d)
           /\ \A i \in 1 .. Len(t) : (t \o d)[i] = t[i]
<1>1. Len(t) \in Nat /\ Len(d) \in Nat
  BY LenProperties
<1> DEFINE u == t \o d
<1>2. /\ u \in Seq(S) /\ Len(u) = Len(t) + Len(d)
      /\ \A i \in 1 .. Len(t) + Len(d) : u[i] = IF i <= Len(t) THEN t[i] ELSE d[i - Len(t)]
  BY ConcatProperties
<1> HIDE DEF u
<1>3. \A i \in 1 .. Len(t) : u[i] = t[i]
  BY <1>1, <1>2
<1>4. q <= Len(u)
  BY <1>1, <1>2
<1>5. /\ Piece(t, p, q) \in Seq(S) /\ Len(Piece(t, p, q)) = q - p
      /\ \A i \in 1 .. q - p : Piece(t, p, q)[i] = t[p + i]
  BY PieceFacts
<1>6. /\ Piece(u, p, q) \in Seq(S) /\ Len(Piece(u, p, q)) = q - p
      /\ \A i \in 1 .. q - p : Piece(u, p, q)[i] = u[p + i]
  <2>1. u \in Seq(S) /\ p \in Nat /\ q \in Nat /\ p <= q /\ q <= Len(u)
    BY <1>2, <1>4
  <2> QED
    BY ONLY ZenonT(30), <2>1, PieceFacts
<1>7. \A i \in 1 .. q - p : u[p + i] = t[p + i]
  BY <1>1, <1>3
<1>8. \A i \in 1 .. Len(Piece(u, p, q)) : Piece(u, p, q)[i] = Piece(t, p, q)[i]
  BY <1>5, <1>6, <1>7
<1>9. Piece(u, p, q) = Piece(t, p, q)
  BY <1>5, <1>6, <1>8, SeqEqual
<1> QED
  BY <1>2, <1>3, <1>9 DEF u

(* State x is where the piece leads from the start.                        *)
Reads(t, p, q, x) ==
    \A k : \A r \in Seq(Scanner.chars) : Leads(x, k, r) <=> Leads(Start, k, Piece(t, p, q) \o r)
IsLexeme(t, p, q) == \E k : Leads(Start, k, Piece(t, p, q))

LEMMA ReadsNothing ==
    ASSUME NEW t, NEW p \in Nat PROVE Reads(t, p, p, Start)
<1>1. \A r \in Seq(Scanner.chars) : Piece(t, p, p) \o r = r
  BY PieceEmpty, ConcatEmptySeq
<1> QED
  BY <1>1 DEF Reads

LEMMA ReadsOn ==
    ASSUME ParserInv, NEW x \in DOMAIN Scanner.next, NEW t \in Seq(Scanner.chars),
           NEW p \in Nat, NEW q \in Nat, p <= q, q < Len(t), Reads(t, p, q, x)
    PROVE  LET y == Scanner.next[x][t[q + 1]]
           IN  /\ y # NoNext =>
                     /\ Reads(t, p, q + 1, y)
                     /\ \A k : Leads(Start, k, Piece(t, p, q + 1))
                                  <=> y \in DOMAIN Scanner.accept /\ Scanner.accept[y] = k
               /\ y = NoNext =>
                     \A k : \A r \in Seq(Scanner.chars) : ~Leads(Start, k, Piece(t, p, q + 1) \o r)
<1> DEFINE c == t[q + 1]
           y == Scanner.next[x][c]
<1>a. /\ t[q + 1] \in Scanner.chars /\ Piece(t, p, q) \in Seq(Scanner.chars)
      /\ \A r \in Seq(Scanner.chars) :
            Piece(t, p, q + 1) \o r = Piece(t, p, q) \o (<<t[q + 1]>> \o r)
  <2> DEFINE S == Scanner.chars
             z == q + 1
  <2>1. t \in Seq(S) /\ p \in Nat /\ q \in Nat /\ p <= q /\ q < Len(t) /\ z = q + 1
    OBVIOUS
  <2> HIDE DEF S, z
  <2>2. t[q + 1] \in S /\ Piece(t, p, q) \in Seq(S)
    BY ONLY <2>1, PieceGrows
  <2>3. \A r \in Seq(S) : Piece(t, p, z) \o r = Piece(t, p, q) \o (<<t[z]>> \o r)
    BY ONLY SMTT(30), <2>1, PieceGrows
  <2> QED
    BY <2>2, <2>3 DEF S, z
<1>1. /\ c \in Scanner.chars /\ Piece(t, p, q) \in Seq(Scanner.chars)
      /\ \A r \in Seq(Scanner.chars) : Piece(t, p, q + 1) \o r = Piece(t, p, q) \o (<<c>> \o r)
  BY <1>a
<1> HIDE DEF c
<1>2. \A r \in Seq(Scanner.chars) : <<c>> \o r \in Seq(Scanner.chars)
  BY <1>1, Cons
<1>3. ASSUME NEW k, NEW r \in Seq(Scanner.chars)
      PROVE  Leads(Start, k, Piece(t, p, q + 1) \o r) <=> y # NoNext /\ Leads(y, k, r)
  <2>1. Leads(Start, k, Piece(t, p, q) \o (<<c>> \o r)) <=> Leads(x, k, <<c>> \o r)
    BY <1>2 DEF Reads
  <2>2. Leads(x, k, <<c>> \o r) <=> y # NoNext /\ Leads(y, k, r)
    BY <1>1, LexemeFacts
  <2> QED
    BY <1>1, <2>1, <2>2
<1>4. ASSUME y # NoNext, NEW k
      PROVE  Leads(Start, k, Piece(t, p, q + 1)) <=> y \in DOMAIN Scanner.accept /\ Scanner.accept[y] = k
  <2>1. y \in DOMAIN Scanner.next
    BY <1>1, <1>4, ScannerFacts
  <2>2. Leads(y, k, <<>>) <=> y \in DOMAIN Scanner.accept /\ Scanner.accept[y] = k
    BY <2>1, LexemeFacts
  <2>3. <<>> \in Seq(Scanner.chars)
    OBVIOUS
  <2>4. Piece(t, p, q + 1) \o <<>> = Piece(t, p, q + 1)
    <3>1. Len(t) \in Nat
      BY LenProperties
    <3>2. p <= q + 1 /\ q + 1 <= Len(t) /\ q + 1 \in Nat
      BY <3>1
    <3>3. Piece(t, p, q + 1) \in Seq(Scanner.chars)
      BY <3>2, PieceFacts
    <3> QED
      BY <3>3, ConcatEmptySeq
  <2> QED
    BY <1>3, <1>4, <2>2, <2>3, <2>4
<1> HIDE DEF y
<1>5. y # NoNext => Reads(t, p, q + 1, y)
  BY <1>3 DEF Reads
<1>6. y = NoNext => \A k : \A r \in Seq(Scanner.chars) : ~Leads(Start, k, Piece(t, p, q + 1) \o r)
  BY <1>3
<1> QED
  BY <1>4, <1>5, <1>6 DEF y, c

(* No word longer than n agrees with the text behind q.                    *)
Differs(w, t, over, q) ==
    \/ \E i \in 1 .. Len(w) : q + i <= Len(t) /\ t[q + i] # w[i]
    \/ over /\ q + Len(w) > Len(t)
LongerDiffer(t, over, q, n) ==
    \A l \in Scanner.lexemes[Start] : Len(l.chars) > n => Differs(l.chars, t, over, q)

(* Where the scanner stops behind q, and accepted nothing behind b.        *)
LEMMA NothingLonger ==
    ASSUME ParserInv, NEW t \in Seq(Scanner.chars), NEW p \in Nat, NEW q \in Nat, NEW b \in Nat, NEW over,
           p <= b, b <= q, q <= Len(t), \A n \in b + 1 .. q : ~IsLexeme(t, p, n),
           \/ /\ q < Len(t)
              /\ \A k : \A r \in Seq(Scanner.chars) : ~Leads(Start, k, Piece(t, p, q + 1) \o r)
           \/ q = Len(t) /\ over
    PROVE  LongerDiffer(t, over, p, b - p)
<1> SUFFICES ASSUME NEW l \in Scanner.lexemes[Start], Len(l.chars) > b - p, ~Differs(l.chars, t, over, p)
             PROVE  FALSE
  BY DEF LongerDiffer
<1> DEFINE w == l.chars
<1>1. Start \in DOMAIN Scanner.next
  BY ScannerFacts
<1>2. w \in Seq(Scanner.chars) /\ Leads(Start, l.token, w)
  BY <1>1, LexemeFacts
<1>3. Len(w) \in Nat /\ Len(t) \in Nat
  BY <1>2, LenProperties
<1>4. \A i \in 1 .. Len(w) : p + i <= Len(t) => t[p + i] = w[i]
  BY DEF Differs
<1>5. over => p + Len(w) <= Len(t)
  BY <1>3 DEF Differs
<1>6. Len(w) > b - p
  OBVIOUS
<1> HIDE DEF w
<1>7. CASE p + Len(w) <= q
  <2> DEFINE n == p + Len(w)
  <2>1. n \in Nat /\ p <= n /\ n <= Len(t) /\ n - p = Len(w) /\ n \in b + 1 .. q
    BY <1>3, <1>6, <1>7
  <2> HIDE DEF n
  <2>a. /\ Piece(t, p, n) \in Seq(Scanner.chars) /\ Len(Piece(t, p, n)) = n - p
        /\ \A i \in 1 .. n - p : Piece(t, p, n)[i] = t[p + i]
    BY <2>1, PieceFacts
  <2>2. /\ Piece(t, p, n) \in Seq(Scanner.chars) /\ Len(Piece(t, p, n)) = Len(w)
        /\ \A i \in 1 .. Len(w) : Piece(t, p, n)[i] = t[p + i]
    BY <2>1, <2>a
  <2>3. \A i \in 1 .. Len(w) : p + i <= Len(t)
    BY <1>3, <1>7
  <2>4. \A i \in 1 .. Len(w) : w[i] = Piece(t, p, n)[i]
    BY <1>4, <2>2, <2>3
  <2>5. w = Piece(t, p, n)
    BY <1>2, <2>2, <2>4, SeqEqual
  <2> QED
    BY <1>2, <2>1, <2>5 DEF IsLexeme
<1>9. ASSUME NEW v \in Seq(Scanner.chars), NEW a \in Nat, NEW e \in Nat, a <= e, e <= Len(v)
      PROVE  /\ Piece(v, a, e) \in Seq(Scanner.chars) /\ Len(Piece(v, a, e)) = e - a
             /\ \A i \in 1 .. e - a : Piece(v, a, e)[i] = v[a + i]
  BY ONLY <1>9, PieceFacts
<1>8. CASE p + Len(w) > q
  <2>1. q < Len(t) /\ ~(q = Len(t) /\ over)
    BY <1>3, <1>5, <1>8
  <2>2. \A k : \A r \in Seq(Scanner.chars) : ~Leads(Start, k, Piece(t, p, q + 1) \o r)
    BY <2>1
  <2> DEFINE m == q + 1 - p
             head == Piece(w, 0, m)
             r == Piece(w, m, Len(w))
  <2>3. m \in 1 .. Len(w) /\ m \in Nat /\ m = q + 1 - p
    BY <1>3, <1>8
  <2>a. \A i \in 1 .. m : i \in 1 .. Len(w) /\ p + i <= Len(t)
    BY <1>3, <2>1, <2>3
  <2> HIDE DEF m
  <2>4. head \o r = w
    <3>1. 1 \in 1 .. Len(w) + 1 /\ m \in 1 - 1 .. Len(w) /\ Len(w) \in m .. Len(w)
      BY <1>3, <2>3
    <3>2. SubSeq(w, 1, m) \o SubSeq(w, m + 1, Len(w)) = SubSeq(w, 1, Len(w))
      BY <1>2, <3>1, ConcatAdjacentSubSeq
    <3>3. SubSeq(w, 1, Len(w)) = w
      BY <1>2, SubSeqFull
    <3>4. head = SubSeq(w, 1, m) /\ r = SubSeq(w, m + 1, Len(w))
      <4>1. 0 + 1 = 1
        OBVIOUS
      <4> QED
        BY <4>1 DEF Piece
    <3> QED
      BY <3>2, <3>3, <3>4
  <2>9. 0 \in Nat /\ 0 <= m /\ m <= Len(w) /\ Len(w) \in Nat /\ Len(w) <= Len(w)
    BY <1>3, <2>3
  <2>5. r \in Seq(Scanner.chars)
    BY <1>2, <2>3, <2>9, PieceFacts
  <2>6. /\ Piece(w, 0, m) \in Seq(Scanner.chars) /\ Len(Piece(w, 0, m)) = m - 0
        /\ \A i \in 1 .. m - 0 : Piece(w, 0, m)[i] = w[0 + i]
    BY <1>2, <1>9, <2>3, <2>9
  <2> HIDE DEF head, r
  <2>8. head \in Seq(Scanner.chars) /\ Len(head) = m /\ \A i \in 1 .. m : head[i] = w[i]
    <3>1. /\ head \in Seq(Scanner.chars) /\ Len(head) = m - 0
          /\ \A i \in 1 .. m - 0 : head[i] = w[0 + i]
      BY <2>6 DEF head
    <3> QED
      BY <2>3, <3>1
  <2>7. head = Piece(t, p, q + 1)
    <3> DEFINE z == q + 1
               u == Piece(t, p, z)
    <3>1. z \in Nat /\ p <= z /\ z <= Len(t) /\ z - p = m
      BY <1>3, <2>1, <2>3
    <3> HIDE DEF z
    <3>6. /\ u \in Seq(Scanner.chars) /\ Len(u) = z - p
          /\ \A i \in 1 .. z - p : u[i] = t[p + i]
      BY <1>9, <3>1
    <3> HIDE DEF u
    <3>3. Len(u) = m /\ \A i \in 1 .. m : u[i] = t[p + i]
      BY <3>1, <3>6
    <3>4. \A i \in 1 .. m : head[i] = u[i]
      BY <1>4, <2>8, <2>a, <3>3
    <3>5. head = u
      BY <2>8, <3>6, <3>3, <3>4, SeqEqual
    <3> QED
      BY <3>5 DEF u, z
  <2> QED
    BY <1>2, <2>2, <2>4, <2>5, <2>7
<1> QED
  BY <1>3, <1>7, <1>8

(* The scanner is in state x behind pos, accepted a at last and has come   *)
(* to a token, or to no more than a start, from "end" on.                  *)
Munching(x, a, end, t, over, first, last, pos) ==
    /\ end \in Nat /\ end <= first /\ \A q \in end .. first - 1 : LongerDiffer(t, over, q, 0)
    /\ a = Scanner.eof => first = Len(t)
    /\ a # Scanner.eof =>
          /\ first < pos => Scanner.next[x][Eof] = NoNext
          /\ Reads(t, first, pos, x)
          /\ a # NoToken => Leads(Start, a, Piece(t, first, last))
          /\ \A n \in (IF a = NoToken THEN first ELSE last) + 1 .. pos : ~IsLexeme(t, first, n)

LEMMA MunchAdvance ==
    ASSUME ParserInv, NEW x \in DOMAIN Scanner.next, NEW a, NEW end, NEW t \in Seq(Scanner.chars), NEW over,
           NEW p \in Nat, NEW b \in Int, NEW q \in Nat, p <= q, q < Len(t), a # Scanner.eof,
           Munching(x, a, end, t, over, p, b, q),
           NEW y, y = Scanner.next[x][t[q + 1]], y # NoNext
    PROVE  /\ y \in DOMAIN Scanner.accept => Munching(y, Scanner.accept[y], end, t, over, p, q + 1, q + 1)
           /\ y \notin DOMAIN Scanner.accept => Munching(y, a, end, t, over, p, b, q + 1)
<1>1. /\ Reads(t, p, q + 1, y)
      /\ \A k : Leads(Start, k, Piece(t, p, q + 1)) <=> y \in DOMAIN Scanner.accept /\ Scanner.accept[y] = k
  <2>1. Reads(t, p, q, x)
    BY DEF Munching
  <2> QED
    BY <2>1, ReadsOn
<1>2. t[q + 1] \in Scanner.chars
  BY PieceGrows
<1>3. /\ Scanner.next[y][Eof] = NoNext
      /\ y \in DOMAIN Scanner.accept => Scanner.accept[y] \notin {NoToken, Scanner.eof}
  BY <1>2, ScannerFacts
<1>4. end \in Nat /\ end <= p /\ \A n \in end .. p - 1 : LongerDiffer(t, over, n, 0)
  BY DEF Munching
<1>5. CASE y \in DOMAIN Scanner.accept
  <2> DEFINE k == Scanner.accept[y]
  <2>1. k \notin {NoToken, Scanner.eof} /\ Leads(Start, k, Piece(t, p, q + 1))
    BY <1>1, <1>3, <1>5
  <2>2. \A n \in (IF k = NoToken THEN p ELSE q + 1) + 1 .. q + 1 : ~IsLexeme(t, p, n)
    BY <2>1
  <2> HIDE DEF k
  <2>3. Munching(y, k, end, t, over, p, q + 1, q + 1)
    BY <1>1, <1>3, <1>4, <2>1, <2>2 DEF Munching
  <2> QED
    BY <1>5, <2>3 DEF k
<1>6. CASE y \notin DOMAIN Scanner.accept
  <2> DEFINE from == IF a = NoToken THEN p ELSE b
  <2>1. ~IsLexeme(t, p, q + 1)
    BY <1>1, <1>6 DEF IsLexeme
  <2>2. \A n \in from + 1 .. q : ~IsLexeme(t, p, n)
    BY DEF Munching
  <2>3. \A n \in from + 1 .. q + 1 : ~IsLexeme(t, p, n)
    <3>1. from \in Int
      OBVIOUS
    <3> HIDE DEF from
    <3>2. \A n \in from + 1 .. q + 1 : n \in from + 1 .. q \/ n = q + 1
      BY <3>1
    <3> QED
      BY <2>1, <2>2, <3>2
  <2>4. a # NoToken => Leads(Start, a, Piece(t, p, b))
    BY DEF Munching
  <2> QED
    BY <1>1, <1>3, <1>4, <1>6, <2>3, <2>4 DEF Munching
<1> QED
  BY <1>5, <1>6

(* Where there is no move on c, or the text is over.                       *)
LEMMA MunchStop ==
    ASSUME ParserInv, NEW x \in DOMAIN Scanner.next, NEW a, NEW end, NEW t \in Seq(Scanner.chars), NEW over,
           NEW p \in Nat, NEW b \in Nat, NEW q \in Nat, p <= q, q <= Len(t), a # Scanner.eof,
           a # NoToken => p <= b /\ b <= q,
           Munching(x, a, end, t, over, p, b, q),
           \/ q < Len(t) /\ Scanner.next[x][t[q + 1]] = NoNext
           \/ q = Len(t) /\ over
    PROVE  LongerDiffer(t, over, p, IF a = NoToken THEN 0 ELSE b - p)
<1> DEFINE from == IF a = NoToken THEN p ELSE b
<1>1. from \in Nat /\ p <= from /\ from <= q /\ from - p = IF a = NoToken THEN 0 ELSE b - p
  OBVIOUS
<1>2. \A n \in from + 1 .. q : ~IsLexeme(t, p, n)
  BY DEF Munching
<1>3. \/ /\ q < Len(t)
         /\ \A k : \A r \in Seq(Scanner.chars) : ~Leads(Start, k, Piece(t, p, q + 1) \o r)
      \/ q = Len(t) /\ over
  <2>1. CASE q < Len(t) /\ Scanner.next[x][t[q + 1]] = NoNext
    <3>1. Reads(t, p, q, x)
      BY DEF Munching
    <3>2. \A k : \A r \in Seq(Scanner.chars) : ~Leads(Start, k, Piece(t, p, q + 1) \o r)
      BY <2>1, <3>1, ReadsOn
    <3> QED
      BY <2>1, <3>2
  <2> QED
    BY <2>1
<1> HIDE DEF from
<1>4. LongerDiffer(t, over, p, from - p)
  BY <1>1, <1>2, <1>3, NothingLonger
<1> QED
  BY <1>1, <1>4

(* What is read adds to the text, until it is over.                        *)
LEMMA MoreText ==
    ASSUME ParserInv, NEW x, NEW a, NEW end, NEW t \in Seq(Scanner.chars), NEW over \in BOOLEAN,
           NEW p \in Nat, NEW b \in Int, NEW q \in Nat, p <= q, q <= Len(t),
           a \notin {NoToken, Scanner.eof} => p <= b /\ b <= q,
           Munching(x, a, end, t, over, p, b, q),
           NEW d \in Seq(Scanner.chars), over \/ a = Scanner.eof => d = <<>>
    PROVE  Munching(x, a, end, t \o d, d = <<>>, p, b, q)
<1> DEFINE u == t \o d
           now == d = <<>>
<1>1. /\ u \in Seq(Scanner.chars) /\ Len(u) = Len(t) + Len(d) /\ Len(t) \in Nat /\ Len(d) \in Nat
      /\ \A i \in 1 .. Len(t) : u[i] = t[i]
  BY PieceOfMore, LenProperties
<1>2. d = <<>> => Len(u) = Len(t)
  BY <1>1, EmptySeq
<1>a. \A i \in Nat, j \in Nat : i <= j /\ j <= Len(t) => Piece(u, i, j) = Piece(t, i, j)
  BY PieceOfMore
<1> HIDE DEF u
<1>3. ASSUME NEW n \in Nat, LongerDiffer(t, over, n, 0) PROVE LongerDiffer(u, now, n, 0)
  <2> SUFFICES ASSUME NEW l \in Scanner.lexemes[Start], Len(l.chars) > 0
               PROVE  Differs(l.chars, u, now, n)
    BY DEF LongerDiffer
  <2>1. Differs(l.chars, t, over, n)
    BY <1>3 DEF LongerDiffer
  <2>2. ASSUME NEW i \in 1 .. Len(l.chars), n + i <= Len(t), t[n + i] # l.chars[i]
        PROVE  n + i <= Len(u) /\ u[n + i] # l.chars[i]
    BY <1>1, <2>2
  <2>3. over => now /\ Len(u) = Len(t)
    BY <1>2
  <2> QED
    BY <2>1, <2>2, <2>3 DEF Differs
<1>4. end \in Nat /\ end <= p /\ \A n \in end .. p - 1 : LongerDiffer(u, now, n, 0)
  BY <1>3 DEF Munching
<1>5. a = Scanner.eof => p = Len(u)
  BY <1>2 DEF Munching
<1>6. ASSUME a # Scanner.eof
      PROVE  /\ p < q => Scanner.next[x][Eof] = NoNext
             /\ Reads(u, p, q, x)
             /\ a # NoToken => Leads(Start, a, Piece(u, p, b))
             /\ \A n \in (IF a = NoToken THEN p ELSE b) + 1 .. q : ~IsLexeme(u, p, n)
  <2>1. p < q => Scanner.next[x][Eof] = NoNext
    BY <1>6 DEF Munching
  <2>2. Reads(u, p, q, x)
    <3>1. Piece(u, p, q) = Piece(t, p, q)
      BY <1>a
    <3> QED
      BY <1>6, <3>1 DEF Munching, Reads
  <2>3. a # NoToken => Leads(Start, a, Piece(u, p, b))
    <3>1. a # NoToken => Piece(u, p, b) = Piece(t, p, b)
      BY <1>1, <1>6, <1>a
    <3> QED
      BY <1>6, <3>1 DEF Munching
  <2>4. ASSUME NEW n \in (IF a = NoToken THEN p ELSE b) + 1 .. q PROVE ~IsLexeme(u, p, n)
    <3>1. n \in Nat /\ p <= n /\ n <= Len(t)
      BY <1>1, <1>6
    <3>2. Piece(u, p, n) = Piece(t, p, n)
      BY <1>a, <3>1
    <3>3. ~IsLexeme(t, p, n)
      BY <1>6 DEF Munching
    <3> QED
      BY <3>2, <3>3 DEF IsLexeme
  <2> QED
    BY <2>1, <2>2, <2>3, <2>4
<1> HIDE DEF now
<1>7. Munching(x, a, end, u, now, p, b, q)
  BY <1>4, <1>5, <1>6 DEF Munching
<1> QED
  BY <1>7 DEF u, now

First == moved + yyf.yylfirst
Position == moved + yyf.yylpos
LastPosition == moved + yyf.yyllastpos
Munches == Munching(yylstate, yyllastaccept, tokenEnd, text, atEnd, First, LastPosition, Position)

LEMMA MunchesAfter ==
    ASSUME UNCHANGED <<table, yypstate>>,
           Munching(yylstate', yyllastaccept', tokenEnd', text', atEnd',
                    moved' + yyf'.yylfirst, moved' + yyf'.yyllastpos, moved' + yyf'.yylpos)
    PROVE  Munches'
BY DEF Munches, First, Position, LastPosition, Munching, LongerDiffer, Differs, Reads, Leads, IsLexeme,
       Piece, Start, Scanner

(* Once the file's buffer is freed only "$" is scanned, from behind the    *)
(* end of the text; over a caller's buffer nothing is.                     *)
Freed ==
    /\ atEnd /\ moved \in Nat /\ moved + yyf.bufend = Len(text) /\ text \in Seq(Scanner.chars)
    /\ yyf.bufend \in Nat /\ yyf.yylpos \in Nat /\ yyf.yylpos > yyf.bufend
    /\ scan = "char" =>
          /\ yyf.yylfirst \in Nat /\ First = tokenEnd /\ yyf.yylfirst > yyf.bufend
          /\ \/ yyllastaccept = NoToken /\ yylstate = Start
             \/ /\ yyllastaccept = table.eof /\ Scanner.next[yylstate][Eof] = NoNext
                /\ yylstate \in DOMAIN Scanner.next
                /\ yyf.yyllastpos \in Nat /\ yyf.yyllastpos > yyf.bufend

MunchInv ==
    /\ scan \in {"char", "accept"} => pc = "read"
    /\ scan \in {"start", "accept"} => tokenEnd = Position
    /\ tokenEnd \in Nat /\ atEnd \in BOOLEAN
    /\ yyf.freed => Freed
    /\ ~yyf.freed /\ scan = "char" /\ yyf.yylfirst <= yyf.bufend => Munches

(* Munches, for the buffer f and the character c read from it.             *)
FetchedText(f, c) ==
    /\ Munching(yylstate, yyllastaccept, tokenEnd, text', atEnd',
                moved' + f.yylfirst, moved' + f.yyllastpos, moved' + f.yylpos - 1)
    /\ c # Eof => moved' + f.yylpos \in 1 .. Len(text') /\ c = text'[moved' + f.yylpos]
    /\ c = Eof /\ yyllastaccept # Scanner.eof => moved' + f.yylpos - 1 = Len(text')

(* The numbers among them.                                                 *)
LEMMA FetchedPlaces ==
    ASSUME ParserInv, NEW f, NEW c, Fetched(f, c), FetchedText(f, c)
    PROVE  LET p == moved' + f.yylfirst
               b == moved' + f.yyllastpos
               q == moved' + f.yylpos - 1
           IN  /\ text' \in Seq(Scanner.chars) /\ Len(text') \in Nat /\ moved' \in Nat
               /\ p \in Nat /\ b \in Int /\ q \in Int /\ f.yylfirst \in Nat /\ f.yylpos \in Nat
               /\ f.yyllastpos \in Int /\ f.bufend \in Nat /\ moved' + f.bufend = Len(text')
               /\ yyllastaccept # Scanner.eof =>
                     /\ q \in Nat /\ p <= q /\ q <= Len(text') /\ p < q + 1
                     /\ yyllastaccept # NoToken => b \in Nat /\ p < b /\ b <= q
                     /\ c = Eof => q = Len(text') /\ atEnd'
                     /\ c # Eof => q < Len(text') /\ c = text'[q + 1] /\ c \in Scanner.chars
               /\ yyllastaccept = Scanner.eof =>
                     c = Eof /\ b = Len(text') + 1 /\ p <= Len(text') /\ atEnd'
<1> DEFINE n == Len(text')
<1>1. Holds(f, text', moved')
  BY DEF Fetched
<1>2. /\ text' \in Seq(Scanner.chars) /\ moved' \in Nat /\ moved' + f.bufend = n /\ f.yylfirst \in Nat
      /\ f.yylpos \in Nat /\ f.yyllastpos \in Int /\ f.bufend \in 0 .. f.buflen /\ f.buflen \in Nat
  BY <1>1 DEF Holds
<1>3. n \in Nat
  BY <1>2, LenProperties
<1> HIDE DEF n
<1>4. f.bufend \in Nat
  BY <1>2
<1>5. ASSUME yyllastaccept # Scanner.eof
      PROVE  /\ f.yylfirst < f.yylpos /\ f.yylpos <= f.bufend + 1
             /\ yyllastaccept # NoToken => f.yylfirst < f.yyllastpos /\ f.yyllastpos < f.yylpos
             /\ c = Eof => f.yylpos = f.bufend + 1 /\ atEnd'
             /\ c # Eof => f.yylpos <= f.bufend /\ c \in Scanner.chars /\ c = text'[moved' + f.yylpos]
  <2>1. (c \in Scanner.chars /\ f.yylpos <= f.bufend) \/ (c = Eof /\ atEnd')
    BY DEF Fetched
  <2>2. c # Eof => c = text'[moved' + f.yylpos]
    BY DEF FetchedText
  <2>3. /\ f.yylfirst < f.yylpos /\ f.yylpos <= f.bufend + 1
        /\ yyllastaccept # NoToken => f.yylfirst < f.yyllastpos /\ f.yyllastpos < f.yylpos
        /\ c = Eof => f.yylpos = f.bufend + 1
    BY <1>5, <1>2, <1>4 DEF Fetched
  <2>4. c \in Scanner.chars => c # Eof
    BY ScannerFacts
  <2> QED
    BY <2>1, <2>2, <2>3, <2>4
<1>6. ASSUME yyllastaccept = Scanner.eof
      PROVE  c = Eof /\ f.yyllastpos = f.bufend + 1 /\ f.yylfirst <= f.bufend /\ atEnd'
  BY <1>6, ScannerFacts DEF Fetched
<1>7. moved' + f.yylpos - 1 + 1 = moved' + f.yylpos
  BY <1>2
<1>8. ASSUME yyllastaccept # Scanner.eof
      PROVE  /\ moved' + f.yylpos - 1 \in Nat /\ moved' + f.yylfirst <= moved' + f.yylpos - 1
             /\ moved' + f.yylpos - 1 <= n /\ moved' + f.yylfirst < moved' + f.yylpos - 1 + 1
             /\ yyllastaccept # NoToken =>
                   /\ moved' + f.yyllastpos \in Nat /\ moved' + f.yylfirst < moved' + f.yyllastpos
                   /\ moved' + f.yyllastpos <= moved' + f.yylpos - 1
             /\ c = Eof => moved' + f.yylpos - 1 = n
             /\ c # Eof => moved' + f.yylpos - 1 < n
  <2> DEFINE m == moved'
             i == f.yylfirst
             j == f.yyllastpos
             k == f.yylpos
             e == f.bufend
  <2>1. m \in Nat /\ m + e = n /\ i \in Nat /\ k \in Nat /\ j \in Int /\ e \in Nat /\ n \in Nat
    BY <1>2, <1>3, <1>4
  <2>2. /\ i < k /\ k <= e + 1 /\ (yyllastaccept # NoToken => i < j /\ j < k)
        /\ (c = Eof => k = e + 1) /\ (c # Eof => k <= e)
    BY <1>5, <1>8
  <2> HIDE DEF m, i, j, k, e
  <2>3. /\ m + k - 1 \in Nat /\ m + i <= m + k - 1 /\ m + k - 1 <= n /\ m + i < m + k - 1 + 1
        /\ yyllastaccept # NoToken => m + j \in Nat /\ m + i < m + j /\ m + j <= m + k - 1
        /\ c = Eof => m + k - 1 = n
        /\ c # Eof => m + k - 1 < n
    BY <2>1, <2>2
  <2> QED
    BY <2>3 DEF m, i, j, k
<1>9. ASSUME yyllastaccept = Scanner.eof
      PROVE  moved' + f.yyllastpos = n + 1 /\ moved' + f.yylfirst <= n
  BY <1>2, <1>3, <1>4, <1>6, <1>9
<1>10. moved' + f.yylfirst \in Nat /\ moved' + f.yyllastpos \in Int /\ moved' + f.yylpos - 1 \in Int
  BY <1>2
<1> QED
  BY <1>2, <1>3, <1>4, <1>5, <1>6, <1>7, <1>8, <1>9, <1>10 DEF n

LEMMA AdvanceMunches ==
    ASSUME ParserInv, NEW f, NEW c, Fetched(f, c), FetchedText(f, c), scan = "char",
           UNCHANGED <<table, yypstate>>,
           NEW next, next = Scanner.next[yylstate][c], next # NoNext, Advance(Scanner, f, next)
    PROVE  Munches' /\ tokenEnd' = tokenEnd
<1> DEFINE accepts == next \in DOMAIN Scanner.accept
           p == moved' + f.yylfirst
           b == moved' + f.yyllastpos
           q == moved' + f.yylpos - 1
<1>1. /\ yylstate' = next /\ tokenEnd' = tokenEnd
      /\ yyf' = IF accepts THEN [f EXCEPT !.yyllastpos = f.yylpos] ELSE f
      /\ yyllastaccept' = IF accepts THEN Scanner.accept[next] ELSE yyllastaccept
  BY DEF Advance
<1>2. /\ yyf'.yylfirst = f.yylfirst /\ yyf'.yylpos = f.yylpos
      /\ yyf'.yyllastpos = IF accepts THEN f.yylpos ELSE f.yyllastpos
  BY <1>1 DEF Fetched, Holds, Fields
<1>3. /\ text' \in Seq(Scanner.chars) /\ p \in Nat /\ b \in Int /\ f.yylpos \in Nat /\ moved' \in Nat
      /\ yyllastaccept # Scanner.eof =>
                     /\ q \in Nat /\ p <= q /\ q <= Len(text')
                     /\ c = Eof => q = Len(text') /\ atEnd'
                     /\ c # Eof => q < Len(text') /\ c = text'[q + 1]
  BY FetchedPlaces
<1>4. Munching(yylstate, yyllastaccept, tokenEnd, text', atEnd', p, b, q)
  BY DEF FetchedText
<1>5. yylstate \in DOMAIN Scanner.next /\ yyllastaccept # Scanner.eof
  BY ScannerFacts DEF Fetched
<1>6. moved' + f.yylpos = q + 1
  BY <1>3
<1> HIDE DEF p, b, q
<1>7. CASE c # Eof
  <2>1. /\ accepts => Munching(next, Scanner.accept[next], tokenEnd, text', atEnd', p, q + 1, q + 1)
        /\ ~accepts => Munching(next, yyllastaccept, tokenEnd, text', atEnd', p, b, q + 1)
    BY <1>3, <1>4, <1>5, <1>7, MunchAdvance
  <2> QED
    BY <1>1, <1>2, <1>6, <2>1, MunchesAfter DEF p, b
<1>8. CASE c = Eof
  <2>1. accepts /\ Scanner.accept[next] = Scanner.eof
    BY <1>5, <1>8, ScannerFacts
  <2>2. ~(p < q) /\ tokenEnd \in Nat /\ tokenEnd <= p
        /\ \A n \in tokenEnd .. p - 1 : LongerDiffer(text', atEnd', n, 0)
    BY <1>4, <1>5, <1>8 DEF Munching
  <2>3. p = Len(text')
    BY <1>3, <1>5, <1>8, <2>2
  <2>4. Munching(next, Scanner.accept[next], tokenEnd, text', atEnd', p, q + 1, q + 1)
    BY <2>1, <2>2, <2>3 DEF Munching
  <2> QED
    BY <1>1, <1>2, <1>6, <2>1, <2>4, MunchesAfter DEF p
<1> QED
  BY <1>1, <1>7, <1>8

(* The first character does not begin a token.                             *)
LEMMA UnrecognisedMunches ==
    ASSUME ParserInv, NEW f, NEW c, Fetched(f, c), FetchedText(f, c),
           UNCHANGED <<table, yypstate>>,
           Scanner.next[yylstate][c] = NoNext, yyllastaccept = NoToken, Unrecognised(Start, f)
    PROVE  Munches' /\ tokenEnd' = tokenEnd
<1> DEFINE p == moved' + f.yylfirst
           b == moved' + f.yyllastpos
           q == moved' + f.yylpos - 1
           z == p + 1
<1>1. /\ yylstate' = Start /\ tokenEnd' = tokenEnd /\ yyllastaccept' = NoToken
      /\ yyf'.yylfirst = f.yylfirst + 1 /\ yyf'.yylpos = f.yylfirst + 1
  BY DEF Unrecognised, Fetched, Holds, Fields
<1>2. NoToken # Scanner.eof /\ yylstate \in DOMAIN Scanner.next
  BY ScannerFacts DEF Fetched
<1>3. /\ text' \in Seq(Scanner.chars) /\ p \in Nat /\ f.yylfirst \in Nat /\ moved' \in Nat
      /\ q \in Nat /\ p <= q /\ q <= Len(text')
      /\ c = Eof => q = Len(text') /\ atEnd'
      /\ c # Eof => q < Len(text') /\ c = text'[q + 1]
  BY <1>2, FetchedPlaces
<1>4. Munching(yylstate, NoToken, tokenEnd, text', atEnd', p, b, q)
  BY DEF FetchedText
<1>5. moved' + (f.yylfirst + 1) = z /\ z \in Nat
  BY <1>3
<1>6. ASSUME NEW l, NEW e, Munching(yylstate, NoToken, tokenEnd, text', atEnd', l, e, q)
      PROVE  /\ Munching(yylstate, NoToken, tokenEnd, text', atEnd', l, l, q)
             /\ tokenEnd \in Nat /\ tokenEnd <= l /\ \A n \in tokenEnd .. l - 1 : LongerDiffer(text', atEnd', n, 0)
  BY <1>6 DEF Munching
<1> HIDE DEF p, b, q, z
<1>7. /\ Munching(yylstate, NoToken, tokenEnd, text', atEnd', p, p, q)
      /\ tokenEnd \in Nat /\ tokenEnd <= p /\ \A n \in tokenEnd .. p - 1 : LongerDiffer(text', atEnd', n, 0)
  BY <1>4, <1>6
<1>8. \/ q < Len(text') /\ Scanner.next[yylstate][text'[q + 1]] = NoNext
      \/ q = Len(text') /\ atEnd'
  BY <1>3
<1>9. LongerDiffer(text', atEnd', p, IF NoToken = NoToken THEN 0 ELSE p - p)
  BY <1>2, <1>3, <1>7, <1>8, MunchStop
<1>10. tokenEnd <= z /\ \A n \in tokenEnd .. z - 1 : LongerDiffer(text', atEnd', n, 0)
  <2>1. tokenEnd <= z /\ \A n \in tokenEnd .. z - 1 : n \in tokenEnd .. p - 1 \/ n = p
    BY <1>3, <1>7 DEF z
  <2> QED
    BY <1>7, <1>9, <2>1
<1>11. Reads(text', z, z, Start)
  BY <1>5, ReadsNothing
<1>12. \A n \in z + 1 .. z : FALSE
  BY <1>5
<1>13. ~(z < z)
  BY <1>5
<1>14. ASSUME NEW e PROVE Munching(Start, NoToken, tokenEnd, text', atEnd', z, e, z)
  BY <1>2, <1>7, <1>10, <1>11, <1>12, <1>13 DEF Munching
<1> QED
  BY <1>1, <1>5, <1>14, MunchesAfter

(* What LexemesAt and GoesOn say of the words.                             *)
LEMMA NoLongerLexeme ==
    ASSUME ParserInv, text' \in Seq(Scanner.chars), NEW q \in Nat, NEW over, NEW n \in Nat,
           LongerDiffer(text', over, q, n)
    PROVE  /\ \A l \in LexemesAt(q) : Len(l.chars) <= n
           /\ n = 0 => LexemesAt(q) = {}
           /\ ~over /\ q + n <= Len(text') => ~GoesOn(q)
<1>1. Start \in DOMAIN Scanner.next /\ table.lexer = Scanner
  BY ScannerFacts DEF Scanner
<1>2. \A l \in Scanner.lexemes[Start] : l.chars \in Seq(Scanner.chars) /\ Len(l.chars) \in Nat
  BY <1>1, LexemeFacts, LenProperties
<1> DEFINE t == text'
           z == q + 1
<1>3. Len(t) \in Nat /\ \A i \in 1 .. Len(t) : t[i] \in Scanner.chars
  BY LenProperties, ElementOfSeq
<1>4. ASSUME NEW v \in Seq(Scanner.chars), NEW m \in Nat, NEW e \in Nat, m <= e, e <= Len(v)
      PROVE  \A i \in 1 .. e - m : SubSeq(v, m + 1, e)[i] = v[m + i]
  BY ONLY <1>4, PieceFacts DEF Piece
<1>5. ASSUME NEW l \in LexemesAt(q), Len(l.chars) > n PROVE FALSE
  <2>1. /\ l \in Scanner.lexemes[Start] /\ q + Len(l.chars) <= Len(t)
        /\ SubSeq(t, q + 1, q + Len(l.chars)) = l.chars
    BY <1>1 DEF LexemesAt
  <2> DEFINE k == Len(l.chars)
  <2>2. k \in Nat /\ q <= q + k /\ q + k \in Nat /\ q + k - q = k /\ q + k <= Len(t)
    BY <1>2, <2>1
  <2> HIDE DEF k, t
  <2>3. \A i \in 1 .. q + k - q : SubSeq(t, q + 1, q + k)[i] = t[q + i]
    BY <1>4, <2>2 DEF t
  <2>4. \A i \in 1 .. k : l.chars[i] = t[q + i]
    BY <2>1, <2>2, <2>3 DEF k
  <2>5. Differs(l.chars, t, over, q)
    BY <1>5, <2>1 DEF LongerDiffer, t
  <2>6. ~(q + k > Len(t))
    BY <1>3, <2>2 DEF t
  <2> QED
    BY <2>4, <2>5, <2>6 DEF Differs, k
<1>6. ASSUME ~over, q + n <= Len(t), GoesOn(q) PROVE FALSE
  <2>1. PICK l \in Scanner.lexemes[Start] :
           /\ Len(t) - q < Len(l.chars)
           /\ SubSeq(t, q + 1, Len(t)) = SubSeq(l.chars, 1, Len(t) - q)
    BY <1>1, <1>6 DEF GoesOn
  <2> DEFINE k == Len(l.chars)
             m == Len(t)
             w == l.chars
             e == m - q
  <2>2. k \in Nat /\ m \in Nat /\ q <= m /\ e \in Nat /\ e < k /\ k > n
    BY <1>2, <1>3, <1>6, <2>1
  <2>3. w \in Seq(Scanner.chars) /\ Differs(w, t, over, q)
    BY <1>2, <2>1, <2>2 DEF LongerDiffer
  <2>4. PICK i \in 1 .. Len(w) : q + i <= Len(t) /\ t[q + i] # w[i]
    BY <1>6, <2>3 DEF Differs
  <2>5. i \in 1 .. e
    BY <2>2, <2>4
  <2> HIDE DEF k, m, w, e, t
  <2>6. \A j \in 1 .. m - q : SubSeq(t, q + 1, m)[j] = t[q + j]
    BY <1>4, <2>2 DEF t, m
  <2>7. \A j \in 1 .. e - 0 : SubSeq(w, 0 + 1, e)[j] = w[0 + j]
    <3>1. 0 <= e /\ e <= Len(w) /\ 0 \in Nat
      BY <2>2 DEF k, w
    <3> QED
      BY <1>4, <2>2, <2>3, <3>1
  <2>8. 0 + 1 = 1 /\ 0 + i = i /\ e - 0 = e /\ m - q = e
    BY <2>2, <2>5 DEF e
  <2>9. SubSeq(w, 1, e)[i] = w[i]
    BY <2>5, <2>7, <2>8
  <2>10. SubSeq(t, q + 1, m)[i] = t[q + i]
    BY <2>5, <2>6, <2>8
  <2>11. SubSeq(t, q + 1, m) = SubSeq(w, 1, e)
    BY <2>1 DEF m, w, e
  <2> QED
    BY <2>4, <2>9, <2>10, <2>11
<1>7. \A l \in LexemesAt(q) : l \in Scanner.lexemes[Start] /\ l.chars # <<>>
  BY <1>1 DEF LexemesAt
<1>8. \A l \in LexemesAt(q) : Len(l.chars) <= n
  BY <1>2, <1>5, <1>7
<1>9. n = 0 => LexemesAt(q) = {}
  <2>1. ASSUME NEW l \in LexemesAt(q), n = 0 PROVE FALSE
    <3>1. Len(l.chars) = 0 /\ l.chars # <<>> /\ l.chars \in Seq(Scanner.chars)
      BY <1>2, <1>7, <1>8, <2>1
    <3> QED
      BY <3>1, EmptySeq
  <2> QED
    BY <2>1
<1> QED
  BY <1>6, <1>8, <1>9

(* TokensAreMunches of a step, but for lines and columns.                  *)
Munched ==
    \E first \in {moved' + yyf'.yylfirst} :
        /\ first >= tokenEnd /\ \A q \in tokenEnd .. first - 1 : LexemesAt(q) = {}
        /\ \/ first >= Len(text') /\ atEnd' /\ yyllastaccept' = table.eof
           \/ \E l \in LexemesAt(first) :
                /\ l.token = yyllastaccept' /\ tokenEnd' = first + Len(l.chars)
                /\ \A m \in LexemesAt(first) : Len(m.chars) <= Len(l.chars)
                /\ ~atEnd' => ~GoesOn(first)

LEMMA AcceptMunches ==
    ASSUME ParserInv, NEW f, NEW c, Fetched(f, c), FetchedText(f, c), ~f.freed,
           UNCHANGED <<table, yypstate>>,
           Scanner.next[yylstate][c] = NoNext, yyllastaccept # NoToken, BackToAccept(Scanner, f)
    PROVE  /\ Munched /\ scan' \in {"start", "accept"}
           /\ tokenEnd' = Position' /\ tokenEnd' \in Nat
           /\ yyf'.freed => yyllastaccept = Scanner.eof /\ Freed'
           /\ moved' + yyf'.yylfirst = moved' + f.yylfirst
<1> DEFINE p == moved' + f.yylfirst
           b == moved' + f.yyllastpos
           q == moved' + f.yylpos - 1
           back == [f EXCEPT !.yylpos = f.yyllastpos]
           atEof == yyllastaccept = Scanner.eof
           freed == f.freed \/ (atEof /\ f.mine)
<1>1. /\ yyf' = IF freed THEN [back EXCEPT !.freed = TRUE] ELSE Counted(back)
      /\ scan' \in {"start", "accept"} /\ tokenEnd' = b /\ yyllastaccept' = yyllastaccept
  BY DEF BackToAccept
<1>2. /\ back.bufend = f.bufend /\ back.yylfirst = f.yylfirst /\ back.yylpos = f.yyllastpos
      /\ back.yyllastpos = f.yyllastpos /\ back.freed = f.freed /\ DOMAIN back = Fields
  BY DEF Fetched, Holds, Fields
<1> HIDE DEF back
<1>3. /\ yyf'.yylfirst = f.yylfirst /\ yyf'.yylpos = f.yyllastpos /\ yyf'.bufend = f.bufend
      /\ yyf'.yyllastpos = f.yyllastpos /\ (yyf'.freed <=> freed)
  <2>1. CASE freed
    BY <1>1, <1>2, <2>1 DEF Fields
  <2>2. CASE ~freed
    BY <1>1, <1>2, <2>2 DEF Fields, Counted
  <2> QED
    BY <2>1, <2>2
<1>4. /\ text' \in Seq(Scanner.chars) /\ Len(text') \in Nat /\ moved' \in Nat
      /\ p \in Nat /\ b \in Int /\ q \in Int /\ f.bufend \in Nat /\ moved' + f.bufend = Len(text')
      /\ f.yyllastpos \in Int
      /\ ~atEof =>
            /\ q \in Nat /\ p <= q /\ q <= Len(text')
            /\ b \in Nat /\ p < b /\ b <= q
            /\ c = Eof => q = Len(text') /\ atEnd'
            /\ c # Eof => q < Len(text') /\ c = text'[q + 1]
      /\ atEof => b = Len(text') + 1 /\ atEnd'
  BY FetchedPlaces
<1>5. /\ yylstate \in DOMAIN Scanner.next /\ Scanner.eof # NoToken /\ Scanner.eof = table.eof
      /\ Start \in DOMAIN Scanner.next
  BY ScannerFacts DEF Fetched
<1>6. Munching(yylstate, yyllastaccept, tokenEnd, text', atEnd', p, b, q)
  BY DEF FetchedText
<1>a. tokenEnd' = Position'
  BY <1>1, <1>3 DEF Position
<1>b. p = moved' + yyf'.yylfirst
  BY <1>3
<1>c. atEof => f.yyllastpos = f.bufend + 1
  BY <1>4
<1>d. freed <=> atEof /\ f.mine
  OBVIOUS
<1> HIDE DEF p, b, q, freed
<1>7. /\ tokenEnd \in Nat /\ tokenEnd <= p /\ \A n \in tokenEnd .. p - 1 : LongerDiffer(text', atEnd', n, 0)
      /\ atEof => p = Len(text')
      /\ ~atEof => Leads(Start, yyllastaccept, Piece(text', p, b))
  BY <1>6 DEF Munching
<1>8. p >= tokenEnd /\ \A n \in tokenEnd .. p - 1 : LexemesAt(n) = {}
  <2>1. ASSUME NEW n \in tokenEnd .. p - 1 PROVE LexemesAt(n) = {}
    <3>1. n \in Nat /\ 0 \in Nat /\ LongerDiffer(text', atEnd', n, 0)
      BY <1>7
    <3> QED
      BY <1>4, <3>1, NoLongerLexeme
  <2> QED
    BY <1>4, <1>7, <2>1
<1>9. CASE atEof
  <2>1. Munched
    <3>1. p >= Len(text') /\ atEnd' /\ yyllastaccept' = table.eof
      BY <1>1, <1>4, <1>5, <1>7, <1>9
    <3> QED
      BY <1>8, <1>b, <3>1 DEF Munched
  <2>2. tokenEnd' \in Nat
    BY <1>1, <1>4, <1>9
  <2>3. Freed'
    <3>1. yyf'.yylpos \in Nat /\ yyf'.yylpos > yyf'.bufend /\ yyf'.bufend \in Nat
      BY <1>3, <1>4, <1>9, <1>c
    <3>2. scan' # "char" /\ Scanner' = Scanner
      BY <1>1 DEF Scanner
    <3> QED
      BY <1>3, <1>4, <1>9, <3>1, <3>2 DEF Freed
  <2> QED
    BY <1>1, <1>9, <1>a, <1>b, <2>1, <2>2, <2>3 DEF p
<1>10. CASE ~atEof
  <2> DEFINE n == b - p
             w == Piece(text', p, b)
             l == [token |-> yyllastaccept, chars |-> w]
  <2>1. n \in Nat /\ n > 0 /\ p + n = b /\ b \in Nat /\ p <= b /\ b <= Len(text') /\ p <= Len(text')
    BY <1>4, <1>10
  <2>2. LongerDiffer(text', atEnd', p, n)
    <3>1. \/ q < Len(text') /\ Scanner.next[yylstate][text'[q + 1]] = NoNext
          \/ q = Len(text') /\ atEnd'
      BY <1>4, <1>10
    <3>2. LongerDiffer(text', atEnd', p, IF yyllastaccept = NoToken THEN 0 ELSE b - p)
      BY <1>4, <1>5, <1>6, <1>10, <2>1, <3>1, MunchStop
    <3> QED
      BY <3>2
  <2>3. w \in Seq(Scanner.chars) /\ Len(w) = n
    BY <1>4, <2>1, PieceFacts
  <2>4. w # <<>>
    BY <2>1, <2>3, EmptySeq
  <2>5. SubSeq(text', p + 1, p + n) = w /\ p + Len(w) = b /\ p + Len(w) <= Len(text')
    BY <2>1, <2>3 DEF Piece
  <2> HIDE DEF w, n
  <2>6. l \in Scanner.lexemes[Start] /\ l.token = yyllastaccept /\ l.chars = w
    BY <1>7, <1>10 DEF Leads, w
  <2> HIDE DEF l
  <2>7. l \in LexemesAt(p)
    BY <2>3, <2>4, <2>5, <2>6 DEF LexemesAt, Scanner
  <2>8. /\ \A m \in LexemesAt(p) : Len(m.chars) <= Len(l.chars)
        /\ ~atEnd' => ~GoesOn(p)
    BY <1>4, <2>1, <2>2, <2>3, <2>6, NoLongerLexeme
  <2>9. l.token = yyllastaccept' /\ tokenEnd' = p + Len(l.chars)
    BY <1>1, <2>5, <2>6
  <2>10. Munched
    BY <1>8, <1>b, <2>7, <2>8, <2>9 DEF Munched
  <2> QED
    BY <1>1, <1>3, <1>10, <1>a, <1>b, <1>d, <2>1, <2>10 DEF p
<1> QED
  BY <1>9, <1>10

(* What FetchedText says of a buffer, by the places in the text.           *)
LEMMA BufferText ==
    ASSUME ParserInv, BufferInv, MunchInv, ~yyf.freed, scan = "char", yyf.yylpos < yyf.bufend,
           UNCHANGED <<text, atEnd, moved>>,
           NEW f, f = [yyf EXCEPT !.yylpos = @ + 1]
    PROVE  FetchedText(f, yyf.buffer[yyf.yylpos]) /\ moved' + f.yylfirst = First
<1> DEFINE c == yyf.buffer[yyf.yylpos]
<1>1. Holds(yyf, text, moved)
  BY DEF BufferInv
<1>2. /\ yyf.yylpos \in Nat /\ yyf.bufend \in Nat /\ yyf.yylfirst \in Nat /\ yyf.yyllastpos \in Int
      /\ moved \in Nat /\ moved + yyf.bufend = Len(text) /\ text \in Seq(Scanner.chars)
      /\ \A i \in 0 .. yyf.bufend - 1 : yyf.buffer[i] = text[moved + i + 1]
  BY <1>1 DEF Holds
<1>3. yylstate \in DOMAIN Scanner.next /\ Scanned(yyf)
  BY <1>2 DEF BufferInv, BehindEnd
<1>4. yyf.yylfirst <= yyf.bufend
  BY <1>2, <1>3 DEF Scanned
<1>5. Munches
  BY <1>4 DEF MunchInv
<1>6. f.yylfirst = yyf.yylfirst /\ f.yylpos = yyf.yylpos + 1 /\ f.yyllastpos = yyf.yyllastpos
  BY <1>1 DEF Holds, Fields
<1>7. /\ moved' + f.yylfirst = First /\ moved' + f.yyllastpos = LastPosition
      /\ moved' + f.yylpos - 1 = Position
  <2>1. moved + (yyf.yylpos + 1) - 1 = moved + yyf.yylpos
    BY <1>2
  <2> QED
    BY <1>6, <2>1 DEF First, LastPosition, Position
<1>8. Munching(yylstate, yyllastaccept, tokenEnd, text', atEnd', First, LastPosition, Position)
  BY <1>5 DEF Munches
<1>9. c = text'[moved' + f.yylpos] /\ moved' + f.yylpos \in 1 .. Len(text')
  <2>1. yyf.yylpos \in 0 .. yyf.bufend - 1
    BY <1>2
  <2>2. c = text[moved + yyf.yylpos + 1]
    BY <1>2, <2>1
  <2>3. moved + yyf.yylpos + 1 = moved' + f.yylpos
    BY <1>2, <1>6
  <2> DEFINE n == Len(text)
  <2>4. n \in Nat /\ moved + yyf.bufend = n
    BY <1>2, LenProperties
  <2> HIDE DEF n
  <2>5. moved + yyf.yylpos + 1 \in 1 .. n
    BY <1>2, <2>4
  <2> QED
    BY <2>2, <2>3, <2>5 DEF n
<1>10. c # Eof
  <2>1. c \in Scanner.chars
    BY <1>2, <1>9, ElementOfSeq
  <2> QED
    BY <2>1, ScannerFacts
<1> HIDE DEF c
<1>11. FetchedText(f, c)
  BY <1>7, <1>8, <1>9, <1>10 DEF FetchedText
<1> QED
  BY <1>7, <1>11 DEF c

LEMMA FileText ==
    ASSUME ParserInv, BufferInv, MunchInv, ~yyf.freed, scan = "char",
           yyf.yylpos >= yyf.bufend, yyf.yylfirst <= yyf.bufend,
           NEW f, f = Grown(Moved(yyf)), NEW data \in Delivered(Scanner.chars, f.buflen - f.bufend),
           text' = text \o data, atEnd' = (data = <<>>), moved' = moved + yyf.yylfirst,
           NEW h, h = [Filled(f, data) EXCEPT !.yylpos = @ + 1],
           NEW c, c = IF data = <<>> THEN Eof ELSE Filled(f, data).buffer[f.yylpos]
    PROVE  FetchedText(h, c) /\ moved' + h.yylfirst = First
<1> DEFINE g == Filled(f, data)
<1>1. Holds(yyf, text, moved)
  BY DEF BufferInv
<1>2. /\ yyf.yylpos \in Nat /\ yyf.bufend \in Nat /\ yyf.yylfirst \in Nat /\ yyf.yyllastpos \in Int
      /\ moved \in Nat /\ moved + yyf.bufend = Len(text) /\ text \in Seq(Scanner.chars)
  BY <1>1 DEF Holds
<1>3. yylstate \in DOMAIN Scanner.next /\ Scanned(yyf) /\ yyf.yylfirst <= yyf.yylpos
  BY <1>2 DEF BufferInv, BehindEnd
<1>5. Munching(yylstate, yyllastaccept, tokenEnd, text, atEnd, First, LastPosition, Position)
  BY DEF MunchInv, Munches
<1>6. /\ Holds(g, text', moved') /\ f.yylpos = g.yylpos /\ data \in Seq(Scanner.chars)
      /\ g.yylfirst = 0 /\ g.yylpos = yyf.yylpos - yyf.yylfirst
      /\ g.yyllastpos = yyf.yyllastpos - yyf.yylfirst
      /\ g.bufend = yyf.bufend - yyf.yylfirst + Len(data)
      /\ data # <<>> => ~atEnd /\ Len(data) \in Nat \ {0}
  BY <1>3, FillFacts
<1>7. c = IF data = <<>> THEN Eof ELSE g.buffer[g.yylpos]
  BY <1>6
<1>8. h = [g EXCEPT !.yylpos = @ + 1]
  OBVIOUS
<1> HIDE DEF g
<1>9. h.yylfirst = 0 /\ h.yylpos = g.yylpos + 1 /\ h.yyllastpos = g.yyllastpos
  BY <1>6, <1>8 DEF Holds, Fields
<1>10. /\ moved' + h.yylfirst = First /\ moved' + h.yyllastpos = LastPosition
       /\ moved' + h.yylpos - 1 = Position /\ moved' + h.yylpos = Position + 1
       /\ First \in Nat /\ LastPosition \in Int /\ Position \in Nat /\ First <= Position
       /\ moved' + g.yylpos + 1 = Position + 1
  <2>1. /\ moved' = moved + yyf.yylfirst /\ h.yylfirst = 0 /\ g.yylpos = yyf.yylpos - yyf.yylfirst
        /\ h.yylpos = yyf.yylpos - yyf.yylfirst + 1 /\ h.yyllastpos = yyf.yyllastpos - yyf.yylfirst
        /\ yyf.yylfirst <= yyf.yylpos
        /\ yyf.yylpos \in Nat /\ yyf.yylfirst \in Nat /\ yyf.yyllastpos \in Int /\ moved \in Nat
    BY <1>2, <1>3, <1>6, <1>9
  <2> QED
    BY ONLY <2>1 DEF First, LastPosition, Position
<1>a. Len(text) \in Nat /\ Len(data) \in Nat /\ Len(text') = Len(text) + Len(data) /\ atEnd \in BOOLEAN
  <2>1. Len(text \o data) = Len(text) + Len(data)
    BY <1>2, <1>6, ConcatProperties
  <2> QED
    BY <1>2, <1>6, <2>1, LenProperties DEF MunchInv
<1>11. yyllastaccept = Scanner.eof => atEnd
  BY <1>3, ScannerFacts DEF Scanned
<1>12. ASSUME yyllastaccept # Scanner.eof
       PROVE  /\ yyf.yylpos = yyf.bufend /\ Position = Len(text)
              /\ yyllastaccept # NoToken => First <= LastPosition /\ LastPosition <= Position
  <2>1. /\ yyf.yylpos = yyf.bufend
        /\ yyllastaccept # NoToken => yyf.yylfirst <= yyf.yyllastpos /\ yyf.yyllastpos <= yyf.yylpos
    BY <1>2, <1>3, <1>12 DEF Scanned
  <2>2. Position = Len(text)
    BY <1>2, <2>1 DEF Position
  <2>3. yyllastaccept # NoToken => First <= LastPosition /\ LastPosition <= Position
    BY <1>2, <2>1 DEF First, LastPosition, Position
  <2> QED
    BY <2>1, <2>2, <2>3
<1>13. Munching(yylstate, yyllastaccept, tokenEnd, text', atEnd', First, LastPosition, Position)
  <2>a. atEnd \/ yyllastaccept = Scanner.eof => data = <<>>
    BY <1>6, <1>11
  <2>1. CASE yyllastaccept # Scanner.eof
    <3>1. yyllastaccept \notin {NoToken, Scanner.eof} => First <= LastPosition /\ LastPosition <= Position
      BY <1>10, <1>12, <2>1
    <3>2. Position <= Len(text)
      BY <1>a, <1>12, <2>1
    <3>3. Munching(yylstate, yyllastaccept, tokenEnd, text \o data, data = <<>>, First, LastPosition, Position)
      BY <1>2, <1>5, <1>6, <1>10, <1>a, <2>a, <3>1, <3>2, MoreText
    <3> QED
      BY <3>3
  <2>2. CASE yyllastaccept = Scanner.eof
    <3> DEFINE z == First
               b == LastPosition
    <3>1. Munching(yylstate, Scanner.eof, tokenEnd, text, atEnd, z, b, z)
      BY <1>5, <2>2 DEF Munching
    <3>2. z \in Nat /\ b \in Int /\ z <= Len(text) /\ z <= z
      BY <1>5, <1>10, <1>a, <2>2 DEF Munching
    <3> HIDE DEF z, b
    <3>3. Munching(yylstate, Scanner.eof, tokenEnd, text \o data, data = <<>>, z, b, z)
      BY ZenonT(60), <1>2, <1>6, <1>a, <2>2, <2>a, <3>1, <3>2, MoreText
    <3> QED
      BY <2>2, <3>3 DEF Munching, z, b
  <2> QED
    BY <2>1, <2>2
<1>14. c # Eof => moved' + h.yylpos \in 1 .. Len(text') /\ c = text'[moved' + h.yylpos]
  <2> SUFFICES ASSUME c # Eof PROVE moved' + h.yylpos \in 1 .. Len(text') /\ c = text'[moved' + h.yylpos]
    OBVIOUS
  <2>1. data # <<>> /\ Len(data) \in Nat \ {0} /\ yyllastaccept # Scanner.eof
    BY <1>6, <1>7, <1>11
  <2>2. Position = Len(text) /\ yyf.yylpos = yyf.bufend
    BY <1>12, <2>1
  <2>3. Position + 1 \in 1 .. Len(text')
    BY <1>10, <1>a, <2>1, <2>2
  <2>4. g.yylpos \in 0 .. g.bufend - 1
    BY <1>2, <1>3, <1>6, <2>1, <2>2
  <2>5. g.buffer[g.yylpos] = text'[moved' + g.yylpos + 1]
    BY <1>6, <2>4 DEF Holds
  <2> QED
    BY <1>7, <1>10, <2>1, <2>3, <2>5
<1>15. c = Eof /\ yyllastaccept # Scanner.eof => Position = Len(text')
  <2> SUFFICES ASSUME c = Eof, yyllastaccept # Scanner.eof PROVE Position = Len(text')
    OBVIOUS
  <2>1. data = <<>>
    <3> SUFFICES ASSUME data # <<>> PROVE FALSE
      OBVIOUS
    <3>1. Fetched(h, c)
      BY <1>7, <1>8, ReadFromFile DEF g
    <3>2. ~atEnd' /\ Eof \notin Scanner.chars
      BY ScannerFacts
    <3> QED
      BY <3>1, <3>2 DEF Fetched
  <2>2. Len(data) = 0
    BY <2>1
  <2> QED
    BY <1>12, <1>a, <2>2
<1> QED
  BY <1>10, <1>13, <1>14, <1>15 DEF FetchedText

LEMMA ConsumeMunches ==
    ASSUME ParserInv, MunchInv, NEW f, NEW c, Fetched(f, c), FetchedText(f, c), scan = "char",
           UNCHANGED vars, atEnd' \in BOOLEAN, Consume(Scanner, Start, f, c)
    PROVE  MunchInv' /\ (scan' \in {"start", "accept"} => Munched)
<1>1. pc = "read" /\ pc' = "read" /\ UNCHANGED <<table, yypstate>> /\ tokenEnd \in Nat
  BY DEF MunchInv, vars
<1>2. ~f.freed /\ DOMAIN f = Fields
  BY DEF Fetched, Holds
<1>3. ASSUME NEW next, next = Scanner.next[yylstate][c], next # NoNext, Advance(Scanner, f, next)
      PROVE  MunchInv' /\ scan' = "char"
  <2>1. Munches' /\ tokenEnd' = tokenEnd
    BY <1>1, <1>3, AdvanceMunches
  <2>2. scan' = "char" /\ ~yyf'.freed
    BY <1>2, <1>3 DEF Advance, Fields
  <2> QED
    BY <1>1, <2>1, <2>2 DEF MunchInv
<1>4. ASSUME Scanner.next[yylstate][c] = NoNext, yyllastaccept = NoToken, Unrecognised(Start, f)
      PROVE  MunchInv' /\ scan' = "char"
  <2>1. Munches' /\ tokenEnd' = tokenEnd
    BY <1>1, <1>4, UnrecognisedMunches
  <2>2. scan' = "char" /\ ~yyf'.freed
    BY <1>2, <1>4 DEF Unrecognised, Fields
  <2> QED
    BY <1>1, <2>1, <2>2 DEF MunchInv
<1>5. ASSUME Scanner.next[yylstate][c] = NoNext, yyllastaccept # NoToken, BackToAccept(Scanner, f)
      PROVE  MunchInv' /\ Munched
  <2>1. /\ Munched /\ scan' \in {"start", "accept"} /\ tokenEnd' = Position' /\ tokenEnd' \in Nat
        /\ yyf'.freed => Freed'
    BY <1>1, <1>2, <1>5, AcceptMunches
  <2> QED
    BY <1>1, <2>1 DEF MunchInv
<1>6. ASSUME ClassUndefined(f)
      PROVE  MunchInv' /\ scan' = "undefined"
  <2>1. scan' = "undefined" /\ yyf' = f /\ tokenEnd' = tokenEnd
    BY <1>6 DEF ClassUndefined
  <2> QED
    BY <1>1, <1>2, <2>1 DEF MunchInv
<1> QED
  BY <1>3, <1>4, <1>5, <1>6 DEF Consume, YYL_GOTO

LEMMA FreedMunches ==
    ASSUME ParserInv, MunchInv, yyf.freed, scan = "char", DOMAIN yyf = Fields,
           UNCHANGED vars, UNCHANGED <<text, atEnd, moved>>,
           NEW f, f = [yyf EXCEPT !.yylpos = IF @ < PositionBound THEN @ + 1 ELSE @],
           Consume(Scanner, Start, f, Eof)
    PROVE  MunchInv' /\ (scan' \in {"start", "accept"} => Munched)
<1>1. /\ pc = "read" /\ pc' = "read" /\ UNCHANGED <<table, yypstate>> /\ tokenEnd \in Nat
      /\ atEnd' \in BOOLEAN /\ Freed /\ Scanner' = Scanner /\ Start' = Start
  BY DEF MunchInv, vars, Scanner, Start
<1>2. /\ DOMAIN f = Fields /\ f.freed /\ f.yylfirst = yyf.yylfirst /\ f.bufend = yyf.bufend
      /\ f.yyllastpos = yyf.yyllastpos /\ f.yylpos \in {yyf.yylpos, yyf.yylpos + 1}
  BY DEF Fields
<1>3. /\ atEnd /\ moved \in Nat /\ moved + f.bufend = Len(text) /\ text \in Seq(Scanner.chars)
      /\ f.bufend \in Nat /\ f.yylpos \in Nat /\ f.yylpos > f.bufend
      /\ f.yylfirst \in Nat /\ First = tokenEnd /\ First = moved + f.yylfirst /\ f.yylfirst > f.bufend
      /\ \/ yyllastaccept = NoToken /\ yylstate = Start
         \/ /\ yyllastaccept = table.eof /\ Scanner.next[yylstate][Eof] = NoNext
            /\ yylstate \in DOMAIN Scanner.next
            /\ f.yyllastpos \in Nat /\ f.yyllastpos > f.bufend
  BY <1>1, <1>2 DEF Freed, First
<1>4. /\ Start \in DOMAIN Scanner.next /\ Scanner.next[Start][Eof] # NoNext
      /\ Scanner.eof = table.eof /\ table.eof # NoToken
  BY ScannerFacts
<1>5. ASSUME NEW next, next = Scanner.next[yylstate][Eof], next # NoNext, Advance(Scanner, f, next)
      PROVE  MunchInv' /\ scan' = "char"
  <2>1. /\ next \in DOMAIN Scanner.accept /\ Scanner.accept[next] = table.eof
        /\ next \in DOMAIN Scanner.next /\ Scanner.next[next][Eof] = NoNext
    <3>1. yylstate \in DOMAIN Scanner.next
      BY <1>3, <1>4
    <3> QED
      BY <1>5, <3>1, ScannerFacts
  <2>2. /\ yylstate' = next /\ yyf' = [f EXCEPT !.yyllastpos = f.yylpos]
        /\ yyllastaccept' = table.eof /\ UNCHANGED <<scan, tokenEnd>>
    BY <1>5, <2>1 DEF Advance
  <2>3. /\ yyf'.freed /\ yyf'.yylfirst = f.yylfirst /\ yyf'.bufend = f.bufend
        /\ yyf'.yyllastpos = f.yylpos /\ yyf'.yylpos = f.yylpos
    BY <1>2, <2>2 DEF Fields
  <2>4. First' = tokenEnd'
    BY <1>3, <2>2, <2>3 DEF First
  <2>5. Freed'
    BY <1>1, <1>3, <2>1, <2>2, <2>3, <2>4 DEF Freed
  <2> QED
    BY <1>1, <2>2, <2>3, <2>5 DEF MunchInv
<1>6. ~(Scanner.next[yylstate][Eof] = NoNext /\ yyllastaccept = NoToken)
  BY <1>3, <1>4
<1>7. ASSUME yyllastaccept # NoToken, BackToAccept(Scanner, f) PROVE MunchInv' /\ Munched
  <2>1. /\ yyf' = [[f EXCEPT !.yylpos = f.yyllastpos] EXCEPT !.freed = TRUE]
        /\ scan' \in {"start", "accept"} /\ tokenEnd' = moved' + f.yyllastpos
        /\ yyllastaccept' = yyllastaccept
    BY <1>2, <1>7 DEF BackToAccept
  <2>2. /\ yyf'.yylfirst = f.yylfirst /\ yyf'.yylpos = f.yyllastpos /\ yyf'.bufend = f.bufend
    BY <1>2, <2>1 DEF Fields
  <2>3. yyllastaccept = table.eof /\ f.yyllastpos \in Nat /\ f.yyllastpos > f.bufend
    BY <1>3, <1>7
  <2>4. tokenEnd' = Position' /\ tokenEnd' \in Nat
    BY <1>3, <2>1, <2>2, <2>3 DEF Position
  <2>5. Freed'
    <3>1. scan' # "char"
      BY <2>1
    <3> QED
      BY <1>1, <1>3, <2>2, <2>3, <3>1 DEF Freed
  <2>6. Munched
    <3> DEFINE n == Len(text)
    <3>1. moved + f.bufend = n /\ First = tokenEnd /\ First = moved + f.yylfirst
      BY <1>3
    <3>2. moved' + yyf'.yylfirst = First
      BY <2>2, <3>1
    <3> HIDE DEF n
    <3>3. First >= n /\ First >= tokenEnd /\ tokenEnd .. First - 1 = {}
      BY <1>1, <1>3, <3>1
    <3> QED
      BY <1>1, <1>3, <2>1, <2>3, <3>2, <3>3 DEF Munched, n
  <2> QED
    BY <1>1, <2>1, <2>4, <2>5, <2>6 DEF MunchInv
<1>8. ASSUME ClassUndefined(f) PROVE MunchInv' /\ scan' = "undefined"
  <2>1. scan' = "undefined" /\ yyf' = f /\ tokenEnd' = tokenEnd
    BY <1>8 DEF ClassUndefined
  <2>2. Freed'
    BY <1>1, <1>3, <2>1 DEF Freed
  <2> QED
    BY <1>1, <2>1, <2>2 DEF MunchInv
<1> QED
  BY <1>5, <1>6, <1>7, <1>8 DEF Consume, YYL_GOTO

LEMMA ReadCharMunches ==
    ASSUME ParserInv, BufferInv, MunchInv, UNCHANGED vars, ReadChar(Scanner, Start)
    PROVE  MunchInv' /\ (scan' \in {"start", "accept"} => Munched)
<1>1. scan = "char" /\ DOMAIN yyf = Fields /\ atEnd \in BOOLEAN
  BY DEF ReadChar, BufferInv, MunchInv
<1>2. CASE /\ yyf.yylpos < yyf.bufend /\ UNCHANGED <<text, atEnd, moved>>
           /\ Consume(Scanner, Start, [yyf EXCEPT !.yylpos = @ + 1], yyf.buffer[yyf.yylpos])
  <2> DEFINE f == [yyf EXCEPT !.yylpos = @ + 1]
  <2>1. ~yyf.freed
    BY <1>2 DEF MunchInv, Freed
  <2>2. Fetched(f, yyf.buffer[yyf.yylpos])
    BY <1>1, <1>2, <2>1, ReadFromBuffer
  <2>3. FetchedText(f, yyf.buffer[yyf.yylpos])
    BY <1>1, <1>2, <2>1, BufferText
  <2> QED
    BY <1>1, <1>2, <2>2, <2>3, ConsumeMunches
<1>3. CASE /\ yyf.freed /\ UNCHANGED <<text, atEnd, moved>>
           /\ Consume(Scanner, Start,
                      [yyf EXCEPT !.yylpos = IF @ < PositionBound THEN @ + 1 ELSE @], Eof)
  BY <1>1, <1>3, FreedMunches
<1>4. ASSUME NEW f, f = Grown(Moved(yyf)), NEW data \in Delivered(Scanner.chars, f.buflen - f.bufend),
             yyf.yylpos >= yyf.bufend, ~yyf.freed, yyf.yylfirst <= yyf.bufend,
             text' = text \o data, atEnd' = (data = <<>>), moved' = moved + yyf.yylfirst,
             Consume(Scanner, Start, [Filled(f, data) EXCEPT !.yylpos = @ + 1],
                     IF data = <<>> THEN Eof ELSE Filled(f, data).buffer[f.yylpos])
      PROVE  MunchInv' /\ (scan' \in {"start", "accept"} => Munched)
  <2> DEFINE h == [Filled(f, data) EXCEPT !.yylpos = @ + 1]
             c == IF data = <<>> THEN Eof ELSE Filled(f, data).buffer[f.yylpos]
  <2>1. Fetched(h, c)
    BY <1>1, <1>4, ReadFromFile
  <2>2. FetchedText(h, c)
    BY <1>1, <1>4, FileText
  <2>3. Consume(Scanner, Start, h, c) /\ atEnd' \in BOOLEAN
    BY <1>4
  <2> HIDE DEF h, c
  <2> QED
    BY <1>1, <2>1, <2>2, <2>3, ConsumeMunches
<1> QED
  BY <1>2, <1>3, <1>4 DEF ReadChar

LEMMA MunchInit == RunInit => MunchInv
<1> SUFFICES ASSUME RunInit PROVE MunchInv
  OBVIOUS
<1>1. scan = "start" /\ moved = 0 /\ tokenEnd = 0 /\ atEnd \in BOOLEAN /\ ~yyf.freed /\ yyf.yylpos = 0
  <2>1. ASSUME NEW b, yyf = yyfInit(b) PROVE ~yyf.freed /\ yyf.yylpos = 0
    BY <2>1 DEF yyfInit
  <2>2. \E b : yyf = yyfInit(b)
    BY DEF RunInit, ScanInit
  <2>3. scan = "start" /\ moved = 0 /\ tokenEnd = 0 /\ atEnd \in BOOLEAN
    BY DEF RunInit, ScanInit
  <2> QED
    BY <2>1, <2>2, <2>3
<1> QED
  BY <1>1 DEF MunchInv, Position

LEMMA MunchInductive ==
    ParserInv /\ BufferInv /\ MunchInv /\ [RunNext]_runVars
        => MunchInv' /\ (scan = "char" /\ scan' \in {"start", "accept"} => Munched)
<1> SUFFICES ASSUME ParserInv, BufferInv, MunchInv, [RunNext]_runVars
             PROVE  MunchInv' /\ (scan = "char" /\ scan' \in {"start", "accept"} => Munched)
  OBVIOUS
<1>1. table' = table /\ Scanner' = Scanner
  BY DEF RunNext, runVars, Scan, Deliver, Parse, vars, ReadToken, LookUp, DropToken, ReportError,
         PopState, NoRecovery, RecoverState, Shift, Reduce, Scanner
<1>2. ASSUME Parse PROVE MunchInv' /\ ~(scan = "char" /\ scan' \in {"start", "accept"})
  <2>1. UNCHANGED lexVars /\ pc # "read"
    BY <1>2 DEF Parse, LookUp, DropToken, ReportError, PopState, NoRecovery, RecoverState, Shift, Reduce
  <2>2. scan \notin {"char", "accept"}
    BY <2>1 DEF MunchInv
  <2> QED
    BY <1>1, <2>1, <2>2 DEF lexVars, MunchInv, Freed, Position, First
<1>3. ASSUME UNCHANGED runVars PROVE MunchInv' /\ ~(scan = "char" /\ scan' \in {"start", "accept"})
  <2>1. UNCHANGED <<table, yypstate, pc, scan, yyf, text, atEnd, moved, tokenEnd, yylstate, yyllastaccept>>
    BY <1>3 DEF runVars, vars, lexVars
  <2>2. First' = First /\ Position' = Position /\ (Freed => Freed')
    BY <1>1, <2>1 DEF First, Position, Freed, Start
  <2>3. Munches => Munches'
    BY <2>1, MunchesAfter DEF Munches, First, Position, LastPosition
  <2> QED
    BY <2>1, <2>2, <2>3 DEF MunchInv
<1>4. ASSUME Deliver PROVE MunchInv' /\ scan # "char"
  <2>1. /\ scan = "accept" /\ scan' = "start"
        /\ UNCHANGED <<yyf, yylstate, yyllastaccept, text, atEnd, moved, tokenEnd>>
    BY <1>4 DEF Deliver, TokenTaken
  <2> QED
    BY <1>1, <2>1 DEF MunchInv, Freed, Position, First
<1>5. ASSUME BeginToken(Start), UNCHANGED vars, pc = "read" PROVE MunchInv' /\ scan # "char"
  <2>1. /\ scan = "start" /\ scan' = "char" /\ yylstate' = Start /\ yyllastaccept' = NoToken
        /\ yyf' = [yyf EXCEPT !.yylfirst = yyf.yylpos]
        /\ UNCHANGED <<text, atEnd, moved, tokenEnd>>
    BY <1>5 DEF BeginToken
  <2>2. DOMAIN yyf = Fields
    BY DEF BufferInv
  <2>3. /\ (yyf'.freed <=> yyf.freed) /\ yyf'.bufend = yyf.bufend
        /\ yyf'.yylfirst = yyf.yylpos /\ yyf'.yylpos = yyf.yylpos /\ yyf'.yyllastpos = yyf.yyllastpos
    BY <2>1, <2>2 DEF Fields
  <2>4. tokenEnd \in Nat /\ atEnd \in BOOLEAN /\ tokenEnd = Position /\ pc' = "read"
    BY <1>5, <2>1 DEF MunchInv, vars
  <2>5. First' = tokenEnd /\ moved' + yyf'.yylfirst = tokenEnd /\ moved' + yyf'.yylpos = tokenEnd
    BY <2>1, <2>3, <2>4 DEF First, Position
  <2>6. yyf'.freed => Freed'
    <3>1. Start' = Start
      BY <1>5 DEF vars, Start
    <3> QED
      BY <1>1, <2>1, <2>3, <2>5, <3>1 DEF MunchInv, Freed
  <2>7. Munches'
    <3>1. Reads(text, tokenEnd, tokenEnd, Start)
      BY <2>4, ReadsNothing
    <3>2. NoToken # Scanner.eof /\ ~(tokenEnd < tokenEnd) /\ tokenEnd <= tokenEnd
          /\ \A n \in tokenEnd .. tokenEnd - 1 : FALSE
      BY <2>4, ScannerFacts
    <3>3. \A n \in tokenEnd + 1 .. tokenEnd : FALSE
      BY <2>4
    <3>4. ASSUME NEW b PROVE Munching(Start, NoToken, tokenEnd, text, atEnd, tokenEnd, b, tokenEnd)
      BY <2>4, <3>1, <3>2, <3>3 DEF Munching
    <3>5. UNCHANGED <<table, yypstate>>
      BY <1>5 DEF vars
    <3> QED
      BY <2>1, <2>5, <3>4, <3>5, MunchesAfter
  <2> QED
    BY <2>1, <2>4, <2>6, <2>7 DEF MunchInv
<1>6. ASSUME MoveNegative PROVE MunchInv' /\ scan' \notin {"start", "accept"}
  <2>1. /\ scan' = "crash" /\ UNCHANGED <<yyf, text, atEnd, moved, tokenEnd>>
    BY <1>6 DEF MoveNegative
  <2> QED
    BY <1>1, <2>1 DEF MunchInv, Freed
<1>7. ASSUME ReadChar(table.lexer, Start), UNCHANGED vars
      PROVE  MunchInv' /\ (scan' \in {"start", "accept"} => Munched)
  BY <1>7, ReadCharMunches DEF Scanner
<1> QED
  BY <1>2, <1>3, <1>4, <1>5, <1>6, <1>7 DEF RunNext, Scan
-----------------------------------------------------------------------------
(* Lines and columns, counted in the buffer and in the text.               *)
LEMMA Shifted ==
    ASSUME NEW d \in Int, NEW S, S \subseteq Int, IsFiniteSet(S), NEW T, T = {i + d : i \in S}
    PROVE  IsFiniteSet(T) /\ Cardinality(T) = Cardinality(S)
<1> DEFINE F == [i \in S |-> i + d]
<1>1. F \in [S -> T] /\ \A t \in T : \E i \in S : F[i] = t
  OBVIOUS
<1>2. \A i, j \in S : F[i] = F[j] => i = j
  OBVIOUS
<1> HIDE DEF F
<1>3. F \in Bijection(S, T)
  BY <1>1, <1>2, Fun_IsBij
<1>4. ExistsBijection(S, T)
  BY <1>3, Fun_ExistsBij
<1> QED
  BY <1>4, FS_Bijection

(* The lines that end behind place p up to q, and the places there on the  *)
(* last line.                                                              *)
EndsOfLines(t, p, q) == {i \in p + 1 .. q : t[i] = Newline}
OnLastLine(t, p, q) == {i \in p + 1 .. q : \A j \in i .. q : t[j] # Newline}

(* A token in the buffer is counted as it is in the text.                  *)
LinesOf(buffer, i1, j1) == {i \in i1 .. j1 - 1 : buffer[i] = Newline}
TailOf(buffer, i1, j1) ==
    {i \in (i1 .. j1 - 1) \ LinesOf(buffer, i1, j1) : \A j \in LinesOf(buffer, i1, j1) : j < i}

LEMMA CountedInText ==
    ASSUME NEW t, NEW i1 \in Nat, NEW j1 \in Nat, NEW buffer, NEW p \in Nat, NEW q \in Nat,
           i1 <= j1, q - p = j1 - i1,
           \A i \in i1 .. j1 - 1 : buffer[i] = t[i + (p - i1 + 1)]
    PROVE  /\ Cardinality(LinesOf(buffer, i1, j1)) = Cardinality(EndsOfLines(t, p, q))
           /\ Cardinality(TailOf(buffer, i1, j1)) = Cardinality(OnLastLine(t, p, q))
           /\ LinesOf(buffer, i1, j1) = {} <=> EndsOfLines(t, p, q) = {}
<1> DEFINE token == i1 .. j1 - 1
           lines == LinesOf(buffer, i1, j1)
           tail == TailOf(buffer, i1, j1)
           d == p - i1 + 1
           Ends == EndsOfLines(t, p, q)
           Last == OnLastLine(t, p, q)
<1>1. /\ d \in Int
      /\ \A i \in token : i \in Int /\ i + d \in p + 1 .. q /\ buffer[i] = t[i + d]
      /\ \A z \in p + 1 .. q : z \in Int /\ z - d \in token /\ z - d + d = z
      /\ \A i \in token : i + d - d = i
  OBVIOUS
<1>2. \A i, j \in token : j < i <=> j + d < i + d
  BY <1>1
<1>3. /\ \A z : z \in Ends <=> z \in p + 1 .. q /\ t[z] = Newline
      /\ \A z : z \in Last <=> z \in p + 1 .. q /\ \A j \in z .. q : t[j] # Newline
  BY DEF EndsOfLines, OnLastLine
<1>4. /\ \A i : i \in lines <=> i \in token /\ buffer[i] = Newline
      /\ \A i : i \in tail <=> i \in token /\ i \notin lines /\ \A j \in lines : j < i
  BY DEF LinesOf, TailOf
<1>5. IsFiniteSet(token)
  <2>1. i1 \in Int /\ j1 - 1 \in Int
    OBVIOUS
  <2> QED
    BY <2>1, FS_Interval
<1>6. IsFiniteSet(lines) /\ IsFiniteSet(tail) /\ lines \subseteq Int /\ tail \subseteq Int
  BY <1>1, <1>4, <1>5, FS_Subset
<1> HIDE DEF d, Ends, Last, token, lines, tail
<1>7. Ends = {i + d : i \in lines}
  <2>1. ASSUME NEW i \in lines PROVE i + d \in Ends
    BY <1>1, <1>3, <1>4
  <2>2. ASSUME NEW z \in Ends PROVE z - d \in lines /\ z = z - d + d
    <3>1. z \in p + 1 .. q /\ z - d \in token /\ z - d + d = z /\ t[z] = Newline
      BY <1>1, <1>3
    <3>2. buffer[z - d] = t[z]
      BY <1>1, <3>1
    <3> QED
      BY <1>4, <3>1, <3>2
  <2> QED
    BY <2>1, <2>2
<1>8. Last = {i + d : i \in tail}
  <2>1. ASSUME NEW i \in tail PROVE i + d \in Last
    <3>1. i \in token /\ i \in Int /\ i + d \in p + 1 .. q
      BY <1>1, <1>4
    <3>2. ASSUME NEW j \in i + d .. q, t[j] = Newline PROVE FALSE
      <4>1. j \in p + 1 .. q /\ ~(j < i + d)
        BY <1>1, <3>1
      <4>2. j \in Ends
        BY <1>3, <3>2, <4>1
      <4>3. PICK k \in lines : j = k + d
        BY <1>7, <4>2
      <4>4. k < i /\ k \in token
        BY <1>4, <4>3
      <4> QED
        BY <1>2, <3>1, <4>1, <4>3, <4>4
    <3> QED
      BY <1>3, <3>1, <3>2
  <2>2. ASSUME NEW z \in Last PROVE z - d \in tail /\ z = z - d + d
    <3>1. z \in p + 1 .. q /\ z - d \in token /\ z - d + d = z /\ \A j \in z .. q : t[j] # Newline
      BY <1>1, <1>3
    <3>2. t[z] # Newline /\ buffer[z - d] = t[z]
      BY <1>1, <3>1
    <3>3. ASSUME NEW j \in lines PROVE j < z - d
      <4>1. j \in token /\ j + d \in p + 1 .. q /\ t[j + d] = Newline
        BY <1>1, <1>4
      <4>2. j + d \notin z .. q
        BY <3>1, <4>1
      <4>3. j + d < z
        BY <1>1, <3>1, <4>1, <4>2
      <4> QED
        BY <1>2, <3>1, <4>1, <4>3
    <3> QED
      BY <1>4, <3>1, <3>2, <3>3
  <2> QED
    BY <2>1, <2>2
<1>9. Cardinality(lines) = Cardinality(Ends) /\ Cardinality(tail) = Cardinality(Last)
  <2>1. d \in Int
    BY <1>1
  <2>2. \A S : S \subseteq Int /\ IsFiniteSet(S) => Cardinality({i + d : i \in S}) = Cardinality(S)
    BY <2>1, Shifted
  <2>3. Cardinality({i + d : i \in lines}) = Cardinality(lines)
    BY ONLY <1>6, <2>2
  <2>4. Cardinality({i + d : i \in tail}) = Cardinality(tail)
    BY ONLY <1>6, <2>2
  <2> QED
    BY <1>7, <1>8, <2>3, <2>4
<1>10. lines = {} <=> Ends = {}
  BY <1>7
<1> QED
  BY <1>9, <1>10 DEF Ends, Last, lines, tail

LinesTo(t, q) == 1 + Cardinality({i \in 1 .. q : t[i] = Newline})
ColumnTo(t, q) == 1 + Cardinality({i \in 1 .. q : \A j \in i .. q : t[j] # Newline})

LEMMA LinesAfter ==
    ASSUME NEW t, NEW p \in Nat, NEW q \in Nat, p <= q
    PROVE  /\ LinesTo(t, p) \in Nat /\ ColumnTo(t, p) \in Nat
           /\ LinesTo(t, q) = LinesTo(t, p) + Cardinality(EndsOfLines(t, p, q))
           /\ ColumnTo(t, q) = Cardinality(OnLastLine(t, p, q))
                               + IF EndsOfLines(t, p, q) = {} THEN ColumnTo(t, p) ELSE 1
<1> DEFINE L(z) == {i \in 1 .. z : t[i] = Newline}
           C(z) == {i \in 1 .. z : \A j \in i .. z : t[j] # Newline}
           Ends == EndsOfLines(t, p, q)
           Last == OnLastLine(t, p, q)
<1>1. /\ \A z \in Nat : L(z) \subseteq 1 .. z /\ C(z) \subseteq 1 .. z
      /\ Ends \subseteq p + 1 .. q /\ Last \subseteq p + 1 .. q
  BY DEF EndsOfLines, OnLastLine
<1>2. ASSUME NEW z \in Nat PROVE IsFiniteSet(1 .. z)
  <2>1. 1 \in Int /\ z \in Int
    OBVIOUS
  <2> QED
    BY <2>1, FS_Interval
<1>3. IsFiniteSet(p + 1 .. q)
  <2>1. p + 1 \in Int /\ q \in Int
    OBVIOUS
  <2> QED
    BY <2>1, FS_Interval
<1>4. \A z \in Nat : IsFiniteSet(L(z)) /\ IsFiniteSet(C(z))
  BY <1>1, <1>2, FS_Subset
<1>5. IsFiniteSet(Ends) /\ IsFiniteSet(Last)
  BY <1>1, <1>3, FS_Subset
<1>6. L(q) = L(p) \union Ends /\ L(p) \intersect Ends = {}
  BY DEF EndsOfLines
<1>7. Ends = {} => C(q) = C(p) \union Last
  <2> SUFFICES ASSUME Ends = {} PROVE C(q) = C(p) \union Last
    OBVIOUS
  <2>1. \A i \in p + 1 .. q : t[i] # Newline
    BY DEF EndsOfLines
  <2>2. ASSUME NEW i \in C(p) PROVE i \in C(q)
    <3>1. \A j \in i .. q : j \in i .. p \/ j \in p + 1 .. q
      OBVIOUS
    <3> QED
      BY <2>1, <3>1
  <2>3. ASSUME NEW i \in C(q) PROVE i \in C(p) \/ i \in Last
    BY DEF OnLastLine
  <2>4. ASSUME NEW i \in Last PROVE i \in C(q)
    BY DEF OnLastLine
  <2> QED
    BY <2>2, <2>3, <2>4
<1>8. Ends # {} => C(q) = Last
  <2> SUFFICES ASSUME NEW e \in Ends PROVE C(q) = Last
    OBVIOUS
  <2>1. e \in p + 1 .. q /\ t[e] = Newline
    BY DEF EndsOfLines
  <2>2. ASSUME NEW i \in C(q) PROVE i \in Last
    <3>1. i \in 1 .. q /\ e \notin i .. q
      BY <2>1
    <3>2. i \in p + 1 .. q
      BY <2>1, <3>1
    <3> QED
      BY <3>2 DEF OnLastLine
  <2>3. ASSUME NEW i \in Last PROVE i \in C(q)
    BY DEF OnLastLine
  <2> QED
    BY <2>2, <2>3
<1>9. C(p) \intersect Last = {}
  BY <1>1
<1> HIDE DEF L, C, Ends, Last
<1>10. ASSUME NEW A, NEW B, IsFiniteSet(A), IsFiniteSet(B), A \intersect B = {}
       PROVE  Cardinality(A \union B) = Cardinality(A) + Cardinality(B)
  <2>1. Cardinality(A \union B) = Cardinality(A) + Cardinality(B) - Cardinality({})
    BY <1>10, FS_Union
  <2>2. Cardinality({}) = 0 /\ Cardinality(A) \in Nat /\ Cardinality(B) \in Nat
    BY <1>10, FS_EmptySet, FS_CardinalityType
  <2> QED
    BY <2>1, <2>2
<1>11. Cardinality(L(q)) = Cardinality(L(p)) + Cardinality(Ends)
  BY <1>4, <1>5, <1>6, <1>10
<1>12. Ends = {} => Cardinality(C(q)) = Cardinality(C(p)) + Cardinality(Last)
  BY <1>4, <1>5, <1>7, <1>9, <1>10
<1>13. /\ Cardinality(L(p)) \in Nat /\ Cardinality(C(p)) \in Nat /\ Cardinality(Ends) \in Nat
       /\ Cardinality(Last) \in Nat
  BY <1>4, <1>5, FS_CardinalityType
<1>14. /\ LinesTo(t, p) = 1 + Cardinality(L(p)) /\ ColumnTo(t, p) = 1 + Cardinality(C(p))
       /\ LinesTo(t, q) = 1 + Cardinality(L(q)) /\ ColumnTo(t, q) = 1 + Cardinality(C(q))
  BY DEF LinesTo, ColumnTo, L, C
<1>15. LinesTo(t, q) = LinesTo(t, p) + Cardinality(Ends)
  BY <1>11, <1>13, <1>14
<1>16. CASE Ends = {}
  <2>1. ColumnTo(t, q) = Cardinality(Last) + ColumnTo(t, p)
    BY <1>12, <1>13, <1>14, <1>16
  <2> QED
    BY <1>13, <1>14, <1>15, <1>16, <2>1 DEF Ends, Last
<1>17. CASE Ends # {}
  <2>1. ColumnTo(t, q) = Cardinality(Last) + 1
    BY <1>8, <1>13, <1>14, <1>17
  <2> QED
    BY <1>13, <1>14, <1>15, <1>17, <2>1 DEF Ends, Last
<1> QED
  BY <1>16, <1>17

LEMMA LinesOfMore ==
    ASSUME NEW t, NEW u, NEW n \in Nat, \A i \in 1 .. n : u[i] = t[i], NEW q \in Nat, q <= n
    PROVE  LinesTo(u, q) = LinesTo(t, q) /\ ColumnTo(u, q) = ColumnTo(t, q)
<1>1. \A i \in 1 .. q : u[i] = t[i]
  OBVIOUS
<1>2. {i \in 1 .. q : u[i] = Newline} = {i \in 1 .. q : t[i] = Newline}
  BY <1>1
<1>3. {i \in 1 .. q : \A j \in i .. q : u[j] # Newline} = {i \in 1 .. q : \A j \in i .. q : t[j] # Newline}
  BY <1>1
<1> QED
  BY <1>2, <1>3 DEF LinesTo, ColumnTo

(* Lines and columns: those of the place reached, and while a token is     *)
(* scanned those where it began.                                           *)
LinesInv ==
    ~dropped =>
        /\ scan \in {"start", "accept"} /\ Position <= Len(text) =>
              yyf.yylline = LinesTo(text, Position) /\ yyf.yylcol = ColumnTo(text, Position)
        /\ scan = "char" /\ First <= Len(text) =>
              /\ yylline = LinesTo(text, First) /\ yylcol = ColumnTo(text, First)
              /\ ~yyf.freed => yyf.yylline = yylline /\ yyf.yylcol = yylcol

(* TokensAreMunches of a step, of lines and columns.                       *)
LinesTold ==
    \A first \in {moved' + yyf'.yylfirst} :
        ~dropped' /\ first <= Len(text') => yylline' = LineOf(first) /\ yylcol' = ColumnOf(first)

(* yyfFill leaves them alone.                                              *)
LEMMA LinesOfBuffer ==
    ASSUME DOMAIN yyf = Fields
    PROVE  /\ \A f : f = [yyf EXCEPT !.yylpos = @ + 1] => f.yylline = yyf.yylline /\ f.yylcol = yyf.yylcol
           /\ \A f, data, h :
                 f = Grown(Moved(yyf)) /\ h = [Filled(f, data) EXCEPT !.yylpos = @ + 1]
                     => h.yylline = yyf.yylline /\ h.yylcol = yyf.yylcol
<1>1. ASSUME NEW f, f = [yyf EXCEPT !.yylpos = @ + 1] PROVE f.yylline = yyf.yylline /\ f.yylcol = yyf.yylcol
  BY <1>1 DEF Fields
<1>2. ASSUME NEW f, NEW data, NEW h, f = Grown(Moved(yyf)), h = [Filled(f, data) EXCEPT !.yylpos = @ + 1]
      PROVE  h.yylline = yyf.yylline /\ h.yylcol = yyf.yylcol
  <2> DEFINE e == Moved(yyf)
             g == Filled(f, data)
  <2>1. DOMAIN e = Fields /\ e.yylline = yyf.yylline /\ e.yylcol = yyf.yylcol
    BY DEF Moved, Fields
  <2>2. f = Grown(e)
    BY <1>2
  <2> HIDE DEF e
  <2>3. DOMAIN f = Fields /\ f.yylline = e.yylline /\ f.yylcol = e.yylcol
    BY <2>1, <2>2 DEF Grown, Fields
  <2>4. DOMAIN g = Fields /\ g.yylline = f.yylline /\ g.yylcol = f.yylcol
    BY <2>3 DEF Filled, Fields
  <2>5. h = [g EXCEPT !.yylpos = @ + 1]
    BY <1>2
  <2> HIDE DEF g
  <2>6. h.yylline = g.yylline /\ h.yylcol = g.yylcol
    BY <2>4, <2>5 DEF Fields
  <2> QED
    BY <2>1, <2>3, <2>4, <2>6
<1> QED
  BY <1>1, <1>2

LEMMA ConsumeLines ==
    ASSUME ParserInv, LinesInv, NEW f, NEW c, Fetched(f, c), FetchedText(f, c), scan = "char", ~yyf.freed,
           First <= Len(text), Len(text) \in Nat, Len(text') >= Len(text),
           \A i \in 1 .. Len(text) : text'[i] = text[i],
           moved' + f.yylfirst = First, f.yylline = yyf.yylline, f.yylcol = yyf.yylcol,
           UNCHANGED vars, Consume(Scanner, Start, f, c)
    PROVE  LinesInv' /\ (scan' \in {"start", "accept"} => LinesTold)
<1> DEFINE p == moved' + f.yylfirst
           b == moved' + f.yyllastpos
<1>1. ~f.freed /\ DOMAIN f = Fields /\ Holds(f, text', moved')
  BY DEF Fetched, Holds
<1>2. /\ Len(text') \in Nat /\ moved' \in Nat /\ p \in Nat /\ b \in Int /\ f.yylfirst \in Nat
      /\ f.yyllastpos \in Int /\ f.bufend \in Nat
      /\ yyllastaccept \notin {NoToken, Scanner.eof} => b \in Nat /\ p < b /\ b <= Len(text')
      /\ yyllastaccept = Scanner.eof => b = Len(text') + 1
  BY SMTT(30), FetchedPlaces, ScannerFacts
<1>3. LinesTo(text', p) = LinesTo(text, p) /\ ColumnTo(text', p) = ColumnTo(text, p)
  <2> DEFINE n == Len(text)
  <2>1. n \in Nat /\ p <= n /\ \A i \in 1 .. n : text'[i] = text[i]
    OBVIOUS
  <2>2. p \in Nat
    BY <1>2
  <2> HIDE DEF n, p
  <2> QED
    BY ONLY <2>1, <2>2, LinesOfMore
<1>4. ~dropped => /\ yylline = LinesTo(text', p) /\ yylcol = ColumnTo(text', p)
                  /\ f.yylline = yylline /\ f.yylcol = yylcol
  BY <1>3 DEF LinesInv
<1> HIDE DEF p, b
<1>5. ASSUME NEW next, Advance(Scanner, f, next) PROVE LinesInv' /\ scan' = "char"
  <2>1. /\ yylline' = yylline /\ yylcol' = yylcol /\ scan' = "char" /\ dropped' = dropped
        /\ yyf' = f \/ yyf' = [f EXCEPT !.yyllastpos = f.yylpos]
    BY <1>5 DEF Advance
  <2>2. yyf'.yylfirst = f.yylfirst /\ yyf'.yylline = f.yylline /\ yyf'.yylcol = f.yylcol
    BY <1>1, <2>1 DEF Fields
  <2>3. First' = p
    BY <2>2 DEF First, p
  <2> QED
    BY <1>4, <2>1, <2>2, <2>3 DEF LinesInv, LinesTo, ColumnTo
<1>6. ASSUME Unrecognised(Start, f) PROVE LinesInv' /\ scan' = "char"
  BY <1>6 DEF Unrecognised, LinesInv
<1>7. ASSUME yyllastaccept # NoToken, BackToAccept(Scanner, f) PROVE LinesInv' /\ LinesTold
  <2> DEFINE back == [f EXCEPT !.yylpos = f.yyllastpos]
             atEof == yyllastaccept = Scanner.eof
             freed == f.freed \/ (atEof /\ f.mine)
             token == f.yylfirst .. f.yyllastpos - 1
             lines == {i \in token : f.buffer[i] = Newline}
             tail == {i \in token \ lines : \A j \in lines : j < i}
  <2>1. /\ yyf' = IF freed THEN [back EXCEPT !.freed = TRUE] ELSE Counted(back)
        /\ scan' \in {"start", "accept"} /\ UNCHANGED <<yylline, yylcol, dropped>>
    BY <1>7 DEF BackToAccept
  <2>2. /\ back.yylfirst = f.yylfirst /\ back.yylpos = f.yyllastpos /\ DOMAIN back = Fields
        /\ back.buffer = f.buffer /\ back.yylline = f.yylline /\ back.yylcol = f.yylcol
    BY <1>1 DEF Fields
  <2> HIDE DEF back
  <2>3. yyf'.yylfirst = f.yylfirst /\ yyf'.yylpos = f.yyllastpos
    <3>1. CASE freed
      BY <2>1, <2>2, <3>1 DEF Fields
    <3>2. CASE ~freed
      BY <2>1, <2>2, <3>2 DEF Fields, Counted
    <3> QED
      BY <3>1, <3>2
  <2>4. LinesTold
    <3>1. moved' + yyf'.yylfirst = p
      BY <2>3 DEF p
    <3>2. LineOf(p) = LinesTo(text', p) /\ ColumnOf(p) = ColumnTo(text', p)
      BY DEF LineOf, ColumnOf, LinesTo, ColumnTo
    <3> QED
      BY <1>4, <2>1, <3>1, <3>2 DEF LinesTold
  <2>5. Position' = b
    BY <2>3 DEF Position, b
  <2>6. ASSUME b <= Len(text'), ~dropped
        PROVE  yyf'.yylline = LinesTo(text', b) /\ yyf'.yylcol = ColumnTo(text', b)
    <3>1. ~atEof /\ ~freed
      BY <1>1, <1>2, <2>6
    <3>2. /\ b \in Nat /\ p <= b /\ f.yyllastpos \in Nat /\ f.yylfirst <= f.yyllastpos
          /\ f.yyllastpos <= f.bufend
      <4>1. b \in Nat /\ p < b
        BY <1>2, <1>7, <3>1
      <4>2. moved' + f.bufend = Len(text')
        BY <1>1 DEF Holds
      <4>3. moved' + f.yylfirst < moved' + f.yyllastpos /\ moved' + f.yyllastpos <= moved' + f.bufend
        BY <2>6, <4>1, <4>2 DEF p, b
      <4>4. f.yylfirst < f.yyllastpos /\ f.yyllastpos <= f.bufend
        BY ONLY <1>2, <4>3
      <4> QED
        BY <1>2, <4>1, <4>4
    <3>3. yyf' = Counted(back)
      BY <2>1, <3>1
    <3> HIDE DEF freed, atEof
    <3>4. /\ yyf'.yylline = f.yylline + Cardinality(lines)
          /\ yyf'.yylcol = Cardinality(tail) + IF lines = {} THEN f.yylcol ELSE 1
      BY <2>2, <3>3 DEF Counted, Fields
    <3>5. \A i \in f.yylfirst .. f.yyllastpos - 1 : f.buffer[i] = text'[moved' + i + 1]
      <4>1. \A i \in 0 .. f.bufend - 1 : f.buffer[i] = text'[moved' + i + 1]
        BY <1>1 DEF Holds
      <4>2. \A i \in f.yylfirst .. f.yyllastpos - 1 : i \in 0 .. f.bufend - 1
        BY ONLY <1>2, <3>2
      <4> QED
        BY <4>1, <4>2
    <3>a. lines = LinesOf(f.buffer, f.yylfirst, f.yyllastpos) /\ tail = TailOf(f.buffer, f.yylfirst, f.yyllastpos)
      BY DEF LinesOf, TailOf
    <3>b. b - p = f.yyllastpos - f.yylfirst /\ p \in Nat /\ f.yylfirst \in Nat
          /\ \A i \in f.yylfirst .. f.yyllastpos - 1 : moved' + i + 1 = i + (p - f.yylfirst + 1)
      <4>1. moved' \in Nat /\ f.yylfirst \in Nat /\ f.yyllastpos \in Nat /\ p \in Nat
            /\ p = moved' + f.yylfirst /\ b = moved' + f.yyllastpos
        BY <1>2, <3>2 DEF p, b
      <4> QED
        BY ONLY <4>1
    <3>c. \A i \in f.yylfirst .. f.yyllastpos - 1 : f.buffer[i] = text'[i + (p - f.yylfirst + 1)]
      BY <3>5, <3>b
    <3> HIDE DEF token, lines, tail
    <3>8. /\ Cardinality(lines) = Cardinality(EndsOfLines(text', p, b))
          /\ Cardinality(tail) = Cardinality(OnLastLine(text', p, b))
          /\ lines = {} <=> EndsOfLines(text', p, b) = {}
      <4> DEFINE i1 == f.yylfirst
                 j1 == f.yyllastpos
                 buffer == f.buffer
                 u == text'
      <4>1. /\ i1 \in Nat /\ j1 \in Nat /\ p \in Nat /\ b \in Nat /\ i1 <= j1 /\ b - p = j1 - i1
            /\ \A i \in i1 .. j1 - 1 : buffer[i] = u[i + (p - i1 + 1)]
        BY ONLY <3>2, <3>b, <3>c
      <4>2. lines = LinesOf(buffer, i1, j1) /\ tail = TailOf(buffer, i1, j1)
        BY <3>a
      <4> HIDE DEF i1, j1, buffer, u
      <4>3. /\ Cardinality(LinesOf(buffer, i1, j1)) = Cardinality(EndsOfLines(u, p, b))
            /\ Cardinality(TailOf(buffer, i1, j1)) = Cardinality(OnLastLine(u, p, b))
            /\ LinesOf(buffer, i1, j1) = {} <=> EndsOfLines(u, p, b) = {}
        BY ONLY <4>1, CountedInText
      <4> QED
        BY <4>2, <4>3 DEF u
    <3>7. /\ LinesTo(text', b) = LinesTo(text', p) + Cardinality(EndsOfLines(text', p, b))
          /\ ColumnTo(text', b) = Cardinality(OnLastLine(text', p, b))
                               + IF EndsOfLines(text', p, b) = {} THEN ColumnTo(text', p) ELSE 1
      BY <1>2, <3>2, LinesAfter
    <3>9. f.yylline = LinesTo(text', p) /\ f.yylcol = ColumnTo(text', p)
      BY <1>4, <2>6
    <3> QED
      BY ONLY <3>4, <3>7, <3>8, <3>9
  <2>7. LinesInv'
    BY <2>1, <2>5, <2>6 DEF LinesInv, LinesTo, ColumnTo
  <2> QED
    BY <2>4, <2>7
<1>8. ASSUME ClassUndefined(f) PROVE LinesInv' /\ scan' = "undefined"
  BY <1>8 DEF ClassUndefined, LinesInv
<1> QED
  BY <1>5, <1>6, <1>7, <1>8 DEF Consume

(* Behind the end there is nothing to count.                               *)
LEMMA FreedLines == MunchInv /\ yyf.freed => LinesInv
<1> SUFFICES ASSUME MunchInv, yyf.freed PROVE LinesInv
  OBVIOUS
<1>1. Freed
  BY DEF MunchInv
<1> DEFINE n == Len(text)
<1>2. moved \in Nat /\ moved + yyf.bufend = n /\ yyf.bufend \in Nat /\ yyf.yylpos \in Nat /\ yyf.yylpos > yyf.bufend
      /\ (scan = "char" => yyf.yylfirst \in Nat /\ yyf.yylfirst > yyf.bufend)
  BY <1>1 DEF Freed
<1> HIDE DEF n
<1>3. ~(Position <= n) /\ (scan = "char" => ~(First <= n))
  BY <1>2 DEF Position, First
<1> QED
  BY <1>3 DEF LinesInv, n

LEMMA FreedLinesThen == MunchInv' /\ (yyf.freed)' => LinesInv'
BY FreedLines, PTL

LEMMA ReadCharLines ==
    ASSUME ParserInv, BufferInv, MunchInv, MunchInv', LinesInv, UNCHANGED vars, ReadChar(Scanner, Start)
    PROVE  LinesInv' /\ (scan' \in {"start", "accept"} => LinesTold)
<1>1. scan = "char" /\ DOMAIN yyf = Fields
  BY DEF ReadChar, BufferInv
<1>a. ~yyf.freed => /\ text \in Seq(Scanner.chars) /\ Len(text) \in Nat
                    /\ yyf.yylfirst <= yyf.bufend => First <= Len(text)
  <2> SUFFICES ASSUME ~yyf.freed
               PROVE  /\ text \in Seq(Scanner.chars) /\ Len(text) \in Nat
                      /\ yyf.yylfirst <= yyf.bufend => First <= Len(text)
    OBVIOUS
  <2>1. /\ text \in Seq(Scanner.chars) /\ moved \in Nat /\ moved + yyf.bufend = Len(text)
        /\ yyf.yylfirst \in Nat /\ yyf.bufend \in Nat
    BY DEF BufferInv, Holds
  <2>2. Len(text) \in Nat
    BY <2>1, LenProperties
  <2>3. yyf.yylfirst <= yyf.bufend => moved + yyf.yylfirst <= moved + yyf.bufend
    BY <2>1
  <2> QED
    BY <2>1, <2>2, <2>3 DEF First
<1>2. CASE /\ yyf.yylpos < yyf.bufend /\ UNCHANGED <<text, atEnd, moved>>
           /\ Consume(Scanner, Start, [yyf EXCEPT !.yylpos = @ + 1], yyf.buffer[yyf.yylpos])
  <2> DEFINE f == [yyf EXCEPT !.yylpos = @ + 1]
             c == yyf.buffer[yyf.yylpos]
  <2>1. ~yyf.freed
    BY <1>2 DEF MunchInv, Freed
  <2>2. Fetched(f, c)
    BY <1>1, <1>2, <2>1, ReadFromBuffer
  <2>3. FetchedText(f, c) /\ moved' + f.yylfirst = First
    BY <1>1, <1>2, <2>1, BufferText
  <2>4. f.yylline = yyf.yylline /\ f.yylcol = yyf.yylcol
    BY <1>1, LinesOfBuffer
  <2>5. yyf.yylfirst <= yyf.bufend
    <3>1. yyf.yylfirst \in Nat /\ yyf.yylpos \in Nat /\ yyf.bufend \in Nat /\ yyf.yyllastpos \in Int
      BY <2>1 DEF BufferInv, Holds
    <3>2. Scanned(yyf)
      BY <1>1, <1>2, <2>1, <3>1 DEF BufferInv, BehindEnd
    <3> QED
      BY <3>1, <3>2 DEF Scanned
  <2>6. Consume(Scanner, Start, f, c)
    BY <1>2
  <2> HIDE DEF f, c
  <2>7. Len(text') >= Len(text) /\ \A i \in 1 .. Len(text) : text'[i] = text[i]
    BY <1>2, <1>a, <2>1
  <2> QED
    BY <1>1, <1>a, <2>1, <2>2, <2>3, <2>4, <2>5, <2>6, <2>7, ConsumeLines
<1>3. CASE /\ yyf.freed /\ UNCHANGED <<text, atEnd, moved>>
           /\ Consume(Scanner, Start,
                      [yyf EXCEPT !.yylpos = IF @ < PositionBound THEN @ + 1 ELSE @], Eof)
  <2> DEFINE f == [yyf EXCEPT !.yylpos = IF @ < PositionBound THEN @ + 1 ELSE @]
  <2>1. DOMAIN f = Fields /\ f.freed /\ f.yylfirst = yyf.yylfirst /\ Consume(Scanner, Start, f, Eof)
    BY <1>1, <1>3 DEF Fields
  <2> HIDE DEF f
  <2>2. ASSUME NEW next, Advance(Scanner, f, next) PROVE yyf'.freed /\ scan' = scan
    BY <2>1, <2>2 DEF Advance, Fields
  <2>3. ASSUME Unrecognised(Start, f) PROVE yyf'.freed /\ scan' = scan
    BY <2>1, <2>3 DEF Unrecognised, Fields
  <2>4. ASSUME BackToAccept(Scanner, f) PROVE yyf'.freed /\ yyf'.yylfirst = yyf.yylfirst
    BY <2>1, <2>4 DEF BackToAccept, Fields
  <2>a. ASSUME ClassUndefined(f) PROVE yyf'.freed /\ yyf'.yylfirst = yyf.yylfirst
    BY <2>1, <2>a DEF ClassUndefined
  <2>5. yyf'.freed /\ (scan' = scan \/ yyf'.yylfirst = yyf.yylfirst)
    BY <2>1, <2>2, <2>3, <2>4, <2>a DEF Consume
  <2>6. LinesInv'
    BY <2>5, FreedLinesThen
  <2>7. ASSUME yyf'.yylfirst = yyf.yylfirst PROVE LinesTold
    <3> DEFINE n == Len(text)
    <3>1. moved \in Nat /\ moved + yyf.bufend = n /\ yyf.bufend \in Nat
          /\ yyf.yylfirst \in Nat /\ yyf.yylfirst > yyf.bufend
      BY <1>1, <1>3 DEF MunchInv, Freed
    <3> HIDE DEF n
    <3>2. ~(moved + yyf.yylfirst <= n)
      BY <3>1
    <3> QED
      BY <1>3, <2>7, <3>2 DEF LinesTold, n
  <2> QED
    BY <1>1, <2>5, <2>6, <2>7
<1>4. ASSUME NEW f, f = Grown(Moved(yyf)), NEW data \in Delivered(Scanner.chars, f.buflen - f.bufend),
             yyf.yylpos >= yyf.bufend, ~yyf.freed, yyf.yylfirst <= yyf.bufend,
             text' = text \o data, atEnd' = (data = <<>>), moved' = moved + yyf.yylfirst,
             Consume(Scanner, Start, [Filled(f, data) EXCEPT !.yylpos = @ + 1],
                     IF data = <<>> THEN Eof ELSE Filled(f, data).buffer[f.yylpos])
      PROVE  LinesInv' /\ (scan' \in {"start", "accept"} => LinesTold)
  <2> DEFINE h == [Filled(f, data) EXCEPT !.yylpos = @ + 1]
             c == IF data = <<>> THEN Eof ELSE Filled(f, data).buffer[f.yylpos]
  <2>1. Fetched(h, c)
    BY <1>1, <1>4, ReadFromFile
  <2>2. FetchedText(h, c) /\ moved' + h.yylfirst = First
    BY <1>1, <1>4, FileText
  <2>3. Consume(Scanner, Start, h, c)
    BY <1>4
  <2>4. h.yylline = yyf.yylline /\ h.yylcol = yyf.yylcol
    BY <1>1, <1>4, LinesOfBuffer
  <2>5. data \in Seq(Scanner.chars)
    <3>1. yyf.yylfirst <= yyf.yylpos
      BY <1>4 DEF BufferInv, Holds
    <3> QED
      BY <1>1, <1>4, <3>1, FillFacts
  <2>6. Len(text') >= Len(text) /\ \A i \in 1 .. Len(text) : text'[i] = text[i]
    <3>1. /\ Len(text \o data) = Len(text) + Len(data)
          /\ \A i \in 1 .. Len(text) : (text \o data)[i] = text[i]
      BY <1>4, <1>a, <2>5, PieceOfMore
    <3>2. Len(data) \in Nat
      BY <2>5, LenProperties
    <3> QED
      BY <1>4, <1>a, <3>1, <3>2
  <2> HIDE DEF h, c
  <2> QED
    BY <1>1, <1>4, <1>a, <2>1, <2>2, <2>3, <2>4, <2>6, ConsumeLines
<1> QED
  BY <1>2, <1>3, <1>4 DEF ReadChar

LEMMA LinesInit == RunInit => LinesInv
<1> SUFFICES ASSUME RunInit PROVE LinesInv
  OBVIOUS
<1>1. scan = "start" /\ moved = 0
  BY DEF RunInit, ScanInit
<1>2. yyf.yylpos = 0 /\ yyf.yylline = 1 /\ yyf.yylcol = 1
  <2>1. ASSUME NEW b, yyf = yyfInit(b) PROVE yyf.yylpos = 0 /\ yyf.yylline = 1 /\ yyf.yylcol = 1
    BY <2>1 DEF yyfInit
  <2>2. \E b : yyf = yyfInit(b)
    BY DEF RunInit, ScanInit
  <2> QED
    BY <2>1, <2>2
<1>3. Position = 0
  BY <1>1, <1>2 DEF Position
<1>4. /\ {i \in 1 .. 0 : text[i] = Newline} = {}
      /\ {i \in 1 .. 0 : \A j \in i .. 0 : text[j] # Newline} = {}
  OBVIOUS
<1>5. LinesTo(text, 0) = 1 /\ ColumnTo(text, 0) = 1
  BY <1>4, FS_EmptySet DEF LinesTo, ColumnTo
<1> QED
  BY <1>1, <1>2, <1>3, <1>5 DEF LinesInv

LEMMA LinesInductive ==
    ParserInv /\ BufferInv /\ MunchInv /\ MunchInv' /\ LinesInv /\ [RunNext]_runVars
        => LinesInv' /\ (scan = "char" /\ scan' \in {"start", "accept"} => LinesTold)
<1> SUFFICES ASSUME ParserInv, BufferInv, MunchInv, MunchInv', LinesInv, [RunNext]_runVars
             PROVE  LinesInv' /\ (scan = "char" /\ scan' \in {"start", "accept"} => LinesTold)
  OBVIOUS
<1>1. ASSUME UNCHANGED <<yyf, text, moved, scan, dropped, yylline, yylcol>> PROVE LinesInv' /\ scan' = scan
  BY <1>1 DEF LinesInv, Position, First, LinesTo, ColumnTo
<1>2. ASSUME Parse \/ UNCHANGED runVars PROVE LinesInv' /\ scan' = scan
  BY <1>1, <1>2 DEF Parse, runVars, lexVars
<1>3. ASSUME Deliver PROVE LinesInv' /\ scan # "char"
  <2>1. /\ scan = "accept" /\ scan' = "start" /\ UNCHANGED <<yyf, text, moved, dropped>>
    BY <1>3 DEF Deliver, TokenTaken
  <2> QED
    BY <2>1 DEF LinesInv, Position, LinesTo, ColumnTo
<1>4. ASSUME BeginToken(Start) PROVE LinesInv' /\ scan # "char"
  <2>1. /\ scan = "start" /\ scan' = "char" /\ yylline' = yyf.yylline /\ yylcol' = yyf.yylcol
        /\ yyf' = [yyf EXCEPT !.yylfirst = yyf.yylpos]
        /\ UNCHANGED <<text, moved, dropped>>
    BY <1>4 DEF BeginToken
  <2>2. yyf'.yylfirst = yyf.yylpos /\ yyf'.yylline = yyf.yylline /\ yyf'.yylcol = yyf.yylcol
    BY <2>1 DEF BufferInv, Fields
  <2>3. First' = Position
    BY <2>1, <2>2 DEF First, Position
  <2> QED
    BY <2>1, <2>2, <2>3 DEF LinesInv, LinesTo, ColumnTo
<1>5. ASSUME MoveNegative PROVE LinesInv' /\ scan' \notin {"start", "accept"}
  BY <1>5 DEF MoveNegative, LinesInv
<1>6. ASSUME ReadChar(table.lexer, Start), UNCHANGED vars
      PROVE  LinesInv' /\ (scan' \in {"start", "accept"} => LinesTold)
  BY <1>6, ReadCharLines DEF Scanner
<1> QED
  BY <1>2, <1>3, <1>4, <1>5, <1>6 DEF RunNext, Scan

(* Every token is the longest piece of the text, from the first character  *)
(* on that begins one, that an expression wanted in the parser's state     *)
(* describes, and "$" comes at the end of the text only; its line and      *)
(* column are those of its place in the text.                              *)
THEOREM MunchesCorrect == RunSpec => TokensAreMunches
<1> DEFINE Told == scan = "char" /\ scan' \in {"start", "accept"} => TokenIsMunch
<1>1. RunInit => BufferInv /\ MunchInv /\ LinesInv
  BY BufferInit, MunchInit, LinesInit
<1>2. ParserInv /\ BufferInv /\ MunchInv /\ LinesInv /\ [RunNext]_runVars
         => BufferInv' /\ MunchInv' /\ LinesInv' /\ Told
  <2>1. Munched /\ LinesTold => TokenIsMunch
    BY DEF Munched, LinesTold, TokenIsMunch
  <2> QED
    BY <2>1, BufferInductive, MunchInductive, LinesInductive
<1>3. Told => [Told]_lexVars
  OBVIOUS
<1>4. RunSpec => []ParserInv
  BY RunIsParser, ParserSafe, PTL
<1>5. RunSpec => RunInit /\ [][RunNext]_runVars
  BY PTL DEF RunSpec
<1>6. TokensAreMunches <=> [][Told]_lexVars
  BY DEF TokensAreMunches
<1> HIDE DEF Told
<1>7. RunSpec => [][Told]_lexVars
  BY <1>1, <1>2, <1>3, <1>4, <1>5, PTL
<1> QED
  BY <1>6, <1>7
=============================================================================
