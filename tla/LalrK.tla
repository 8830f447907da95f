------------------------------- MODULE LalrK -------------------------------
(***************************************************************************)
(* LRTable::computeLALRkSets (lalrk.cc): for every item of the automaton   *)
(* the strings of up to two tokens that may follow it, and from them what  *)
(* may follow every edge, which is what the lexical conflict resolver asks *)
(* for.  The recursion of lalrk() and lalrksub() is the sequence "kCalls": *)
(* an activation has its arguments, the origins its loop has not come to,  *)
(* and "result" and "done", which a callee updates in place.               *)
(***************************************************************************)
EXTENDS Lalr, SequencesExt, StringSet2

CONSTANT PastEnd    \* what a right side seems to hold past its end, 0 for no symbol

VARIABLES
    first,          \* Nonterminal::first, from computeFirst
    itemState,      \* the counters of the loop: the state, the items to come
    itemsLeft,
    kCalls,
    memo,           \* LRItem::follows[1] and [2]
    itemFollows,    \* LRItem::followsk, of an end item LRReduceEdge::followsk too
    edgeFollows,    \* LRShiftEdge::followsk
    mixed,          \* history: the entries of memo that began with strings of a caller
    misused         \* history: one of these was used, or strings were replaced

history == <<mixed, misused>>
kVars == <<itemState, itemsLeft, kCalls, memo, itemFollows, edgeFollows, history>>

(* LRItem::operator<.                                                      *)
ItemBefore(i, j) == i.pos > j.pos \/ (i.pos = j.pos /\ i.rule < j.rule)
Foremost(S) == CHOOSE i \in S : \A j \in S \ {i} : ItemBefore(i, j)

(* firstk(): the strings after the symbol the item is at.                  *)
FirstK(i) ==
    LET syms == grammar.rules[i.rule].syms
        Extended[k \in i.pos + 1 .. Len(syms)] ==
            IF k = i.pos + 1 THEN AddEmpty(NewSet)
            ELSE IF syms[k] \in Terminals(grammar) THEN AppendToken(Extended[k - 1], syms[k])
            ELSE Append2(Extended[k - 1], first[syms[k]])
    IN  Extended[Len(syms)]

(* mutant: backtracks a state short                                        *)
MutOriginsShort(i, q) ==
    UNION {{[st |-> p, item |-> j] :
              j \in {l \in items[p] : ~IsEnd(grammar, l)
                                      /\ NextSym(grammar, l) = grammar.rules[i.rule].nonterm}} :
           p \in Back({q}, IF i.pos > 0 THEN i.pos - 1 ELSE 0)}

(* The items an item's rule was begun for, in the states backtrack() ends  *)
(* at.  The code reads the next symbol of a finished item too.             *)
Origins(i, q) ==
    LET A == grammar.rules[i.rule].nonterm
        Begins(j) == IF IsEnd(grammar, j) THEN RuleLength(grammar, j.rule) > 0 /\ PastEnd = A
                     ELSE NextSym(grammar, j) = A
    IN  UNION {{[st |-> p, item |-> j] : j \in {l \in items[p] : Begins(l)}} :
               p \in Back({q}, i.pos)}

FirstOrigin(S) ==
    CHOOSE o \in S : \A u \in S \ {o} :
        o.st < u.st \/ (o.st = u.st /\ ItemBefore(o.item, u.item))

Activation(i, q, k, result, done, todo) ==
    [item |-> i, st |-> q, k |-> k, result |-> result, done |-> done, todo |-> todo,
     waitsFor |-> "nothing"]

(* The call lalrksub( item, state, k, result, done ): a set computed       *)
(* before replaces what "result" had.                                      *)
LalrKSub(i, q, k, result, done) ==
    IF memo[q, i, k] # <<>> THEN Activation(i, q, k, memo[q, i, k], done, {})
    ELSE Activation(i, q, k, result, done \union {[st |-> q, item |-> i]}, Origins(i, q))

(* The call lalrk( item, state, k, result ) with an empty result.          *)
LalrK(i, q, k) ==
    IF grammar.rules[i.rule].nonterm = StartSymbol(grammar)
    THEN Activation(i, q, k, AddEmpty(NewSet), {}, {})
    ELSE LalrKSub(i, q, k, NewSet, {})

Running == Last(kCalls)
Callers == Front(kCalls)

(* The end of the loop body for an origin: where the strings after it may  *)
(* be empty, what follows the origin is joined in.                         *)
PastOrigin(a, o) ==
    LET over == [a EXCEPT !.todo = @ \ {o}, !.waitsFor = "nothing"]
    IN  IF FirstK(o.item).hasNull /\ o \notin a.done
        THEN <<[over EXCEPT !.waitsFor = "rest"], LalrKSub(o.item, o.st, a.k, a.result, a.done)>>
        ELSE <<over>>
-----------------------------------------------------------------------------
KInit ==
    /\ itemState = 0 /\ itemsLeft = {} /\ kCalls = <<>>
    /\ memo = <<>> /\ itemFollows = <<>> /\ edgeFollows = <<>>
    /\ mixed = {} /\ misused = FALSE

ItemKeys == UNION {{q} \X items[q] : q \in DOMAIN items}
MemoKeys == UNION {{q} \X items[q] \X {1, 2} : q \in DOMAIN items}

StartItems2 ==
    /\ itemState = 0
    /\ itemState' = 1 /\ itemsLeft' = items[1]
    /\ memo' = [key \in MemoKeys |-> <<>>]
    /\ itemFollows' = [key \in ItemKeys |-> <<>>]
    /\ edgeFollows' = [q \in DOMAIN items |-> [x \in Symbols(grammar) |-> <<>>]]
    /\ UNCHANGED <<allVars, first, kCalls, history>>

CallForItem ==
    /\ kCalls = <<>> /\ itemsLeft # {}
    /\ kCalls' = <<LalrK(Foremost(itemsLeft), itemState, 2)>>
    /\ UNCHANGED <<allVars, first, itemState, itemsLeft, memo, itemFollows, edgeFollows, history>>

(* The next origin: the strings of two tokens are joined in; if some are   *)
(* shorter, but not empty, they are to be made longer.                     *)
NextOrigin ==
    /\ kCalls # <<>> /\ Running.todo # {}
    /\ \E o \in {FirstOrigin(Running.todo)} : \E set1 \in {FirstK(o.item)} :
        LET maxed == [Running EXCEPT !.result = AddMax(@, set1)]
            j == Running.k - MinLengthOf(set1)
        IN  kCalls' = Callers \o
                IF 0 < j /\ j < Running.k
                THEN <<[maxed EXCEPT !.waitsFor = "longer"], LalrK(o.item, o.st, j)>>
                ELSE PastOrigin(maxed, o)
    /\ UNCHANGED <<allVars, first, itemState, itemsLeft, memo, itemFollows, edgeFollows, history>>

Returns == kCalls # <<>> /\ Running.todo = {}

(* "So sue me...": a call leaves the result it was handed and has added    *)
(* to as the set of its item.                                              *)
Remember ==
    LET key == <<Running.st, Running.item, Running.k>>
        known == memo[key] # <<>>
        shares == Len(kCalls) > 1 /\ Last(Callers).waitsFor = "rest"
    IN  /\ memo' = IF grammar.rules[Running.item.rule].nonterm = StartSymbol(grammar) THEN memo
                   ELSE [memo EXCEPT ![key] = Running.result]
        /\ mixed' = IF shares /\ ~known THEN mixed \union {key} ELSE mixed
        /\ misused' = (misused \/ (known /\ (key \in mixed
                                          \/ (shares /\ Last(Callers).result # NewSet))))

(* What lalrk() found is appended to the shorter strings.                  *)
ReturnLonger ==
    /\ Returns /\ Len(kCalls) > 1 /\ Last(Callers).waitsFor = "longer"
    /\ \E o \in {FirstOrigin(Last(Callers).todo)} :
        LET more == Append2(DeleteEmpty(FirstK(o.item)), Running.result)
        IN  kCalls' = Front(Callers) \o
                      PastOrigin([Last(Callers) EXCEPT !.result = Add(@, more)], o)
    /\ Remember
    /\ UNCHANGED <<allVars, first, itemState, itemsLeft, itemFollows, edgeFollows>>

ReturnRest ==
    /\ Returns /\ Len(kCalls) > 1 /\ Last(Callers).waitsFor = "rest"
    /\ kCalls' = Append(Front(Callers),
                        [Last(Callers) EXCEPT !.result = Running.result, !.done = Running.done,
                                              !.waitsFor = "nothing"])
    /\ Remember
    /\ UNCHANGED <<allVars, first, itemState, itemsLeft, itemFollows, edgeFollows>>

(* The edge of the item's next symbol: what the item can shift and what    *)
(* follows it then, besides what other items of the state have given it.   *)
WithEdge(old, i, follows) ==
    Add(IF old = <<>> THEN NewSet ELSE old, Append2(FirstK(i), follows))

(* mutant: the loop does not go on to the next item                        *)
MutKeepsItem ==
    /\ Returns /\ Len(kCalls) = 1
    /\ Remember
    /\ itemFollows' = [itemFollows EXCEPT ![<<itemState, Running.item>>] = Running.result]
    /\ kCalls' = <<>>
    /\ UNCHANGED <<allVars, first, itemState, itemsLeft, edgeFollows>>

(* The call for the item has returned.                                     *)
ApplyItem ==
    /\ Returns /\ Len(kCalls) = 1
    /\ Remember
    /\ LET i == Running.item
       IN  /\ itemFollows' = [itemFollows EXCEPT ![<<itemState, i>>] = Running.result]
           /\ edgeFollows' = IF IsEnd(grammar, i) THEN edgeFollows
                             ELSE [edgeFollows EXCEPT ![itemState][NextSym(grammar, i)] =
                                      WithEdge(@, i, Running.result)]
           /\ itemsLeft' = itemsLeft \ {i}
    /\ kCalls' = <<>>
    /\ UNCHANGED <<allVars, first, itemState>>

NextItemState ==
    /\ itemState \in DOMAIN items /\ itemsLeft = {} /\ kCalls = <<>>
    /\ itemState' = itemState + 1
    /\ itemsLeft' = IF itemState' \in DOMAIN items THEN items[itemState'] ELSE {}
    /\ memo' = IF itemState' \in DOMAIN items THEN memo ELSE <<>>
    /\ UNCHANGED <<allVars, first, kCalls, itemFollows, edgeFollows, history>>

KNext ==
    \/ StartItems2 \/ CallForItem \/ NextOrigin \/ ReturnLonger \/ ReturnRest
    \/ ApplyItem \/ NextItemState
-----------------------------------------------------------------------------
(***************************************************************************)
(* Reference: LALR(2) by propagation of strings of up to two tokens, the   *)
(* end of everything being the empty one.                                  *)
(***************************************************************************)
BeginningsOf(X, table) ==
    IF X \in Terminals(grammar) THEN {<<X>>} ELSE {f[2] : f \in {h \in table : h[1] = X}}

After2(tr, table) ==
    LET syms == grammar.rules[tr.item.rule].syms
        C[k \in tr.item.pos + 1 .. Len(syms) + 1] ==
            IF k = Len(syms) + 1 THEN {tr.la}
            ELSE Concat2(BeginningsOf(syms[k], table), C[k + 1])
    IN  C[tr.item.pos + 2]

Successors2(tr, table) ==
    IF IsEnd(grammar, tr.item) THEN {}
    ELSE LET X == NextSym(grammar, tr.item)
         IN  {[st |-> goto[tr.st][X], item |-> [tr.item EXCEPT !.pos = @ + 1], la |-> tr.la]}
             \union {[st |-> tr.st, item |-> [rule |-> r, pos |-> 0], la |-> str] :
                        r \in RulesOf(grammar, X), str \in After2(tr, table)}

Propagated2(table) ==
    LET start == {[st |-> 1, item |-> [rule |-> StartRule(grammar), pos |-> 0], la |-> <<>>]}
        P[n \in 0 .. PropagationBound] ==
            IF n = 0 THEN [all |-> start, new |-> start]
            ELSE LET before == P[n - 1]
                     found == UNION {Successors2(tr, table) : tr \in before.new}
                 IN  [all |-> before.all \union found, new |-> found \ before.all]
    IN  P[PropagationBound]
=============================================================================
