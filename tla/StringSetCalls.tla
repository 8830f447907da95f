--------------------------- MODULE StringSetCalls ---------------------------
(***************************************************************************)
(* Any sequence of calls on objects of StringSet2, as computeFirst() and   *)
(* the LALR(k) code make them, next to the sets of strings the calls ask   *)
(* for.                                                                    *)
(***************************************************************************)
EXTENDS StringSet2

CONSTANTS
    Token, Object,
    CallBound       \* the calls of a sequence

ASSUME CallBoundAssumption == CallBound \in Nat

VARIABLES
    sets,       \* the objects
    contents,   \* the strings that should be in them
    maxed,      \* the objects into which addMax() has put strings
    calls       \* the number of calls made

Words == {<<>>} \union {<<t>> : t \in Token} \union (Token \X Token)

vars == <<sets, contents, maxed, calls>>

Init ==
    /\ sets = [o \in Object |-> NewSet]
    /\ contents = [o \in Object |-> {}]
    /\ maxed = {}
    /\ calls = 0

(* A call on o leaves set and strings, and makes o one of "maxed" or not.  *)
Becomes(o, set, strings) ==
    /\ calls < CallBound /\ calls' = calls + 1
    /\ sets' = [sets EXCEPT ![o] = set]
    /\ contents' = [contents EXCEPT ![o] = strings]
Mixed(o, p) == maxed' = IF p \in maxed THEN maxed \union {o} ELSE maxed

CallClear(o) ==
    Becomes(o, Clear(sets[o]), {}) /\ maxed' = maxed \ {o}

CallAddString(o) ==
    /\ \E str \in Words : Becomes(o, AddString(sets[o], str), contents[o] \union {str})
    /\ UNCHANGED maxed

CallDeleteEmpty(o) ==
    Becomes(o, DeleteEmpty(sets[o]), contents[o] \ {<<>>}) /\ UNCHANGED maxed

CallAppendToken(o) ==
    /\ \E t \in Token : Becomes(o, AppendToken(sets[o], t), Concat2(contents[o], {<<t>>}))
    /\ UNCHANGED maxed

CallAdd(o, p) ==
    Becomes(o, Add(sets[o], sets[p]), contents[o] \union contents[p]) /\ Mixed(o, p)

CallAddMax(o, p) ==
    /\ Becomes(o, AddMax(sets[o], sets[p]),
               contents[o] \union {str \in contents[p] : Len(str) = 2})
    /\ maxed' = maxed \union {o}

CallAppend(o, p) ==
    Becomes(o, Append2(sets[o], sets[p]), Concat2(contents[o], contents[p])) /\ Mixed(o, p)

Next ==
    \E o \in Object :
        \/ CallClear(o) \/ CallAddString(o) \/ CallDeleteEmpty(o) \/ CallAppendToken(o)
        \/ \E p \in Object \ {o} : CallAdd(o, p) \/ CallAddMax(o, p) \/ CallAppend(o, p)

Spec == Init /\ [][Next]_vars
-----------------------------------------------------------------------------
(* Every object is a set over the tokens.                                  *)
TypeOK ==
    /\ sets \in [Object -> StringSets(Token)]
    /\ contents \in [Object -> SUBSET Words]
    /\ maxed \subseteq Object
    /\ calls \in 0 .. CallBound

(* No sequence of calls loses a string, as long as addMax() is not among   *)
(* them: append() joins what the separate bit sets hold.                   *)
NothingLost == \A o \in Object \ maxed : contents[o] \subseteq Strings(sets[o])

(* What add, addMax and append decide by: isEmpty, "No non-null elements"  *)
(* (stringset2.h:61), is never set of an object that has some, and         *)
(* firstsym is the first tokens of the strings unless addMax() was called. *)
FlagsAgree ==
    \A o \in Object :
        /\ sets[o].isEmpty => Strings(sets[o]) \subseteq {<<>>}
        /\ o \notin maxed => sets[o].firstsym = FirstTokens(Strings(sets[o]))
=============================================================================
