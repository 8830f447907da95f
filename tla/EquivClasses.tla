---------------------------- MODULE EquivClasses ----------------------------
(***************************************************************************)
(* The class EquivClassSet (equiv.cc): a partition of 0 .. size-1, each    *)
(* class a list linked in both directions.  Fields as in the source:       *)
(* group[c] the class of c, repelems[k] the head of class k, felems and    *)
(* relems the neighbours in the list, nGroups the number of classes.       *)
(***************************************************************************)
EXTENDS Integers, Sequences, FiniteSets, SequencesExt, TLC

NIL == -1
Elements(ecs) == DOMAIN ecs.group

AllInOne(size) ==
    [group    |-> [c \in 0 .. size - 1 |-> 0],
     felems   |-> [c \in 0 .. size - 1 |-> c - 1],
     relems   |-> [c \in 0 .. size - 1 |-> IF c = size - 1 THEN NIL ELSE c + 1],
     repelems |-> [c \in 0 .. size - 1 |-> IF c = 0 THEN 0 ELSE NIL],
     nGroups  |-> 1]

(* Op(x), for an x that is to be computed once.                            *)
Then(x, Op(_)) == CHOOSE y \in {Op(v) : v \in {x}} : TRUE

(* The elements of a class in the order of its list, as far as the links   *)
(* lead: at most one visit for every element there is.                     *)
Members(ecs, k) ==
    LET n == Cardinality(Elements(ecs))
        next(list) == IF list = <<>> THEN ecs.repelems[k] ELSE ecs.relems[list[Len(list)]]
        step(list) == IF next(list) = NIL THEN list ELSE Append(list, next(list))
        walk[i \in 0 .. n] == IF i = 0 THEN <<>> ELSE Then(walk[i - 1], step)
    IN  walk[n]

(* The elements of a list that are in the set, in the order they have.     *)
Picked(list, set) ==
    LET pick[i \in 0 .. Len(list)] ==
            IF i = 0 THEN <<>>
            ELSE IF list[i] \in set THEN Append(pick[i - 1], list[i]) ELSE pick[i - 1]
    IN  pick[Len(list)]

(* The links of the elements of a list, written over those of ecs.         *)
Linked(ecs, list) ==
    LET at(c) == CHOOSE i \in DOMAIN list : list[i] = c
        before(c) == IF at(c) = 1 THEN NIL ELSE list[at(c) - 1]
        after(c) == IF at(c) = Len(list) THEN NIL ELSE list[at(c) + 1]
    IN  [ecs EXCEPT
            !.felems = [c \in Elements(ecs) |-> IF c \in ToSet(list) THEN before(c) ELSE ecs.felems[c]],
            !.relems = [c \in Elements(ecs) |-> IF c \in ToSet(list) THEN after(c) ELSE ecs.relems[c]]]

NewClass(ecs, leave) ==
    [ecs EXCEPT
        !.group = [c \in Elements(ecs) |-> IF c \in ToSet(leave) THEN ecs.nGroups ELSE ecs.group[c]],
        !.repelems = [@ EXCEPT ![ecs.nGroups] = Head(leave)],
        !.nGroups = @ + 1]

(* splitCharClass: those that differ from the representative leave for a   *)
(* new class, in the order they had.                                       *)
Split(ecs, stay, leave) ==
    IF leave = <<>> THEN ecs ELSE NewClass(Linked(Linked(ecs, stay), leave), leave)

SplitClass(ecs, k, set) ==
    LET others == Elements(ecs) \ set
        inout == ecs.repelems[k] \in set
        split(list) ==
            Then(Picked(list, IF inout THEN set ELSE others), LAMBDA stay :
                Then(Picked(list, IF inout THEN others ELSE set), LAMBDA leave : Split(ecs, stay, leave)))
    IN  Then(Members(ecs, k), split)

(* convertToEquivSet: the classes the characters are in.                   *)
ConvertToEquivSet(ecs, set) == {ecs.group[c] : c \in set}

(* setChar: c leaves its list and goes to the head of class k.  A head     *)
(* that leaves is looked up no more only if it was the last of its class.  *)
SetChar(ecs, c, k) ==
    LET before == ecs.felems[c]
        after == ecs.relems[c]
        head == ecs.repelems[k]
        linked(links, from, to) == IF from = NIL THEN links ELSE [links EXCEPT ![from] = to]
        left == IF before = NIL /\ after = NIL
                THEN [ecs.repelems EXCEPT ![ecs.group[c]] = NIL] ELSE ecs.repelems
    IN  IF ecs.group[c] = k THEN ecs
        ELSE [group    |-> [ecs.group EXCEPT ![c] = k],
              relems   |-> [linked(ecs.relems, before, after) EXCEPT ![c] = head],
              felems   |-> [linked(linked(ecs.felems, after, before), head, c) EXCEPT ![c] = NIL],
              repelems |-> [left EXCEPT ![k] = c],
              nGroups  |-> IF ecs.nGroups <= k THEN k + 1 ELSE ecs.nGroups]

(* tidy: the classes with members move down over those without, the last   *)
(* one first.                                                              *)
MutLastButOne(ecs) ==
    LET used == {k \in 0 .. ecs.nGroups - 2 : ecs.repelems[k] # NIL}
    IN  IF used = {} THEN NIL ELSE CHOOSE k \in used : \A l \in used : l <= k
LastNonEmpty(ecs) ==
    LET used == {k \in 0 .. ecs.nGroups - 1 : ecs.repelems[k] # NIL}
    IN  IF used = {} THEN NIL ELSE CHOOSE k \in used : \A l \in used : l <= k

MoveDown(ecs, last, k) ==
    IF k >= last \/ ecs.repelems[k] # NIL THEN ecs
    ELSE [ecs EXCEPT
            !.group = [c \in Elements(ecs) |-> IF c \in ToSet(Members(ecs, last)) THEN k ELSE ecs.group[c]],
            !.repelems = [ecs.repelems EXCEPT ![k] = ecs.repelems[last], ![last] = NIL]]

Tidy(ecs) ==
    LET moved[k \in 0 .. ecs.nGroups] ==
            IF k = 0 THEN ecs
            ELSE Then(moved[k - 1], LAMBDA e : MoveDown(e, LastNonEmpty(e), k - 1))
    IN  Then(moved[ecs.nGroups], LAMBDA e : [e EXCEPT !.nGroups = LastNonEmpty(e) + 1])

(* sortClasses: the classes numbered by their least elements, which become *)
(* the representatives; the lists stay as they are.                        *)
SortClasses(ecs) ==
    LET leasts == {c \in Elements(ecs) : \A d \in 0 .. c - 1 : ecs.group[d] # ecs.group[c]}
        number(c) == Cardinality({d \in leasts : d < c})
        least(c) == CHOOSE d \in leasts : ecs.group[d] = ecs.group[c]
    IN  [ecs EXCEPT
            !.group = [c \in Elements(ecs) |-> number(least(c))],
            !.repelems = [k \in Elements(ecs) |->
                IF k < Cardinality(leasts) THEN CHOOSE d \in leasts : number(d) = k ELSE ecs.repelems[k]]]
-----------------------------------------------------------------------------
(* The invariant() of the class, one conjunct for each of its CHECKs.      *)
ListsHold(ecs) ==
    LET used == {k \in DOMAIN ecs.repelems : ecs.repelems[k] # NIL}
    IN  /\ ecs.nGroups > 0 /\ ecs.nGroups <= Cardinality(Elements(ecs))
        /\ \A k \in used :
            /\ ecs.felems[ecs.repelems[k]] = NIL
            /\ \A c \in ToSet(Members(ecs, k)) :
                /\ ecs.group[c] = k
                /\ ecs.relems[c] # NIL => ecs.felems[ecs.relems[c]] = c
            /\ IsInjective(Members(ecs, k))
        /\ \A c \in Elements(ecs) : Cardinality({k \in used : c \in ToSet(Members(ecs, k))}) = 1
=============================================================================
