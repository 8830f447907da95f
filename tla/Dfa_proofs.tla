----------------------------- MODULE Dfa_proofs -----------------------------
(***************************************************************************)
(* The subset construction, for every automaton: the partition of the      *)
(* characters (equiv.cc), the closures (nfa.cc), the table (dfa.cc) and    *)
(* the predecessor sets. The table accepts what the automaton describes.   *)
(***************************************************************************)
EXTENDS Dfa, TLAPS, FiniteSetTheorems, FunctionTheorems, SequenceTheorems

(* Among finite sets there is a least one by inclusion.                    *)
LEMMA LeastFinite ==
    ASSUME NEW S, NEW T, T # {}, T \subseteq FiniteSubsetsOf(S)
    PROVE  \E x \in T : \A y \in T : ~(y \subseteq x /\ y # x)
<1> DEFINE R == StrictSubsetOrdering(S)
           F == FiniteSubsetsOf(S)
<1>1. \A x, y \in F : y \subseteq x /\ y # x => <<y, x>> \in R
  BY DEF StrictSubsetOrdering, FiniteSubsetsOf
<1>2. IsWellFoundedOn(R, F) /\ T \subseteq F
  BY FS_StrictSubsetOrderingWellFounded
<1> HIDE DEF R, F
<1>3. PICK x \in T : \A y \in T : ~(<<y, x>> \in R)
  BY <1>2, WFMin
<1> QED
  BY <1>1, <1>2, <1>3

(* Induction up to a bound, for a property given as a set of numbers.      *)
LEMMA UpTo ==
    ASSUME NEW n \in Nat, NEW T, 0 \in T, \A i, j \in 0 .. n : i \in T /\ j = i + 1 => j \in T
    PROVE  0 .. n \subseteq T
<1> DEFINE U == {1 .. i : i \in 0 .. n \ T}
<1> SUFFICES ASSUME 0 .. n \ T # {} PROVE FALSE
  OBVIOUS
<1>1. U # {} /\ U \subseteq FiniteSubsetsOf(Nat)
  <2>1. ASSUME NEW i \in 0 .. n PROVE 1 .. i \in FiniteSubsetsOf(Nat)
    <3>1. i \in Int /\ 1 .. i \subseteq Nat
      OBVIOUS
    <3>2. IsFiniteSet(1 .. i)
      BY <3>1, FS_Interval
    <3> QED
      BY <3>1, <3>2 DEF FiniteSubsetsOf
  <2> QED
    BY <2>1
<1>2. PICK x \in U : \A y \in U : ~(y \subseteq x /\ y # x)
  <2> HIDE DEF U
  <2> QED
    BY <1>1, LeastFinite
<1>3. PICK j \in 0 .. n : j \notin T /\ x = 1 .. j
  OBVIOUS
<1>4. j # 0 /\ j - 1 \in 0 .. n /\ j = (j - 1) + 1
  BY <1>3
<1>5. j - 1 \notin T
  BY <1>3, <1>4
<1>6. 1 .. j - 1 \in U /\ 1 .. j - 1 \subseteq x /\ 1 .. j - 1 # x
  <2>1. j \in 1 .. j /\ j \notin 1 .. j - 1
    BY <1>4
  <2> QED
    BY <1>3, <1>4, <1>5, <2>1
<1> QED
  BY <1>2, <1>6

(* A recursion over 0 .. n has one function.                               *)
LEMMA OneRecursion ==
    ASSUME NEW n \in Nat, NEW f, NEW h, f[0] = h[0],
           \A i, j \in 0 .. n : j = i + 1 /\ f[i] = h[i] => f[j] = h[j]
    PROVE  \A i \in 0 .. n : f[i] = h[i]
<1> DEFINE T == {i \in 0 .. n : f[i] = h[i]}
<1>1. 0 \in T
  OBVIOUS
<1>2. \A i, j \in 0 .. n : i \in T /\ j = i + 1 => j \in T
  OBVIOUS
<1>3. 0 .. n \subseteq T
  <2> HIDE DEF T
  <2> QED BY <1>1, <1>2, UpTo
<1> QED
  BY <1>3

(* There is one.                                                           *)
DefinedBy(f, n, A, base, g) ==
    f \in [0 .. n -> A] /\ f[0] = base /\ \A i \in 1 .. n : f[i] = g[<<f[i - 1], i>>]

(* A recursion over numbers up to a bound defines a function.              *)
LEMMA RecursionExists ==
    ASSUME NEW n \in Nat, NEW A, NEW base \in A, NEW g \in [A \X (1 .. n) -> A]
    PROVE  \E f : DefinedBy(f, n, A, base, g)
<1> DEFINE Good(f, m) == f \in [0 .. m -> A] /\ f[0] = base /\ \A i \in 1 .. m : f[i] = g[<<f[i - 1], i>>]
           T == {m \in 0 .. n : \E f : Good(f, m)}
<1>1. 0 \in T
  <2>1. Good([i \in 0 .. 0 |-> base], 0)
    OBVIOUS
  <2>2. \E f : Good(f, 0)
    <3> HIDE DEF Good
    <3> QED BY <2>1
  <2> HIDE DEF Good
  <2> QED
    BY <2>2
<1>2. ASSUME NEW m \in 0 .. n, NEW j \in 0 .. n, m \in T, j = m + 1 PROVE j \in T
  <2>1. PICK f : Good(f, m)
    BY <1>2
  <2> DEFINE e == [i \in 0 .. j |-> IF i = j THEN g[<<f[m], j>>] ELSE f[i]]
  <2>2. f[m] \in A /\ j \in 1 .. n /\ g[<<f[m], j>>] \in A
    BY <2>1, <1>2
  <2>3. e \in [0 .. j -> A] /\ e[0] = base
    BY <2>1, <2>2, <1>2
  <2>4. ASSUME NEW i \in 1 .. j PROVE e[i] = g[<<e[i - 1], i>>]
    <3>1. CASE i = j
      <4>1. i - 1 = m /\ e[m] = f[m] /\ e[i] = g[<<f[m], j>>]
        BY <3>1, <1>2
      <4> QED
        BY <4>1, <3>1
    <3>2. CASE i # j
      <4>1. i \in 1 .. m /\ i - 1 \in 0 .. m /\ e[i] = f[i] /\ e[i - 1] = f[i - 1]
        BY <3>2, <1>2
      <4> QED
        BY <4>1, <2>1
    <3> QED
      BY <3>1, <3>2
  <2> HIDE DEF e
  <2>5. Good(e, j)
    BY <2>3, <2>4
  <2> QED
    BY <2>5
<1>3. n \in T
  <2> HIDE DEF T
  <2> QED BY <1>1, <1>2, UpTo
<1>4. \E f : Good(f, n)
  BY <1>3
<1> QED
  BY <1>4 DEF DefinedBy
-----------------------------------------------------------------------------
EcsTypeOK(ecs, n) ==
    ecs \in [group : [0 .. n - 1 -> Nat], felems : [0 .. n - 1 -> {NIL} \union 0 .. n - 1],
             relems : [0 .. n - 1 -> {NIL} \union 0 .. n - 1],
             repelems : [0 .. n - 1 -> {NIL} \union 0 .. n - 1], nGroups : Nat]

IsList(ecs, k, L) ==
    /\ L \in Seq(Elements(ecs)) /\ L # <<>>
    /\ ecs.repelems[k] = L[1] /\ ecs.felems[L[1]] = NIL /\ ecs.relems[L[Len(L)]] = NIL
    /\ \A i, j \in 1 .. Len(L) : j = i + 1 => ecs.relems[L[i]] = L[j] /\ ecs.felems[L[j]] = L[i]
    /\ \A i, j \in 1 .. Len(L) : L[i] = L[j] => i = j
    /\ \A c \in Elements(ecs) : (ecs.group[c] = k) <=> \E i \in 1 .. Len(L) : L[i] = c

(* A list without repetition is no longer than what it is a list of.       *)
LEMMA InjectiveLen ==
    ASSUME NEW n \in Nat, NEW L \in Seq(0 .. n - 1), \A i, j \in 1 .. Len(L) : L[i] = L[j] => i = j
    PROVE  Len(L) <= n
<1>1. IsFiniteSet(0 .. n - 1) /\ Cardinality(0 .. n - 1) = n
  BY FS_Interval
<1>2. IsFiniteSet(1 .. Len(L)) /\ Cardinality(1 .. Len(L)) = Len(L)
  <2> DEFINE m == Len(L)
  <2>1. m \in Nat /\ m \in Int /\ 1 \in Int
    OBVIOUS
  <2> HIDE DEF m
  <2>2. IsFiniteSet(1 .. m) /\ Cardinality(1 .. m) = m
    BY <2>1, FS_Interval
  <2> QED
    BY <2>2 DEF m
<1>3. L \in Injection(1 .. Len(L), 0 .. n - 1)
  BY DEF Injection, IsInjective
<1>4. Cardinality(1 .. Len(L)) <= Cardinality(0 .. n - 1)
  BY <1>1, <1>2, <1>3, FS_Injection
<1> QED
  BY <1>1, <1>2, <1>4

(* The walk along the links has, after i steps, the first i elements of    *)
(* the list.                                                               *)
LEMMA Prefix ==
    ASSUME NEW S, NEW L \in Seq(S), NEW i \in 0 .. Len(L)
    PROVE  /\ SubSeq(L, 1, i) \in Seq(S) /\ Len(SubSeq(L, 1, i)) = i
           /\ \A j \in 1 .. i : SubSeq(L, 1, i)[j] = L[j]
           /\ SubSeq(L, 1, i) = <<>> <=> i = 0
           /\ \A j \in 1 .. Len(L) : j = i + 1 => Append(SubSeq(L, 1, i), L[j]) = SubSeq(L, 1, j)
           /\ SubSeq(L, 1, Len(L)) = L
<1>1. /\ SubSeq(L, 1, i) \in Seq(S) /\ Len(SubSeq(L, 1, i)) = i
      /\ \A j \in 1 .. i : SubSeq(L, 1, i)[j] = L[j]
      /\ SubSeq(L, 1, i) = <<>> <=> i = 0
  OBVIOUS
<1>2. ASSUME NEW j \in 1 .. Len(L), j = i + 1 PROVE Append(SubSeq(L, 1, i), L[j]) = SubSeq(L, 1, j)
  <2> DEFINE a == SubSeq(L, 1, i)
             b == SubSeq(L, 1, j)
             c == Append(a, L[j])
  <2>1. a \in Seq(S) /\ b \in Seq(S) /\ Len(a) = i /\ Len(b) = j /\ L[j] \in S
    BY <1>2
  <2>2. \A k \in 1 .. i : a[k] = L[k]
    BY <1>2
  <2>3. \A k \in 1 .. j : b[k] = L[k]
    BY <1>2
  <2> HIDE DEF a, b
  <2>4. c \in Seq(S) /\ Len(c) = j /\ (\A k \in 1 .. i : c[k] = a[k]) /\ c[j] = L[j]
    BY <2>1, <1>2
  <2> HIDE DEF c
  <2>5. \A k \in 1 .. j : c[k] = b[k]
    BY <2>2, <2>3, <2>4, <1>2
  <2>6. c = b
    BY <2>1, <2>4, <2>5, SeqEqual
  <2> QED
    BY <2>6 DEF a, b, c
<1>3. SubSeq(L, 1, Len(L)) = L
  OBVIOUS
<1> QED
  BY <1>1, <1>2, <1>3

(* Members is the list of a class.                                         *)
LEMMA MembersAre ==
    ASSUME NEW n \in Nat, NEW ecs, EcsTypeOK(ecs, n), NEW k, NEW L, IsList(ecs, k, L)
    PROVE  Members(ecs, k) = L
<1> DEFINE E == 0 .. n - 1
           N == Cardinality(Elements(ecs))
           next(list) == IF list = <<>> THEN ecs.repelems[k] ELSE ecs.relems[list[Len(list)]]
           step(list) == IF next(list) = NIL THEN list ELSE Append(list, next(list))
           Is(f) == f = [i \in 0 .. N |-> IF i = 0 THEN <<>> ELSE Then(f[i - 1], step)]
           reach(i) == IF i <= Len(L) THEN i ELSE Len(L)
           h == [i \in 0 .. N |-> SubSeq(L, 1, reach(i))]
           walk == CHOOSE f : Is(f)
<1>1. Elements(ecs) = E /\ N = n
  BY FS_Interval DEF EcsTypeOK, Elements
<1>2. L \in Seq(E) /\ Len(L) \in Nat /\ L # <<>> /\ Len(L) # 0 /\ Len(L) <= n
  <2>1. L \in Seq(E) /\ L # <<>> /\ \A i, j \in 1 .. Len(L) : L[i] = L[j] => i = j
    BY <1>1 DEF IsList
  <2> QED
    BY <2>1, InjectiveLen
<1> DEFINE P(r) == SubSeq(L, 1, r)
<1>a. /\ \A r \in 0 .. Len(L) : Len(P(r)) = r /\ (P(r) = <<>> <=> r = 0)
      /\ \A r \in 1 .. Len(L) : P(r)[r] = L[r]
      /\ \A r, j \in 0 .. Len(L) : j = r + 1 => Append(P(r), L[j]) = P(j)
      /\ P(Len(L)) = L
  <2>1. ASSUME NEW r \in 0 .. Len(L), NEW j \in 0 .. Len(L), j = r + 1 PROVE Append(P(r), L[j]) = P(j)
    <3>1. j \in 1 .. Len(L)
      BY <2>1, <1>2
    <3> QED
      BY <2>1, <3>1, <1>2, Prefix
  <2> QED
    BY <1>2, <2>1, Prefix
<1>b. \A r \in 1 .. Len(L) : L[r] # NIL
  <2>1. \A r \in 1 .. Len(L) : L[r] \in E
    BY <1>2
  <2> QED
    BY <2>1 DEF NIL
<1>3. ASSUME NEW i \in 1 .. N PROVE h[i] = step(h[i - 1])
  <2>1. PICK r \in 0 .. Len(L), j \in 0 .. Len(L) :
           h[i - 1] = P(r) /\ h[i] = P(j) /\ (j = r + 1 \/ (r = Len(L) /\ j = r))
    <3>1. i - 1 \in 0 .. N /\ reach(i - 1) \in 0 .. Len(L) /\ reach(i) \in 0 .. Len(L)
      BY <1>1, <1>2
    <3>2. h[i] = P(reach(i)) /\ h[i - 1] = P(reach(i - 1))
      BY <3>1
    <3>3. reach(i) = reach(i - 1) + 1 \/ (reach(i - 1) = Len(L) /\ reach(i) = reach(i - 1))
      BY <1>1, <1>2
    <3> QED
      BY <3>1, <3>2, <3>3
  <2>2. CASE r = 0
    <3>1. j = 1 /\ j \in 1 .. Len(L) /\ P(r) = <<>>
      BY <2>1, <2>2, <1>2, <1>a
    <3>2. next(P(r)) = L[1] /\ L[1] # NIL
      BY <3>1, <1>b DEF IsList
    <3>3. Append(P(r), L[1]) = P(j)
      BY <2>2, <3>1, <1>a
    <3> QED
      BY <2>1, <3>2, <3>3
  <2>3. CASE r # 0 /\ j = r + 1
    <3>1. r \in 1 .. Len(L) /\ j \in 1 .. Len(L)
      BY <2>3, <1>2
    <3>2. P(r) # <<>> /\ Len(P(r)) = r /\ P(r)[r] = L[r]
      BY <3>1, <2>3, <1>a
    <3>3. ecs.relems[L[r]] = L[j] /\ L[j] # NIL
      BY <3>1, <2>3, <1>b DEF IsList
    <3>4. next(P(r)) = L[j]
      BY <3>2, <3>3
    <3>5. Append(P(r), L[j]) = P(j)
      BY <2>3, <1>a
    <3> QED
      BY <2>1, <3>3, <3>4, <3>5
  <2>4. CASE r = Len(L) /\ j = r
    <3>1. P(r) = L /\ P(j) = L
      BY <2>4, <1>a
    <3>2. next(L) = NIL
      BY <1>2 DEF IsList
    <3>3. step(L) = L
      BY <3>2
    <3> QED
      BY ONLY <3>1, <3>3, <2>1
  <2> QED
    BY <2>1, <2>2, <2>3, <2>4
<1>4. h[0] = <<>>
  <2>1. reach(0) = 0 /\ 0 \in 0 .. N /\ 0 \in 0 .. Len(L)
    BY <1>1, <1>2
  <2> QED
    BY <2>1, <1>a
<1>9. h[N] = L
  <2>1. reach(N) = Len(L) /\ N \in 0 .. N
    BY <1>1, <1>2
  <2> QED
    BY <2>1, <1>a
<1> HIDE DEF step, next
<1>5. \A list : Then(list, step) = step(list)
  BY DEF Then
<1>6. Is(h)
  <2>1. ASSUME NEW i \in 0 .. N
        PROVE SubSeq(L, 1, reach(i)) = IF i = 0 THEN <<>> ELSE Then(h[i - 1], step)
    <3>1. h[i] = SubSeq(L, 1, reach(i))
      OBVIOUS
    <3>2. i # 0 => i \in 1 .. N
      BY <1>1
    <3>3. i # 0 => Then(h[i - 1], step) = step(h[i - 1])
      BY <1>5
    <3> HIDE DEF h, reach
    <3> QED
      BY <1>3, <1>4, <3>1, <3>2, <3>3
  <2> QED
    BY <2>1
<1> HIDE DEF h
<1>7. Is(walk)
  BY <1>6
<1>8. \A i \in 0 .. N : walk[i] = h[i]
  <2> HIDE DEF walk
  <2>0. N \in Nat
    BY <1>1
  <2>1. walk[0] = h[0]
    BY <1>7, <1>4, <1>1
  <2>2. ASSUME NEW i \in 0 .. N, NEW j \in 0 .. N, j = i + 1, walk[i] = h[i] PROVE walk[j] = h[j]
    <3>1. j # 0 /\ j - 1 = i /\ j \in 1 .. N
      BY <2>2, <1>1
    <3>2. walk[j] = Then(walk[i], step)
      BY <3>1, <1>7
    <3> QED
      BY <3>1, <3>2, <1>3, <1>5, <2>2
  <2> HIDE DEF N
  <2> QED
    BY <2>0, <2>1, <2>2, OneRecursion
<1>10. Members(ecs, k) = walk[N]
  BY DEF Members, step, next
<1> QED
  BY <1>1, <1>8, <1>9, <1>10
-----------------------------------------------------------------------------
(* Picked keeps the order and the elements that are in the set.            *)
LEMMA PickedIs ==
    ASSUME NEW E, NEW list \in Seq(E), NEW set
    PROVE  /\ Picked(list, set) \in Seq(E)
           /\ \A c : (\E j \in 1 .. Len(Picked(list, set)) : Picked(list, set)[j] = c)
                    <=> (c \in set /\ \E j \in 1 .. Len(list) : list[j] = c)
           /\ (\A i, j \in 1 .. Len(list) : list[i] = list[j] => i = j)
                => \A i, j \in 1 .. Len(Picked(list, set)) :
                        Picked(list, set)[i] = Picked(list, set)[j] => i = j
           /\ list # <<>> /\ list[1] \in set => Picked(list, set) # <<>> /\ Picked(list, set)[1] = list[1]
<1> DEFINE n == Len(list)
           Is(f) == f = [i \in 0 .. n |-> IF i = 0 THEN <<>> ELSE
                        IF list[i] \in set THEN Append(f[i - 1], list[i]) ELSE f[i - 1]]
           pick == CHOOSE f : Is(f)
           g == [p \in Seq(E) \X (1 .. n) |-> IF list[p[2]] \in set THEN Append(p[1], list[p[2]]) ELSE p[1]]
           Found(s, c) == \E j \in 1 .. Len(s) : s[j] = c
           Inj(s) == \A i, j \in 1 .. Len(s) : s[i] = s[j] => i = j
<1>0. n \in Nat /\ \A i \in 1 .. n : list[i] \in E
  OBVIOUS
<1>1. g \in [Seq(E) \X (1 .. n) -> Seq(E)]
  BY <1>0
<1>2. PICK f \in [0 .. n -> Seq(E)] : f[0] = <<>> /\ \A i \in 1 .. n : f[i] = g[<<f[i - 1], i>>]
  <2> DEFINE A == Seq(E)
             base == <<>>
  <2>1. base \in A /\ g \in [A \X (1 .. n) -> A] /\ n \in Nat
    BY <1>0, <1>1
  <2> HIDE DEF g, n, A, base
  <2>2. \E f : DefinedBy(f, n, A, base, g)
    BY <2>1, RecursionExists
  <2> QED
    BY <2>2 DEF A, base, DefinedBy
<1>3. \A i \in 1 .. n : f[i] = IF list[i] \in set THEN Append(f[i - 1], list[i]) ELSE f[i - 1]
  <2> SUFFICES ASSUME NEW i \in 1 .. n PROVE f[i] = IF list[i] \in set THEN Append(f[i - 1], list[i]) ELSE f[i - 1]
    OBVIOUS
  <2>1. f[i - 1] \in Seq(E)
    BY <1>0, <1>2
  <2> QED
    BY <1>2, <2>1
<1> HIDE DEF g
<1>4. Is(f)
  <2> DEFINE e == [i \in 0 .. n |-> IF i = 0 THEN <<>> ELSE IF list[i] \in set THEN Append(f[i - 1], list[i]) ELSE f[i - 1]]
  <2>1. \A i \in 0 .. n : e[i] = f[i]
    <3> SUFFICES ASSUME NEW i \in 0 .. n PROVE e[i] = f[i]
      OBVIOUS
    <3>1. CASE i = 0
      BY <3>1, <1>2
    <3>2. CASE i # 0
      <4>1. i \in 1 .. n
        BY <1>0, <3>2
      <4> QED
        BY <3>2, <4>1, <1>3
    <3> QED
      BY <3>1, <3>2
  <2>2. f = [i \in 0 .. n |-> f[i]] /\ e = [i \in 0 .. n |-> e[i]]
    OBVIOUS
  <2> HIDE DEF e
  <2>3. f = e
    BY <2>1, <2>2
  <2> QED
    BY <2>3 DEF e
<1>5. Is(pick)
  BY <1>4
<1> HIDE DEF pick
<1>6. pick[0] = <<>>
  BY <1>0, <1>5
<1>7. ASSUME NEW i \in 0 .. n, NEW j \in 0 .. n, j = i + 1
      PROVE  pick[j] = IF list[j] \in set THEN Append(pick[i], list[j]) ELSE pick[i]
  <2>1. j # 0 /\ j - 1 = i
    BY <1>7, <1>0
  <2> QED
    BY <1>5, <2>1
<1> DEFINE Good(i) ==
        /\ pick[i] \in Seq(E)
        /\ \A c : Found(pick[i], c) <=> (c \in set /\ \E j \in 1 .. i : list[j] = c)
        /\ Inj(list) => Inj(pick[i])
        /\ i # 0 /\ list[1] \in set => pick[i] # <<>> /\ pick[i][1] = list[1]
<1> DEFINE T == {i \in 0 .. n : Good(i)}
<1>8. 0 \in T
  <2>1. pick[0] \in Seq(E) /\ Inj(pick[0]) /\ Len(pick[0]) = 0
    BY <1>6
  <2>2. \A c : ~Found(pick[0], c)
    BY <2>1
  <2>3. \A j : ~(j \in 1 .. 0)
    OBVIOUS
  <2>4. Good(0)
    <3> HIDE DEF Found, Inj
    <3> QED
      BY <2>1, <2>2, <2>3
  <2>5. 0 \in 0 .. n
    BY <1>0
  <2> HIDE DEF Good
  <2> QED
    BY <2>4, <2>5
<1>a. ASSUME NEW s \in Seq(E), NEW x \in E
      PROVE  /\ Append(s, x) \in Seq(E) /\ Append(s, x) # <<>>
             /\ \A c : Found(Append(s, x), c) <=> (Found(s, c) \/ c = x)
             /\ Inj(s) /\ ~Found(s, x) => Inj(Append(s, x))
             /\ s # <<>> => Append(s, x)[1] = s[1]
             /\ s = <<>> => Append(s, x)[1] = x
  <2> DEFINE a == Append(s, x)
             l == Len(s)
             k == l + 1
  <2>1. /\ a \in Seq(E) /\ Len(a) = k /\ (\A i \in 1 .. l : a[i] = s[i]) /\ a[k] = x /\ a # <<>>
        /\ l \in Nat /\ k \in Nat /\ k = l + 1 /\ (s = <<>> <=> l = 0)
    OBVIOUS
  <2> HIDE DEF a, k, l
  <2>2. ASSUME NEW c PROVE (\E j \in 1 .. k : a[j] = c) <=> ((\E j \in 1 .. l : s[j] = c) \/ c = x)
    <3>1. \A j \in 1 .. k : j \in 1 .. l \/ j = k
      BY <2>1
    <3>2. k \in 1 .. k /\ \A j \in 1 .. l : j \in 1 .. k
      BY <2>1
    <3> QED
      BY <2>1, <3>1, <3>2
  <2>3. ASSUME Inj(s), ~Found(s, x), NEW i \in 1 .. k, NEW j \in 1 .. k, a[i] = a[j] PROVE i = j
    <3>1. \A u \in 1 .. k : u \in 1 .. l \/ u = k
      BY <2>1
    <3>2. \A u, v \in 1 .. l : s[u] = s[v] => u = v
      BY <2>3 DEF l
    <3>3. \A u \in 1 .. l : s[u] # x
      BY <2>3 DEF l
    <3> QED
      BY <2>1, <3>1, <3>2, <3>3, <2>3
  <2>4. s # <<>> => a[1] = s[1]
    <3>1. s # <<>> => 1 \in 1 .. l
      BY <2>1
    <3> QED
      BY <2>1, <3>1
  <2>5. s = <<>> => a[1] = x
    BY <2>1
  <2>6. \A c : Found(a, c) <=> (Found(s, c) \/ c = x)
    BY <2>1, <2>2 DEF l
  <2>7. Inj(s) /\ ~Found(s, x) => Inj(a)
    BY <2>1, <2>3
  <2> HIDE DEF Found, Inj
  <2> QED
    BY <2>1, <2>4, <2>5, <2>6, <2>7 DEF a
<1>9. ASSUME NEW i \in 0 .. n, NEW j \in 0 .. n, i \in T, j = i + 1 PROVE j \in T
  <2>1. Good(i) /\ j \in 1 .. n /\ j # 0 /\ list[j] \in E /\ i \in Nat
    BY <1>9, <1>0
  <2>2. \A u : u \in 1 .. j <=> u \in 1 .. i \/ u = j
    BY <1>9, <1>0, <2>1
  <2>5. i = 0 => j = 1
    BY <1>9
  <2>6. i = 0 => pick[i] = <<>>
    BY <1>6
  <2> HIDE DEF Found, Inj
  <2>3. CASE list[j] \in set
    <3>1. pick[j] = Append(pick[i], list[j])
      BY <1>7, <1>9, <2>3
    <3>2. Inj(list) => ~Found(pick[i], list[j])
      <4>1. \A u \in 1 .. i : u # j /\ u \in 1 .. n
        BY <1>9, <1>0
      <4>2. ASSUME Inj(list), NEW u \in 1 .. i, list[u] = list[j] PROVE FALSE
        BY <4>1, <4>2, <2>1 DEF Inj
      <4> QED
        BY <2>1, <4>2
    <3>3. pick[j] \in Seq(E) /\ (Inj(list) => Inj(pick[j])) /\ pick[j] # <<>>
      <4>1. pick[i] \in Seq(E) /\ (Inj(list) => Inj(pick[i]))
        BY <2>1
      <4>2. pick[j] \in Seq(E) /\ pick[j] # <<>> /\ (Inj(pick[i]) /\ ~Found(pick[i], list[j]) => Inj(pick[j]))
        <5>1. /\ Append(pick[i], list[j]) \in Seq(E) /\ Append(pick[i], list[j]) # <<>>
              /\ (Inj(pick[i]) /\ ~Found(pick[i], list[j]) => Inj(Append(pick[i], list[j])))
          BY <4>1, <2>1, <1>a
        <5> QED
          BY ONLY <5>1, <3>1
      <4> QED
        BY ONLY <4>1, <4>2, <3>2
    <3>4. \A c : Found(pick[j], c) <=> (Found(pick[i], c) \/ c = list[j])
      BY <3>1, <2>1, <1>a
    <3>5. \A c : Found(pick[j], c) <=> (c \in set /\ \E u \in 1 .. j : list[u] = c)
      BY <3>4, <2>1, <2>2, <2>3
    <3>6. list[1] \in set => pick[j][1] = list[1]
      <4>1. CASE i = 0
        BY <4>1, <2>5, <2>6, <3>1, <2>1, <1>a
      <4>2. CASE i # 0
        BY <4>2, <2>1, <3>1, <1>a
      <4> QED
        BY <4>1, <4>2
    <3> QED
      BY <3>3, <3>5, <3>6
  <2>4. CASE list[j] \notin set
    <3>1. pick[j] = pick[i]
      BY <1>7, <1>9, <2>4
    <3>2. \A c : Found(pick[j], c) <=> (c \in set /\ \E u \in 1 .. j : list[u] = c)
      BY <3>1, <2>1, <2>2, <2>4
    <3>3. list[1] \in set => i # 0
      BY <2>4, <2>5
    <3> QED
      BY <3>1, <3>2, <3>3, <2>1
  <2> QED
    BY <2>3, <2>4
<1>10. n \in T
  <2> HIDE DEF T, n
  <2>1. n \in 0 .. n
    BY <1>0
  <2> QED
    BY <1>0, <1>8, <1>9, <2>1, UpTo
<1>11. Picked(list, set) = pick[n]
  BY DEF Picked, pick
<1>12. list # <<>> => n # 0
  OBVIOUS
<1> QED
  BY <1>10, <1>11, <1>12
-----------------------------------------------------------------------------
LinksMade(e, ecs, n, list) ==
    /\ EcsTypeOK(e, n)
    /\ e.group = ecs.group /\ e.repelems = ecs.repelems /\ e.nGroups = ecs.nGroups
    /\ e.felems[list[1]] = NIL /\ e.relems[list[Len(list)]] = NIL
    /\ \A i, j \in 1 .. Len(list) : j = i + 1 => e.relems[list[i]] = list[j] /\ e.felems[list[j]] = list[i]
    /\ \A c \in 0 .. n - 1 : (\A i \in 1 .. Len(list) : list[i] # c) =>
            e.felems[c] = ecs.felems[c] /\ e.relems[c] = ecs.relems[c]

(* Linked writes the links of a list over those that were there.           *)
LEMMA LinkedIs ==
    ASSUME NEW n \in Nat, NEW ecs, EcsTypeOK(ecs, n), NEW list \in Seq(0 .. n - 1), list # <<>>,
           \A i, j \in 1 .. Len(list) : list[i] = list[j] => i = j
    PROVE  LinksMade(Linked(ecs, list), ecs, n, list)
<1> DEFINE E == 0 .. n - 1
           l == Len(list)
           pos(c) == CHOOSE i \in DOMAIN list : list[i] = c
           before(c) == IF pos(c) = 1 THEN NIL ELSE list[pos(c) - 1]
           after(c) == IF pos(c) = l THEN NIL ELSE list[pos(c) + 1]
           In(c) == \E i \in 1 .. l : list[i] = c
           F == [c \in E |-> IF In(c) THEN before(c) ELSE ecs.felems[c]]
           R == [c \in E |-> IF In(c) THEN after(c) ELSE ecs.relems[c]]
           e == Linked(ecs, list)
<1>1. Elements(ecs) = E
  BY DEF EcsTypeOK, Elements
<1>2. l \in Nat /\ l # 0 /\ DOMAIN list = 1 .. l /\ \A i \in 1 .. l : list[i] \in E
  OBVIOUS
<1>3. \A c : c \in ToSet(list) <=> In(c)
  BY <1>2 DEF ToSet
<1>4. ASSUME NEW i \in 1 .. l PROVE pos(list[i]) = i
  <2>1. \E k \in DOMAIN list : list[k] = list[i]
    BY <1>2
  <2>2. pos(list[i]) \in DOMAIN list /\ list[pos(list[i])] = list[i]
    BY <2>1
  <2> HIDE DEF pos
  <2> QED
    BY <2>2, <1>2
<1>5. e = [ecs EXCEPT !.felems = F, !.relems = R]
  <2>1. [c \in Elements(ecs) |-> IF c \in ToSet(list) THEN before(c) ELSE ecs.felems[c]] = F
    <3> HIDE DEF before
    <3> QED BY <1>1, <1>3
  <2>2. [c \in Elements(ecs) |-> IF c \in ToSet(list) THEN after(c) ELSE ecs.relems[c]] = R
    <3> HIDE DEF after
    <3> QED BY <1>1, <1>3
  <2>3. e = [ecs EXCEPT
            !.felems = [c \in Elements(ecs) |-> IF c \in ToSet(list) THEN before(c) ELSE ecs.felems[c]],
            !.relems = [c \in Elements(ecs) |-> IF c \in ToSet(list) THEN after(c) ELSE ecs.relems[c]]]
    BY DEF Linked
  <2> HIDE DEF e, before, after, F, R
  <2> QED
    BY <2>1, <2>2, <2>3
<1>6. \A c \in E : F[c] \in {NIL} \union E /\ R[c] \in {NIL} \union E
  <2> SUFFICES ASSUME NEW c \in E PROVE F[c] \in {NIL} \union E /\ R[c] \in {NIL} \union E
    OBVIOUS
  <2>1. CASE In(c)
    <3>1. PICK i \in 1 .. l : list[i] = c
      BY <2>1
    <3>2. pos(c) = i
      BY <3>1, <1>4
    <3> HIDE DEF pos
    <3>3. F[c] = (IF i = 1 THEN NIL ELSE list[i - 1]) /\ R[c] = IF i = l THEN NIL ELSE list[i + 1]
      BY <3>1, <3>2
    <3>4. i # 1 => i - 1 \in 1 .. l
      BY <1>2
    <3>5. i # l => i + 1 \in 1 .. l
      <4> HIDE DEF l
      <4> QED
        BY <1>2
    <3> QED
      BY <3>3, <3>4, <3>5, <1>2
  <2>2. CASE ~In(c)
    BY <2>2 DEF EcsTypeOK
  <2> QED
    BY <2>1, <2>2
<1>7. F \in [E -> {NIL} \union E] /\ R \in [E -> {NIL} \union E]
  <2>1. F = [c \in E |-> F[c]] /\ R = [c \in E |-> R[c]]
    OBVIOUS
  <2> HIDE DEF F, R
  <2> QED
    BY <1>6, <2>1
<1>8. ASSUME NEW i \in 1 .. l
      PROVE  F[list[i]] = (IF i = 1 THEN NIL ELSE list[i - 1]) /\ R[list[i]] = IF i = l THEN NIL ELSE list[i + 1]
  <2>1. In(list[i]) /\ list[i] \in E /\ pos(list[i]) = i
    BY <1>2, <1>4
  <2> HIDE DEF pos
  <2> QED
    BY <2>1
<1>9. \A c \in E : ~In(c) => F[c] = ecs.felems[c] /\ R[c] = ecs.relems[c]
  OBVIOUS
<1> HIDE DEF F, R
<1>10. EcsTypeOK(e, n) /\ e.felems = F /\ e.relems = R
       /\ e.group = ecs.group /\ e.repelems = ecs.repelems /\ e.nGroups = ecs.nGroups
  <2> HIDE DEF e
  <2> QED
    BY <1>5, <1>7 DEF EcsTypeOK
<1>11. e.felems[list[1]] = NIL /\ e.relems[list[l]] = NIL
  <2>1. 1 \in 1 .. l /\ l \in 1 .. l
    BY <1>2
  <2> HIDE DEF e
  <2> QED
    BY <2>1, <1>8, <1>10
<1>12. ASSUME NEW i \in 1 .. l, NEW j \in 1 .. l, j = i + 1
       PROVE  e.relems[list[i]] = list[j] /\ e.felems[list[j]] = list[i]
  <2>1. j # 1 /\ i # l /\ j - 1 = i
    <3> HIDE DEF l
    <3> QED
      BY <1>12, <1>2
  <2> HIDE DEF e
  <2> QED
    BY <2>1, <1>12, <1>8, <1>10
<1> HIDE DEF e
<1>13. \A c \in E : (\A i \in 1 .. l : list[i] # c) => e.felems[c] = ecs.felems[c] /\ e.relems[c] = ecs.relems[c]
  BY <1>9, <1>10
<1> QED
  BY <1>10, <1>11, <1>12, <1>13 DEF e, LinksMade
-----------------------------------------------------------------------------
(* What the class maintains: each class below nGroups has a list.          *)
Partition(ecs, n) ==
    /\ EcsTypeOK(ecs, n) /\ ecs.nGroups \in 1 .. n
    /\ \A c \in 0 .. n - 1 : ecs.group[c] < ecs.nGroups
    /\ \A k \in 0 .. ecs.nGroups - 1 : \E L : IsList(ecs, k, L)
    /\ \A k \in 0 .. n - 1 : k >= ecs.nGroups => ecs.repelems[k] = NIL

Leaves(ecs, k, set, c) == ecs.group[c] = k /\ ~(c \in set <=> ecs.repelems[k] \in set)

(* Two lists that have the same elements with the same links are lists of  *)
(* the same class.                                                         *)
LEMMA IsListDefs ==
    ASSUME NEW n \in Nat, NEW ecs, EcsTypeOK(ecs, n), NEW k, NEW L, IsList(ecs, k, L)
    PROVE  /\ L \in Seq(0 .. n - 1) /\ Len(L) \in Nat /\ 1 \in 1 .. Len(L) /\ Len(L) \in 1 .. Len(L)
           /\ \A i \in 1 .. Len(L) : L[i] \in 0 .. n - 1 /\ ecs.group[L[i]] = k
           /\ \A c \in 0 .. n - 1 : ecs.group[c] = k => \E i \in 1 .. Len(L) : L[i] = c
           /\ ecs.repelems[k] = L[1] /\ ecs.repelems[k] \in 0 .. n - 1 /\ ecs.group[ecs.repelems[k]] = k
<1>1. Elements(ecs) = 0 .. n - 1
  BY DEF EcsTypeOK, Elements
<1>2. L \in Seq(0 .. n - 1) /\ L # <<>>
  BY <1>1 DEF IsList
<1>3. Len(L) \in Nat /\ 1 \in 1 .. Len(L) /\ Len(L) \in 1 .. Len(L)
  BY <1>2
<1>4. \A i \in 1 .. Len(L) : L[i] \in 0 .. n - 1
  BY <1>2
<1>5. \A i \in 1 .. Len(L) : ecs.group[L[i]] = k
  BY <1>1, <1>4 DEF IsList
<1>6. ecs.repelems[k] = L[1]
  BY DEF IsList
<1>7. \A c \in 0 .. n - 1 : ecs.group[c] = k => \E i \in 1 .. Len(L) : L[i] = c
  BY <1>1 DEF IsList
<1> QED
  BY <1>2, <1>3, <1>4, <1>5, <1>6, <1>7

(* The lists of the other classes are none of the class's business.        *)
LEMMA IsListKept ==
    ASSUME NEW n \in Nat, NEW ecs, EcsTypeOK(ecs, n), NEW e, EcsTypeOK(e, n), NEW k, NEW L, IsList(ecs, k, L),
           e.repelems[k] = ecs.repelems[k],
           \A c \in 0 .. n - 1 : ecs.group[c] = k => e.felems[c] = ecs.felems[c] /\ e.relems[c] = ecs.relems[c],
           \A c \in 0 .. n - 1 : e.group[c] = k <=> ecs.group[c] = k
    PROVE  IsList(e, k, L)
<1>1. Elements(ecs) = 0 .. n - 1 /\ Elements(e) = 0 .. n - 1
  BY DEF EcsTypeOK, Elements
<1>2. /\ Len(L) \in Nat /\ 1 \in 1 .. Len(L) /\ Len(L) \in 1 .. Len(L)
      /\ \A i \in 1 .. Len(L) : L[i] \in 0 .. n - 1 /\ ecs.group[L[i]] = k
  <2>1. n \in Nat /\ EcsTypeOK(ecs, n) /\ IsList(ecs, k, L)
    OBVIOUS
  <2> QED
    BY ONLY <2>1, IsListDefs
<1>3. \A i \in 1 .. Len(L) : e.felems[L[i]] = ecs.felems[L[i]] /\ e.relems[L[i]] = ecs.relems[L[i]]
  BY <1>2
<1>4. L \in Seq(Elements(e)) /\ L # <<>> /\ e.repelems[k] = L[1]
  BY <1>1 DEF IsList
<1>5. e.felems[L[1]] = NIL /\ e.relems[L[Len(L)]] = NIL
  BY <1>2, <1>3 DEF IsList
<1>6. \A i, j \in 1 .. Len(L) : j = i + 1 => e.relems[L[i]] = L[j] /\ e.felems[L[j]] = L[i]
  BY <1>3 DEF IsList
<1>7. \A c \in Elements(e) : (e.group[c] = k) <=> \E i \in 1 .. Len(L) : L[i] = c
  BY <1>1 DEF IsList
<1>8. \A i, j \in 1 .. Len(L) : L[i] = L[j] => i = j
  BY DEF IsList
<1> QED
  BY <1>4, <1>5, <1>6, <1>7, <1>8 DEF IsList

(* More members than one in a class leave room for one more class.         *)
LEMMA RoomForAClass ==
    ASSUME NEW n \in Nat, NEW ecs, Partition(ecs, n), NEW c \in 0 .. n - 1,
           \A k \in 0 .. ecs.nGroups - 1 : ecs.repelems[k] # c
    PROVE  ecs.nGroups < n
<1> DEFINE N == ecs.nGroups
           h == [k \in 0 .. N |-> IF k = N THEN c ELSE ecs.repelems[k]]
<1>1. N \in Nat /\ N <= n
  BY DEF Partition
<1>2. \A k \in 0 .. N : k # N => k \in 0 .. N - 1
  BY <1>1
<1>3. \A k \in 0 .. N - 1 : ecs.repelems[k] \in 0 .. n - 1 /\ ecs.group[ecs.repelems[k]] = k
  <2> TAKE k \in 0 .. N - 1
  <2>1. PICK L : IsList(ecs, k, L)
    BY DEF Partition
  <2>2. EcsTypeOK(ecs, n)
    BY DEF Partition
  <2> QED
    BY <2>1, <2>2, IsListDefs
<1>4. h \in [0 .. N -> 0 .. n - 1]
  <2>1. \A k \in 0 .. N : h[k] \in 0 .. n - 1
    BY <1>2, <1>3
  <2> QED
    BY <2>1
<1>5. \A k, l \in 0 .. N : h[k] = h[l] => k = l
  <2> SUFFICES ASSUME NEW k \in 0 .. N, NEW l \in 0 .. N, h[k] = h[l] PROVE k = l
    OBVIOUS
  <2> HIDE DEF N
  <2>1. CASE k # N /\ l # N
    BY <1>2, <1>3, <2>1
  <2>2. CASE k = N /\ l # N
    <3>1. l \in 0 .. N - 1 /\ h[l] = ecs.repelems[l] /\ h[k] = c
      BY <1>2, <2>2
    <3> QED BY <3>1 DEF N
  <2>3. CASE k # N /\ l = N
    <3>1. k \in 0 .. N - 1 /\ h[k] = ecs.repelems[k] /\ h[l] = c
      BY <1>2, <2>3
    <3> QED BY <3>1 DEF N
  <2> QED
    BY <2>1, <2>2, <2>3
<1>6. h \in Injection(0 .. N, 0 .. n - 1)
  <2> HIDE DEF h
  <2> QED BY <1>4, <1>5 DEF Injection, IsInjective
<1>7. IsFiniteSet(0 .. n - 1) /\ Cardinality(0 .. n - 1) = n /\ Cardinality(0 .. N) = N + 1
  <2>1. 0 \in Int /\ n - 1 \in Int /\ N \in Int /\ n = (n - 1) - 0 + 1 /\ N + 1 = N - 0 + 1
    BY <1>1
  <2>2. N + 1 > 0
    BY <1>1
  <2> HIDE DEF N
  <2>3. Cardinality(0 .. N) = N + 1
    BY <1>1, <2>1, FS_Interval
  <2>4. IsFiniteSet(0 .. n - 1) /\ Cardinality(0 .. n - 1) = n
    BY <2>1, FS_Interval, SMTT(30)
  <2> QED BY <2>3, <2>4
<1>8. Cardinality(0 .. N) <= Cardinality(0 .. n - 1)
  <2> HIDE DEF h, N
  <2> QED BY <1>6, <1>7, FS_Injection
<1> QED
  <2> HIDE DEF N
  <2> QED BY <1>1, <1>7, <1>8 DEF N
-----------------------------------------------------------------------------
(* A call of splitCharClass for one class: who leaves, and where to.       *)
Splits(e, ecs, n, k, set) ==
    /\ Partition(e, n)
    /\ \A c \in 0 .. n - 1 :
        e.group[c] = IF Leaves(ecs, k, set, c) THEN ecs.nGroups ELSE ecs.group[c]
    /\ e.nGroups = IF \E c \in 0 .. n - 1 : Leaves(ecs, k, set, c) THEN ecs.nGroups + 1 ELSE ecs.nGroups
    /\ \A j \in 0 .. ecs.nGroups - 1 : e.repelems[j] = ecs.repelems[j]

(* A list of the elements of a set, each once.                             *)
ListOf(list, n, S) ==
    /\ list \in Seq(0 .. n - 1)
    /\ \A i, j \in 1 .. Len(list) : list[i] = list[j] => i = j
    /\ \A c \in 0 .. n - 1 : (\E i \in 1 .. Len(list) : list[i] = c) <=> c \in S

(* splitCharClass makes two lists of the one there was.                    *)
LEMMA SplitIs ==
    ASSUME NEW n \in Nat, NEW ecs, Partition(ecs, n), NEW k \in 0 .. ecs.nGroups - 1, NEW set,
           NEW stay, NEW leave, stay # <<>>, stay[1] = ecs.repelems[k],
           ListOf(stay, n, {c \in 0 .. n - 1 : ecs.group[c] = k /\ ~Leaves(ecs, k, set, c)}),
           ListOf(leave, n, {c \in 0 .. n - 1 : Leaves(ecs, k, set, c)})
    PROVE  Splits(Split(ecs, stay, leave), ecs, n, k, set)
<1>a. /\ stay \in Seq(0 .. n - 1) /\ leave \in Seq(0 .. n - 1)
      /\ \A i, j \in 1 .. Len(stay) : stay[i] = stay[j] => i = j
      /\ \A i, j \in 1 .. Len(leave) : leave[i] = leave[j] => i = j
  BY DEF ListOf
<1>b. \A c \in 0 .. n - 1 : (\E i \in 1 .. Len(stay) : stay[i] = c)
                            <=> ecs.group[c] = k /\ ~Leaves(ecs, k, set, c)
  BY DEF ListOf
<1>c. \A c \in 0 .. n - 1 : (\E i \in 1 .. Len(leave) : leave[i] = c) <=> Leaves(ecs, k, set, c)
  BY DEF ListOf
<1> DEFINE E == 0 .. n - 1
           N == ecs.nGroups
           a == Linked(ecs, stay)
           b == Linked(a, leave)
           e == NewClass(b, leave)
           Lv(c) == Leaves(ecs, k, set, c)
           G == [c \in E |-> IF Lv(c) THEN N ELSE ecs.group[c]]
           P == [ecs.repelems EXCEPT ![N] = leave[1]]
<1>1. EcsTypeOK(ecs, n) /\ N \in 1 .. n /\ N \in Nat /\ (\A c \in E : ecs.group[c] < N /\ ecs.group[c] \in Nat)
  BY DEF Partition, EcsTypeOK
<1>2. k # N /\ k < N /\ k \in Nat /\ k \in 0 .. N - 1
  BY <1>1
<1>3. \A c \in E : Lv(c) => ecs.group[c] = k
  BY DEF Leaves
<1>4. /\ \A i \in 1 .. Len(stay) : stay[i] \in E /\ ecs.group[stay[i]] = k /\ ~Lv(stay[i])
      /\ \A i \in 1 .. Len(leave) : leave[i] \in E /\ ecs.group[leave[i]] = k /\ Lv(leave[i])
  <2>1. \A i \in 1 .. Len(stay) : stay[i] \in E
    BY <1>a
  <2>2. \A i \in 1 .. Len(leave) : leave[i] \in E
    BY <1>a
  <2>3. \A i \in 1 .. Len(stay) : ecs.group[stay[i]] = k /\ ~Lv(stay[i])
    BY <2>1, <1>b
  <2>4. \A i \in 1 .. Len(leave) : Lv(leave[i])
    BY <2>2, <1>c
  <2> HIDE DEF Lv
  <2> QED
    BY <2>1, <2>2, <2>3, <2>4, <1>3
<1>5. CASE leave = <<>>
  <2>1. \A c \in E : ~Lv(c)
    <3>1. \A i : ~(i \in 1 .. Len(leave))
      BY <1>5
    <3> QED BY <3>1, <1>c
  <2>2. Split(ecs, stay, leave) = ecs
    BY <1>5 DEF Split
  <2> HIDE DEF Lv
  <2> QED
    BY <2>1, <2>2 DEF Splits, Lv
<1>6. CASE leave # <<>>
  <2>1. 1 \in 1 .. Len(leave) /\ 1 \in 1 .. Len(stay) /\ leave[1] \in E /\ Head(leave) = leave[1] /\ Lv(leave[1])
        /\ Len(leave) \in 1 .. Len(leave)
    <3>1. 1 \in 1 .. Len(leave) /\ 1 \in 1 .. Len(stay) /\ Head(leave) = leave[1]
          /\ Len(leave) \in 1 .. Len(leave)
      BY <1>6, <1>a
    <3> QED
      BY <3>1, <1>4
  <2>2. N < n
    <3>1. ASSUME NEW j \in 0 .. N - 1, ecs.repelems[j] = leave[1] PROVE FALSE
      <4>1. PICK M : IsList(ecs, j, M)
        BY DEF Partition
      <4>2. ecs.group[ecs.repelems[j]] = j
        BY <1>1, <4>1, IsListDefs
      <4>3. j = k
        BY <4>2, <3>1, <2>1, <1>3
      <4>4. ~Lv(ecs.repelems[k])
        BY <1>4, <2>1
      <4> QED
        BY <4>3, <4>4, <2>1, <3>1
    <3> QED
      BY <3>1, <2>1, RoomForAClass
  <2>a. LinksMade(a, ecs, n, stay)
    BY <1>1, <1>a, LinkedIs
  <2>3. /\ EcsTypeOK(a, n)
        /\ a.group = ecs.group /\ a.repelems = ecs.repelems /\ a.nGroups = N
        /\ a.felems[stay[1]] = NIL /\ a.relems[stay[Len(stay)]] = NIL
        /\ \A i, j \in 1 .. Len(stay) : j = i + 1 => a.relems[stay[i]] = stay[j] /\ a.felems[stay[j]] = stay[i]
        /\ \A c \in E : (\A i \in 1 .. Len(stay) : stay[i] # c) => a.felems[c] = ecs.felems[c] /\ a.relems[c] = ecs.relems[c]
    <3> HIDE DEF a
    <3> QED BY <2>a DEF LinksMade
  <2> HIDE DEF a
  <2>b. LinksMade(b, a, n, leave)
    BY <2>3, <1>6, <1>a, LinkedIs
  <2>4. /\ EcsTypeOK(b, n)
        /\ b.group = a.group /\ b.repelems = a.repelems /\ b.nGroups = a.nGroups
        /\ b.felems[leave[1]] = NIL /\ b.relems[leave[Len(leave)]] = NIL
        /\ \A i, j \in 1 .. Len(leave) : j = i + 1 => b.relems[leave[i]] = leave[j] /\ b.felems[leave[j]] = leave[i]
        /\ \A c \in E : (\A i \in 1 .. Len(leave) : leave[i] # c) => b.felems[c] = a.felems[c] /\ b.relems[c] = a.relems[c]
    <3> HIDE DEF b
    <3> QED BY <2>b DEF LinksMade
  <2> HIDE DEF b
  <2>5. /\ EcsTypeOK(e, n) /\ e.group = G /\ e.repelems = P /\ e.nGroups = N + 1
        /\ e.felems = b.felems /\ e.relems = b.relems
    <3>1. Elements(b) = E
      BY <2>4 DEF EcsTypeOK, Elements
    <3>2. \A c \in E : c \in ToSet(leave) <=> Lv(c)
      <4>1. DOMAIN leave = 1 .. Len(leave)
        BY <1>a
      <4> QED BY <4>1, <1>c DEF ToSet
    <3> HIDE DEF Lv
    <3> DEFINE G1 == [c \in Elements(b) |-> IF c \in ToSet(leave) THEN b.nGroups ELSE b.group[c]]
               P1 == [b.repelems EXCEPT ![b.nGroups] = Head(leave)]
    <3>3. G1 = G
      BY <3>1, <3>2, <2>3, <2>4
    <3>4. P1 = P
      BY <2>1, <2>3, <2>4
    <3>5. G \in [E -> Nat] /\ P \in [E -> {NIL} \union E]
      <4>1. \A c \in E : G[c] \in Nat
        BY <1>1
      <4>2. G \in [E -> Nat]
        BY <4>1
      <4>3. ecs.repelems \in [E -> {NIL} \union E] /\ leave[1] \in E
        BY <1>1, <2>1 DEF EcsTypeOK
      <4> HIDE DEF G
      <4> QED
        BY <4>2, <4>3
    <3>6. e = [b EXCEPT !.group = G1, !.repelems = P1, !.nGroups = b.nGroups + 1]
      BY DEF NewClass
    <3> HIDE DEF G, P, e, G1, P1
    <3>7. e = [b EXCEPT !.group = G, !.repelems = P, !.nGroups = N + 1]
      <4>1. b.nGroups = N
        BY <2>3, <2>4
      <4> QED BY ONLY <3>3, <3>4, <3>6, <4>1
    <3>8. /\ b.felems \in [E -> {NIL} \union E] /\ b.relems \in [E -> {NIL} \union E] /\ N + 1 \in Nat
          /\ b = [group |-> b.group, felems |-> b.felems, relems |-> b.relems, repelems |-> b.repelems, nGroups |-> b.nGroups]
      <4>1. /\ b.felems \in [E -> {NIL} \union E] /\ b.relems \in [E -> {NIL} \union E]
            /\ b = [group |-> b.group, felems |-> b.felems, relems |-> b.relems, repelems |-> b.repelems, nGroups |-> b.nGroups]
        BY <2>4 DEF EcsTypeOK
      <4>2. N + 1 \in Nat
        BY <1>1 DEF EcsTypeOK
      <4> QED BY <4>1, <4>2
    <3>9. e = [group |-> G, felems |-> b.felems, relems |-> b.relems, repelems |-> P, nGroups |-> N + 1]
      BY <3>7, <3>8
    <3>10. e.group = G /\ e.repelems = P /\ e.nGroups = N + 1 /\ e.felems = b.felems /\ e.relems = b.relems
      BY <3>9
    <3> QED
      BY <3>5, <3>8, <3>9, <3>10 DEF EcsTypeOK
  <2>6. Split(ecs, stay, leave) = e
    BY <1>6 DEF Split, a, b
  <2> HIDE DEF e
  <2>7. \A c \in E : e.group[c] = IF Lv(c) THEN N ELSE ecs.group[c]
    BY <2>5
  <2>8. \A j \in E : e.repelems[j] = IF j = N THEN leave[1] ELSE ecs.repelems[j]
    BY <2>5, <1>1 DEF EcsTypeOK
  <2>9. \A j \in 0 .. N - 1 : j \in E /\ j # N
    BY <1>1, <2>2
  <2> HIDE DEF G, P, Lv
  <2>10. \A c \in E : e.group[c] < N + 1
    BY <2>7, <1>1
  <2>11. IsList(e, k, stay)
    <3>1. Elements(e) = E
      BY <2>5 DEF EcsTypeOK, Elements
    <3>2. e.repelems[k] = stay[1]
      BY <2>8, <2>9, <1>2
    <3>3. \A i \in 1 .. Len(stay) : stay[i] \in E /\ \A j \in 1 .. Len(leave) : leave[j] # stay[i]
      BY <1>4
    <3>4. \A i \in 1 .. Len(stay) : e.felems[stay[i]] = a.felems[stay[i]] /\ e.relems[stay[i]] = a.relems[stay[i]]
      BY <3>3, <2>4, <2>5
    <3>5. \A i, j \in 1 .. Len(stay) : j = i + 1 => e.relems[stay[i]] = stay[j] /\ e.felems[stay[j]] = stay[i]
      BY <3>4, <2>3
    <3>6. Len(stay) \in 1 .. Len(stay)
      BY <1>a
    <3>7. e.felems[stay[1]] = NIL /\ e.relems[stay[Len(stay)]] = NIL
      BY <3>4, <3>6, <2>3, <2>1
    <3>8. \A c \in E : (e.group[c] = k) <=> \E i \in 1 .. Len(stay) : stay[i] = c
      BY <2>7, <1>2, <1>b DEF Lv
    <3> QED
      BY <3>1, <3>2, <3>5, <3>7, <3>8, <1>a DEF IsList
  <2>12. IsList(e, N, leave)
    <3>1. Elements(e) = E
      BY <2>5 DEF EcsTypeOK, Elements
    <3>2. e.repelems[N] = leave[1] /\ N \in E
      BY <2>8, <2>2, <1>1
    <3>3. \A c \in E : (e.group[c] = N) <=> \E i \in 1 .. Len(leave) : leave[i] = c
      BY <2>7, <1>1, <1>c DEF Lv
    <3>4. leave \in Seq(Elements(e)) /\ leave # <<>> /\ e.repelems[N] = leave[1]
          /\ (\A i, j \in 1 .. Len(leave) : leave[i] = leave[j] => i = j)
      BY <3>1, <3>2, <1>6, <1>a
    <3>5. e.felems[leave[1]] = NIL /\ e.relems[leave[Len(leave)]] = NIL
      BY <2>4, <2>5
    <3>6. \A i, j \in 1 .. Len(leave) : j = i + 1 => e.relems[leave[i]] = leave[j] /\ e.felems[leave[j]] = leave[i]
      BY <2>4, <2>5
    <3>7. \A c \in Elements(e) : (e.group[c] = N) <=> \E i \in 1 .. Len(leave) : leave[i] = c
      BY <3>1, <3>3
    <3> HIDE DEF N
    <3> QED
      BY ONLY <3>4, <3>5, <3>6, <3>7 DEF IsList
  <2>13. ASSUME NEW j \in 0 .. N - 1, j # k PROVE \E M : IsList(e, j, M)
    <3>1. PICK M : IsList(ecs, j, M)
      BY DEF Partition
    <3>2. e.repelems[j] = ecs.repelems[j]
      BY <2>8, <2>9
    <3>3. ASSUME NEW c \in E, ecs.group[c] = j PROVE e.felems[c] = ecs.felems[c] /\ e.relems[c] = ecs.relems[c]
      <4>1. (\A i \in 1 .. Len(stay) : stay[i] # c) /\ (\A i \in 1 .. Len(leave) : leave[i] # c)
        BY <1>4, <2>13, <3>3
      <4> QED
        BY <4>1, <2>3, <2>4, <2>5
    <3>4. \A c \in E : e.group[c] = j <=> ecs.group[c] = j
      BY <2>7, <2>9, <1>3, <2>13
    <3> QED
      BY <3>1, <3>2, <3>3, <3>4, <1>1, <2>5, IsListKept
  <2>14. \A j \in 0 .. e.nGroups - 1 : \E M : IsList(e, j, M)
    <3>1. \A j \in 0 .. e.nGroups - 1 : j \in 0 .. N - 1 \/ j = N
      BY <2>5, <1>1
    <3> QED
      BY <3>1, <2>11, <2>12, <2>13
  <2>15. \A j \in E : j >= e.nGroups => e.repelems[j] = NIL
    <3>1. \A j \in E : j >= e.nGroups => j # N /\ j >= N
      BY <2>5, <1>1
    <3> QED
      BY <3>1, <2>8 DEF Partition
  <2>16. e.nGroups \in 1 .. n /\ \A c \in E : e.group[c] < e.nGroups
    BY <2>2, <2>5, <2>10, <1>1
  <2>17. Partition(e, n)
    BY <2>5, <2>14, <2>15, <2>16 DEF Partition
  <2>18. Lv(leave[1]) /\ leave[1] \in E
    BY <2>1
  <2> QED
    BY <2>5, <2>6, <2>7, <2>8, <2>9, <2>17, <2>18 DEF Splits, Lv
<1> QED
  BY <1>5, <1>6
-----------------------------------------------------------------------------
(* What is picked from the list of a class is a list.                      *)
LEMMA PickedFromList ==
    ASSUME NEW n \in Nat, NEW ecs, EcsTypeOK(ecs, n), NEW k, NEW L, IsList(ecs, k, L), NEW set
    PROVE  /\ ListOf(Picked(L, set), n, {c \in 0 .. n - 1 : ecs.group[c] = k /\ c \in set})
           /\ ecs.repelems[k] \in set => Picked(L, set) # <<>> /\ Picked(L, set)[1] = ecs.repelems[k]
<1> DEFINE E == 0 .. n - 1
           p == Picked(L, set)
<1>1. /\ L \in Seq(E) /\ L # <<>> /\ ecs.repelems[k] = L[1]
      /\ \A c \in E : (ecs.group[c] = k) <=> \E i \in 1 .. Len(L) : L[i] = c
      /\ \A i, j \in 1 .. Len(L) : L[i] = L[j] => i = j
  BY DEF IsList, EcsTypeOK, Elements
<1>2. /\ p \in Seq(E)
      /\ \A c : (\E j \in 1 .. Len(p) : p[j] = c) <=> (c \in set /\ \E j \in 1 .. Len(L) : L[j] = c)
      /\ \A i, j \in 1 .. Len(p) : p[i] = p[j] => i = j
      /\ L[1] \in set => p # <<>> /\ p[1] = L[1]
  <2>1. L \in Seq(E) /\ (\A i, j \in 1 .. Len(L) : L[i] = L[j] => i = j) /\ L # <<>>
    BY <1>1
  <2> HIDE DEF E
  <2> QED
    BY ONLY <2>1, PickedIs DEF p
<1> HIDE DEF p
<1>3. \A c \in E : (\E j \in 1 .. Len(p) : p[j] = c) <=> c \in {d \in E : ecs.group[d] = k /\ d \in set}
  BY <1>1, <1>2
<1>4. ListOf(p, n, {c \in E : ecs.group[c] = k /\ c \in set})
  BY <1>2, <1>3 DEF ListOf
<1> QED
  BY <1>1, <1>2, <1>4 DEF p

(* A split leaves a partition; it sets apart exactly what the set sets     *)
(* apart in that class.                                                    *)
LEMMA SplitClassIs ==
    ASSUME NEW n \in Nat, NEW ecs, Partition(ecs, n), NEW k \in 0 .. ecs.nGroups - 1, NEW set
    PROVE  Splits(SplitClass(ecs, k, set), ecs, n, k, set)
<1> DEFINE E == 0 .. n - 1
           others == Elements(ecs) \ set
           inout == ecs.repelems[k] \in set
           S == IF inout THEN set ELSE others
           O == IF inout THEN others ELSE set
<1>1. EcsTypeOK(ecs, n) /\ Elements(ecs) = E
  BY DEF Partition, EcsTypeOK, Elements
<1>2. PICK L : IsList(ecs, k, L)
  BY DEF Partition
<1>3. Members(ecs, k) = L
  BY <1>1, <1>2, MembersAre
<1> DEFINE stay == Picked(L, S)
           leave == Picked(L, O)
<1>4. SplitClass(ecs, k, set) = Split(ecs, stay, leave)
  BY <1>3 DEF SplitClass, Then
<1>5. ecs.repelems[k] \in E
  BY <1>1, <1>2, IsListDefs
<1>6. ecs.repelems[k] \in S
  BY <1>1, <1>5
<1> HIDE DEF S, O
<1>7. /\ ListOf(stay, n, {c \in E : ecs.group[c] = k /\ c \in S}) /\ stay # <<>> /\ stay[1] = ecs.repelems[k]
      /\ ListOf(leave, n, {c \in E : ecs.group[c] = k /\ c \in O})
  BY <1>1, <1>2, <1>6, PickedFromList
<1>8. \A c \in E : /\ c \in S <=> (c \in set <=> inout)
                   /\ c \in O <=> ~(c \in set <=> inout)
  BY <1>1 DEF S, O
<1> HIDE DEF stay, leave, inout
<1>9. /\ {c \in E : ecs.group[c] = k /\ c \in S} = {c \in E : ecs.group[c] = k /\ ~Leaves(ecs, k, set, c)}
      /\ {c \in E : ecs.group[c] = k /\ c \in O} = {c \in E : Leaves(ecs, k, set, c)}
  BY <1>8 DEF Leaves, inout
<1>10. Splits(Split(ecs, stay, leave), ecs, n, k, set)
  BY <1>7, <1>9, SplitIs
<1> QED
  BY <1>4, <1>10

(* The invariant() of the class holds.                                     *)
LEMMA PartitionListsHold ==
    ASSUME NEW n \in Nat, NEW ecs, Partition(ecs, n)
    PROVE  ListsHold(ecs)
<1> DEFINE E == 0 .. n - 1
           used == {k \in DOMAIN ecs.repelems : ecs.repelems[k] # NIL}
<1>1. /\ EcsTypeOK(ecs, n) /\ Elements(ecs) = E /\ DOMAIN ecs.repelems = E
      /\ Cardinality(E) = n /\ ecs.nGroups \in 1 .. n
      /\ \A c \in E : ecs.group[c] \in 0 .. ecs.nGroups - 1
  <2>1. 0 \in Int /\ n - 1 \in Int /\ n = (n - 1) - 0 + 1 /\ (0 > n - 1 => n = 0)
    OBVIOUS
  <2>2. Cardinality(E) = n
    BY <2>1, FS_Interval
  <2>3. EcsTypeOK(ecs, n) /\ Elements(ecs) = E /\ DOMAIN ecs.repelems = E
    BY DEF Partition, EcsTypeOK, Elements
  <2>4. ecs.nGroups \in 1 .. n /\ \A c \in E : ecs.group[c] < ecs.nGroups /\ ecs.group[c] \in Nat
    BY <2>3 DEF Partition, EcsTypeOK
  <2> QED
    BY <2>2, <2>3, <2>4
<1>2. \A k \in used : k \in 0 .. ecs.nGroups - 1
  BY <1>1 DEF Partition
<1>3. ASSUME NEW k \in 0 .. ecs.nGroups - 1
      PROVE  /\ k \in used
             /\ ecs.felems[ecs.repelems[k]] = NIL
             /\ \A c \in ToSet(Members(ecs, k)) :
                    ecs.group[c] = k /\ (ecs.relems[c] # NIL => ecs.felems[ecs.relems[c]] = c)
             /\ IsInjective(Members(ecs, k))
             /\ \A c \in E : c \in ToSet(Members(ecs, k)) <=> ecs.group[c] = k
  <2>1. PICK L : IsList(ecs, k, L)
    BY DEF Partition
  <2>2. Members(ecs, k) = L
    BY <1>1, <2>1, MembersAre
  <2>3. /\ L \in Seq(E) /\ Len(L) \in Nat /\ 1 \in 1 .. Len(L) /\ Len(L) \in 1 .. Len(L)
        /\ \A i \in 1 .. Len(L) : L[i] \in 0 .. n - 1 /\ ecs.group[L[i]] = k
        /\ ecs.repelems[k] = L[1] /\ ecs.repelems[k] \in 0 .. n - 1
        /\ \A c \in E : ecs.group[c] = k => \E i \in 1 .. Len(L) : L[i] = c
    BY <1>1, <2>1, IsListDefs
  <2>4. DOMAIN L = 1 .. Len(L)
    BY <2>3
  <2>5. k \in used
    BY <1>1, <2>3 DEF NIL
  <2>6. ASSUME NEW i \in 1 .. Len(L), ecs.relems[L[i]] # NIL PROVE ecs.felems[ecs.relems[L[i]]] = L[i]
    <3> DEFINE m == Len(L)
    <3>1. i # m
      BY <2>1, <2>6 DEF IsList
    <3>2. m \in Nat /\ i \in 1 .. m
      BY <2>3
    <3> HIDE DEF m
    <3>3. i + 1 \in 1 .. m
      BY <3>1, <3>2
    <3> QED
      BY <3>3, <2>1 DEF IsList, m
  <2>7. \A c : c \in ToSet(L) <=> \E i \in 1 .. Len(L) : L[i] = c
    BY <2>4 DEF ToSet
  <2>8. IsInjective(L)
    BY <2>1, <2>4 DEF IsList, IsInjective
  <2>9. ecs.felems[ecs.repelems[k]] = NIL
    BY <2>1, <2>3 DEF IsList
  <2> QED
    BY <2>2, <2>3, <2>5, <2>6, <2>7, <2>8, <2>9
<1>4. ASSUME NEW c \in E PROVE Cardinality({k \in used : c \in ToSet(Members(ecs, k))}) = 1
  <2>1. {k \in used : c \in ToSet(Members(ecs, k))} = {ecs.group[c]}
    <3> HIDE DEF used
    <3> QED BY <1>1, <1>2, <1>3
  <2> QED
    BY <2>1, FS_Singleton
<1>5. ecs.nGroups > 0 /\ ecs.nGroups <= Cardinality(Elements(ecs))
  BY <1>1
<1>6. \A k \in used :
        /\ ecs.felems[ecs.repelems[k]] = NIL
        /\ \A c \in ToSet(Members(ecs, k)) :
            /\ ecs.group[c] = k
            /\ ecs.relems[c] # NIL => ecs.felems[ecs.relems[c]] = c
        /\ IsInjective(Members(ecs, k))
  <2> HIDE DEF used
  <2> QED BY <1>2, <1>3
<1>7. ListsHold(ecs) <=>
        /\ ecs.nGroups > 0 /\ ecs.nGroups <= Cardinality(Elements(ecs))
        /\ \A k \in used :
            /\ ecs.felems[ecs.repelems[k]] = NIL
            /\ \A c \in ToSet(Members(ecs, k)) :
                /\ ecs.group[c] = k
                /\ ecs.relems[c] # NIL => ecs.felems[ecs.relems[c]] = c
            /\ IsInjective(Members(ecs, k))
        /\ \A c \in Elements(ecs) : Cardinality({k \in used : c \in ToSet(Members(ecs, k))}) = 1
  BY DEF ListsHold
<1> HIDE DEF used
<1> QED
  BY <1>1, <1>4, <1>5, <1>6, <1>7

(* All in one class, as the constructor leaves it.                         *)
LEMMA AllInOnePartition ==
    ASSUME NEW n \in Nat \ {0}
    PROVE  Partition(AllInOne(n), n) /\ (\A c \in 0 .. n - 1 : AllInOne(n).group[c] = 0) /\ AllInOne(n).nGroups = 1
<1> DEFINE E == 0 .. n - 1
           e == AllInOne(n)
           L == [i \in 1 .. n |-> i - 1]
<1>1. EcsTypeOK(e, n)
  <2>1. e.group \in [E -> Nat] /\ e.felems \in [E -> {NIL} \union E] /\ e.relems \in [E -> {NIL} \union E]
        /\ e.repelems \in [E -> {NIL} \union E] /\ e.nGroups \in Nat
    BY DEF AllInOne, NIL
  <2> QED
    BY <2>1 DEF AllInOne, EcsTypeOK
<1>2. /\ \A c \in E : e.group[c] = 0 /\ e.felems[c] = c - 1 /\ (e.relems[c] = IF c = n - 1 THEN NIL ELSE c + 1)
                      /\ (e.repelems[c] = IF c = 0 THEN 0 ELSE NIL)
      /\ e.nGroups = 1 /\ Elements(e) = E
  BY DEF AllInOne, Elements
<1>3. L \in Seq(E) /\ Len(L) = n /\ L # <<>>
  <2>1. \A i \in 1 .. n : L[i] \in E
    OBVIOUS
  <2>2. L \in [1 .. n -> E]
    BY <2>1
  <2>3. L \in Seq(E) /\ Len(L) = n
    <3> HIDE DEF L
    <3> QED BY <2>2
  <2> QED
    BY <2>3
<1>4. \A i \in 1 .. n : L[i] = i - 1 /\ L[i] \in E
  OBVIOUS
<1> HIDE DEF L, e
<1>5. IsList(e, 0, L)
  <2>1. 0 \in E /\ 1 \in 1 .. n /\ n \in 1 .. n /\ n - 1 \in E
    OBVIOUS
  <2>2. e.repelems[0] = L[1] /\ e.felems[L[1]] = NIL /\ e.relems[L[n]] = NIL
    BY <2>1, <1>2, <1>4 DEF NIL
  <2>3. \A i, j \in 1 .. n : j = i + 1 => e.relems[L[i]] = L[j] /\ e.felems[L[j]] = L[i]
    BY <1>2, <1>4
  <2>4. \A i, j \in 1 .. n : L[i] = L[j] => i = j
    BY <1>4
  <2>5. \A c \in E : (e.group[c] = 0) <=> \E i \in 1 .. n : L[i] = c
    <3>1. \A c \in E : c + 1 \in 1 .. n /\ L[c + 1] = c
      BY <1>4
    <3> QED BY <3>1, <1>2
  <2> QED
    BY <1>2, <1>3, <2>2, <2>3, <2>4, <2>5 DEF IsList
<1>6. \A k \in 0 .. e.nGroups - 1 : \E M : IsList(e, k, M)
  BY <1>2, <1>5
<1>7. Partition(e, n)
  <2>1. e.nGroups \in 1 .. n /\ (\A c \in E : e.group[c] < e.nGroups)
        /\ \A k \in E : k >= e.nGroups => e.repelems[k] = NIL
    BY <1>2
  <2> QED
    BY <1>1, <1>6, <2>1 DEF Partition
<1> QED
  BY <1>2, <1>7 DEF e
-----------------------------------------------------------------------------
(* A set that grows in every step or not any more, as often as there are   *)
(* elements.                                                               *)
Chain(f, g, A, S) ==
    /\ S \in SUBSET A /\ g \in [SUBSET A -> SUBSET A] /\ \A B \in SUBSET A : B \subseteq g[B]
    /\ f[0] = S /\ \A i \in 1 .. Cardinality(A) : f[i] = g[f[i - 1]]
FixedPoint(R, g, A, S) ==
    /\ R \in SUBSET A /\ S \subseteq R /\ g[R] = R
    /\ \A C \in SUBSET A : S \subseteq C /\ (\A B \in SUBSET C : g[B] \subseteq C) => R \subseteq C

(* A growing chain of subsets of a finite set has stopped after as many    *)
(* steps as there are elements.                                            *)
LEMMA ChainStops ==
    ASSUME NEW A, IsFiniteSet(A), NEW S, NEW g, NEW f, Chain(f, g, A, S)
    PROVE  FixedPoint(f[Cardinality(A)], g, A, S)
<1> DEFINE n == Cardinality(A)
           Grown(i) == g[f[i]] = f[i] \/ i <= Cardinality(f[i])
           T == {i \in 0 .. n : f[i] \in SUBSET A /\ S \subseteq f[i] /\ Grown(i)}
<1>0. n \in Nat /\ 0 \in 0 .. n /\ n \in 0 .. n
  BY FS_CardinalityType
<1>b. /\ S \in SUBSET A /\ g \in [SUBSET A -> SUBSET A] /\ \A B \in SUBSET A : B \subseteq g[B]
      /\ f[0] = S /\ \A i \in 1 .. n : f[i] = g[f[i - 1]]
  BY DEF Chain
<1>a. \A B \in SUBSET A : IsFiniteSet(B) /\ Cardinality(B) \in Nat
  BY FS_Subset, FS_CardinalityType
<1>1. 0 \in T
  <2>1. Cardinality(S) >= 0
    <3> HIDE DEF n
    <3>1. Cardinality(S) \in Nat
      BY <1>a, <1>b
    <3> QED BY <3>1
  <2> QED BY <1>0, <2>1, <1>a, <1>b
<1>2. ASSUME NEW i \in 0 .. n, NEW j \in 0 .. n, i \in T, j = i + 1 PROVE j \in T
  <2>1. j \in 1 .. n /\ j - 1 = i /\ f[j] = g[f[i]]
    BY <1>0, <1>2, <1>b
  <2>2. f[j] \in SUBSET A /\ f[i] \subseteq f[j] /\ S \subseteq f[j]
    BY <2>1, <1>2, <1>b
  <2>3. CASE f[j] = f[i]
    BY <2>1, <2>2, <2>3
  <2>4. CASE f[j] # f[i]
    <3>1. i <= Cardinality(f[i])
      BY <2>1, <2>4, <1>2
    <3>2. Cardinality(f[i]) < Cardinality(f[j])
      BY <2>2, <2>4, <1>a, FS_Subset
    <3>3. j <= Cardinality(f[j])
      BY <3>1, <3>2, <2>2, <1>2, <1>a
    <3> QED BY <3>3, <2>2
  <2> QED BY <2>3, <2>4
<1>3. n \in T
  <2> HIDE DEF T, n
  <2> QED BY <1>0, <1>1, <1>2, UpTo
<1>4. g[f[n]] = f[n]
  <2>1. CASE n <= Cardinality(f[n])
    <3>1. Cardinality(f[n]) <= n
      BY <1>3, FS_Subset
    <3>2. f[n] = A
      <4> DEFINE B == f[n]
      <4>1. B \in SUBSET A /\ n <= Cardinality(B)
        BY <1>3, <2>1
      <4> HIDE DEF B
      <4>2. Cardinality(B) <= Cardinality(A) /\ (Cardinality(A) = Cardinality(B) => A = B)
        BY <4>1, FS_Subset
      <4>3. B = A
        BY <4>1, <4>2, <1>a, <1>0
      <4> QED BY <4>3 DEF B
    <3>3. A \subseteq g[A] /\ g[A] \subseteq A
      BY <1>b
    <3> QED BY <3>2, <3>3
  <2> QED BY <1>3, <2>1
<1>5. ASSUME NEW C \in SUBSET A, S \subseteq C, \A B \in SUBSET C : g[B] \subseteq C
      PROVE  f[n] \subseteq C
  <2> DEFINE U == {i \in 0 .. n : f[i] \subseteq C}
  <2>1. 0 \in U
    BY <1>0, <1>5, <1>b
  <2>2. ASSUME NEW i \in 0 .. n, NEW j \in 0 .. n, i \in U, j = i + 1 PROVE j \in U
    <3>1. j \in 1 .. n /\ j - 1 = i /\ f[j] = g[f[i]]
      BY <1>0, <2>2, <1>b
    <3> QED BY <3>1, <2>2, <1>5
  <2>3. n \in U
    <3> HIDE DEF U, n
    <3> QED BY <1>0, <2>1, <2>2, UpTo
  <2> QED BY <2>3
<1> QED
  BY <1>3, <1>4, <1>5 DEF FixedPoint

(* Closure gives the least set that is closed under the steps.             *)
Closes(R, step, S) ==
    /\ R \in SUBSET DOMAIN step /\ S \subseteq R /\ \A q \in R : step[q] \subseteq R
    /\ \A C \in SUBSET DOMAIN step : S \subseteq C /\ (\A q \in C : step[q] \subseteq C) => R \subseteq C

(* Closure is the least set with the given elements that the steps do not  *)
(* leave.                                                                  *)
LEMMA ClosureIs ==
    ASSUME NEW D, IsFiniteSet(D), NEW step \in [D -> SUBSET D], NEW S \in SUBSET D
    PROVE  Closes(Closure(step, S), step, S)
<1> DEFINE n == Cardinality(D)
           A == SUBSET D
           g == [B \in A |-> UNION {{q} \union step[q] : q \in B}]
           h == [p \in A \X (1 .. n) |-> g[p[1]]]
           Is(f) == f = [i \in 0 .. Cardinality(DOMAIN step) |->
                        IF i = 0 THEN S ELSE UNION {{q} \union step[q] : q \in f[i - 1]}]
           close == CHOOSE f : Is(f)
<1>0. n \in Nat /\ DOMAIN step = D
  BY FS_CardinalityType
<1>1. g \in [A -> A] /\ \A B \in A : B \subseteq g[B]
  <2>1. \A B \in A : UNION {{q} \union step[q] : q \in B} \in A
    OBVIOUS
  <2> QED BY <2>1
<1>b. \A B \in A : g[B] = UNION {{q} \union step[q] : q \in B}
  OBVIOUS
<1> HIDE DEF A, g
<1>2. h \in [A \X (1 .. n) -> A] /\ S \in A
  BY <1>1 DEF A
<1>c. \A B \in A, i \in 1 .. n : h[<<B, i>>] = g[B]
  OBVIOUS
<1>3. PICK f : DefinedBy(f, n, A, S, h)
  <2> HIDE DEF h, n
  <2> QED BY <1>0, <1>2, RecursionExists
<1>4. f \in [0 .. n -> A] /\ f[0] = S /\ \A i \in 1 .. n : i - 1 \in 0 .. n /\ f[i] = g[f[i - 1]]
  <2>1. f \in [0 .. n -> A] /\ f[0] = S /\ \A i \in 1 .. n : f[i] = h[<<f[i - 1], i>>]
    BY <1>3 DEF DefinedBy
  <2>2. \A i \in 1 .. n : i - 1 \in 0 .. n
    BY <1>0
  <2> HIDE DEF h, n
  <2> QED BY <2>1, <2>2, <1>c
<1>5. Is(f)
  <2> DEFINE e == [i \in 0 .. n |-> IF i = 0 THEN S ELSE UNION {{q} \union step[q] : q \in f[i - 1]}]
  <2>1. \A i \in 0 .. n : e[i] = f[i]
    <3> SUFFICES ASSUME NEW i \in 0 .. n PROVE e[i] = f[i]
      OBVIOUS
    <3>1. CASE i = 0
      BY <3>1, <1>4
    <3>2. CASE i # 0
      <4>1. i \in 1 .. n
        BY <1>0, <3>2
      <4>2. f[i] = g[f[i - 1]] /\ f[i - 1] \in A
        BY <4>1, <1>4
      <4> QED
        BY <3>2, <4>2, <1>b
    <3> QED BY <3>1, <3>2
  <2>2. f = [i \in 0 .. n |-> f[i]] /\ e = [i \in 0 .. n |-> e[i]]
    BY <1>4
  <2> HIDE DEF e
  <2>3. f = e
    BY <2>1, <2>2
  <2> QED
    BY <2>3, <1>0 DEF e
<1>6. Is(close)
  BY <1>5
<1> HIDE DEF close
<1>7. close[0] = S /\ \A i, j \in 0 .. n : j = i + 1 => close[j] = UNION {{q} \union step[q] : q \in close[i]}
  <2>1. close[0] = S
    BY <1>0, <1>6
  <2>2. ASSUME NEW i \in 0 .. n, NEW j \in 0 .. n, j = i + 1
        PROVE  close[j] = UNION {{q} \union step[q] : q \in close[i]}
    <3>1. j # 0 /\ j - 1 = i
      BY <1>0, <2>2
    <3> QED BY <3>1, <1>0, <1>6
  <2> QED BY <2>1, <2>2
<1>8. \A i \in 0 .. n : close[i] = f[i]
  <2>1. ASSUME NEW i \in 0 .. n, NEW j \in 0 .. n, j = i + 1, close[i] = f[i] PROVE close[j] = f[j]
    <3>1. j \in 1 .. n /\ j - 1 = i /\ f[i] \in A
      BY <1>0, <1>4, <2>1
    <3>2. f[j] = g[f[i]]
      BY <3>1, <1>4
    <3>3. close[j] = UNION {{q} \union step[q] : q \in f[i]}
      BY <1>7, <2>1
    <3> QED BY <3>1, <3>2, <3>3, <1>b
  <2>2. close[0] = f[0]
    BY <1>4, <1>7
  <2> HIDE DEF n
  <2> QED BY <1>0, <2>1, <2>2, OneRecursion
<1>9. Closure(step, S) = close[n]
  BY <1>0 DEF Closure, close
<1>10. Closure(step, S) = f[n]
  BY <1>0, <1>8, <1>9
<1>11. /\ f[n] \in SUBSET D /\ S \subseteq f[n] /\ g[f[n]] = f[n]
       /\ \A C \in SUBSET D : S \subseteq C /\ (\A B \in SUBSET C : g[B] \subseteq C) => f[n] \subseteq C
  <2>1. Chain(f, g, D, S)
    BY <1>1, <1>4 DEF A, Chain
  <2>2. FixedPoint(f[n], g, D, S)
    BY <2>1, ChainStops
  <2> QED
    BY <2>2 DEF FixedPoint
<1>12. \A q \in f[n] : step[q] \subseteq f[n]
  <2>1. f[n] = UNION {{q} \union step[q] : q \in f[n]}
    BY <1>11, <1>b DEF A
  <2> QED BY <2>1
<1>13. ASSUME NEW C \in SUBSET D, S \subseteq C, \A q \in C : step[q] \subseteq C PROVE f[n] \subseteq C
  <2>1. ASSUME NEW B \in SUBSET C PROVE g[B] \subseteq C
    <3>1. g[B] = UNION {{q} \union step[q] : q \in B}
      BY <1>b DEF A
    <3> QED BY <3>1, <1>13
  <2> QED BY <2>1, <1>11, <1>13
<1> QED
  BY <1>0, <1>10, <1>11, <1>12, <1>13 DEF Closes
-----------------------------------------------------------------------------
X == DOMAIN moves
CallRecords == [state : X, move : Nat]

PredTypeOK ==
    /\ 1 \in X /\ 0 \notin X
    /\ \E c \in Nat : \A x \in X : Classes(x) = 0 .. c - 1
    /\ \A x \in X : \A m \in Classes(x) : moves[x][m] \in X \union {0}
    /\ predStates \in [X -> SUBSET X]
    /\ predCalls \in Seq(CallRecords)

Pending(x, m) ==
    \E i \in DOMAIN predCalls : predCalls[i].state = x /\ predCalls[i].move <= m

NothingLeftOut ==
    \A x \in X : 1 \in predStates[x] =>
        \A m \in Classes(x) : moves[x][m] # 0 =>
            predStates[x] \subseteq predStates[moves[x][m]] \/ Pending(x, m)

PredInv == PredTypeOK /\ NothingLeftOut
-----------------------------------------------------------------------------
(* Advanced and an activation on top of it, position by position.          *)
LEMMA AdvancedCalls ==
    ASSUME PredTypeOK, predCalls # <<>>
    PROVE  /\ InnerCall \in CallRecords
           /\ InnerCall = predCalls[Len(predCalls)]
           /\ Len(predCalls) \in DOMAIN predCalls
           /\ Advanced \in Seq(CallRecords)
           /\ DOMAIN Advanced = DOMAIN predCalls
           /\ \A i \in DOMAIN predCalls : i # Len(predCalls) => Advanced[i] = predCalls[i]
           /\ Advanced[Len(predCalls)].state = InnerCall.state
           /\ Advanced[Len(predCalls)].move = InnerCall.move + 1
           /\ OuterCalls \in Seq(CallRecords)
           /\ \A i \in DOMAIN predCalls : i # Len(predCalls) =>
                 i \in DOMAIN OuterCalls /\ OuterCalls[i] = predCalls[i]
  <1> DEFINE e == [InnerCall EXCEPT !.move = @ + 1]
  <1>1. predCalls \in Seq(CallRecords)
    BY DEF PredTypeOK
  <1>2. Len(predCalls) \in Nat /\ DOMAIN predCalls = 1 .. Len(predCalls) /\ Len(predCalls) # 0
    BY <1>1
  <1>3. Len(predCalls) \in DOMAIN predCalls /\ InnerCall = predCalls[Len(predCalls)]
    BY <1>2 DEF InnerCall
  <1>4. InnerCall \in CallRecords
    BY <1>1, <1>3
  <1>5. e \in CallRecords /\ e.state = InnerCall.state /\ e.move = InnerCall.move + 1
    BY <1>4 DEF CallRecords
  <1>6. \A i \in DOMAIN predCalls : i # Len(predCalls) => i \in 1 .. Len(predCalls) - 1
    BY <1>2
  <1> HIDE DEF e
  <1> DEFINE u == OuterCalls
             r == Advanced
             C == CallRecords
             n == Len(predCalls)
  <1>7. u = SubSeq(predCalls, 1, Len(predCalls) - 1) /\ r = Append(u, e)
    BY DEF OuterCalls, Advanced, e
  <1>8. predCalls \in Seq(C) /\ e \in C /\ n = Len(predCalls) /\ n \in Nat /\ n # 0
    BY <1>1, <1>2, <1>5
  <1> HIDE DEF u, r, C, n
  <1>9. u \in Seq(C) /\ Len(u) = n - 1 /\ \A i \in 1 .. n - 1 : u[i] = predCalls[i]
    BY <1>7, <1>8
  <1>10. DOMAIN u = 1 .. n - 1
    BY <1>9
  <1>11. r \in Seq(C) /\ Len(r) = n - 1 + 1 /\ r[n - 1 + 1] = e
    BY <1>7, <1>8, <1>9
  <1>12. \A i \in 1 .. Len(u) : r[i] = u[i]
    BY <1>7, <1>8, <1>9
  <1>13. n - 1 + 1 = n
    BY <1>8
  <1>14. DOMAIN r = 1 .. n /\ r[n] = e
    <2>1. DOMAIN r = 1 .. Len(r)
      BY <1>11
    <2> QED BY <2>1, <1>11, <1>13
  <1>15. DOMAIN r = DOMAIN predCalls
    BY <1>14, <1>2, <1>8
  <1>16. ASSUME NEW i \in DOMAIN predCalls, i # n
         PROVE  r[i] = predCalls[i] /\ i \in DOMAIN u /\ u[i] = predCalls[i]
    <2>1. i \in 1 .. n - 1
      BY <1>6, <1>16, <1>8
    <2> QED BY <2>1, <1>9, <1>10, <1>12
  <1> QED BY <1>3, <1>4, <1>5, <1>8, <1>9, <1>11, <1>14, <1>15, <1>16 DEF u, r, C

(* A set of predecessors with one more element.                            *)
LEMMA OneMore ==
    ASSUME NEW T, NEW r \in Seq(T), NEW f \in T
    PROVE  /\ Append(r, f) \in Seq(T)
           /\ \A i \in DOMAIN r : i \in DOMAIN Append(r, f) /\ Append(r, f)[i] = r[i]
           /\ Len(r) + 1 \in DOMAIN Append(r, f)
           /\ Append(r, f)[Len(r) + 1] = f
  OBVIOUS
-----------------------------------------------------------------------------
(* The invariant of the predecessor sets: at the start.                    *)
THEOREM InitPredInv == PredInit => PredInv
  <1> SUFFICES ASSUME PredInit PROVE PredInv
    OBVIOUS
  <1>1. PICK n \in Nat \ {0}, c \in Nat :
            /\ moves \in [1 .. n -> [0 .. c - 1 -> 0 .. n]]
            /\ predStates = [x \in 1 .. n |-> {x}]
            /\ predCalls = <<Call(1)>>
    BY DEF PredInit
  <1>2. X = 1 .. n /\ 1 \in X /\ 0 \notin X
    BY <1>1 DEF X
  <1>3. \A x \in X : Classes(x) = 0 .. c - 1
    BY <1>1, <1>2 DEF Classes
  <1>4. \A x \in X : \A m \in Classes(x) : moves[x][m] \in X \union {0}
    BY <1>1, <1>2, <1>3
  <1>5. predStates \in [X -> SUBSET X]
    BY <1>1, <1>2
  <1>6. Call(1) \in CallRecords /\ Call(1).state = 1 /\ Call(1).move = 0
    BY <1>2 DEF Call, CallRecords
  <1>7. predCalls \in Seq(CallRecords) /\ 1 \in DOMAIN predCalls /\ predCalls[1] = Call(1)
    BY <1>1, <1>6
  <1>8. NothingLeftOut
    <2> SUFFICES ASSUME NEW x \in X, 1 \in predStates[x], NEW m \in Classes(x)
                 PROVE  Pending(x, m)
      BY DEF NothingLeftOut
    <2>1. x = 1
      BY <1>1, <1>2
    <2>2. m \in Nat /\ 0 <= m
      BY <1>3
    <2> QED BY <1>6, <1>7, <2>1, <2>2 DEF Pending
  <1> QED BY <1>1, <1>2, <1>3, <1>4, <1>5, <1>7, <1>8 DEF PredInv, PredTypeOK

(* The invariant of the predecessor sets: every call keeps it.             *)
THEOREM NextPredInv == PredInv /\ [PredNext]_predVars => PredInv'
  <1> SUFFICES ASSUME PredInv, [PredNext]_predVars PROVE PredInv'
    OBVIOUS
  <1> USE DEF PredInv
  <1>1. \A x \in X : \A m \in Classes(x) : m \in Nat
    BY DEF PredTypeOK
  <1>2. ASSUME PassMove PROVE PredInv'
    <2>1. predCalls # <<>> /\ predCalls' = Advanced /\ moves' = moves /\ predStates' = predStates
      BY <1>2 DEF PassMove, AtMove
    <2>2. PredTypeOK'
      BY <2>1, AdvancedCalls DEF PredTypeOK, CallRecords, X, Classes
    <2>3. NothingLeftOut'
      <3> SUFFICES ASSUME NEW x \in X, 1 \in predStates[x], NEW m \in Classes(x), moves[x][m] # 0,
                          ~(predStates[x] \subseteq predStates[moves[x][m]])
                   PROVE  Pending(x, m)'
        BY <2>1 DEF NothingLeftOut, X, Classes
      <3>1. PICK i \in DOMAIN predCalls : predCalls[i].state = x /\ predCalls[i].move <= m
        BY DEF NothingLeftOut, Pending
      <3>2. ~(InnerCall.state = x /\ InnerCall.move = m)
        BY <1>2 DEF PassMove, Destination
      <3>3. CASE i # Len(predCalls)
        BY <2>1, <3>1, <3>3, AdvancedCalls DEF Pending
      <3>4. CASE i = Len(predCalls)
        <4>1. InnerCall.state = x /\ InnerCall.move \in Nat /\ InnerCall.move + 1 <= m
          <5>1. InnerCall \in CallRecords /\ InnerCall = predCalls[i]
            BY <2>1, <3>4, AdvancedCalls
          <5>2. InnerCall.state = x /\ InnerCall.move \in Nat /\ InnerCall.move <= m
            BY <5>1, <3>1 DEF CallRecords
          <5> QED BY <5>2, <3>2, <1>1
        <4> QED BY <4>1, <2>1, AdvancedCalls DEF Pending
      <3> QED BY <3>3, <3>4
    <2> QED BY <2>2, <2>3
  <1>3. ASSUME CarryOver PROVE PredInv'
    <2> DEFINE s == InnerCall.state
               y == Destination
    <2>1. /\ predCalls # <<>> /\ y # 0 /\ InnerCall.move \in Classes(s)
          /\ y = moves[s][InnerCall.move]
          /\ predStates' = [predStates EXCEPT ![y] = @ \union predStates[s]]
          /\ predCalls' = Append(Advanced, Call(y)) /\ moves' = moves
      BY <1>3 DEF CarryOver, AtMove, Destination
    <2>2. s \in X /\ y \in X
      BY <2>1, AdvancedCalls DEF PredTypeOK, CallRecords
    <2>3. Call(y) \in CallRecords /\ Call(y).state = y /\ Call(y).move = 0
      BY <2>2 DEF Call, CallRecords
    <2>4. /\ Append(Advanced, Call(y)) \in Seq(CallRecords)
          /\ \A i \in DOMAIN predCalls :
                i \in DOMAIN Append(Advanced, Call(y)) /\ Append(Advanced, Call(y))[i] = Advanced[i]
          /\ \E i \in DOMAIN Append(Advanced, Call(y)) : Append(Advanced, Call(y))[i] = Call(y)
      <3>1. Advanced \in Seq(CallRecords) /\ DOMAIN Advanced = DOMAIN predCalls
        BY <2>1, AdvancedCalls
      <3> HIDE DEF y
      <3> QED BY <3>1, <2>3, OneMore
    <2>5. \A x \in X : predStates[x] \subseteq predStates'[x]
      BY <2>1, <2>2 DEF PredTypeOK
    <2>6. \A x \in X : x # y => predStates'[x] = predStates[x]
      BY <2>1, <2>2 DEF PredTypeOK
    <2>7. predStates[s] \subseteq predStates'[y]
      BY <2>1, <2>2 DEF PredTypeOK
    <2>8. predStates' \in [X -> SUBSET X]
      BY <2>1, <2>2 DEF PredTypeOK
    <2> HIDE DEF s, y
    <2>9. PredTypeOK'
      BY <2>1, <2>4, <2>8 DEF PredTypeOK, CallRecords, X, Classes
    <2>10. NothingLeftOut'
      <3> SUFFICES ASSUME NEW x \in X, 1 \in predStates'[x], NEW m \in Classes(x), moves[x][m] # 0,
                          ~(predStates'[x] \subseteq predStates'[moves[x][m]])
                   PROVE  Pending(x, m)'
        BY <2>1 DEF NothingLeftOut, X, Classes
      <3>1. m \in Nat
        BY <1>1
      <3>2. CASE x = y
        <4>1. PICK i \in DOMAIN predCalls' : predCalls'[i] = Call(y)
          BY <2>1, <2>4
        <4> QED BY <2>3, <3>1, <3>2, <4>1 DEF Pending
      <3>3. CASE x # y
        <4>1. predStates'[x] = predStates[x] /\ 1 \in predStates[x]
          BY <3>3, <2>6
        <4>2. moves[x][m] \in X
          BY DEF PredTypeOK
        <4>3. ~(predStates[x] \subseteq predStates[moves[x][m]])
          BY <4>1, <4>2, <2>5
        <4>4. PICK i \in DOMAIN predCalls : predCalls[i].state = x /\ predCalls[i].move <= m
          BY <4>1, <4>3 DEF NothingLeftOut, Pending
        <4>5. i \in DOMAIN predCalls' /\ predCalls'[i] = Advanced[i]
          BY <2>1, <2>4
        <4>6. CASE i # Len(predCalls)
          BY <2>1, <4>4, <4>5, <4>6, AdvancedCalls DEF Pending
        <4>7. CASE i = Len(predCalls)
          <5>1. InnerCall \in CallRecords /\ InnerCall = predCalls[i]
            BY <2>1, <4>7, AdvancedCalls
          <5>2. InnerCall.state = x /\ InnerCall.move \in Nat /\ InnerCall.move <= m
            BY <5>1, <4>4 DEF CallRecords
          <5>3. s = x
            BY <5>2 DEF s
          <5>4. InnerCall.move # m
            BY <5>3, <4>1, <2>1, <2>7
          <5>5. InnerCall.move + 1 <= m
            BY <5>2, <5>4, <3>1
          <5>6. predCalls'[i].state = x /\ predCalls'[i].move <= m
            BY <5>2, <5>5, <4>5, <4>7, <2>1, AdvancedCalls
          <5> QED BY <5>6, <4>5 DEF Pending
        <4> QED BY <4>6, <4>7
      <3> QED BY <3>2, <3>3
    <2> QED BY <2>9, <2>10
  <1>4. ASSUME ReturnPred PROVE PredInv'
    <2>1. /\ predCalls # <<>> /\ predCalls' = OuterCalls /\ moves' = moves /\ predStates' = predStates
          /\ InnerCall.move \notin Classes(InnerCall.state)
      BY <1>4 DEF ReturnPred
    <2>2. PredTypeOK'
      BY <2>1, AdvancedCalls DEF PredTypeOK, CallRecords, X, Classes
    <2>3. NothingLeftOut'
      <3> SUFFICES ASSUME NEW x \in X, 1 \in predStates[x], NEW m \in Classes(x), moves[x][m] # 0,
                          ~(predStates[x] \subseteq predStates[moves[x][m]])
                   PROVE  Pending(x, m)'
        BY <2>1 DEF NothingLeftOut, X, Classes
      <3>1. PICK i \in DOMAIN predCalls : predCalls[i].state = x /\ predCalls[i].move <= m
        BY DEF NothingLeftOut, Pending
      <3>2. i # Len(predCalls)
        <4> SUFFICES ASSUME i = Len(predCalls) PROVE FALSE
          OBVIOUS
        <4>1. InnerCall \in CallRecords /\ InnerCall = predCalls[i]
          BY <2>1, AdvancedCalls
        <4>2. InnerCall.state = x /\ InnerCall.move \in Nat /\ InnerCall.move <= m
          BY <4>1, <3>1 DEF CallRecords
        <4>3. PICK c \in Nat : Classes(x) = 0 .. c - 1
          BY DEF PredTypeOK
        <4> QED BY <4>2, <4>3, <2>1
      <3> QED BY <2>1, <3>1, <3>2, AdvancedCalls DEF Pending
    <2> QED BY <2>2, <2>3
  <1>5. ASSUME UNCHANGED predVars PROVE PredInv'
    BY <1>5 DEF predVars, PredTypeOK, NothingLeftOut, Pending, CallRecords, X, Classes
  <1> QED BY <1>2, <1>3, <1>4, <1>5 DEF PredNext

(* However the automaton looks, when computePredSets returns every state   *)
(* that can be reached has the predecessors of its predecessors.           *)
THEOREM PredSetsAreClosed == PredSpec => []PredSetsClosed
  <1>1. ASSUME PredInv PROVE PredSetsClosed
    <2> SUFFICES ASSUME predCalls = <<>>,
                        NEW x \in DOMAIN predStates, 1 \in predStates[x],
                        NEW m \in Classes(x), moves[x][m] # 0
                 PROVE  predStates[x] \subseteq predStates[moves[x][m]]
      BY DEF PredSetsClosed
    <2>1. x \in X
      BY <1>1 DEF PredInv, PredTypeOK
    <2>2. ~Pending(x, m)
      BY DEF Pending
    <2> QED BY <1>1, <2>1, <2>2 DEF PredInv, NothingLeftOut
  <1> QED BY <1>1, InitPredInv, NextPredInv, PTL DEF PredSpec
-----------------------------------------------------------------------------
Chars == 0 .. Size - 1
CharMoves(a) == {i \in DOMAIN a : a[i].dest > 0}
Tells(a, i, c, d) == a[i].dest > 0 /\ ~(c \in a[i].on <=> d \in a[i].on)

(* While the moves are gone through: the characters in one class were told *)
(* apart by none of those before, and by this one if their class has been  *)
(* looked at; the others still share a class.                              *)
ClassesSoFar ==
    /\ nfa = input.nfa
    /\ at \in 1 .. Len(nfa) + 1
    /\ oldGroups \in 1 .. equivs.nGroups /\ ch \in 0 .. oldGroups
    /\ at \notin DOMAIN nfa => ch = 0
    /\ \A c, d \in Chars : equivs.group[c] = equivs.group[d] =>
        /\ \A i \in 1 .. at - 1 : ~Tells(nfa, i, c, d)
        /\ at \in DOMAIN nfa /\ equivs.group[c] \notin ch .. oldGroups - 1 => ~Tells(nfa, at, c, d)
    /\ \A c, d \in Chars : (\A i \in 1 .. at : i \in DOMAIN nfa => ~Tells(nfa, i, c, d)) =>
        equivs.group[c] = equivs.group[d]

ClassesExact ==
    \A c, d \in Chars :
        (equivs.group[c] = equivs.group[d]) <=> \A i \in DOMAIN input.nfa : ~Tells(input.nfa, i, c, d)

EquivInv ==
    /\ input \in Inputs
    /\ Partition(equivs, Size)
    /\ phase = "characters" => ClassesSoFar
    /\ phase # "characters" => ClassesExact

EquivVars == <<input, phase, at, ch, nfa, equivs, oldGroups>>

(* The fields of the automaton given have the ranges the assumption says.  *)
LEMMA NfaIs ==
    ASSUME input \in Inputs
    PROVE  /\ input.nfa \in Seq([on : SUBSET Chars, dest : 0 .. Len(input.nfa), eps : SUBSET (1 .. Len(input.nfa)), accept : Nat])
           /\ Len(input.nfa) \in Nat \ {0} /\ DOMAIN input.nfa = 1 .. Len(input.nfa)
           /\ \A i \in 1 .. Len(input.nfa) : input.nfa[i] \in
                [on : SUBSET Chars, dest : 0 .. Len(input.nfa), eps : SUBSET (1 .. Len(input.nfa)), accept : Nat]
<1> DEFINE a == input.nfa
           R == [on : SUBSET Chars, dest : 0 .. Len(a), eps : SUBSET (1 .. Len(a)), accept : Nat]
<1>1. a \in Seq(R) /\ a # <<>>
  BY InputsAssumption DEF IsNfa, Chars
<1> HIDE DEF R, a
<1>2. Len(a) \in Nat /\ Len(a) # 0 /\ DOMAIN a = 1 .. Len(a) /\ \A i \in 1 .. Len(a) : a[i] \in R
  BY <1>1
<1> QED
  BY <1>1, <1>2 DEF R, a

(* The invariant of the character classes: at the start.                   *)
LEMMA EquivInvInit == DfaInit => EquivInv
<1> SUFFICES ASSUME DfaInit PROVE EquivInv
  OBVIOUS
<1>1. input \in Inputs /\ nfa = input.nfa /\ at = 1 /\ ch = 0 /\ oldGroups = 1 /\ phase = "characters"
      /\ equivs = AllInOne(Size)
  BY DEF DfaInit
<1>2. Partition(equivs, Size) /\ (\A c \in Chars : equivs.group[c] = 0) /\ equivs.nGroups = 1
  BY <1>1, SizeAssumption, AllInOnePartition DEF Chars
<1>3. Len(nfa) \in Nat
  BY <1>1, NfaIs
<1>4. ClassesSoFar
  BY <1>1, <1>2, <1>3 DEF ClassesSoFar
<1> QED
  BY <1>1, <1>2, <1>4 DEF EquivInv

(* The invariant of the character classes: a call of splitCharClass keeps  *)
(* it.                                                                     *)
LEMMA EquivInvSplit == EquivInv /\ AddCharClass => EquivInv'
<1> SUFFICES ASSUME EquivInv, AddCharClass PROVE EquivInv'
  OBVIOUS
<1> DEFINE n == Size
           S == nfa[at].on
           N == equivs.nGroups
           e == equivs
           f == equivs'
<1>1. /\ phase = "characters" /\ at \in DOMAIN nfa /\ nfa[at].dest > 0 /\ ch < oldGroups
      /\ f = SplitClass(e, ch, S) /\ ch' = ch + 1
      /\ input' = input /\ phase' = phase /\ at' = at /\ nfa' = nfa /\ oldGroups' = oldGroups
  BY DEF AddCharClass
<1>2. input \in Inputs /\ Partition(e, n) /\ ClassesSoFar /\ n \in Nat /\ N \in Nat /\ e.nGroups \in 1 .. n
  BY <1>1, SizeAssumption DEF EquivInv, Partition
<1>3. oldGroups \in 1 .. N /\ ch \in 0 .. oldGroups /\ ch \in 0 .. N - 1
  BY <1>1, <1>2 DEF ClassesSoFar
<1>4. Splits(f, e, n, ch, S)
  BY <1>1, <1>2, <1>3, SplitClassIs
<1>5. /\ Partition(f, n)
      /\ \A c \in Chars : f.group[c] = IF Leaves(e, ch, S, c) THEN N ELSE e.group[c]
      /\ f.nGroups = N \/ f.nGroups = N + 1
  BY <1>4 DEF Splits, Chars
<1>6. \A c \in Chars : e.group[c] \in 0 .. N - 1
  BY <1>2 DEF Partition, EcsTypeOK, Chars
<1> HIDE DEF e, f, N
<1>7. ASSUME NEW c \in Chars, NEW d \in Chars, f.group[c] = f.group[d]
      PROVE  /\ e.group[c] = e.group[d]
             /\ e.group[c] = ch => ~Tells(nfa, at, c, d)
             /\ f.group[c] \notin ch + 1 .. oldGroups - 1 => ~Tells(nfa, at, c, d)
  <2>1. e.group[c] = e.group[d] /\ (Leaves(e, ch, S, c) <=> Leaves(e, ch, S, d))
    BY <1>5, <1>6, <1>2, <1>3, <1>7 DEF Leaves
  <2>2. e.group[c] = ch => ~Tells(nfa, at, c, d)
    BY <2>1 DEF Leaves, Tells
  <2>3. f.group[c] \notin ch + 1 .. oldGroups - 1 => e.group[c] = ch \/ e.group[c] \notin ch .. oldGroups - 1
    BY <1>5, <1>6, <1>3, <1>2 DEF Leaves
  <2> QED
    BY <1>1, <1>2, <2>1, <2>2, <2>3 DEF ClassesSoFar, e
<1>8. ASSUME NEW c \in Chars, NEW d \in Chars, \A i \in 1 .. at : i \in DOMAIN nfa => ~Tells(nfa, i, c, d)
      PROVE  f.group[c] = f.group[d]
  <2>1. e.group[c] = e.group[d]
    BY <1>2, <1>8 DEF ClassesSoFar, e
  <2>2. ~Tells(nfa, at, c, d)
    <3>1. at \in 1 .. at
      BY <1>2 DEF ClassesSoFar
    <3> QED BY <1>1, <1>8, <3>1
  <2>3. Leaves(e, ch, S, c) <=> Leaves(e, ch, S, d)
    BY <1>1, <2>1, <2>2 DEF Leaves, Tells
  <2> QED
    BY <1>5, <2>1, <2>3
<1>9. ch + 1 \in 0 .. oldGroups /\ oldGroups \in 1 .. f.nGroups
  BY <1>1, <1>2, <1>3, <1>5
<1>10. ClassesSoFar'
  <2>1. nfa' = input'.nfa /\ at' \in 1 .. Len(nfa') + 1 /\ oldGroups' \in 1 .. equivs'.nGroups /\ ch' \in 0 .. oldGroups'
        /\ (at' \notin DOMAIN nfa' => ch' = 0)
    BY <1>1, <1>2, <1>9 DEF ClassesSoFar, f
  <2>2. ASSUME NEW c \in Chars, NEW d \in Chars, f.group[c] = f.group[d]
        PROVE  \A i \in 1 .. at - 1 : ~Tells(nfa, i, c, d)
    BY <1>2, <2>2, <1>7 DEF ClassesSoFar, e
  <2>3. \A c, d \in Chars : f.group[c] = f.group[d] =>
            /\ \A i \in 1 .. at' - 1 : ~Tells(nfa', i, c, d)
            /\ at' \in DOMAIN nfa' /\ f.group[c] \notin ch' .. oldGroups' - 1 => ~Tells(nfa', at', c, d)
    BY <1>1, <1>7, <2>2
  <2>4. \A c, d \in Chars : (\A i \in 1 .. at' : i \in DOMAIN nfa' => ~Tells(nfa', i, c, d)) => f.group[c] = f.group[d]
    BY <1>1, <1>8
  <2> QED
    BY <2>1, <2>3, <2>4 DEF ClassesSoFar, f, Chars
<1> QED
  BY <1>1, <1>2, <1>5, <1>10 DEF EquivInv, f

(* The invariant of the character classes: the next move of the automaton  *)
(* keeps it.                                                               *)
LEMMA EquivInvNext == EquivInv /\ NextCharMove => EquivInv'
<1> SUFFICES ASSUME EquivInv, NextCharMove PROVE EquivInv'
  OBVIOUS
<1>1. /\ phase = "characters" /\ at \in DOMAIN nfa /\ (nfa[at].dest > 0 => ch = oldGroups)
      /\ at' = at + 1 /\ ch' = 0 /\ oldGroups' = equivs.nGroups
      /\ input' = input /\ phase' = phase /\ nfa' = nfa /\ equivs' = equivs
  BY DEF NextCharMove
<1>2. input \in Inputs /\ Partition(equivs, Size) /\ ClassesSoFar
  BY <1>1 DEF EquivInv
<1>3. DOMAIN nfa = 1 .. Len(nfa) /\ Len(nfa) \in Nat /\ at \in 1 .. Len(nfa)
  BY <1>1, <1>2, NfaIs DEF ClassesSoFar
<1>4. equivs.nGroups \in 1 .. Size /\ oldGroups \in 1 .. equivs.nGroups /\ SizeAssumption
  BY <1>2, SizeAssumption DEF Partition, ClassesSoFar
<1>5. \A c \in Chars : equivs.group[c] \in 0 .. equivs.nGroups - 1
  BY <1>2, <1>4 DEF Partition, EcsTypeOK, Chars
<1>6. ASSUME NEW c \in Chars, NEW d \in Chars, equivs.group[c] = equivs.group[d]
      PROVE  \A i \in 1 .. at : ~Tells(nfa, i, c, d)
  <2>1. \A i \in 1 .. at - 1 : ~Tells(nfa, i, c, d)
    BY <1>2, <1>6 DEF ClassesSoFar
  <2>2. ~Tells(nfa, at, c, d)
    <3>1. CASE ch = oldGroups
      <4>1. equivs.group[c] \notin ch .. oldGroups - 1
        BY <3>1, <1>4
      <4> QED BY <4>1, <1>1, <1>2, <1>6 DEF ClassesSoFar
    <3>2. CASE ~(nfa[at].dest > 0)
      BY <3>2 DEF Tells
    <3> QED BY <3>1, <3>2, <1>1
  <2>3. \A i \in 1 .. at : i \in 1 .. at - 1 \/ i = at
    BY <1>3
  <2> QED BY <2>1, <2>2, <2>3
<1>7. ASSUME NEW c \in Chars, NEW d \in Chars, \A i \in 1 .. at + 1 : i \in DOMAIN nfa => ~Tells(nfa, i, c, d)
      PROVE  equivs.group[c] = equivs.group[d]
  <2>1. \A i \in 1 .. at : i \in 1 .. at + 1
    BY <1>3
  <2> QED BY <2>1, <1>2, <1>7 DEF ClassesSoFar
<1>8. ClassesSoFar'
  <2>1. nfa' = input'.nfa /\ at' \in 1 .. Len(nfa') + 1 /\ oldGroups' \in 1 .. equivs'.nGroups /\ ch' \in 0 .. oldGroups'
        /\ (at' \notin DOMAIN nfa' => ch' = 0)
    BY <1>1, <1>2, <1>3, <1>4 DEF ClassesSoFar
  <2>2. at' - 1 = at /\ \A c \in Chars : equivs.group[c] \in ch' .. oldGroups' - 1
    BY <1>1, <1>3, <1>5
  <2>3. \A c, d \in Chars : equivs.group[c] = equivs.group[d] =>
            /\ \A i \in 1 .. at' - 1 : ~Tells(nfa', i, c, d)
            /\ at' \in DOMAIN nfa' /\ equivs.group[c] \notin ch' .. oldGroups' - 1 => ~Tells(nfa', at', c, d)
    BY <1>1, <1>6, <2>2
  <2>4. \A c, d \in Chars : (\A i \in 1 .. at' : i \in DOMAIN nfa' => ~Tells(nfa', i, c, d)) =>
            equivs.group[c] = equivs.group[d]
    BY <1>1, <1>7
  <2> QED
    BY <1>1, <2>1, <2>3, <2>4 DEF ClassesSoFar, Chars
<1> QED
  BY <1>1, <1>2, <1>8 DEF EquivInv

(* The last move is done; from then on the classes stay as they are.       *)
LEMMA EquivInvEnd ==
    ASSUME EquivInv, UNCHANGED <<input, equivs>>, phase' # "characters",
           phase = "characters" => at \notin DOMAIN nfa
    PROVE  EquivInv'
<1>1. CASE phase = "characters"
  <2>1. input \in Inputs /\ ClassesSoFar
    BY <1>1 DEF EquivInv
  <2>2. DOMAIN nfa = 1 .. Len(nfa) /\ Len(nfa) \in Nat /\ nfa = input.nfa
    BY <2>1, NfaIs DEF ClassesSoFar
  <2>3. at = Len(nfa) + 1
    BY <1>1, <2>1, <2>2 DEF ClassesSoFar
  <2>4. at - 1 = Len(nfa)
    BY <2>2, <2>3
  <2>5. ClassesExact
    BY <2>1, <2>2, <2>4 DEF ClassesSoFar, ClassesExact
  <2> QED
    BY <2>5 DEF EquivInv, ClassesExact, Chars
<1>2. CASE phase # "characters"
  BY <1>2 DEF EquivInv, ClassesExact, Chars
<1> QED
  BY <1>1, <1>2

(* The invariant of the character classes: it stays when nothing it reads  *)
(* changes.                                                                *)
LEMMA EquivInvSame ==
    ASSUME EquivInv, UNCHANGED EquivVars
    PROVE  EquivInv'
BY DEF EquivInv, EquivVars, ClassesSoFar, ClassesExact, Chars

(* The invariant of the character classes implies the property the run     *)
(* checks.                                                                 *)
LEMMA EquivInvCoarsest == EquivInv => ClassesAreCoarsest
<1> SUFFICES ASSUME EquivInv, phase = "subsets" PROVE ClassesAreCoarsest
  BY DEF ClassesAreCoarsest
<1> DEFINE on == {st.on : st \in {s \in ToSet(input.nfa) : s.dest > 0}}
<1>1. input \in Inputs /\ Partition(equivs, Size) /\ ClassesExact
  BY DEF EquivInv
<1>2. ListsHold(equivs)
  BY <1>1, SizeAssumption, PartitionListsHold
<1>3. ASSUME NEW c \in Chars, NEW d \in Chars
      PROVE  (\A i \in DOMAIN input.nfa : ~Tells(input.nfa, i, c, d)) <=> \A S \in on : (c \in S) = (d \in S)
  <2>1. \A S : S \in on <=> \E i \in DOMAIN input.nfa : input.nfa[i].dest > 0 /\ S = input.nfa[i].on
    BY DEF ToSet
  <2> HIDE DEF on
  <2> QED
    BY <2>1 DEF Tells
<1>4. \A c, d \in Chars : (equivs.group[c] = equivs.group[d]) = (\A S \in on : (c \in S) = (d \in S))
  <2> HIDE DEF on
  <2> QED BY <1>1, <1>3 DEF ClassesExact
<1> QED
  BY <1>2, <1>4 DEF ClassesAreCoarsest, Chars
-----------------------------------------------------------------------------
-----------------------------------------------------------------------------
(* What an automaton does by definition, for the theorem about the table.  *)
Eps(a) == [q \in DOMAIN a |-> a[q].eps]
Dests(a, S, c) == {a[q].dest : q \in {p \in S : a[p].dest > 0 /\ c \in a[p].on}}

(* R[i] is the set of states after i characters of the string.             *)
ReadsAs(a, w, R) ==
    /\ R \in [0 .. Len(w) -> SUBSET DOMAIN a]
    /\ Closes(R[0], Eps(a), {1})
    /\ \A i, j \in 0 .. Len(w) : j = i + 1 => Closes(R[j], Eps(a), Dests(a, R[i], w[j]))

-----------------------------------------------------------------------------
(* There is one least closed set.                                          *)
LEMMA ClosesUnique ==
    ASSUME NEW step, NEW S, NEW R, NEW Q, Closes(R, step, S), Closes(Q, step, S)
    PROVE  R = Q
<1>1. /\ S \subseteq Q /\ S \subseteq R /\ (\A q \in Q : step[q] \subseteq Q) /\ (\A q \in R : step[q] \subseteq R)
      /\ Q \in SUBSET DOMAIN step /\ R \in SUBSET DOMAIN step
  BY DEF Closes
<1>2. R \subseteq Q
  BY <1>1 DEF Closes
<1>3. Q \subseteq R
  BY <1>1 DEF Closes
<1> QED
  BY <1>2, <1>3

(* From nothing, nothing is reached.                                       *)
LEMMA ClosesEmpty ==
    ASSUME NEW step, NEW R, Closes(R, step, {})
    PROVE  R = {}
<1> DEFINE C == {}
<1>1. C \in SUBSET DOMAIN step /\ {} \subseteq C /\ \A q \in C : step[q] \subseteq C
  OBVIOUS
<1> HIDE DEF C
<1>2. R \subseteq C
  BY <1>1 DEF Closes
<1> QED
  BY <1>2 DEF C

(* epsilonClosure is the least set closed under empty moves.               *)
LEMMA EpsilonClosureIs ==
    ASSUME input \in Inputs, NEW S \in SUBSET DOMAIN input.nfa
    PROVE  Closes(EpsilonClosure(input.nfa, S), Eps(input.nfa), S)
<1> DEFINE a == input.nfa
           D == 1 .. Len(a)
           step == [q \in DOMAIN a |-> a[q].eps]
<1>1. Len(a) \in Nat /\ DOMAIN a = D /\ \A i \in D : a[i].eps \in SUBSET D
  BY NfaIs
<1> HIDE DEF a
<1>2. step \in [D -> SUBSET D] /\ S \in SUBSET D
  BY <1>1 DEF a
<1>3. IsFiniteSet(D)
  <2> DEFINE m == Len(a)
  <2>1. 1 \in Int /\ m \in Int
    BY <1>1
  <2> HIDE DEF m
  <2> QED BY <2>1, FS_Interval DEF m
<1> HIDE DEF D
<1>4. Closes(Closure(step, S), step, S)
  <2> HIDE DEF step
  <2> QED BY <1>2, <1>3, ClosureIs
<1>5. EpsilonClosure(a, S) = Closure(step, S) /\ step = Eps(a)
  BY DEF EpsilonClosure, Eps
<1> QED
  BY <1>4, <1>5 DEF a

(* The automaton on classes of characters has the same empty moves.        *)
LEMMA OnClassesIs ==
    ASSUME input \in Inputs
    PROVE  LET a == input.nfa
               b == OnClasses(a, equivs)
           IN  /\ DOMAIN b = DOMAIN a
               /\ \A q \in DOMAIN a : /\ b[q].dest = a[q].dest /\ b[q].eps = a[q].eps /\ b[q].accept = a[q].accept
                                      /\ b[q].dest > 0 => b[q].on = {equivs.group[c] : c \in a[q].on}
               /\ \A S : EpsilonClosure(b, S) = EpsilonClosure(a, S)
<1> DEFINE a == input.nfa
           b == OnClasses(a, equivs)
           A == [on : SUBSET Chars, dest : 0 .. Len(a), eps : SUBSET (1 .. Len(a)), accept : Nat]
<1>1. DOMAIN b = DOMAIN a
  BY DEF OnClasses
<1>2. ASSUME NEW q \in DOMAIN a
      PROVE  /\ b[q].dest = a[q].dest /\ b[q].eps = a[q].eps /\ b[q].accept = a[q].accept
             /\ b[q].dest > 0 => b[q].on = {equivs.group[c] : c \in a[q].on}
  <2>1. a[q] \in A
    BY NfaIs
  <2> DEFINE on2 == {equivs.group[c] : c \in a[q].on}
  <2>2. b[q] = IF a[q].dest > 0 THEN [a[q] EXCEPT !.on = on2] ELSE a[q]
    BY DEF OnClasses, ConvertToEquivSet
  <2> DEFINE r == a[q]
  <2> HIDE DEF A, on2, b
  <2>3. r \in A /\ b[q] = IF r.dest > 0 THEN [r EXCEPT !.on = on2] ELSE r
    BY <2>1, <2>2
  <2> HIDE DEF r
  <2>4. b[q].dest = r.dest /\ b[q].eps = r.eps /\ b[q].accept = r.accept /\ (b[q].dest > 0 => b[q].on = on2)
    BY <2>3 DEF A
  <2> QED BY <2>4 DEF r, on2
<1>3. [q \in DOMAIN a |-> a[q].eps] = [q \in DOMAIN b |-> b[q].eps]
  <2> HIDE DEF a, b
  <2> QED BY <1>1, <1>2
<1>4. \A S : EpsilonClosure(b, S) = EpsilonClosure(a, S)
  BY <1>3 DEF EpsilonClosure
<1> QED
  BY <1>1, <1>2, <1>4

(* A move on the class of a character is the move on the character.        *)
LEMMA MoveIs ==
    ASSUME input \in Inputs, ClassesExact, NEW T \in SUBSET DOMAIN input.nfa, NEW c \in Chars
    PROVE  Closes(Move(OnClasses(input.nfa, equivs), T, equivs.group[c]), Eps(input.nfa), Dests(input.nfa, T, c))
<1> DEFINE a == input.nfa
           b == OnClasses(a, equivs)
           k == equivs.group[c]
           K == {b[q].dest : q \in {p \in T : b[p].dest > 0 /\ k \in b[p].on}}
<1>1. /\ DOMAIN b = DOMAIN a
      /\ \A q \in DOMAIN a : /\ b[q].dest = a[q].dest
                             /\ b[q].dest > 0 => b[q].on = {equivs.group[d] : d \in a[q].on}
      /\ \A S : EpsilonClosure(b, S) = EpsilonClosure(a, S)
  BY OnClassesIs
<1>2. \A q \in DOMAIN a : a[q].dest \in 0 .. Len(a) /\ a[q].on \in SUBSET Chars
  BY NfaIs
<1>3. DOMAIN a = 1 .. Len(a) /\ Len(a) \in Nat
  BY NfaIs
<1>4. ASSUME NEW q \in T, a[q].dest > 0 PROVE k \in {equivs.group[d] : d \in a[q].on} <=> c \in a[q].on
  <2>1. \A d \in a[q].on : d \in Chars /\ (equivs.group[d] = equivs.group[c] => c \in a[q].on)
    BY <1>2, <1>4 DEF ClassesExact, Tells
  <2> QED BY <2>1
<1> HIDE DEF b
<1>5. K = Dests(a, T, c)
  BY <1>1, <1>4 DEF Dests
<1>6. Dests(a, T, c) \in SUBSET DOMAIN a
  BY <1>2, <1>3 DEF Dests
<1>7. Move(b, T, k) = EpsilonClosure(a, Dests(a, T, c))
  BY <1>1, <1>5 DEF Move
<1> HIDE DEF k
<1>8. Closes(EpsilonClosure(a, Dests(a, T, c)), Eps(a), Dests(a, T, c))
  BY <1>6, EpsilonClosureIs
<1> QED
  BY <1>7, <1>8 DEF b, k

(* The trace of an automaton on a string.                                  *)
Trace(f, next, A, start, w) ==
    /\ f \in [0 .. Len(w) -> A] /\ f[0] = start
    /\ \A i, j \in 0 .. Len(w) : j = i + 1 => f[j] = next[<<f[i], w[j]>>]
    /\ Run(next, start, w) = f[Len(w)]

(* Run is the last of the states an automaton goes through.                *)
LEMMA RunIs ==
    ASSUME NEW A, NEW C, NEW next \in [A \X C -> A], NEW start \in A, NEW w, Len(w) \in Nat,
           \A i \in 1 .. Len(w) : w[i] \in C
    PROVE  \E f : Trace(f, next, A, start, w)
<1> DEFINE n == Len(w)
           h == [p \in A \X (1 .. n) |-> next[<<p[1], w[p[2]]>>]]
           Is(f) == f = [i \in 0 .. Len(w) |-> IF i = 0 THEN start ELSE next[<<f[i - 1], w[i]>>]]
           run == CHOOSE f : Is(f)
<1>0. n \in Nat
  OBVIOUS
<1>1. h \in [A \X (1 .. n) -> A] /\ \A q \in A, i \in 1 .. n : h[<<q, i>>] = next[<<q, w[i]>>]
  OBVIOUS
<1>2. PICK f : DefinedBy(f, n, A, start, h)
  <2> HIDE DEF h, n
  <2> QED BY <1>0, <1>1, RecursionExists
<1>3. f \in [0 .. n -> A] /\ f[0] = start /\ \A i, j \in 0 .. n : j = i + 1 => f[j] = next[<<f[i], w[j]>>]
  <2>1. f \in [0 .. n -> A] /\ f[0] = start /\ \A i \in 1 .. n : f[i] = h[<<f[i - 1], i>>]
    BY <1>2 DEF DefinedBy
  <2> HIDE DEF h
  <2>2. ASSUME NEW i \in 0 .. n, NEW j \in 0 .. n, j = i + 1 PROVE f[j] = next[<<f[i], w[j]>>]
    <3> HIDE DEF n
    <3>1. j \in 1 .. n /\ j - 1 = i /\ f[i] \in A
      BY <1>0, <2>1, <2>2
    <3> QED BY <3>1, <2>1, <1>1
  <2> QED BY <2>1, <2>2
<1>4. Is(f)
  <2> DEFINE e == [i \in 0 .. n |-> IF i = 0 THEN start ELSE next[<<f[i - 1], w[i]>>]]
  <2>1. \A i \in 0 .. n : e[i] = f[i]
    <3> SUFFICES ASSUME NEW i \in 0 .. n PROVE e[i] = f[i]
      OBVIOUS
    <3>1. CASE i = 0
      BY <3>1, <1>3
    <3>2. CASE i # 0
      <4> DEFINE j == i - 1
      <4>1. j \in 0 .. n /\ i = j + 1
        BY <1>0, <3>2
      <4>2. e[i] = next[<<f[j], w[i]>>]
        BY <3>2
      <4> HIDE DEF j
      <4> QED
        BY <4>1, <4>2, <1>3
    <3> QED BY <3>1, <3>2
  <2>2. f = [i \in 0 .. n |-> f[i]] /\ e = [i \in 0 .. n |-> e[i]]
    BY <1>3
  <2> HIDE DEF e
  <2>3. f = e
    BY <2>1, <2>2
  <2> QED
    BY <2>3 DEF e
<1>5. Is(run)
  BY <1>4
<1> HIDE DEF run
<1>6. run[0] = start /\ \A i, j \in 0 .. n : j = i + 1 => run[j] = next[<<run[i], w[j]>>]
  <2>1. run[0] = start
    BY <1>0, <1>5
  <2>2. ASSUME NEW i \in 0 .. n, NEW j \in 0 .. n, j = i + 1 PROVE run[j] = next[<<run[i], w[j]>>]
    <3>1. j # 0 /\ j - 1 = i
      BY <1>0, <2>2
    <3> QED BY <3>1, <1>5
  <2> QED BY <2>1, <2>2
<1>7. \A i \in 0 .. n : run[i] = f[i]
  <2> HIDE DEF n
  <2>1. run[0] = f[0]
    BY <1>3, <1>6
  <2>2. ASSUME NEW i \in 0 .. n, NEW j \in 0 .. n, j = i + 1, run[i] = f[i] PROVE run[j] = f[j]
    <3>1. run[j] = next[<<run[i], w[j]>>]
      BY <1>6, <2>2
    <3>2. f[j] = next[<<f[i], w[j]>>]
      BY <1>3, <2>2
    <3> QED BY <3>1, <3>2, <2>2
  <2>3. \A i, j \in 0 .. n : j = i + 1 /\ run[i] = f[i] => run[j] = f[j]
    BY <2>2
  <2> QED BY ONLY <1>0, <2>1, <2>3, OneRecursion
<1>8. Run(next, start, w) = run[n] /\ n \in 0 .. n
  BY DEF Run, run
<1>9. Run(next, start, w) = f[n]
  BY <1>7, <1>8
<1> QED
  BY <1>3, <1>9 DEF Trace
-----------------------------------------------------------------------------
M == 0 .. NumEquivs - 1
NfaNumbers == DOMAIN input.nfa

Constructed(x, m) ==
    LET dest == Move(nfa, nfaStates[x], m)
    IN  IF dest = {} THEN moves[x][m] = 0 ELSE moves[x][m] \in States /\ nfaStates[moves[x][m]] = dest

StatesTyped ==
    /\ nfa = OnClasses(input.nfa, equivs)
    /\ nfaStates \in Seq(SUBSET NfaNumbers) /\ nfaStates # <<>>
    /\ nfaStates[1] = EpsilonClosure(input.nfa, {1})
    /\ \A x \in States : nfaStates[x] # {}

AcceptsTyped ==
    /\ accepts \in Seq(SUBSET DOMAIN input.lang) /\ Len(accepts) = Len(nfaStates)
    /\ \A x \in States : accepts[x] = AcceptedBy(nfaStates[x])

MovesTyped == moves \in Seq([M -> 0 .. Len(moves)]) /\ Len(moves) = Len(nfaStates)

(* Every state but the first was made for a move of an earlier one.        *)
Origins == \A y \in States : y # 1 => \E x \in States, m \in M : x < y /\ moves[x][m] = y

Behind(x, m) == x < at \/ (x = at /\ m < ch)

BuildInv ==
    /\ StatesTyped /\ AcceptsTyped /\ MovesTyped /\ Origins
    /\ at \in 1 .. Len(moves) + 1 /\ ch \in 0 .. NumEquivs /\ (at = Len(moves) + 1 => ch = 0)
    /\ \A x \in States, m \in M : IF Behind(x, m) THEN Constructed(x, m) ELSE moves[x][m] = 0
-----------------------------------------------------------------------------
(* A sequence with an element put at the end.                              *)
LEMMA AppendIs ==
    ASSUME NEW S, NEW s \in Seq(S), NEW e \in S
    PROVE  /\ Append(s, e) \in Seq(S) /\ Len(Append(s, e)) = Len(s) + 1 /\ Append(s, e) # <<>>
           /\ \A i \in 1 .. Len(s) : Append(s, e)[i] = s[i]
           /\ \A i : i = Len(s) + 1 => Append(s, e)[i] = e
OBVIOUS

(* A sequence by its length and elements.                                  *)
LEMMA SeqIs ==
    ASSUME NEW S, NEW s \in Seq(S)
    PROVE  DOMAIN s = 1 .. Len(s) /\ Len(s) \in Nat /\ (s = <<>> <=> Len(s) = 0) /\ \A i \in 1 .. Len(s) : s[i] \in S
OBVIOUS

(* The tokens of a set of NFA states are tokens of the input, the same     *)
(* before and after computeEquivClasses.                                   *)
LEMMA AcceptedIn ==
    ASSUME input \in Inputs, NEW S \in SUBSET NfaNumbers,
           nfa = OnClasses(input.nfa, equivs) \/ nfa = input.nfa
    PROVE  /\ AcceptedBy(S) \in SUBSET DOMAIN input.lang
           /\ AcceptedBy(S) = {input.nfa[q].accept : q \in S} \ {0}
<1>1. \A q \in NfaNumbers : nfa[q].accept = input.nfa[q].accept
  <2>1. CASE nfa = OnClasses(input.nfa, equivs)
    BY <2>1, OnClassesIs DEF NfaNumbers
  <2>2. CASE nfa = input.nfa
    BY <2>2
  <2> QED BY <2>1, <2>2
<1>2. AcceptedBy(S) = {input.nfa[q].accept : q \in S} \ {0}
  BY <1>1 DEF AcceptedBy
<1>3. \A q \in NfaNumbers : input.nfa[q].accept \in {st.accept : st \in ToSet(input.nfa)}
  BY DEF NfaNumbers, ToSet
<1>4. {st.accept : st \in ToSet(input.nfa)} \subseteq {0} \union DOMAIN input.lang
  BY InputsAssumption
<1> QED
  BY <1>2, <1>3, <1>4

(* A move leads to a set of states of the automaton.                       *)
LEMMA MoveTyped ==
    ASSUME input \in Inputs, NEW T \in SUBSET NfaNumbers, NEW m
    PROVE  Move(OnClasses(input.nfa, equivs), T, m) \in SUBSET NfaNumbers
<1> DEFINE a == input.nfa
           b == OnClasses(a, equivs)
           K == {b[q].dest : q \in {p \in T : b[p].dest > 0 /\ m \in b[p].on}}
<1>1. /\ DOMAIN b = DOMAIN a
      /\ \A q \in DOMAIN a : b[q].dest = a[q].dest
      /\ \A S : EpsilonClosure(b, S) = EpsilonClosure(a, S)
  BY OnClassesIs
<1>2. \A q \in DOMAIN a : a[q].dest \in 0 .. Len(a)
  BY NfaIs
<1>3. DOMAIN a = 1 .. Len(a) /\ Len(a) \in Nat
  BY NfaIs
<1> HIDE DEF b
<1>4. K \in SUBSET DOMAIN a
  BY <1>1, <1>2, <1>3 DEF NfaNumbers
<1>5. Move(b, T, m) = EpsilonClosure(a, K)
  BY <1>1 DEF Move
<1>6. Closes(EpsilonClosure(a, K), Eps(a), K)
  <2> HIDE DEF K
  <2> QED BY <1>4, EpsilonClosureIs
<1> QED
  BY <1>5, <1>6 DEF Closes, b, Eps, NfaNumbers

(* There is a class of characters, and every character is in one.          *)
LEMMA NumEquivsIs ==
    ASSUME EquivInv
    PROVE  NumEquivs \in Nat /\ NumEquivs > 0 /\ \A c \in Chars : equivs.group[c] \in M
BY SizeAssumption DEF EquivInv, Partition, EcsTypeOK, NumEquivs, Chars, M

(* The invariant of the subset construction: the start state.              *)
LEMMA BuildInvStart == EquivInv /\ EquivInv' /\ StartConstruction => BuildInv'
<1> SUFFICES ASSUME EquivInv, EquivInv', StartConstruction PROVE BuildInv'
  OBVIOUS
<1> DEFINE S == EpsilonClosure(nfa, {1})
<1>1. /\ phase = "characters" /\ nfa' = OnClasses(nfa, equivs) /\ nfaStates' = <<S>> /\ accepts' = <<AcceptedBy(S)>>
      /\ moves' = <<NoMoves>> /\ at' = 1 /\ input' = input /\ equivs' = equivs /\ ch' = ch
      /\ at \notin DOMAIN nfa
  BY DEF StartConstruction
<1>2. input \in Inputs /\ nfa = input.nfa /\ ClassesSoFar
  BY <1>1 DEF EquivInv, ClassesSoFar
<1>3. 1 \in NfaNumbers
  BY <1>2, NfaIs DEF NfaNumbers
<1>4. S \in SUBSET NfaNumbers
  <2>1. {1} \in SUBSET NfaNumbers
    BY <1>3
  <2>2. Closes(S, Eps(input.nfa), {1})
    BY <1>2, <2>1, EpsilonClosureIs DEF NfaNumbers
  <2> QED BY <2>2 DEF Closes, Eps, NfaNumbers
<1>5. AcceptedBy(S) \in SUBSET DOMAIN input.lang /\ AcceptedBy(S) = {input.nfa[q].accept : q \in S} \ {0}
  BY <1>2, <1>4, AcceptedIn
<1>6. NumEquivs \in Nat /\ NumEquivs > 0 /\ NumEquivs' = NumEquivs /\ M' = M /\ NfaNumbers' = NfaNumbers
  BY <1>1, NumEquivsIs DEF NumEquivs, M, NfaNumbers
<1>s. S # {}
  <2>1. Closes(S, Eps(input.nfa), {1})
    BY <1>2, <1>3, EpsilonClosureIs DEF NfaNumbers
  <2> QED BY <2>1 DEF Closes
<1> HIDE DEF S
<1>7. StatesTyped' /\ Len(nfaStates') = 1 /\ nfaStates'[1] = S
  BY <1>1, <1>2, <1>4, <1>6, <1>s DEF StatesTyped, States, S
<1>8. AcceptsTyped'
  <2> DEFINE acc == AcceptedBy(S)
             L == DOMAIN input.lang
  <2>1. acc \in SUBSET L /\ accepts' = <<acc>> /\ input' = input
    BY <1>1, <1>5
  <2> HIDE DEF acc, L
  <2>2. accepts' \in Seq(SUBSET L) /\ Len(accepts') = 1 /\ accepts'[1] = acc
    BY <2>1
  <2>3. {nfa'[q].accept : q \in S} \ {0} = acc
    <3>1. \A q \in NfaNumbers : nfa'[q].accept = input.nfa[q].accept
      BY <1>1, <1>2, OnClassesIs DEF NfaNumbers
    <3> QED BY <3>1, <1>4, <1>5 DEF acc
  <2>4. States' = {1} /\ nfaStates'[1] = S
    BY <1>7 DEF StatesTyped, States
  <2>5. \A x \in States' : accepts'[x] = {nfa'[q].accept : q \in nfaStates'[x]} \ {0}
    BY <2>2, <2>3, <2>4
  <2> QED BY <2>1, <2>2, <2>5, <1>7 DEF AcceptsTyped, AcceptedBy, L
<1>9. NoMoves \in [M -> {0}]
  BY DEF NoMoves, M
<1>10. MovesTyped' /\ Len(moves') = 1 /\ moves'[1] = NoMoves
  <2> DEFINE F == [M -> 0 .. 1]
  <2>1. NoMoves \in F
    BY <1>9
  <2> HIDE DEF F
  <2>2. moves' \in Seq(F) /\ Len(moves') = 1 /\ moves'[1] = NoMoves
    BY <1>1, <2>1
  <2> QED BY <2>2, <1>6, <1>7 DEF MovesTyped, F
<1>11. States' = {1}
  BY <1>1 DEF StatesTyped, States
<1>12. Origins'
  BY <1>11 DEF Origins
<1>13. ch' = 0
  BY <1>1, <1>2 DEF ClassesSoFar
<1>14. \A x \in States', m \in M' : ~Behind(x, m)' /\ moves'[x][m] = 0
  <2>1. \A m \in M : m \in Nat
    BY <1>6 DEF M
  <2> QED
    BY <2>1, <1>1, <1>6, <1>9, <1>10, <1>11, <1>13 DEF Behind
<1>15. at' \in 1 .. Len(moves') + 1 /\ ch' \in 0 .. NumEquivs' /\ (at' = Len(moves') + 1 => ch' = 0)
  BY <1>1, <1>6, <1>10, <1>13
<1> QED
  BY <1>7, <1>8, <1>10, <1>12, <1>14, <1>15 DEF BuildInv
-----------------------------------------------------------------------------
BuildVars == <<input, equivs, nfa, nfaStates, accepts, moves, at, ch>>

StatesAre ==
    /\ States = 1 .. Len(moves) /\ Len(moves) = Len(nfaStates) /\ Len(moves) \in Nat /\ Len(moves) > 0
    /\ 1 \in States /\ DOMAIN moves = States
    /\ \A x \in States : nfaStates[x] \in SUBSET NfaNumbers /\ moves[x] \in [M -> 0 .. Len(moves)]

(* The states are the numbers up to the length of the table.               *)
LEMMA StatesIs == StatesTyped /\ MovesTyped => StatesAre
<1> SUFFICES ASSUME StatesTyped, MovesTyped PROVE StatesAre
  OBVIOUS
<1>1. DOMAIN nfaStates = 1 .. Len(nfaStates) /\ Len(nfaStates) \in Nat /\ Len(nfaStates) # 0
      /\ \A x \in 1 .. Len(nfaStates) : nfaStates[x] \in SUBSET NfaNumbers
  <2> DEFINE S == SUBSET NfaNumbers
  <2>1. nfaStates \in Seq(S) /\ nfaStates # <<>>
    BY DEF StatesTyped
  <2> HIDE DEF S
  <2> QED BY <2>1, SeqIs DEF S
<1>2. DOMAIN moves = 1 .. Len(moves) /\ \A x \in 1 .. Len(moves) : moves[x] \in [M -> 0 .. Len(moves)]
  <2> DEFINE F == [M -> 0 .. Len(moves)]
  <2>1. moves \in Seq(F)
    BY DEF MovesTyped
  <2> HIDE DEF F
  <2> QED BY <2>1, SeqIs DEF F
<1> QED
  BY <1>1, <1>2 DEF MovesTyped, States, StatesAre

(* The same after a step.                                                  *)
LEMMA StatesIsPrimed == StatesTyped' /\ MovesTyped' => StatesAre'
BY StatesIs, PTL

(* What a step of the construction does to the states that are there.      *)
Extends(n) ==
    /\ Len(nfaStates') = n /\ n >= Len(nfaStates)
    /\ StatesTyped' /\ AcceptsTyped' /\ MovesTyped'
    /\ \A x \in States : nfaStates'[x] = nfaStates[x]
    /\ \A x \in States, m \in M : ~(x = at /\ m = ch) => moves'[x][m] = moves[x][m]
    /\ \A x \in States, m \in M : x = at /\ m = ch => Constructed(x, m)'
    /\ \A x \in States' : x \notin States => x = n /\ moves'[at][ch] = n /\ \A m \in M : moves'[x][m] = 0

(* The invariant of the subset construction: a step that fills in one      *)
(* move, or appends one state for it, keeps it.                            *)
LEMMA BuildInvExtends ==
    ASSUME EquivInv, BuildInv, at \in States, ch < NumEquivs, NEW n \in Nat, Extends(n),
           UNCHANGED <<input, equivs, nfa>>, at' = at, ch' = ch + 1
    PROVE  BuildInv'
<1> DEFINE N == Len(moves)
<1>1. /\ StatesAre /\ States = 1 .. N /\ N = Len(nfaStates) /\ N \in Nat /\ N > 0
      /\ StatesTyped /\ MovesTyped /\ Origins
      /\ at \in 1 .. N + 1 /\ ch \in 0 .. NumEquivs
      /\ \A x \in States, m \in M : IF Behind(x, m) THEN Constructed(x, m) ELSE moves[x][m] = 0
  BY StatesIs DEF BuildInv, StatesAre
<1> HIDE DEF N
<1>2. NumEquivs \in Nat /\ NumEquivs' = NumEquivs /\ M' = M /\ ch \in M /\ \A m \in M : m \in Nat
  BY <1>1, NumEquivsIs DEF NumEquivs, M
<1>3. /\ States' = 1 .. n /\ n >= N /\ Len(moves') = n
      /\ \A x \in States' : moves'[x] \in [M -> 0 .. n]
  BY <1>1, <1>2, StatesIsPrimed DEF Extends, StatesAre, N
<1>4. \A x \in States : x \in States' /\ x \in Nat
  BY <1>1, <1>3
<1>5. ASSUME NEW x \in States, NEW m \in M, ~(x = at /\ m = ch), Constructed(x, m) PROVE Constructed(x, m)'
  <2>1. nfaStates'[x] = nfaStates[x] /\ moves'[x][m] = moves[x][m] /\ nfa' = nfa
    BY <1>5 DEF Extends
  <2>2. Move(nfa, nfaStates[x], m) = Move(nfa', nfaStates'[x], m)
    BY <2>1
  <2>3. moves[x][m] \in States => nfaStates'[moves[x][m]] = nfaStates[moves[x][m]] /\ moves[x][m] \in States'
    BY <1>4 DEF Extends
  <2> QED BY <1>5, <2>1, <2>2, <2>3 DEF Constructed
<1>6. \A x \in States, m \in M : ~(x = at /\ m = ch) => (Behind(x, m)' <=> Behind(x, m))
  BY <1>1, <1>2 DEF Behind
<1>7. at \in Nat /\ ch \in Nat /\ at' = at /\ ch' = ch + 1
  BY <1>1, <1>2 DEF Behind
<1>8. ASSUME NEW x \in States', NEW m \in M'
      PROVE  IF Behind(x, m)' THEN Constructed(x, m)' ELSE moves'[x][m] = 0
  <2>1. CASE x \in States /\ ~(x = at /\ m = ch)
    <3>1. moves'[x][m] = moves[x][m]
      BY <1>2, <2>1 DEF Extends
    <3> QED BY <3>1, <2>1, <1>1, <1>2, <1>5, <1>6
  <2>2. CASE x = at /\ m = ch
    <3>1. Constructed(x, m)'
      BY <2>2, <1>2 DEF Extends
    <3>2. Behind(x, m)'
      BY <2>2, <1>7 DEF Behind
    <3> QED BY <3>1, <3>2
  <2>3. CASE x \notin States
    <3>1. x = n /\ moves'[x][m] = 0 /\ ~(x <= at)
      <4>1. m \in M
        BY <1>2
      <4>2. x = n /\ moves'[x][m] = 0
        BY <2>3, <4>1 DEF Extends
      <4>3. at # n
        BY <2>3, <4>2
      <4> QED BY <4>2, <4>3, <1>1, <1>3
    <3>2. ~Behind(x, m)'
      BY <3>1, <1>7, <1>3 DEF Behind
    <3> QED BY <3>1, <3>2
  <2> QED BY <2>1, <2>2, <2>3
<1>9. Origins'
  <2> SUFFICES ASSUME NEW y \in States', y # 1 PROVE \E x \in States', m \in M' : x < y /\ moves'[x][m] = y
    BY DEF Origins
  <2>1. CASE y \in States
    <3>1. PICK x \in States, m \in M : x < y /\ moves[x][m] = y
      BY <1>1, <2>1 DEF Origins
    <3>2. ~(x = at /\ m = ch)
      <4>1. ~Behind(at, ch)
        BY <1>7 DEF Behind
      <4> QED BY <4>1, <3>1, <1>1, <1>2, <1>4
    <3> QED BY <3>1, <3>2, <1>2, <1>4 DEF Extends
  <2>2. CASE y \notin States
    <3>1. y = n /\ moves'[at][ch] = n /\ at < y
      BY <2>2, <1>1, <1>3, <1>7 DEF Extends
    <3> QED BY <3>1, <1>2, <1>4
  <2> QED BY <2>1, <2>2
<1>10. at' \in 1 .. Len(moves') + 1 /\ ch' \in 0 .. NumEquivs' /\ (at' = Len(moves') + 1 => ch' = 0)
  BY <1>1, <1>2, <1>3
<1>11. StatesTyped' /\ AcceptsTyped' /\ MovesTyped'
  BY DEF Extends
<1> QED
  BY <1>8, <1>9, <1>10, <1>11 DEF BuildInv
-----------------------------------------------------------------------------
(* Facts the three cases of ConstructMove share.                           *)
MoveFacts(dest) ==
    /\ StatesAre /\ StatesTyped /\ MovesTyped /\ AcceptsTyped /\ input \in Inputs /\ NumEquivs \in Nat
    /\ at \in States /\ ch \in M /\ moves[at][ch] = 0
    /\ dest = Move(nfa, nfaStates[at], ch) /\ dest \in SUBSET NfaNumbers
    /\ UNCHANGED <<input, equivs, nfa>> /\ NumEquivs' = NumEquivs /\ M' = M /\ NfaNumbers' = NfaNumbers

(* What ConstructMove starts from.                                         *)
LEMMA MoveFactsHold ==
    ASSUME EquivInv, BuildInv, ConstructMove
    PROVE  MoveFacts(Move(nfa, nfaStates[at], ch)) /\ ch < NumEquivs /\ at' = at /\ ch' = ch + 1
<1>1. StatesAre /\ StatesTyped /\ MovesTyped /\ AcceptsTyped /\ input \in Inputs
  BY StatesIs DEF BuildInv, EquivInv
<1>2. NumEquivs \in Nat /\ at \in States /\ ch \in M
  BY NumEquivsIs DEF ConstructMove, M, BuildInv
<1>3. UNCHANGED <<input, equivs, nfa>> /\ at' = at /\ ch' = ch + 1 /\ ch < NumEquivs
  BY DEF ConstructMove
<1>4. NumEquivs' = NumEquivs /\ M' = M /\ NfaNumbers' = NfaNumbers
  BY <1>3 DEF NumEquivs, M, NfaNumbers
<1>5. ~Behind(at, ch)
  <2>1. at \in Nat /\ ch \in Nat
    BY <1>1, <1>2 DEF StatesAre, M
  <2> QED BY <2>1 DEF Behind
<1>6. moves[at][ch] = 0
  BY <1>2, <1>5 DEF BuildInv
<1>7. Move(nfa, nfaStates[at], ch) \in SUBSET NfaNumbers
  <2>1. nfaStates[at] \in SUBSET NfaNumbers
    BY <1>1, <1>2 DEF StatesAre
  <2> QED BY <2>1, <1>1, MoveTyped DEF StatesTyped
<1> QED
  BY <1>1, <1>2, <1>3, <1>4, <1>6, <1>7 DEF MoveFacts

(* ConstructMove where the move leads nowhere.                             *)
LEMMA MoveToNone ==
    ASSUME MoveFacts({}), UNCHANGED <<nfaStates, accepts, moves>>
    PROVE  Extends(Len(moves))
<1>1. UNCHANGED <<input, equivs, nfa, nfaStates, accepts, moves>> /\ StatesAre /\ M' = M /\ NfaNumbers' = NfaNumbers
      /\ StatesTyped /\ MovesTyped /\ AcceptsTyped
  BY DEF MoveFacts
<1>2. /\ States' = States /\ Len(moves') = Len(moves) /\ Len(nfaStates') = Len(moves) /\ Len(moves) \in Nat
      /\ Len(nfaStates) = Len(moves)
  BY <1>1 DEF States, StatesAre
<1>a. StatesTyped'
  BY <1>1, <1>2 DEF StatesTyped
<1>b. MovesTyped'
  BY <1>1, <1>2 DEF MovesTyped
<1>c. AcceptsTyped'
  BY <1>1, <1>2 DEF AcceptsTyped, AcceptedBy
<1>3. StatesTyped' /\ MovesTyped' /\ AcceptsTyped'
  BY <1>a, <1>b, <1>c
<1>4. ASSUME NEW x \in States, NEW m \in M, x = at /\ m = ch PROVE Constructed(x, m)'
  <2>1. Move(nfa', nfaStates'[x], m) = {} /\ moves'[x][m] = 0
    BY <1>1, <1>4 DEF MoveFacts
  <2> QED BY <2>1 DEF Constructed
<1> DEFINE n == Len(moves)
<1>5. Len(nfaStates') = n /\ n >= Len(nfaStates)
  BY <1>2
<1> HIDE DEF n
<1> QED
  BY <1>1, <1>2, <1>3, <1>4, <1>5 DEF Extends, n

MovedTo(mv, n, N) ==
    /\ mv \in Seq([M -> 0 .. N]) /\ Len(mv) = Len(moves)
    /\ \A x \in States, m \in M : mv[x][m] = IF x = at /\ m = ch THEN n ELSE moves[x][m]

(* The table after a move is filled in.                                    *)
LEMMA MovesAfter ==
    ASSUME StatesAre, at \in States, ch \in M, NEW n \in 0 .. Len(moves) + 1,
           NEW N, N \in {Len(moves), Len(moves) + 1}, n <= N
    PROVE  MovedTo([moves EXCEPT ![at][ch] = n], n, N)
<1> DEFINE mv == [moves EXCEPT ![at][ch] = n]
           F == [M -> 0 .. N]
           k == Len(moves)
<1>1. k \in Nat /\ DOMAIN moves = 1 .. k /\ States = 1 .. k /\ \A x \in 1 .. k : moves[x] \in [M -> 0 .. k]
  BY DEF StatesAre
<1> HIDE DEF k
<1>2. \A x \in 1 .. k : moves[x] \in F /\ [moves[x] EXCEPT ![ch] = n] \in F
  BY <1>1 DEF k
<1>3. \A x \in 1 .. k : mv[x] = IF x = at THEN [moves[x] EXCEPT ![ch] = n] ELSE moves[x]
  BY <1>1
<1>4. DOMAIN mv = 1 .. k
  BY <1>1
<1>5. mv = [x \in 1 .. k |-> mv[x]]
  BY <1>4
<1>6. \A x \in 1 .. k, m \in M : mv[x][m] = IF x = at /\ m = ch THEN n ELSE moves[x][m]
  BY <1>3, <1>1
<1> HIDE DEF mv, F
<1>7. mv \in [1 .. k -> F]
  BY <1>5, <1>3, <1>2
<1>8. mv \in Seq(F) /\ Len(mv) = k
  BY <1>7, <1>1
<1> QED
  BY <1>8, <1>6, <1>1 DEF MovedTo, mv, F, k

(* ConstructMove where the set of states is in nfaMap.                     *)
LEMMA MoveToKnown ==
    ASSUME NEW dest, MoveFacts(dest), dest # {}, dest \in ToSet(nfaStates), UNCHANGED <<nfaStates, accepts>>,
           moves' = [moves EXCEPT ![at][ch] = NumberOf(dest)]
    PROVE  Extends(Len(moves))
<1> DEFINE N == Len(moves)
           to == NumberOf(dest)
<1>1. StatesAre /\ M' = M /\ NfaNumbers' = NfaNumbers /\ at \in States /\ ch \in M
      /\ StatesTyped /\ MovesTyped /\ AcceptsTyped /\ UNCHANGED <<input, equivs, nfa>>
      /\ dest = Move(nfa, nfaStates[at], ch)
  BY DEF MoveFacts
<1>2. N \in Nat /\ States = 1 .. N /\ Len(nfaStates) = N
  BY <1>1 DEF StatesAre
<1>3. to \in States /\ nfaStates[to] = dest
  <2>1. \E i \in DOMAIN nfaStates : nfaStates[i] = dest
    BY DEF ToSet
  <2> QED BY <2>1 DEF NumberOf, States
<1>4. /\ moves' \in Seq([M -> 0 .. N]) /\ Len(moves') = N
      /\ \A x \in States, m \in M : moves'[x][m] = IF x = at /\ m = ch THEN to ELSE moves[x][m]
  <2> DEFINE n == to
  <2>1. n \in 0 .. N + 1 /\ n <= N
    BY <1>2, <1>3
  <2>2. moves' = [moves EXCEPT ![at][ch] = n]
    OBVIOUS
  <2> HIDE DEF n
  <2>3. N \in {Len(moves), Len(moves) + 1} /\ n \in 0 .. Len(moves) + 1
    BY <2>1
  <2>4. MovedTo([moves EXCEPT ![at][ch] = n], n, N)
    BY <2>1, <2>3, <1>1, MovesAfter
  <2> QED BY <2>2, <2>4 DEF MovedTo, n
<1> HIDE DEF to
<1>5. States' = States
  BY DEF States
<1>a. StatesTyped'
  BY <1>1, <1>5 DEF StatesTyped
<1>b. MovesTyped'
  BY <1>1, <1>2, <1>4 DEF MovesTyped
<1>c. AcceptsTyped'
  BY <1>1, <1>5 DEF AcceptsTyped, AcceptedBy
<1>6. StatesTyped' /\ MovesTyped' /\ AcceptsTyped'
  BY <1>a, <1>b, <1>c
<1>7. ASSUME NEW x \in States, NEW m \in M, x = at /\ m = ch PROVE Constructed(x, m)'
  <2>1. Move(nfa', nfaStates'[x], m) = dest /\ moves'[x][m] = to
    BY <1>1, <1>4, <1>7
  <2>2. to \in States' /\ nfaStates'[to] = dest
    BY <1>3, <1>5
  <2> QED BY <2>1, <2>2 DEF Constructed
<1> QED
  BY <1>1, <1>2, <1>4, <1>5, <1>6, <1>7 DEF Extends

(* ConstructMove where the set of states is a new one.                     *)
LEMMA MoveToNew ==
    ASSUME NEW dest, MoveFacts(dest), dest # {}, nfaStates' = Append(nfaStates, dest),
           accepts' = Append(accepts, AcceptedBy(dest)),
           moves' = Append([moves EXCEPT ![at][ch] = Len(moves) + 1], NoMoves)
    PROVE  Extends(Len(moves) + 1)
<1> DEFINE N == Len(moves)
           n == N + 1
           mv == [moves EXCEPT ![at][ch] = Len(moves) + 1]
           F == [M -> 0 .. n]
           S == SUBSET NfaNumbers
           L == SUBSET DOMAIN input.lang
<1>1. StatesAre /\ M' = M /\ NfaNumbers' = NfaNumbers /\ at \in States /\ ch \in M
      /\ StatesTyped /\ MovesTyped /\ AcceptsTyped /\ UNCHANGED <<input, equivs, nfa>> /\ input \in Inputs
      /\ dest = Move(nfa, nfaStates[at], ch) /\ dest \in S
  BY DEF MoveFacts
<1>2. N \in Nat /\ States = 1 .. N /\ Len(nfaStates) = N /\ Len(accepts) = N /\ n \in Nat
  BY <1>1 DEF StatesAre, AcceptsTyped
<1>3. mv \in Seq(F) /\ Len(mv) = N
      /\ \A x \in States, m \in M : mv[x][m] = IF x = at /\ m = ch THEN n ELSE moves[x][m]
  <2>1. n \in 0 .. N + 1 /\ n <= n
    BY <1>2
  <2> HIDE DEF n
  <2>2. MovedTo([moves EXCEPT ![at][ch] = n], n, n)
    BY <2>1, <1>1, MovesAfter DEF n
  <2> QED BY <2>2 DEF MovedTo, n
<1>4. NoMoves \in F /\ \A m \in M : NoMoves[m] = 0
  BY <1>2 DEF NoMoves, M
<1>5. /\ moves' \in Seq(F) /\ Len(moves') = n /\ \A i \in States : moves'[i] = mv[i]
      /\ moves'[n] = NoMoves
  <2> HIDE DEF mv, F
  <2>1. moves' = Append(mv, NoMoves) /\ mv \in Seq(F) /\ NoMoves \in F
    BY <1>3, <1>4 DEF mv
  <2>2. /\ moves' \in Seq(F) /\ Len(moves') = Len(mv) + 1 /\ \A i \in 1 .. Len(mv) : moves'[i] = mv[i]
        /\ \A i : i = Len(mv) + 1 => moves'[i] = NoMoves
    BY ONLY <2>1, AppendIs
  <2> QED BY <2>2, <1>2, <1>3
<1>6. /\ nfaStates' \in Seq(S) /\ Len(nfaStates') = n /\ \A i \in States : nfaStates'[i] = nfaStates[i]
      /\ nfaStates'[n] = dest /\ nfaStates' # <<>>
  <2>1. nfaStates \in Seq(S) /\ dest \in S
    BY <1>1 DEF StatesTyped
  <2> HIDE DEF S
  <2> QED BY <2>1, <1>2, AppendIs
<1>7. AcceptedBy(dest) \in L
  <2> HIDE DEF S
  <2> QED BY <1>1, AcceptedIn DEF StatesTyped, S
<1>8. /\ accepts' \in Seq(L) /\ Len(accepts') = n /\ \A i \in States : accepts'[i] = accepts[i]
      /\ accepts'[n] = AcceptedBy(dest)
  <2> DEFINE acc == AcceptedBy(dest)
  <2>1. accepts \in Seq(L) /\ acc \in L /\ accepts' = Append(accepts, acc)
    BY <1>1, <1>7 DEF AcceptsTyped
  <2> HIDE DEF acc, L
  <2>2. /\ accepts' \in Seq(L) /\ Len(accepts') = n /\ \A i \in States : accepts'[i] = accepts[i]
        /\ accepts'[n] = acc
    BY <2>1, <1>2, AppendIs
  <2> QED BY <2>2 DEF acc
<1> HIDE DEF mv, F, S, L
<1>9. States' = 1 .. n
  <2>1. DOMAIN nfaStates' = 1 .. Len(nfaStates')
    BY <1>6, SeqIs
  <2> QED BY <2>1, <1>6 DEF States
<1>10. \A x \in States' : x \notin States => x = n
  BY <1>2, <1>9
<1>11. \A x \in States : x \in States' /\ x # n
  BY <1>2, <1>9
<1>12. StatesTyped'
  <2>1. 1 \in States
    BY <1>1 DEF StatesAre
  <2>2. \A x \in States' : nfaStates'[x] # {}
    BY <1>1, <1>6, <1>10 DEF StatesTyped
  <2> QED BY <2>1, <2>2, <1>1, <1>6 DEF StatesTyped, S
<1>13. MovesTyped'
  BY <1>1, <1>5, <1>6 DEF MovesTyped, F
<1>14. \A T : AcceptedBy(T)' = AcceptedBy(T)
  BY <1>1 DEF AcceptedBy
<1>15. \A x \in States' : accepts'[x] = {nfa'[q].accept : q \in nfaStates'[x]} \ {0}
  <2>1. \A x \in States : accepts[x] = {nfa[q].accept : q \in nfaStates[x]} \ {0}
    BY <1>1 DEF AcceptsTyped, AcceptedBy
  <2>2. AcceptedBy(dest) = {nfa[q].accept : q \in dest} \ {0}
    BY DEF AcceptedBy
  <2>3. nfa' = nfa
    BY <1>1
  <2>4. \A T : {nfa'[q].accept : q \in T} \ {0} = AcceptedBy(T)
    BY <2>3 DEF AcceptedBy
  <2>5. \A x \in States : accepts[x] = AcceptedBy(nfaStates[x])
    BY <1>1 DEF AcceptsTyped
  <2> SUFFICES ASSUME NEW x \in States' PROVE accepts'[x] = AcceptedBy(nfaStates'[x])
    BY <2>4
  <2>6. CASE x \in States
    BY ONLY <2>5, <2>6, <1>6, <1>8
  <2>7. CASE x \notin States
    BY ONLY <2>7, <1>6, <1>8, <1>10, x \in States'
  <2> QED BY <2>6, <2>7
<1>16. AcceptsTyped'
  <2>1. input' = input /\ Len(accepts') = Len(nfaStates')
    BY <1>1, <1>6, <1>8
  <2>2. accepts' \in Seq(SUBSET DOMAIN input'.lang)
    BY <2>1, <1>8 DEF L
  <2>3. \A x \in States' : accepts'[x] = AcceptedBy(nfaStates[x])'
    BY <1>15 DEF AcceptedBy
  <2> QED BY ONLY <2>1, <2>2, <2>3 DEF AcceptsTyped
<1>17. ASSUME NEW x \in States, NEW m \in M, x = at /\ m = ch PROVE Constructed(x, m)'
  <2>a. n \in States'
    BY <1>2, <1>9
  <2>b. mv[x][m] = n
    BY ONLY <1>3, <1>17, x \in States, m \in M
  <2>1. moves'[x][m] = n /\ n \in States'
    BY ONLY <2>a, <2>b, <1>5, x \in States
  <2>2. Move(nfa', nfaStates'[x], m) = dest
    BY <1>1, <1>6, <1>17
  <2> QED BY <2>1, <2>2, <1>6 DEF Constructed
<1>18. \A x \in States, m \in M : ~(x = at /\ m = ch) => moves'[x][m] = moves[x][m]
  BY <1>3, <1>5
<1>19. moves'[at][ch] = n /\ \A m \in M : moves'[n][m] = 0
  BY <1>1, <1>3, <1>4, <1>5
<1>20. n >= Len(nfaStates)
  BY <1>2
<1> HIDE DEF n
<1>21. Extends(n)
  BY <1>6, <1>10, <1>12, <1>13, <1>16, <1>17, <1>18, <1>19, <1>20 DEF Extends
<1> QED
  BY <1>21 DEF n

(* The invariant of the subset construction: ConstructMove keeps it.       *)
LEMMA BuildInvMove == EquivInv /\ BuildInv /\ ConstructMove => BuildInv'
<1> SUFFICES ASSUME EquivInv, BuildInv, ConstructMove PROVE BuildInv'
  OBVIOUS
<1> DEFINE dest == Move(nfa, nfaStates[at], ch)
<1>1. MoveFacts(dest) /\ ch < NumEquivs /\ at' = at /\ ch' = ch + 1 /\ at \in States /\ UNCHANGED <<input, equivs, nfa>>
  BY MoveFactsHold DEF MoveFacts
<1>2. Len(moves) \in Nat /\ Len(moves) + 1 \in Nat
  BY <1>1 DEF MoveFacts, StatesAre
<1>3. \/ dest = {} /\ UNCHANGED <<nfaStates, accepts, moves>>
      \/ dest # {} /\ dest \in ToSet(nfaStates) /\ moves' = [moves EXCEPT ![at][ch] = NumberOf(dest)]
         /\ UNCHANGED <<nfaStates, accepts>>
      \/ dest # {} /\ nfaStates' = Append(nfaStates, dest) /\ accepts' = Append(accepts, AcceptedBy(dest))
         /\ moves' = Append([moves EXCEPT ![at][ch] = Len(moves) + 1], NoMoves)
      \/ dest = {} /\ dest \in ToSet(nfaStates)
  BY DEF ConstructMove
<1>4. {} \notin ToSet(nfaStates)
  BY DEF BuildInv, StatesTyped, States, ToSet
<1> HIDE DEF dest
<1>5. Extends(Len(moves)) \/ Extends(Len(moves) + 1)
  BY <1>1, <1>3, <1>4, MoveToNone, MoveToKnown, MoveToNew
<1> QED
  BY <1>1, <1>2, <1>5, BuildInvExtends

(* The invariant of the subset construction: the next state keeps it.      *)
LEMMA BuildInvClass == EquivInv /\ BuildInv /\ ConstructNext => BuildInv'
<1> SUFFICES ASSUME EquivInv, BuildInv, ConstructNext PROVE BuildInv'
  OBVIOUS
<1>1. /\ at \in States /\ ch = NumEquivs /\ at' = at + 1 /\ ch' = 0
      /\ UNCHANGED <<input, equivs, nfa, nfaStates, accepts, moves>>
  BY DEF ConstructNext, predVars
<1>2. StatesAre /\ NumEquivs \in Nat
  BY StatesIs, NumEquivsIs DEF BuildInv
<1>3. States' = States /\ M' = M /\ NfaNumbers' = NfaNumbers /\ NumEquivs' = NumEquivs
  BY <1>1 DEF States, M, NfaNumbers, NumEquivs
<1>a. StatesTyped'
  BY <1>1, <1>3 DEF BuildInv, StatesTyped
<1>b. MovesTyped'
  BY <1>1, <1>3 DEF BuildInv, MovesTyped
<1>c. AcceptsTyped'
  BY <1>1, <1>3 DEF BuildInv, AcceptsTyped, AcceptedBy
<1>d. Origins'
  BY <1>1, <1>3 DEF BuildInv, Origins
<1>4. StatesTyped' /\ AcceptsTyped' /\ MovesTyped' /\ Origins'
  BY <1>a, <1>b, <1>c, <1>d
<1>5. \A x \in States, m \in M : Behind(x, m)' <=> Behind(x, m)
  <2> SUFFICES ASSUME NEW x \in States, NEW m \in M PROVE Behind(x, m)' <=> Behind(x, m)
    OBVIOUS
  <2>1. x \in Nat /\ at \in Nat /\ m < ch /\ m >= 0 /\ m \in Nat
    BY <1>1, <1>2 DEF StatesAre, M
  <2> QED BY <2>1, <1>1 DEF Behind
<1>6. \A x \in States, m \in M : Constructed(x, m)' <=> Constructed(x, m)
  BY <1>1, <1>3 DEF Constructed
<1>7. at' \in 1 .. Len(moves') + 1 /\ ch' \in 0 .. NumEquivs' /\ (at' = Len(moves') + 1 => ch' = 0)
  BY <1>1, <1>2, <1>3 DEF StatesAre
<1>8. \A x \in States', m \in M' : IF Behind(x, m)' THEN Constructed(x, m)' ELSE moves'[x][m] = 0
  BY <1>1, <1>3, <1>5, <1>6 DEF BuildInv
<1> QED
  BY <1>4, <1>7, <1>8 DEF BuildInv
-----------------------------------------------------------------------------
(* The table is finished.                                                  *)
Built == BuildInv /\ at = Len(moves) + 1

(* What the digraph traversal promises of the tokens to come.              *)
PostFacts ==
    /\ postAccepts \in [States -> SUBSET DOMAIN input.lang]
    /\ \A x \in States : accepts[x] \subseteq postAccepts[x]
    /\ \A x \in States, m \in M : moves[x][m] # 0 => postAccepts[moves[x][m]] \subseteq postAccepts[x]

(* When the construction is over every move of every state is filled in.   *)
LEMMA BuiltIs ==
    ASSUME EquivInv, Built
    PROVE  /\ StatesAre /\ \A x \in States, m \in M : Constructed(x, m)
           /\ \A x \in States : DOMAIN moves[x] = M /\ Classes(x) = M
           /\ \A x \in States, m \in M : moves[x][m] \in States \union {0}
           /\ IsFiniteSet(States)
<1>1. StatesAre
  BY StatesIs DEF Built, BuildInv
<1>2. \A x \in States, m \in M : Constructed(x, m)
  <2>1. \A x \in States : x \in Nat /\ x < at
    BY <1>1 DEF Built, StatesAre
  <2>2. \A x \in States, m \in M : Behind(x, m)
    BY <2>1 DEF Behind
  <2> QED BY <2>2 DEF Built, BuildInv
<1>3. \A x \in States : DOMAIN moves[x] = M
  BY <1>1 DEF StatesAre
<1>4. \A x \in States, m \in M : moves[x][m] \in States \union {0}
  BY <1>2 DEF Constructed
<1>5. IsFiniteSet(States)
  <2> DEFINE n == Len(moves)
  <2>1. n \in Int /\ 1 \in Int /\ States = 1 .. n
    BY <1>1 DEF StatesAre
  <2> HIDE DEF n
  <2> QED BY <2>1, FS_Interval
<1> QED
  BY <1>1, <1>2, <1>3, <1>4, <1>5 DEF Classes

(* computeAccepts: the tokens to come are those of the state and those to  *)
(* come after its moves.                                                   *)
LEMMA TokensToComeIs ==
    ASSUME EquivInv, Built
    PROVE  /\ TokensToCome \in [States -> SUBSET DOMAIN input.lang]
           /\ \A x \in States : accepts[x] \subseteq TokensToCome[x]
           /\ \A x \in States, m \in M : moves[x][m] # 0 => TokensToCome[moves[x][m]] \subseteq TokensToCome[x]
<1> DEFINE before == [y \in States |-> {x \in States : \E m \in Classes(x) : moves[x][m] = y}]
           T == UNION {accepts[x] : x \in States}
           seeds(t) == {x \in States : t \in accepts[x]}
           from == [t \in T |-> Closure(before, seeds(t))]
           toCome == [x \in States |-> {t \in T : x \in from[t]}]
<1>1. TokensToCome = toCome
  BY DEF TokensToCome
<1>2. /\ StatesAre /\ IsFiniteSet(States) /\ \A x \in States : Classes(x) = M
      /\ \A x \in States, m \in M : moves[x][m] \in States \union {0}
  BY BuiltIs
<1>3. before \in [States -> SUBSET States]
  OBVIOUS
<1>4. \A x \in States : accepts[x] \in SUBSET DOMAIN input.lang
  <2> DEFINE L == SUBSET DOMAIN input.lang
  <2>1. accepts \in Seq(L) /\ Len(accepts) = Len(nfaStates)
    BY DEF Built, BuildInv, AcceptsTyped
  <2>2. States = 1 .. Len(nfaStates)
    BY <1>2 DEF StatesAre
  <2> HIDE DEF L
  <2>3. \A x \in States : accepts[x] \in L
    BY <2>1, <2>2
  <2> QED BY <2>3 DEF L
<1>5. T \subseteq DOMAIN input.lang
  BY <1>4
<1>6. ASSUME NEW t \in T PROVE Closes(from[t], before, seeds(t))
  <2>1. seeds(t) \in SUBSET States
    OBVIOUS
  <2>2. from[t] = Closure(before, seeds(t))
    OBVIOUS
  <2> HIDE DEF seeds, before, from
  <2> QED BY <2>1, <2>2, <1>2, <1>3, ClosureIs
<1>7. \A x \in States : \A t \in accepts[x] : t \in toCome[x]
  <2> SUFFICES ASSUME NEW x \in States, NEW t \in accepts[x] PROVE t \in toCome[x]
    OBVIOUS
  <2>1. t \in T /\ x \in seeds(t)
    OBVIOUS
  <2> HIDE DEF from, seeds, before
  <2>2. x \in from[t]
    BY <2>1, <1>6 DEF Closes
  <2> QED BY <2>1, <2>2
<1>8. ASSUME NEW x \in States, NEW m \in M, moves[x][m] # 0, NEW y, y = moves[x][m]
      PROVE  toCome[y] \subseteq toCome[x]
  <2>1. y \in States /\ x \in before[y]
    BY <1>2, <1>8
  <2> SUFFICES ASSUME NEW t \in toCome[y] PROVE t \in toCome[x]
    BY <2>1
  <2> HIDE DEF from, seeds, before
  <2>2. t \in T /\ y \in from[t]
    BY <2>1
  <2>3. x \in from[t]
    BY <2>1, <2>2, <1>6 DEF Closes
  <2> QED BY <2>2, <2>3
<1>9. toCome \in [States -> SUBSET DOMAIN input.lang]
  <2> HIDE DEF from
  <2> QED BY <1>5
<1> HIDE DEF toCome
<1> QED
  BY <1>1, <1>7, <1>8, <1>9

(* The invariant of the predecessor sets holds when their computation      *)
(* starts.                                                                 *)
LEMMA PredInvStart == EquivInv /\ Built /\ StartPredSets => PredInit'
<1> SUFFICES ASSUME EquivInv, Built, StartPredSets PROVE PredInit'
  OBVIOUS
<1> DEFINE n == Len(moves)
           c == NumEquivs
<1>1. /\ StatesAre /\ \A x \in States : DOMAIN moves[x] = M
      /\ \A x \in States, m \in M : moves[x][m] \in States \union {0}
  BY BuiltIs
<1>2. c \in Nat /\ M = 0 .. c - 1
  BY NumEquivsIs DEF M
<1>3. n \in Nat /\ n > 0 /\ States = 1 .. n /\ DOMAIN moves = 1 .. n
      /\ \A x \in 1 .. n : moves[x] \in [M -> 0 .. n]
  BY <1>1 DEF StatesAre
<1>4. moves \in [1 .. n -> [0 .. c - 1 -> 0 .. n]]
  <2> DEFINE F == [M -> 0 .. n]
  <2>1. moves = [x \in 1 .. n |-> moves[x]]
    <3>1. moves \in Seq([M -> 0 .. Len(moves)])
      BY DEF Built, BuildInv, MovesTyped
    <3> QED BY <3>1
  <2>2. \A x \in 1 .. n : moves[x] \in F
    BY <1>3
  <2> HIDE DEF F, n
  <2>3. moves \in [1 .. n -> F]
    BY <2>1, <2>2
  <2> QED BY <2>3, <1>2 DEF F
<1>5. predStates' = [x \in 1 .. n |-> {x}] /\ predCalls' = <<Call(1)>> /\ moves' = moves
  BY <1>3 DEF StartPredSets
<1>6. n \in Nat \ {0} /\ c \in Nat
  BY <1>2, <1>3
<1>7. /\ moves' \in [1 .. n -> [0 .. c - 1 -> 0 .. n]] /\ predStates' = [x \in 1 .. n |-> {x}]
      /\ predCalls' = <<Call(1)>>
  BY <1>4, <1>5
<1> HIDE DEF n, c
<1>8. \E k \in Nat \ {0}, d \in Nat :
        /\ moves' \in [1 .. k -> [0 .. d - 1 -> 0 .. k]] /\ predStates' = [x \in 1 .. k |-> {x}]
        /\ predCalls' = <<Call(1)>>
  BY ONLY <1>6, <1>7
<1> QED
  BY ONLY <1>8 DEF PredInit, Call

(* The sets of predecessors hold nothing but predecessors: a set of states *)
(* closed under the moves that has one of them has the state.              *)
ClosedUnderMoves(C) == \A x \in C, m \in M : moves[x][m] # 0 => moves[x][m] \in C
PredSound ==
    /\ predStates \in [States -> SUBSET States]
    /\ \A x \in States : x \in predStates[x]
    /\ \A x \in States : \A y \in predStates[x], C \in SUBSET States : y \in C /\ ClosedUnderMoves(C) => x \in C

(* At the start every set of predecessors is a subset of every closed one. *)
LEMMA PredSoundStart ==
    ASSUME EquivInv, Built, StartPredSets, UNCHANGED <<nfaStates, equivs>>
    PROVE  PredSound'
<1>1. StatesAre /\ States' = States /\ DOMAIN moves = States
  BY BuiltIs DEF StatesAre, States
<1>2. predStates' = [x \in States |-> {x}]
  BY <1>1 DEF StartPredSets
<1>3. predStates' \in [States' -> SUBSET States']
  BY <1>1, <1>2
<1>4. \A x \in States' : predStates'[x] = {x}
  BY <1>1, <1>2
<1> QED
  BY <1>3, <1>4 DEF PredSound

(* No call of the recursion adds what is not a predecessor.                *)
LEMMA PredSoundNext ==
    ASSUME EquivInv, Built, PredInv, PredSound, PredNext, UNCHANGED <<nfaStates, equivs>>
    PROVE  PredSound'
<1>1. /\ StatesAre /\ States' = States /\ DOMAIN moves = States
      /\ \A x \in States, m \in M : moves[x][m] \in States \union {0}
      /\ \A x \in States : Classes(x) = M
  BY BuiltIs DEF StatesAre, States
<1>2. moves' = moves /\ M' = M
  BY DEF PredNext, PassMove, CarryOver, ReturnPred, M, NumEquivs
<1>3. \A C : ClosedUnderMoves(C)' <=> ClosedUnderMoves(C)
  BY <1>2 DEF ClosedUnderMoves
<1>4. CASE predStates' = predStates
  BY <1>1, <1>3, <1>4 DEF PredSound
<1>5. CASE CarryOver
  <2> DEFINE x == InnerCall.state
             m == InnerCall.move
             y == moves[x][m]
  <2>1. y # 0 /\ y = Destination /\ m \in Classes(x) /\ predCalls # <<>>
        /\ predStates' = [predStates EXCEPT ![y] = @ \union predStates[x]]
    BY <1>5 DEF CarryOver, AtMove, Destination
  <2>2. x \in States
    <3>1. InnerCall \in CallRecords
      BY <2>1, AdvancedCalls DEF PredInv
    <3> QED BY <3>1, <1>1 DEF CallRecords, X
  <2>3. m \in M /\ y \in States
    BY <2>1, <2>2, <1>1
  <2> HIDE DEF x, m, y
  <2>4. predStates' \in [States -> SUBSET States]
        /\ \A z \in States : predStates'[z] = IF z = y THEN predStates[z] \union predStates[x] ELSE predStates[z]
    BY <2>1, <2>2, <2>3 DEF PredSound
  <2>5. ASSUME NEW z \in States, NEW v \in predStates'[z], NEW C \in SUBSET States, v \in C, ClosedUnderMoves(C)
        PROVE  z \in C
    <3>1. CASE v \in predStates[z]
      BY <3>1, <2>5 DEF PredSound
    <3>2. CASE v \notin predStates[z]
      <4>1. z = y /\ v \in predStates[x]
        BY <3>2, <2>4
      <4>2. x \in C
        BY <4>1, <2>2, <2>5 DEF PredSound
      <4>3. y = moves[x][m]
        BY DEF y
      <4> QED BY <4>1, <4>2, <4>3, <2>1, <2>3, <2>5 DEF ClosedUnderMoves
    <3> QED BY <3>1, <3>2
  <2>6. \A z \in States : z \in predStates'[z]
    BY <2>4 DEF PredSound
  <2> QED BY <2>4, <2>5, <2>6, <1>1, <1>3 DEF PredSound
<1>6. predStates' = predStates \/ CarryOver
  BY DEF PredNext, PassMove, ReturnPred
<1> QED
  BY <1>4, <1>5, <1>6
-----------------------------------------------------------------------------
(* The invariant of the subset construction stays when what it reads does. *)
LEMMA BuildInvSame ==
    ASSUME BuildInv, UNCHANGED BuildVars
    PROVE  BuildInv' /\ States' = States /\ M' = M /\ NfaNumbers' = NfaNumbers
<1>1. UNCHANGED <<input, equivs, nfa, nfaStates, accepts, moves, at, ch>>
  BY DEF BuildVars
<1>2. States' = States /\ M' = M /\ NfaNumbers' = NfaNumbers /\ NumEquivs' = NumEquivs
  BY <1>1 DEF States, M, NfaNumbers, NumEquivs
<1>3. StatesTyped'
  BY <1>1, <1>2 DEF BuildInv, StatesTyped
<1>4. AcceptsTyped'
  BY <1>1, <1>2 DEF BuildInv, AcceptsTyped, AcceptedBy
<1>5. MovesTyped'
  BY <1>1, <1>2 DEF BuildInv, MovesTyped
<1>6. Origins'
  BY <1>1, <1>2 DEF BuildInv, Origins
<1>7. \A x \in States, m \in M : (Behind(x, m)' <=> Behind(x, m)) /\ (Constructed(x, m)' <=> Constructed(x, m))
  BY <1>1, <1>2 DEF Behind, Constructed
<1>8. \A x \in States', m \in M' : IF Behind(x, m)' THEN Constructed(x, m)' ELSE moves'[x][m] = 0
  BY <1>1, <1>2, <1>7 DEF BuildInv
<1>9. at' \in 1 .. Len(moves') + 1 /\ ch' \in 0 .. NumEquivs' /\ (at' = Len(moves') + 1 => ch' = 0)
  BY <1>1, <1>2 DEF BuildInv
<1> QED
  BY <1>2, <1>3, <1>4, <1>5, <1>6, <1>8, <1>9 DEF BuildInv

(* When the recursion is over: the start state precedes every state, and   *)
(* the sets of predecessors are closed under predecessors.                 *)
PredFacts ==
    /\ predStates \in [States -> SUBSET States]
    /\ \A x \in States : x \in predStates[x] /\ 1 \in predStates[x]
    /\ \A x \in States : \A y \in predStates[x] : predStates[y] \subseteq predStates[x]
    /\ \A x \in States, m \in M : moves[x][m] # 0 => predStates[x] \subseteq predStates[moves[x][m]]

(* When the recursion is over the sets of predecessors are closed.         *)
LEMMA PredFactsHold ==
    ASSUME EquivInv, Built, PredInv, PredSound, predCalls = <<>>
    PROVE  PredFacts
<1>1. /\ StatesAre /\ \A x \in States : Classes(x) = M
      /\ \A x \in States, m \in M : moves[x][m] \in States \union {0}
      /\ States = X
  BY BuiltIs DEF StatesAre, X
<1>2. \A x \in States, m \in M : 1 \in predStates[x] /\ moves[x][m] # 0 => predStates[x] \subseteq predStates[moves[x][m]]
  <2>1. \A x, m : ~Pending(x, m)
    BY DEF Pending
  <2> QED BY <2>1, <1>1 DEF PredInv, NothingLeftOut
<1>3. \A x \in States : 1 \in predStates[x]
  <2> DEFINE N == Len(moves)
             T == {i \in 0 .. N : \A x \in States : x <= i => 1 \in predStates[x]}
  <2>1. N \in Nat /\ States = 1 .. N /\ 1 \in States
    BY <1>1 DEF StatesAre
  <2> HIDE DEF N
  <2>2. 0 \in T
    BY <2>1
  <2>3. ASSUME NEW i \in 0 .. N, NEW j \in 0 .. N, i \in T, j = i + 1 PROVE j \in T
    <3> SUFFICES ASSUME NEW x \in States, x <= j PROVE 1 \in predStates[x]
      OBVIOUS
    <3>1. CASE x = 1
      BY <3>1, <2>1 DEF PredSound
    <3>2. CASE x # 1
      <4>1. PICK v \in States, m \in M : v < x /\ moves[v][m] = x
        BY <3>2 DEF Built, BuildInv, Origins
      <4>2. v <= i /\ x # 0
        BY <4>1, <2>1, <2>3
      <4>3. 1 \in predStates[v]
        BY <4>2, <2>3
      <4> QED BY <4>1, <4>2, <4>3, <1>2
    <3> QED BY <3>1, <3>2
  <2>4. \A i, j \in 0 .. N : i \in T /\ j = i + 1 => j \in T
    BY <2>3
  <2>5. 0 .. N \subseteq T
    <3> HIDE DEF T
    <3> QED BY ONLY <2>1, <2>2, <2>4, UpTo
  <2> QED BY <2>1, <2>5
<1>4. ASSUME NEW x \in States, NEW y \in predStates[x] PROVE predStates[y] \subseteq predStates[x]
  <2> DEFINE C == {v \in States : predStates[y] \subseteq predStates[v]}
  <2>1. C \in SUBSET States /\ y \in C
    BY DEF PredSound
  <2>2. ClosedUnderMoves(C)
    BY <1>1, <1>2, <1>3 DEF ClosedUnderMoves
  <2>3. x \in C
    <3> HIDE DEF C
    <3> QED BY <2>1, <2>2 DEF PredSound
  <2> QED BY <2>3
<1> QED
  BY <1>2, <1>3, <1>4 DEF PredFacts, PredSound

DfaInv ==
    /\ EquivInv
    /\ phase \in {"subsets", "predecessors", "parser"} => BuildInv
    /\ phase \in {"predecessors", "parser"} => at = Len(moves) + 1 /\ PostFacts
    /\ phase = "predecessors" => PredInv /\ PredSound
    /\ phase = "parser" => PredFacts

(* The invariant of the whole construction: at the start.                  *)
LEMMA DfaInvInit == DfaInit => DfaInv
BY EquivInvInit DEF DfaInv, DfaInit

(* The invariant of the predecessor sets at the start, after a step.       *)
LEMMA PredInvStartPrimed == PredInit' => PredInv'
BY InitPredInv, PTL

(* The invariant of the whole construction: ComputeAccepts keeps it.       *)
LEMMA DfaInvAccepts == DfaInv /\ ComputeAccepts => DfaInv'
<1> SUFFICES ASSUME DfaInv, ComputeAccepts PROVE DfaInv'
  OBVIOUS
<1>1. /\ phase = "subsets" /\ at \notin States /\ phase' = "predecessors" /\ postAccepts' = TokensToCome
      /\ StartPredSets /\ UNCHANGED <<input, at, ch, nfa, equivs, oldGroups, nfaStates, accepts, moves>>
  BY DEF ComputeAccepts, StartPredSets
<1>2. EquivInv /\ BuildInv
  BY <1>1 DEF DfaInv
<1>3. Built /\ UNCHANGED BuildVars
  <2>1. StatesAre
    BY <1>2, StatesIs DEF BuildInv
  <2> QED BY <2>1, <1>1, <1>2 DEF Built, BuildInv, StatesAre, BuildVars
<1>4. BuildInv' /\ States' = States /\ M' = M
  BY <1>2, <1>3, BuildInvSame
<1>5. PostFacts'
  <2>1. input' = input /\ accepts' = accepts /\ moves' = moves
    BY <1>1
  <2> QED BY <2>1, <1>1, <1>2, <1>3, <1>4, TokensToComeIs DEF PostFacts
<1>6. PredInv' /\ PredSound'
  BY <1>1, <1>2, <1>3, PredInvStart, PredInvStartPrimed, PredSoundStart
<1>7. EquivInv'
  BY <1>1, <1>2, EquivInvEnd
<1>8. at' = Len(moves') + 1
  BY <1>1, <1>3 DEF Built
<1> QED
  BY <1>1, <1>4, <1>5, <1>6, <1>7, <1>8 DEF DfaInv

(* The invariant of the whole construction: the predecessor sets keep it.  *)
LEMMA DfaInvPred == DfaInv /\ FindPredecessors => DfaInv'
<1> SUFFICES ASSUME DfaInv, FindPredecessors PROVE DfaInv'
  OBVIOUS
<1>1. phase = "predecessors" /\ PredNext
      /\ UNCHANGED <<input, phase, at, ch, nfa, equivs, oldGroups, nfaStates, accepts, postAccepts>>
  BY DEF FindPredecessors, dfaVars
<1>2. EquivInv /\ Built /\ PredInv /\ PredSound /\ PostFacts
  BY <1>1 DEF DfaInv, Built
<1>3. UNCHANGED BuildVars /\ UNCHANGED EquivVars /\ moves' = moves
  BY <1>1 DEF PredNext, PassMove, CarryOver, ReturnPred, BuildVars, EquivVars
<1>4. BuildInv' /\ States' = States /\ M' = M
  BY <1>2, <1>3, BuildInvSame DEF Built
<1>5. PredInv' /\ PredSound'
  BY <1>1, <1>2, NextPredInv, PredSoundNext
<1>6. PostFacts'
  BY <1>1, <1>2, <1>3, <1>4 DEF PostFacts
<1>7. EquivInv'
  BY <1>2, <1>3, EquivInvSame
<1>8. at' = Len(moves') + 1 /\ phase' = "predecessors"
  BY <1>1, <1>2, <1>3 DEF Built
<1> QED
  BY <1>4, <1>5, <1>6, <1>7, <1>8 DEF DfaInv

(* The invariant of the whole construction: it stays when nothing changes. *)
LEMMA DfaInvSame ==
    ASSUME DfaInv, UNCHANGED <<predVars, dfaVars>>
    PROVE  DfaInv'
<1>1. /\ UNCHANGED <<input, phase, at, ch, nfa, equivs, oldGroups, nfaStates, accepts, postAccepts>>
      /\ UNCHANGED <<moves, predStates, predCalls>> /\ UNCHANGED predVars
      /\ UNCHANGED BuildVars /\ UNCHANGED EquivVars
  BY DEF predVars, dfaVars, BuildVars, EquivVars
<1>2. EquivInv'
  BY <1>1, EquivInvSame DEF DfaInv
<1>3. ASSUME BuildInv PROVE BuildInv' /\ States' = States /\ M' = M
  BY <1>1, <1>3, BuildInvSame
<1>4. phase \in {"predecessors", "parser"} => PostFacts'
  BY <1>1, <1>3 DEF DfaInv, PostFacts
<1>5. phase = "predecessors" => PredInv'
  BY <1>1, NextPredInv DEF DfaInv
<1>6. \A C : ClosedUnderMoves(C)' <=> ClosedUnderMoves(C)
  BY <1>1 DEF ClosedUnderMoves, M, NumEquivs
<1>7. phase = "predecessors" => PredSound'
  BY <1>1, <1>3, <1>6 DEF DfaInv, PredSound
<1>8. phase = "parser" => PredFacts'
  BY <1>1, <1>3 DEF DfaInv, PredFacts
<1> QED
  BY <1>1, <1>2, <1>3, <1>4, <1>5, <1>7, <1>8 DEF DfaInv

(* The invariant of the whole construction: every step keeps it.           *)
LEMMA DfaInvNext == DfaInv /\ DfaNext => DfaInv'
<1> SUFFICES ASSUME DfaInv, DfaNext PROVE DfaInv'
  OBVIOUS
<1>1. CASE AddCharClass
  <2>1. EquivInv' /\ phase' = "characters"
    BY <1>1, EquivInvSplit DEF DfaInv, AddCharClass
  <2> QED BY <2>1 DEF DfaInv
<1>2. CASE NextCharMove
  <2>1. EquivInv' /\ phase' = "characters"
    BY <1>2, EquivInvNext DEF DfaInv, NextCharMove
  <2> QED BY <2>1 DEF DfaInv
<1>3. CASE StartConstruction
  <2>1. EquivInv' /\ phase' = "subsets"
    BY <1>3, EquivInvEnd DEF DfaInv, StartConstruction
  <2>2. BuildInv'
    BY <1>3, <2>1, BuildInvStart DEF DfaInv
  <2> QED BY <2>1, <2>2 DEF DfaInv
<1>4. CASE ConstructMove \/ ConstructNext
  <2>1. phase = "subsets" /\ phase' = "subsets" /\ UNCHANGED <<input, equivs>>
    BY <1>4 DEF ConstructMove, ConstructNext
  <2>2. EquivInv'
    BY <2>1, EquivInvEnd DEF DfaInv
  <2>3. BuildInv'
    BY <1>4, <2>1, BuildInvMove, BuildInvClass DEF DfaInv
  <2> QED BY <2>1, <2>2, <2>3 DEF DfaInv
<1>5. CASE ComputeAccepts
  BY <1>5, DfaInvAccepts
<1>6. CASE FindPredecessors
  BY <1>6, DfaInvPred
<1> QED
  BY <1>1, <1>2, <1>3, <1>4, <1>5, <1>6 DEF DfaNext
-----------------------------------------------------------------------------
(* A string has a length, and characters.                                  *)
LEMMA StringIs ==
    ASSUME NEW w \in Strings
    PROVE  Len(w) \in Nat /\ \A i \in 1 .. Len(w) : w[i] \in Chars
<1>1. PICK n \in 0 .. StringBound : w \in [1 .. n -> 0 .. Size - 1]
  BY DEF Strings
<1>2. n \in Nat /\ Len(w) = n
  BY <1>1, SizeAssumption
<1> QED
  BY <1>1, <1>2 DEF Chars

TableMove == [p \in StatesAndChars |-> IF p[1] = 0 THEN 0 ELSE moves[p[1]][equivs.group[p[2]]]]

(* After is the last state of a run of the table.                          *)
LEMMA AfterIs ==
    ASSUME EquivInv, moves \in Seq([M -> 0 .. Len(moves)]), NEW start \in 0 .. Len(moves),
           NEW w \in Strings
    PROVE  /\ \E f : Trace(f, TableMove, 0 .. Len(moves), start, w)
           /\ After(start, w) = Run(TableMove, start, w)
           /\ \A x \in 0 .. Len(moves), c \in Chars :
                TableMove[<<x, c>>] = IF x = 0 THEN 0 ELSE moves[x][equivs.group[c]]
<1> DEFINE A == 0 .. Len(moves)
           F == [M -> A]
<1>1. Len(w) \in Nat /\ \A i \in 1 .. Len(w) : w[i] \in Chars
  BY StringIs
<1>2. StatesAndChars = A \X Chars
  BY DEF StatesAndChars, Chars
<1>3. \A x \in A, c \in Chars : TableMove[<<x, c>>] = IF x = 0 THEN 0 ELSE moves[x][equivs.group[c]]
  BY <1>2 DEF TableMove
<1>4. TableMove \in [A \X Chars -> A]
  <2>1. \A x \in A, c \in Chars : x # 0 => moves[x][equivs.group[c]] \in A
    <3>1. \A c \in Chars : equivs.group[c] \in M
      BY NumEquivsIs
    <3>2. \A x \in A : x # 0 => moves[x] \in F
      OBVIOUS
    <3> QED BY <3>1, <3>2
  <2>2. 0 \in A
    OBVIOUS
  <2> HIDE DEF A
  <2> QED BY <1>2, <2>1, <2>2 DEF TableMove
<1>5. \E f : Trace(f, TableMove, A, start, w)
  <2> HIDE DEF A
  <2>1. start \in A
    BY DEF A
  <2> QED BY ONLY <1>1, <1>4, <2>1, RunIs
<1>6. After(start, w) = Run(TableMove, start, w)
  BY DEF After, TableMove
<1> QED
  BY <1>3, <1>5, <1>6

(* Where the table is, is what the automaton can be in.                    *)
StandsFor(x, S) == IF x = 0 THEN S = {} ELSE x \in States /\ nfaStates[x] = S

(* After a string the table is in the state that stands for what the       *)
(* automaton can be in.                                                    *)
LEMMA TableReads ==
    ASSUME EquivInv, Built, ClassesExact, NEW w \in Strings, NEW R, ReadsAs(input.nfa, w, R)
    PROVE  StandsFor(After(1, w), R[Len(w)])
<1> DEFINE n == Len(w)
           a == input.nfa
           A == 0 .. Len(moves)
<1>1. /\ StatesAre /\ \A x \in States, m \in M : Constructed(x, m)
      /\ StatesTyped /\ MovesTyped /\ input \in Inputs
  BY BuiltIs DEF Built, BuildInv, EquivInv
<1>2. n \in Nat /\ \A i \in 1 .. n : w[i] \in Chars
  BY StringIs
<1>3. 1 \in A /\ States \subseteq A /\ 0 \notin States
  BY <1>1 DEF StatesAre
<1>4. /\ \E f : Trace(f, TableMove, A, 1, w)
      /\ After(1, w) = Run(TableMove, 1, w)
      /\ \A x \in A, c \in Chars : TableMove[<<x, c>>] = IF x = 0 THEN 0 ELSE moves[x][equivs.group[c]]
  BY <1>1, <1>3, AfterIs DEF MovesTyped
<1>5. PICK f : Trace(f, TableMove, A, 1, w)
  BY <1>4
<1> HIDE DEF n, A
<1>6. /\ f \in [0 .. n -> A] /\ f[0] = 1 /\ After(1, w) = f[n]
      /\ \A i, j \in 0 .. n : j = i + 1 => f[j] = TableMove[<<f[i], w[j]>>]
  BY <1>4, <1>5 DEF Trace, n
<1>7. /\ R \in [0 .. n -> SUBSET NfaNumbers]
      /\ Closes(R[0], Eps(a), {1})
      /\ \A i, j \in 0 .. n : j = i + 1 => Closes(R[j], Eps(a), Dests(a, R[i], w[j]))
  BY DEF ReadsAs, NfaNumbers, n
<1> DEFINE T == {i \in 0 .. n : StandsFor(f[i], R[i])}
<1>9. 0 \in T
  <2>1. Closes(nfaStates[1], Eps(a), {1})
    <3>1. {1} \in SUBSET DOMAIN a
      BY <1>1, NfaIs
    <3> QED BY <3>1, <1>1, EpsilonClosureIs DEF StatesTyped
  <2>2. R[0] = nfaStates[1]
    BY <2>1, <1>7, ClosesUnique
  <2> QED BY <2>2, <1>1, <1>2, <1>3, <1>6 DEF StandsFor, StatesAre
<1>10. ASSUME NEW i \in 0 .. n, NEW j \in 0 .. n, i \in T, j = i + 1 PROVE j \in T
  <2> DEFINE c == w[j]
             m == equivs.group[c]
  <2>1. c \in Chars /\ m \in M
    <3>1. j \in 1 .. n
      BY <1>2, <1>10
    <3> QED BY <3>1, <1>2, NumEquivsIs
  <2>2. f[j] = TableMove[<<f[i], c>>] /\ f[i] \in A
    BY <1>6, <1>10
  <2>3. f[j] = IF f[i] = 0 THEN 0 ELSE moves[f[i]][m]
    BY <2>1, <2>2, <1>4
  <2>4. Closes(R[j], Eps(a), Dests(a, R[i], c))
    BY <1>7, <1>10
  <2>5. CASE f[i] = 0
    <3>1. R[i] = {}
      BY <2>5, <1>10 DEF StandsFor
    <3>2. Dests(a, R[i], c) = {}
      BY <3>1 DEF Dests
    <3>3. R[j] = {}
      BY <3>2, <2>4, ClosesEmpty
    <3> QED BY <3>3, <2>3, <2>5 DEF StandsFor
  <2>6. CASE f[i] # 0
    <3>1. f[i] \in States /\ nfaStates[f[i]] = R[i]
      BY <2>6, <1>10 DEF StandsFor
    <3>2. R[i] \in SUBSET DOMAIN a
      BY <1>7 DEF NfaNumbers
    <3>3. Closes(Move(nfa, R[i], m), Eps(a), Dests(a, R[i], c))
      BY <3>2, <2>1, <1>1, MoveIs DEF StatesTyped
    <3>4. R[j] = Move(nfa, nfaStates[f[i]], m)
      BY <3>1, <3>3, <2>4, ClosesUnique
    <3>5. Constructed(f[i], m)
      BY <3>1, <2>1, <1>1
    <3>6. f[j] = moves[f[i]][m]
      BY <2>3, <2>6
    <3> HIDE DEF m
    <3> QED BY <3>4, <3>5, <3>6, <1>3 DEF Constructed, StandsFor
  <2> QED BY <2>5, <2>6
<1>11. \A i, j \in 0 .. n : i \in T /\ j = i + 1 => j \in T
  BY <1>10
<1>12. 0 .. n \subseteq T
  <2> HIDE DEF T
  <2> QED BY ONLY <1>2, <1>9, <1>11, UpTo
<1>13. n \in T
  BY <1>2, <1>12
<1> QED
  BY <1>6, <1>13 DEF n

(* What the automaton of NFA states reads, step by step.                   *)
LEMMA ReadsIs ==
    ASSUME input \in Inputs, NEW w \in Strings
    PROVE  \E R : ReadsAs(input.nfa, w, R) /\ R[Len(w)] = Reads(input.nfa, w)
<1> DEFINE a == input.nfa
           A == SUBSET DOMAIN a
           next == [p \in A \X Chars |-> Move(a, p[1], p[2])]
           start == EpsilonClosure(a, {1})
<1>1. Len(w) \in Nat /\ \A i \in 1 .. Len(w) : w[i] \in Chars
  BY StringIs
<1>2. \A S \in A : Closes(EpsilonClosure(a, S), Eps(a), S) /\ EpsilonClosure(a, S) \in A
  <2>1. \A S \in A : Closes(EpsilonClosure(a, S), Eps(a), S)
    BY EpsilonClosureIs
  <2> QED BY <2>1 DEF Closes, Eps
<1>3. \A S \in A, c \in Chars : Dests(a, S, c) \in A
  <2>1. /\ Len(a) \in Nat \ {0} /\ DOMAIN a = 1 .. Len(a)
        /\ \A q \in DOMAIN a : a[q] \in [on : SUBSET Chars, dest : 0 .. Len(a), eps : SUBSET (1 .. Len(a)), accept : Nat]
    BY NfaIs
  <2> HIDE DEF a
  <2>2. \A q \in DOMAIN a : a[q].dest > 0 => a[q].dest \in DOMAIN a
    BY <2>1
  <2> QED BY <2>2 DEF Dests
<1>4. \A S \in A, c \in Chars : Move(a, S, c) = EpsilonClosure(a, Dests(a, S, c))
  BY DEF Move, Dests
<1>5. 1 \in DOMAIN a
  BY NfaIs
<1>6. Reads(a, w) = Run(next, start, w)
  BY DEF Reads, Chars
<1> HIDE DEF a
<1>7. {1} \in A /\ start \in A /\ Closes(start, Eps(a), {1})
  BY <1>2, <1>5
<1>8. next \in [A \X Chars -> A] /\ \A S \in A, c \in Chars : next[<<S, c>>] = Move(a, S, c)
  BY <1>2, <1>3, <1>4
<1> HIDE DEF A, next, start
<1>9. PICK R : Trace(R, next, A, start, w)
  BY ONLY <1>1, <1>7, <1>8, RunIs
<1>10. /\ R \in [0 .. Len(w) -> A] /\ R[0] = start /\ R[Len(w)] = Reads(a, w)
       /\ \A i, j \in 0 .. Len(w) : j = i + 1 => R[j] = next[<<R[i], w[j]>>]
  BY <1>6, <1>9 DEF Trace
<1>11. ASSUME NEW i \in 0 .. Len(w), NEW j \in 0 .. Len(w), j = i + 1
       PROVE  Closes(R[j], Eps(a), Dests(a, R[i], w[j]))
  <2>1. R[i] \in A /\ w[j] \in Chars /\ R[j] = next[<<R[i], w[j]>>]
    BY <1>1, <1>10, <1>11
  <2>2. R[j] = EpsilonClosure(a, Dests(a, R[i], w[j]))
    BY <2>1, <1>4, <1>8
  <2> QED BY <2>1, <2>2, <1>2, <1>3
<1>12. ReadsAs(a, w, R)
  BY <1>7, <1>10, <1>11 DEF ReadsAs, A
<1> QED BY <1>10, <1>12 DEF a

(* After a string the finished table accepts what the automaton does.      *)
LEMMA BuiltAcceptsLanguage ==
    ASSUME EquivInv, Built, ClassesExact, Describes(input.nfa, input.lang), NEW w \in Strings
    PROVE  LET x == After(1, w) IN Matching(w) = IF x = 0 THEN {} ELSE accepts[x]
<1> DEFINE x == After(1, w)
           a == input.nfa
<1>1. PICK R : ReadsAs(a, w, R) /\ \A t \in DOMAIN input.lang : w \in input.lang[t] <=> \E q \in R[Len(w)] : a[q].accept = t
  <2>1. PICK R : ReadsAs(a, w, R) /\ R[Len(w)] = Reads(a, w)
    BY ReadsIs DEF EquivInv
  <2> QED BY <2>1 DEF Describes
<1>2. StandsFor(x, R[Len(w)])
  BY <1>1, TableReads
<1> HIDE DEF x
<1>3. CASE x = 0
  BY <1>1, <1>2, <1>3 DEF StandsFor, Matching, x
<1>4. CASE x # 0
  <2>1. x \in States /\ nfaStates[x] = R[Len(w)]
    BY <1>2, <1>4 DEF StandsFor
  <2>2. accepts[x] = AcceptedBy(nfaStates[x]) /\ nfaStates[x] \in SUBSET NfaNumbers
        /\ input \in Inputs /\ nfa = OnClasses(input.nfa, equivs)
    BY <2>1, BuiltIs DEF Built, BuildInv, AcceptsTyped, StatesTyped, StatesAre, EquivInv
  <2>3. AcceptedBy(nfaStates[x]) = {a[q].accept : q \in nfaStates[x]} \ {0}
        /\ AcceptedBy(nfaStates[x]) \in SUBSET DOMAIN input.lang
    BY <2>2, AcceptedIn
  <2>4. \A t \in DOMAIN input.lang : t # 0
    BY <2>2, InputsAssumption
  <2>5. Matching(w) = accepts[x]
    BY <1>1, <2>1, <2>2, <2>3, <2>4 DEF Matching
  <2> QED BY <2>5, <1>4 DEF x
<1> QED
  BY <1>3, <1>4
=============================================================================
