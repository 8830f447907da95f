------------------------ MODULE StringSetCalls_proofs ------------------------
(***************************************************************************)
(* What the operations of StringSet2 keep true over any number of calls,   *)
(* for every set of tokens and objects.                                    *)
(***************************************************************************)
EXTENDS StringSetCalls, TLAPS

(* The strings of a set, told apart by their length.                       *)
LEMMA StringsOf ==
    ASSUME NEW s, NEW str
    PROVE  str \in Strings(s) <=>
              \/ str = <<>> /\ s.hasNull
              \/ \E t \in s.firstonly : str = <<t>>
              \/ str \in s.second
  BY DEF Strings

LEMMA StringsGrow ==
    ASSUME NEW s, NEW n, s.hasNull => n.hasNull, s.firstonly \subseteq n.firstonly,
           s.second \subseteq n.second
    PROVE  Strings(s) \subseteq Strings(n)
  <1> SUFFICES ASSUME NEW str \in Strings(s) PROVE str \in Strings(n)
    OBVIOUS
  <1>1. CASE str = <<>> /\ s.hasNull
    BY <1>1, StringsOf
  <1>2. ASSUME NEW t \in s.firstonly, str = <<t>> PROVE str \in Strings(n)
    BY <1>2, StringsOf
  <1>3. CASE str \in s.second
    BY <1>3, StringsOf
  <1> QED BY <1>1, <1>2, <1>3, StringsOf

(* Joining strings of at most two tokens.                                  *)
LEMMA JoinCases ==
    ASSUME NEW t, NEW u, NEW str
    PROVE  /\ Join(<<>>, str) = str
           /\ Join(str, <<>>) = str
           /\ str # <<>> => Join(<<t>>, str) = <<t, str[1]>>
           /\ Join(<<t, u>>, str) = <<t, u>>
  BY DEF Join

(* The first tokens of the strings of two.                                 *)
Begins(s, a) == \E str \in s.second : str[1] = a

LEMMA PairIsString ==
    ASSUME NEW T, NEW P \in SUBSET (T \X T), NEW str \in P
    PROVE  /\ str # <<>> /\ str[1] \in T /\ str[2] \in T /\ str = <<str[1], str[2]>>
  OBVIOUS

LEMMA JoinPair ==
    ASSUME NEW T, NEW P \in SUBSET (T \X T), NEW str \in P, NEW tail
    PROVE  Join(str, tail) = str
  <1>1. Join(<<str[1], str[2]>>, tail) = <<str[1], str[2]>>
    BY JoinCases
  <1>2. str = <<str[1], str[2]>>
    BY PairIsString
  <1> HIDE DEF Join
  <1> QED BY <1>1, <1>2

LEMMA Firsts ==
    ASSUME NEW T, NEW s, s.second \in SUBSET (T \X T), NEW a
    PROVE  a \in FirstTokens(Strings(s)) <=> a \in s.firstonly \/ Begins(s, a)
  <1>1. ASSUME NEW str \in Strings(s), str # <<>>, str[1] = a
        PROVE  a \in s.firstonly \/ Begins(s, a)
    BY <1>1, StringsOf DEF Begins
  <1>2. ASSUME a \in s.firstonly PROVE a \in FirstTokens(Strings(s))
    <2>1. <<a>> \in Strings(s) /\ <<a>> # <<>> /\ <<a>>[1] = a
      BY <1>2, StringsOf
    <2> QED BY <2>1 DEF FirstTokens
  <1>3. ASSUME NEW str \in s.second, str[1] = a PROVE a \in FirstTokens(Strings(s))
    <2>1. str \in Strings(s) /\ str # <<>>
      BY <1>3, StringsOf, PairIsString
    <2> QED BY <2>1, <1>3 DEF FirstTokens
  <1> QED BY <1>1, <1>2, <1>3 DEF FirstTokens, Begins
-----------------------------------------------------------------------------
(* The invariant of one object, on its bit sets.                           *)
EmptyInv(s) == s.isEmpty => s.firstonly = {} /\ s.second = {}
FirstsInv(s) ==
    /\ \A a : a \in s.firstsym <=> a \in s.firstonly \/ Begins(s, a)
    /\ ~s.isEmpty => s.firstsym # {}

LEMMA ClearKeeps ==
    ASSUME NEW T, NEW s \in StringSets(T)
    PROVE  Clear(s) \in StringSets(T) /\ EmptyInv(Clear(s)) /\ FirstsInv(Clear(s))
  BY DEF Clear, NewSet, StringSets, EmptyInv, FirstsInv, Begins

LEMMA DeleteEmptyKeeps ==
    ASSUME NEW T, NEW s \in StringSets(T)
    PROVE  /\ DeleteEmpty(s) \in StringSets(T)
           /\ EmptyInv(s) => EmptyInv(DeleteEmpty(s))
           /\ FirstsInv(s) => FirstsInv(DeleteEmpty(s))
  BY DEF DeleteEmpty, StringSets, EmptyInv, FirstsInv, Begins

LEMMA AddTokenKeeps ==
    ASSUME NEW T, NEW s \in StringSets(T), NEW t \in T
    PROVE  /\ AddToken(s, t) \in StringSets(T)
           /\ EmptyInv(AddToken(s, t))
           /\ FirstsInv(s) => FirstsInv(AddToken(s, t))
  BY DEF AddToken, StringSets, EmptyInv, FirstsInv, Begins

Paired(s, t, u) ==
    [s EXCEPT !.firstsym = @ \union {t}, !.second = @ \union {<<t, u>>},
              !.isFull = @ \/ s.isEmpty, !.isEmpty = FALSE]

LEMMA PairedKeeps ==
    ASSUME NEW T, NEW s \in StringSets(T), NEW t \in T, NEW u \in T
    PROVE  /\ Paired(s, t, u) \in StringSets(T)
           /\ EmptyInv(Paired(s, t, u))
           /\ FirstsInv(s) => FirstsInv(Paired(s, t, u))
  <1>1. Paired(s, t, u) \in StringSets(T)
    <2>1. s.second \union {<<t, u>>} \in SUBSET (T \X T)
      BY DEF StringSets
    <2>2. (s.isFull \/ s.isEmpty) \in BOOLEAN
      OBVIOUS
    <2> QED BY <2>1, <2>2 DEF Paired, StringSets
  <1>2. EmptyInv(Paired(s, t, u))
    BY DEF Paired, StringSets, EmptyInv
  <1> DEFINE new == Paired(s, t, u)
  <1>3. FirstsInv(s) => FirstsInv(new)
    <2>1. /\ new.firstsym = s.firstsym \union {t} /\ new.firstonly = s.firstonly
          /\ new.second = s.second \union {<<t, u>>}
      BY DEF Paired, StringSets
    <2>2. \A a : Begins(new, a) <=> Begins(s, a) \/ a = t
      <3>1. <<t, u>>[1] = t /\ <<t, u>> \in new.second
        BY <2>1
      <3> HIDE DEF new
      <3> QED BY <2>1, <3>1 DEF Begins
    <2> HIDE DEF new
    <2> QED BY <2>1, <2>2 DEF FirstsInv
  <1> QED BY <1>1, <1>2, <1>3

LEMMA AddEmptyKeeps ==
    ASSUME NEW T, NEW s \in StringSets(T)
    PROVE  /\ AddString(s, <<>>) \in StringSets(T)
           /\ EmptyInv(s) => EmptyInv(AddString(s, <<>>))
           /\ FirstsInv(s) => FirstsInv(AddString(s, <<>>))
           /\ Strings(s) \union {<<>>} \subseteq Strings(AddString(s, <<>>))
  <1> DEFINE new == AddString(s, <<>>)
  <1>1. new = [s EXCEPT !.hasNull = TRUE]
    BY DEF AddString, AddEmpty
  <1>2. new \in StringSets(T) /\ (EmptyInv(s) => EmptyInv(new)) /\ (FirstsInv(s) => FirstsInv(new))
    BY <1>1 DEF StringSets, EmptyInv, FirstsInv, Begins
  <1>3. new.hasNull /\ new.firstonly = s.firstonly /\ new.second = s.second
    BY <1>1 DEF StringSets
  <1>4. Strings(s) \subseteq Strings(new)
    BY <1>3, StringsGrow
  <1>5. <<>> \in Strings(new)
    BY <1>3, StringsOf
  <1> QED BY <1>2, <1>4, <1>5

LEMMA AddStringKeeps ==
    ASSUME NEW T, NEW s \in StringSets(T), NEW t \in T, NEW u \in T,
           NEW str \in {<<>>, <<t>>, <<t, u>>}
    PROVE  /\ AddString(s, str) \in StringSets(T)
           /\ EmptyInv(s) => EmptyInv(AddString(s, str))
           /\ FirstsInv(s) => FirstsInv(AddString(s, str))
           /\ Strings(s) \union {str} \subseteq Strings(AddString(s, str))
  <1> DEFINE new == AddString(s, str)
  <1>1. CASE str = <<>>
    BY <1>1, AddEmptyKeeps
  <1>2. CASE str = <<t>>
    <2>1. new = AddToken(s, t)
      BY <1>2 DEF AddString
    <2>2. new \in StringSets(T) /\ EmptyInv(new) /\ (FirstsInv(s) => FirstsInv(new))
      BY <2>1, AddTokenKeeps
    <2>3. /\ new.hasNull = s.hasNull /\ new.second = s.second
          /\ new.firstonly = s.firstonly \union {t}
      BY <2>1 DEF AddToken, StringSets
    <2>4. Strings(s) \subseteq Strings(new)
      BY <2>3, StringsGrow
    <2>5. str \in Strings(new)
      BY <1>2, <2>3, StringsOf
    <2> QED BY <2>2, <2>4, <2>5
  <1>3. CASE str = <<t, u>>
    <2>1. new = Paired(s, t, u)
      BY <1>3 DEF AddString, Paired
    <2>2. new \in StringSets(T) /\ EmptyInv(new) /\ (FirstsInv(s) => FirstsInv(new))
      BY <2>1, PairedKeeps
    <2>3. /\ new.hasNull = s.hasNull /\ new.firstonly = s.firstonly
          /\ new.second = s.second \union {<<t, u>>}
      BY <2>1 DEF Paired, StringSets
    <2>4. Strings(s) \subseteq Strings(new)
      BY <2>3, StringsGrow
    <2>5. str \in Strings(new)
      BY <1>3, <2>3, StringsOf
    <2> QED BY <2>2, <2>4, <2>5
  <1> QED BY <1>1, <1>2, <1>3

LEMMA AppendTokenKeeps ==
    ASSUME NEW T, NEW s \in StringSets(T), NEW t \in T
    PROVE  /\ AppendToken(s, t) \in StringSets(T)
           /\ EmptyInv(s) => EmptyInv(AppendToken(s, t))
           /\ FirstsInv(s) => FirstsInv(AppendToken(s, t))
           /\ Concat2(Strings(s), {<<t>>}) \subseteq Strings(AppendToken(s, t))
  <1> DEFINE new == AppendToken(s, t)
  <1>1. new \in StringSets(T)
    BY ZenonT(30) DEF AppendToken, StringSets
  <1>2. EmptyInv(s) => EmptyInv(new)
    BY DEF AppendToken, StringSets, EmptyInv
  <1>3. FirstsInv(s) => FirstsInv(new)
    <2>1. /\ new.second = s.second \union (s.firstonly \X {t})
          /\ new.firstonly = IF s.hasNull THEN {t} ELSE {}
          /\ new.firstsym = IF s.hasNull THEN s.firstsym \union {t} ELSE s.firstsym
          /\ ~new.isEmpty <=> ~s.isEmpty \/ s.hasNull
      BY DEF AppendToken, StringSets
    <2>2. \A a : Begins(new, a) <=> Begins(s, a) \/ a \in s.firstonly
      <3>1. ASSUME NEW a \in s.firstonly PROVE Begins(new, a)
        <4>1. <<a, t>> \in new.second /\ <<a, t>>[1] = a
          BY <2>1
        <4> QED BY <4>1 DEF Begins
      <3> QED BY <2>1, <3>1 DEF Begins
    <2> HIDE DEF new
    <2> QED BY <2>1, <2>2 DEF FirstsInv
  <1>4. ASSUME NEW str \in Strings(s) PROVE Join(str, <<t>>) \in Strings(new)
    <2>1. /\ s.hasNull => t \in new.firstonly
          /\ new.second = s.second \union (s.firstonly \X {t})
          /\ s.second \in SUBSET (T \X T)
      BY DEF AppendToken, StringSets
    <2>2. CASE str = <<>> /\ s.hasNull
      BY <2>1, <2>2, StringsOf, JoinCases
    <2>3. ASSUME NEW a \in s.firstonly, str = <<a>> PROVE Join(str, <<t>>) \in Strings(new)
      <3>1. <<t>> # <<>> /\ <<t>>[1] = t
        OBVIOUS
      <3>2. Join(str, <<t>>) = <<a, t>>
        BY <2>3, <3>1, JoinCases
      <3> QED BY <3>2, <2>1, StringsOf
    <2>4. CASE str \in s.second
      <3>1. Join(str, <<t>>) = str
        BY <2>1, <2>4, JoinPair
      <3> QED BY <3>1, <2>1, <2>4, StringsOf
    <2> QED BY <2>1, <2>2, <2>3, <2>4, StringsOf
  <1> QED BY <1>1, <1>2, <1>3, <1>4 DEF Concat2

LEMMA AddKeeps ==
    ASSUME NEW T, NEW s \in StringSets(T), NEW w \in StringSets(T)
    PROVE  /\ Add(s, w) \in StringSets(T)
           /\ EmptyInv(s) /\ EmptyInv(w) => EmptyInv(Add(s, w))
           /\ EmptyInv(w) /\ FirstsInv(s) /\ FirstsInv(w) => FirstsInv(Add(s, w))
           /\ EmptyInv(w) => Strings(s) \union Strings(w) \subseteq Strings(Add(s, w))
  <1> DEFINE new == Add(s, w)
  <1>1. new \in StringSets(T)
    BY DEF Add, StringSets
  <1>2. EmptyInv(s) /\ EmptyInv(w) => EmptyInv(new)
    BY DEF Add, StringSets, EmptyInv
  <1>3. EmptyInv(w) /\ FirstsInv(s) /\ FirstsInv(w) => FirstsInv(new)
    <2>1. CASE w.isEmpty
      <3>1. /\ new.firstsym = s.firstsym /\ new.firstonly = s.firstonly
            /\ new.second = s.second /\ new.isEmpty = s.isEmpty
        BY <2>1 DEF Add, StringSets
      <3> QED BY <3>1 DEF FirstsInv, Begins
    <2>2. CASE ~w.isEmpty
      <3>1. /\ new.firstsym = s.firstsym \union w.firstsym
            /\ new.firstonly = s.firstonly \union w.firstonly
            /\ new.second = s.second \union w.second
        BY <2>2 DEF Add, StringSets
      <3>2. \A a : Begins(new, a) <=> Begins(s, a) \/ Begins(w, a)
        BY <3>1 DEF Begins
      <3> HIDE DEF new
      <3> QED BY <2>2, <3>1, <3>2 DEF FirstsInv
    <2> QED BY <2>1, <2>2
  <1>4. Strings(s) \subseteq Strings(new)
    <2>1. /\ s.hasNull => new.hasNull
          /\ s.firstonly \subseteq new.firstonly
          /\ s.second \subseteq new.second
      BY DEF Add, StringSets
    <2> QED BY <2>1, StringsGrow
  <1>5. EmptyInv(w) => Strings(w) \subseteq Strings(new)
    <2> SUFFICES ASSUME EmptyInv(w) PROVE Strings(w) \subseteq Strings(new)
      OBVIOUS
    <2>1. /\ w.hasNull => new.hasNull
          /\ w.firstonly \subseteq new.firstonly
          /\ w.second \subseteq new.second
      BY DEF Add, StringSets, EmptyInv
    <2> QED BY <2>1, StringsGrow
  <1> QED BY <1>1, <1>2, <1>3, <1>4, <1>5

LEMMA AddMaxKeeps ==
    ASSUME NEW T, NEW s \in StringSets(T), NEW w \in StringSets(T)
    PROVE  /\ AddMax(s, w) \in StringSets(T)
           /\ EmptyInv(s) /\ EmptyInv(w) => EmptyInv(AddMax(s, w))
  <1> DEFINE begins == {str[1] : str \in s.second}
  <1>1. begins \in SUBSET T
    BY DEF StringSets
  <1>2. AddMax(s, w) = IF w.isEmpty THEN s
                       ELSE [s EXCEPT !.firstsym = @ \union begins, !.second = @ \union w.second,
                                      !.isFull = @ \/ s.isEmpty, !.isEmpty = FALSE]
    BY DEF AddMax
  <1> HIDE DEF begins
  <1>3. CASE w.isEmpty
    BY <1>2, <1>3
  <1>4. CASE ~w.isEmpty
    <2> DEFINE full == s.isFull \/ s.isEmpty
    <2>1. AddMax(s, w) = [s EXCEPT !.firstsym = @ \union begins, !.second = @ \union w.second,
                                   !.isFull = full, !.isEmpty = FALSE]
      BY <1>2, <1>4 DEF StringSets
    <2>2. full \in BOOLEAN
      OBVIOUS
    <2> HIDE DEF full
    <2>3. AddMax(s, w) \in StringSets(T)
      BY ZenonT(30), <1>1, <2>1, <2>2 DEF StringSets
    <2>4. ~AddMax(s, w).isEmpty
      BY <2>1 DEF StringSets
    <2> QED BY <2>3, <2>4 DEF EmptyInv
  <1> QED BY <1>3, <1>4

LEMMA AppendKeeps ==
    ASSUME NEW T, NEW s \in StringSets(T), NEW w \in StringSets(T)
    PROVE  /\ Append2(s, w) \in StringSets(T)
           /\ EmptyInv(s) /\ EmptyInv(w) => EmptyInv(Append2(s, w))
           /\ EmptyInv(s) /\ EmptyInv(w) /\ FirstsInv(s) /\ FirstsInv(w) => 
                /\ FirstsInv(Append2(s, w))
                /\ Concat2(Strings(s), Strings(w)) \subseteq Strings(Append2(s, w))
  <1> DEFINE mid == Lengthened(s, w)
             new == Append2(s, w)
  <1>1. mid \in StringSets(T) /\ DeleteEmpty(mid) \in StringSets(T)
    BY ZenonT(30) DEF Lengthened, StringSets, DeleteEmpty
  <1>2. EmptyInv(s) => EmptyInv(mid) /\ EmptyInv(DeleteEmpty(mid))
    BY DEF Lengthened, StringSets, EmptyInv, DeleteEmpty
  <1>3. CASE w.isEmpty
    <2>1. new = s
      BY <1>3 DEF Append2
    <2>2. ASSUME EmptyInv(w), NEW str \in Strings(s), NEW tail \in Strings(w)
          PROVE  Join(str, tail) \in Strings(s)
      <3>1. tail = <<>>
        BY <1>3, <2>2, StringsOf DEF EmptyInv, StringSets
      <3> QED BY <3>1, <2>2, JoinCases
    <2> QED BY <2>1, <2>2 DEF Concat2
  <1>4. CASE ~w.isEmpty
    <2>1. new = IF s.hasNull THEN Add(DeleteEmpty(mid), w) ELSE mid
      BY <1>4 DEF Append2
    <2>2. new \in StringSets(T)
      BY <2>1, <1>1, AddKeeps
    <2>3. EmptyInv(s) /\ EmptyInv(w) => EmptyInv(new)
      BY <2>1, <1>1, <1>2, AddKeeps
    <2>4. EmptyInv(s) /\ FirstsInv(s) /\ FirstsInv(w) => FirstsInv(mid)
      <3> SUFFICES ASSUME EmptyInv(s), FirstsInv(s), FirstsInv(w) PROVE FirstsInv(mid)
        OBVIOUS
      <3>1. w.firstsym # {}
        BY <1>4 DEF FirstsInv
      <3>2. CASE s.isEmpty
        BY <3>2 DEF Lengthened
      <3>3. CASE ~s.isEmpty
        <4>1. /\ mid.second = s.second \union (s.firstonly \X w.firstsym)
              /\ mid.firstsym = s.firstsym
              /\ mid.firstonly = IF w.hasNull THEN s.firstonly ELSE {}
          BY <3>3 DEF Lengthened, StringSets
        <4>2. \A a : Begins(mid, a) <=> Begins(s, a) \/ a \in s.firstonly
          <5>1. ASSUME NEW a \in s.firstonly PROVE Begins(mid, a)
            <6>1. PICK u \in w.firstsym : TRUE
              BY <3>1
            <6>2. <<a, u>> \in mid.second /\ <<a, u>>[1] = a
              BY <4>1, <6>1
            <6> QED BY <6>2 DEF Begins
          <5> QED BY <4>1, <5>1 DEF Begins
        <4> HIDE DEF mid
        <4> QED BY <3>3, <4>1, <4>2 DEF FirstsInv
      <3> QED BY <3>2, <3>3
    <2>5. EmptyInv(s) /\ EmptyInv(w) /\ FirstsInv(s) /\ FirstsInv(w) => FirstsInv(new)
      BY <2>1, <2>4, <1>1, DeleteEmptyKeeps, AddKeeps
    <2>6. ASSUME EmptyInv(s), EmptyInv(w), FirstsInv(w), NEW str \in Strings(s), NEW tail \in Strings(w)
          PROVE  Join(str, tail) \in Strings(new)
      <3>1. /\ mid.hasNull = s.hasNull
            /\ w.hasNull => s.firstonly \subseteq mid.firstonly
            /\ s.second \subseteq mid.second
            /\ s.second \in SUBSET (T \X T) /\ w.second \in SUBSET (T \X T)
            /\ \A a \in s.firstonly, u \in w.firstsym : <<a, u>> \in mid.second
        BY <2>6 DEF Lengthened, StringSets, EmptyInv
      <3>2. tail # <<>> => tail[1] \in w.firstsym
        <4>1. ASSUME NEW b \in w.firstonly, tail = <<b>> PROVE tail[1] \in w.firstsym
          BY <4>1, <2>6 DEF FirstsInv, StringSets
        <4>2. CASE tail \in w.second
          BY <4>2, <2>6, <3>1 DEF FirstsInv, Begins
        <4> QED BY <4>1, <4>2, <2>6, <3>1, StringsOf
      <3>3. /\ tail = <<>> => w.hasNull
            /\ Strings(w) \subseteq Strings(Add(DeleteEmpty(mid), w))
            /\ Strings(DeleteEmpty(mid)) \subseteq Strings(Add(DeleteEmpty(mid), w))
        <4>1. tail = <<>> => w.hasNull
          BY <2>6, <3>1, PairIsString, StringsOf
        <4> QED BY <4>1, <2>6, <1>1, AddKeeps
      <3>4. ASSUME NEW x \in Strings(mid), x # <<>> PROVE x \in Strings(new)
        <4>1. /\ DeleteEmpty(mid).firstonly = mid.firstonly
              /\ DeleteEmpty(mid).second = mid.second
          BY <1>1 DEF DeleteEmpty, StringSets
        <4>2. x \in Strings(DeleteEmpty(mid))
          BY <3>4, <4>1, StringsOf
        <4> QED BY <4>2, <3>3, <3>4, <2>1
      <3>5. CASE str = <<>> /\ s.hasNull
        BY <3>5, <3>3, <2>1, <2>6, JoinCases
      <3>6. ASSUME NEW a \in s.firstonly, str = <<a>> PROVE Join(str, tail) \in Strings(new)
        <4>1. CASE tail = <<>>
          <5>1. Join(str, tail) = <<a>> /\ <<a>> # <<>>
            BY <4>1, <3>6, JoinCases
          <5>2. a \in mid.firstonly
            BY <4>1, <3>1, <3>3
          <5> QED BY <5>1, <5>2, <3>4, StringsOf
        <4>2. CASE tail # <<>>
          <5>1. Join(str, tail) = <<a, tail[1]>> /\ <<a, tail[1]>> # <<>>
            BY <4>2, <3>6, JoinCases
          <5>2. <<a, tail[1]>> \in mid.second
            BY <4>2, <3>1, <3>2, <3>6
          <5>3. <<a, tail[1]>> \in Strings(mid)
            BY <5>2, StringsOf
          <5> QED BY <5>1, <5>3, <3>4
        <4> QED BY <4>1, <4>2
      <3>7. CASE str \in s.second
        <4>1. Join(str, tail) = str /\ str # <<>>
          <5>1. s.second \in SUBSET (T \X T)
            BY <3>1
          <5>2. Join(str, tail) = str
            BY ONLY <5>1, <3>7, JoinPair
          <5>3. str # <<>>
            BY ONLY <5>1, <3>7, PairIsString
          <5> QED BY <5>2, <5>3
        <4>2. str \in Strings(mid)
          BY <3>1, <3>7, StringsOf
        <4> QED BY <4>1, <4>2, <3>4
      <3> QED BY <3>1, <3>5, <3>6, <3>7, <2>6, StringsOf
    <2> QED BY <2>2, <2>3, <2>5, <2>6 DEF Concat2
  <1> QED BY <1>3, <1>4
-----------------------------------------------------------------------------
LEMMA WordCases ==
    ASSUME NEW str \in Words
    PROVE  \/ str = <<>>
           \/ \E t \in Token : str = <<t>>
           \/ \E t \in Token, u \in Token : str = <<t, u>>
  BY DEF Words

LEMMA ConcatType ==
    ASSUME NEW A \in SUBSET Words, NEW B \in SUBSET Words
    PROVE  Concat2(A, B) \in SUBSET Words
  <1> SUFFICES ASSUME NEW a \in A, NEW b \in B PROVE Join(a, b) \in Words
    BY DEF Concat2
  <1>1. CASE a = <<>> \/ b = <<>>
    BY ZenonT(30), <1>1, JoinCases
  <1>2. ASSUME b # <<>> PROVE b[1] \in Token
    <2>1. ASSUME NEW t \in Token, b = <<t>> PROVE b[1] \in Token
      BY <2>1
    <2>2. ASSUME NEW t \in Token, NEW u \in Token, b = <<t, u>> PROVE b[1] \in Token
      BY <2>2
    <2> QED BY <1>2, <2>1, <2>2, WordCases
  <1>3. ASSUME b # <<>>, NEW t \in Token, a = <<t>> PROVE Join(a, b) \in Words
    <2>1. Join(a, b) = <<t, b[1]>>
      BY <1>3, JoinCases
    <2> QED BY <2>1, <1>2, <1>3 DEF Words
  <1>4. ASSUME NEW t \in Token, NEW u \in Token, a = <<t, u>> PROVE Join(a, b) \in Words
    <2>1. Join(a, b) = a
      BY <1>4, JoinCases
    <2> QED BY <2>1
  <1> QED BY <1>1, <1>3, <1>4, WordCases

LEMMA ConcatMonotone ==
    ASSUME NEW A, NEW B, NEW C, NEW D, A \subseteq C, B \subseteq D
    PROVE  Concat2(A, B) \subseteq Concat2(C, D)
  BY DEF Concat2

(* The objects addMax() has not touched know their first tokens and hold   *)
(* the strings asked for; all know when they are empty.                    *)
Faithful(o) == FirstsInv(sets[o]) /\ contents[o] \subseteq Strings(sets[o])
IInv ==
    /\ TypeOK
    /\ \A o \in Object : EmptyInv(sets[o])
    /\ \A o \in Object \ maxed : Faithful(o)

(* A call that leaves one object right leaves the invariant.               *)
LEMMA OneObject ==
    ASSUME IInv, NEW o \in Object, NEW set \in StringSets(Token), NEW strings \in SUBSET Words,
           Becomes(o, set, strings), maxed' \in SUBSET Object, maxed \ {o} \subseteq maxed',
           EmptyInv(set), o \notin maxed' => FirstsInv(set) /\ strings \subseteq Strings(set)
    PROVE  IInv'
  <1>1. TypeOK'
    BY CallBoundAssumption DEF IInv, TypeOK, Becomes
  <1>2. /\ sets'[o] = set /\ contents'[o] = strings
        /\ \A p \in Object \ {o} : sets'[p] = sets[p] /\ contents'[p] = contents[p]
    BY DEF IInv, TypeOK, Becomes
  <1>3. \A p \in Object : EmptyInv(sets'[p])
    BY <1>2 DEF IInv
  <1>4. ASSUME NEW p \in Object \ maxed'
        PROVE  FirstsInv(sets'[p]) /\ contents'[p] \subseteq Strings(sets'[p])
    BY <1>2, <1>4 DEF IInv, Faithful
  <1> QED BY <1>1, <1>3, <1>4 DEF IInv, Faithful

THEOREM InitHolds == Init => IInv
  <1> SUFFICES ASSUME Init PROVE IInv
    OBVIOUS
  <1>1. NewSet \in StringSets(Token) /\ EmptyInv(NewSet) /\ FirstsInv(NewSet)
    BY DEF NewSet, StringSets, EmptyInv, FirstsInv, Begins
  <1>2. TypeOK
    BY <1>1, CallBoundAssumption DEF Init, TypeOK
  <1> QED BY <1>1, <1>2 DEF Init, IInv, Faithful

(* Each call, with what the invariant says of the objects it reads.        *)
LEMMA CallKeeps ==
    ASSUME IInv, NEW o \in Object,
           \/ CallClear(o) \/ CallAddString(o) \/ CallDeleteEmpty(o) \/ CallAppendToken(o)
    PROVE  IInv'
  <1> DEFINE s == sets[o]
  <1>1. /\ s \in StringSets(Token) /\ EmptyInv(s) /\ contents[o] \in SUBSET Words
        /\ maxed \in SUBSET Object
        /\ o \notin maxed => FirstsInv(s) /\ contents[o] \subseteq Strings(s)
    BY DEF IInv, TypeOK, Faithful
  <1>2. CASE CallClear(o)
    <2> DEFINE new == Clear(s)
               none == {}
    <2>1. Becomes(o, new, none)
      BY <1>2 DEF CallClear
    <2>2. maxed' \in SUBSET Object /\ maxed \ {o} \subseteq maxed'
      BY <1>1, <1>2 DEF CallClear
    <2>3. new \in StringSets(Token) /\ EmptyInv(new) /\ FirstsInv(new)
      BY <1>1, ClearKeeps
    <2>4. none \in SUBSET Words /\ none \subseteq Strings(new)
      OBVIOUS
    <2> HIDE DEF s, new, none
    <2> QED BY <2>1, <2>2, <2>3, <2>4, OneObject
  <1>3. CASE CallAddString(o)
    <2>1. PICK str \in Words : Becomes(o, AddString(s, str), contents[o] \union {str})
      BY <1>3 DEF CallAddString
    <2> DEFINE Kept(x) == /\ AddString(s, x) \in StringSets(Token)
                          /\ EmptyInv(s) => EmptyInv(AddString(s, x))
                          /\ FirstsInv(s) => FirstsInv(AddString(s, x))
                          /\ Strings(s) \union {x} \subseteq Strings(AddString(s, x))
    <2>2. Kept(str)
      <3>1. CASE str = <<>>
        BY <3>1, <1>1, AddEmptyKeeps
      <3>2. ASSUME NEW t \in Token, str = <<t>> PROVE Kept(str)
        BY <3>2, <1>1, AddStringKeeps
      <3>3. ASSUME NEW t \in Token, NEW u \in Token, str = <<t, u>>
            PROVE  Kept(str)
        BY <3>3, <1>1, AddStringKeeps
      <3> QED BY <3>1, <3>2, <3>3, WordCases
    <2>3. /\ maxed' = maxed
          /\ contents[o] \union {str} \in SUBSET Words
      BY <1>1, <1>3 DEF CallAddString
    <2>4. o \notin maxed => contents[o] \union {str} \subseteq Strings(AddString(s, str))
      BY <1>1, <2>2
    <2> QED BY <1>1, <2>1, <2>2, <2>3, <2>4, OneObject
  <1>4. CASE CallDeleteEmpty(o)
    <2>1. /\ maxed' = maxed /\ Becomes(o, DeleteEmpty(s), contents[o] \ {<<>>})
          /\ contents[o] \ {<<>>} \in SUBSET Words
      BY <1>1, <1>4 DEF CallDeleteEmpty
    <2>2. Strings(s) \ {<<>>} \subseteq Strings(DeleteEmpty(s))
      <3>1. /\ DeleteEmpty(s).firstonly = s.firstonly
            /\ DeleteEmpty(s).second = s.second
        BY <1>1 DEF DeleteEmpty, StringSets
      <3> QED BY <3>1, StringsOf
    <2> QED BY <1>1, <2>1, <2>2, DeleteEmptyKeeps, OneObject
  <1>5. CASE CallAppendToken(o)
    <2>1. PICK t \in Token : Becomes(o, AppendToken(s, t), Concat2(contents[o], {<<t>>}))
      BY <1>5 DEF CallAppendToken
    <2>2. maxed' = maxed
      BY <1>5 DEF CallAppendToken
    <2>3. {<<t>>} \in SUBSET Words
      BY DEF Words
    <2>4. Concat2(contents[o], {<<t>>}) \in SUBSET Words
      BY <1>1, <2>3, ConcatType
    <2>5. o \notin maxed => Concat2(contents[o], {<<t>>}) \subseteq Concat2(Strings(s), {<<t>>})
      BY <1>1, ConcatMonotone
    <2>6. /\ AppendToken(s, t) \in StringSets(Token)
          /\ EmptyInv(AppendToken(s, t))
          /\ o \notin maxed => FirstsInv(AppendToken(s, t))
          /\ Concat2(Strings(s), {<<t>>}) \subseteq Strings(AppendToken(s, t))
      BY <1>1, AppendTokenKeeps
    <2>7. o \notin maxed => Concat2(contents[o], {<<t>>}) \subseteq Strings(AppendToken(s, t))
      BY <2>5, <2>6
    <2> HIDE DEF s
    <2> QED BY <1>1, <2>1, <2>2, <2>4, <2>6, <2>7, OneObject
  <1> QED BY <1>2, <1>3, <1>4, <1>5

LEMMA PairCallKeeps ==
    ASSUME IInv, NEW o \in Object, NEW p \in Object \ {o},
           \/ CallAdd(o, p) \/ CallAddMax(o, p) \/ CallAppend(o, p)
    PROVE  IInv'
  <1> DEFINE s == sets[o]
             w == sets[p]
  <1>1. /\ s \in StringSets(Token) /\ EmptyInv(s) /\ contents[o] \in SUBSET Words
        /\ w \in StringSets(Token) /\ EmptyInv(w) /\ contents[p] \in SUBSET Words
        /\ maxed \in SUBSET Object
        /\ o \notin maxed => FirstsInv(s) /\ contents[o] \subseteq Strings(s)
        /\ p \notin maxed => FirstsInv(w) /\ contents[p] \subseteq Strings(w)
    BY DEF IInv, TypeOK, Faithful
  <1>2. ASSUME Mixed(o, p)
        PROVE  /\ maxed' \in SUBSET Object /\ maxed \ {o} \subseteq maxed'
               /\ o \notin maxed' => o \notin maxed /\ p \notin maxed
    BY <1>1, <1>2 DEF Mixed
  <1>3. CASE CallAdd(o, p)
    <2>1. Becomes(o, Add(s, w), contents[o] \union contents[p]) /\ Mixed(o, p)
      BY <1>3 DEF CallAdd
    <2>2. contents[o] \union contents[p] \in SUBSET Words
      BY <1>1
    <2>3. /\ Add(s, w) \in StringSets(Token)
          /\ EmptyInv(Add(s, w))
          /\ o \notin maxed' => FirstsInv(Add(s, w))
          /\ Strings(s) \union Strings(w) \subseteq Strings(Add(s, w))
      BY <1>1, <1>2, <2>1, AddKeeps
    <2>4. o \notin maxed' => contents[o] \union contents[p] \subseteq Strings(Add(s, w))
      BY <1>1, <1>2, <2>1, <2>3
    <2> QED BY <1>2, <2>1, <2>2, <2>3, <2>4, OneObject
  <1>4. CASE CallAddMax(o, p)
    <2> DEFINE strings == contents[o] \union {str \in contents[p] : Len(str) = 2}
    <2>1. Becomes(o, AddMax(s, w), strings) /\ maxed' = maxed \union {o}
      BY <1>4 DEF CallAddMax
    <2>2. strings \in SUBSET Words /\ maxed' \in SUBSET Object /\ maxed \ {o} \subseteq maxed' /\ o \in maxed'
      BY <1>1, <2>1
    <2>3. AddMax(s, w) \in StringSets(Token) /\ EmptyInv(AddMax(s, w))
      BY <1>1, AddMaxKeeps
    <2> HIDE DEF strings
    <2> QED BY <2>1, <2>2, <2>3, OneObject
  <1>5. CASE CallAppend(o, p)
    <2>1. Becomes(o, Append2(s, w), Concat2(contents[o], contents[p])) /\ Mixed(o, p)
      BY <1>5 DEF CallAppend
    <2>2. Concat2(contents[o], contents[p]) \in SUBSET Words
      BY <1>1, ConcatType
    <2>3. /\ Append2(s, w) \in StringSets(Token) /\ EmptyInv(Append2(s, w))
          /\ o \notin maxed' =>
                /\ FirstsInv(Append2(s, w))
                /\ Concat2(Strings(s), Strings(w)) \subseteq Strings(Append2(s, w))
      BY <1>1, <1>2, <2>1, AppendKeeps
    <2>4. o \notin maxed' => Concat2(contents[o], contents[p]) \subseteq Concat2(Strings(s), Strings(w))
      BY <1>1, <1>2, <2>1, ConcatMonotone
    <2> QED BY <1>2, <2>1, <2>2, <2>3, <2>4, OneObject
  <1> QED BY <1>3, <1>4, <1>5

THEOREM StepKeeps == IInv /\ [Next]_vars => IInv'
  <1> SUFFICES ASSUME IInv, [Next]_vars PROVE IInv'
    OBVIOUS
  <1>1. CASE Next
    BY <1>1, CallKeeps, PairCallKeeps DEF Next
  <1>2. CASE UNCHANGED vars
    BY <1>2 DEF vars, IInv, TypeOK, Faithful
  <1> QED BY <1>1, <1>2

LEMMA Invariant == Spec => []IInv
  BY InitHolds, StepKeeps, PTL DEF Spec

(* Every object is a set over the tokens, after any number of calls.       *)
THEOREM TypeCorrect == Spec => []TypeOK
  <1>1. IInv => TypeOK
    BY DEF IInv
  <1> QED BY <1>1, Invariant, PTL

(* Without addMax() no sequence of calls loses a string: what computeFirst *)
(* misses it misses by the flags it stops at, not by the sets.             *)
THEOREM NoStringLost == Spec => []NothingLost
  <1>1. IInv => NothingLost
    BY DEF IInv, Faithful, NothingLost
  <1> QED BY <1>1, Invariant, PTL

(* isEmpty is never set of an object with strings, so that what add,       *)
(* addMax and append skip is never more than the empty string; without     *)
(* addMax() first() is the set of first tokens.                            *)
THEOREM FlagsCorrect == Spec => []FlagsAgree
  <1>1. IInv => FlagsAgree
    <2> SUFFICES ASSUME IInv, NEW o \in Object
                 PROVE  /\ sets[o].isEmpty => Strings(sets[o]) \subseteq {<<>>}
                        /\ o \notin maxed => sets[o].firstsym = FirstTokens(Strings(sets[o]))
      BY DEF FlagsAgree
    <2>1. ASSUME sets[o].isEmpty, NEW str \in Strings(sets[o]) PROVE str = <<>>
      BY <2>1, StringsOf DEF IInv, EmptyInv
    <2>2. ASSUME o \notin maxed PROVE sets[o].firstsym = FirstTokens(Strings(sets[o]))
      <3>1. sets[o].second \in SUBSET (Token \X Token)
        BY DEF IInv, TypeOK, StringSets
      <3>2. \A a : a \in sets[o].firstsym <=> a \in sets[o].firstonly \/ Begins(sets[o], a)
        BY <2>2 DEF IInv, Faithful, FirstsInv
      <3> QED BY <3>1, <3>2, Firsts
    <2> QED BY <2>1, <2>2
  <1> QED BY <1>1, Invariant, PTL
=============================================================================
