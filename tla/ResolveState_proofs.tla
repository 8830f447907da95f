------------------------ MODULE ResolveState_proofs ------------------------
(***************************************************************************)
(* Proofs about ResolveState, for any terminals, precedences and numbers   *)
(* of reductions.  The key is that a reduction installed on a terminal     *)
(* overlaps none that is still to come, so that neither the assertion nor  *)
(* the deletion of edges[i] ever meets a reduction.  The second part shows *)
(* that the table is the one the site determines, whatever the order of    *)
(* the last resort, and that no reduction is dropped without a report.     *)
(***************************************************************************)
EXTENDS ResolveState, SequenceTheorems, FiniteSetTheorems, TLAPS

EntriesAccounted ==
    /\ \A t \in Terms : edges[t] = ShiftEdge => t \in accepts
    /\ \A t \in Terms : edges[t] \in Rules => \A s \in todo : t \notin lookahead[s]
    /\ isAdequate /\ todo # {} => \A t \in Terms : edges[t] \notin Rules

IInv == TypeOK /\ EntriesAccounted

LEMMA SiteFacts ==
    ASSUME site \in Sites
    PROVE  /\ Rules \subseteq Nat \ {0}
           /\ site.lookahead \in [Rules -> SUBSET Terms]
           /\ site.shifts \subseteq Terms
<1>1. PICK l \in RuleLengths :
        site \in [length : {l}, lookahead : [DOMAIN l -> SUBSET Terms], shifts : SUBSET Terms,
                  before : Terms \union {0}, prec : [Terms -> 0 .. MaxPrec], assoc : Assocs]
  BY DEF Sites
<1>2. site.length = l /\ Rules = DOMAIN l
  BY <1>1 DEF Rules
<1>3. DOMAIN l = 1 .. Len(l) /\ Len(l) \in Nat
  BY RuleLengthsAssumption, LenProperties
<1> QED
  BY <1>1, <1>2, <1>3

LEMMA InitInv == Init => IInv
<1> SUFFICES ASSUME Init PROVE IInv
  OBVIOUS
<1>1. /\ Rules \subseteq Nat \ {0} /\ site.lookahead \in [Rules -> SUBSET Terms]
      /\ site.shifts \subseteq Terms /\ site \in Sites
  BY SiteFacts DEF Init
<1>2. TypeOK
  BY <1>1 DEF Init, TypeOK
<1>3. EntriesAccounted
  BY <1>1 DEF Init, EntriesAccounted, NoEdge, ShiftEdge
<1> QED
  BY <1>2, <1>3 DEF IInv

LEMMA InstallAssertionHolds == IInv => InstallAssertion
<1> SUFFICES ASSUME IInv, NEW r \in Rules, Current(r), lookahead[r] \intersect accepts = {},
                    NEW t \in lookahead[r]
             PROVE  edges[t] = NoEdge
  BY DEF InstallAssertion
<1>1. t \in Terms /\ edges[t] \in Rules \union {NoEdge, ShiftEdge} /\ r \in todo
  BY DEF IInv, TypeOK, Current
<1> QED
  BY <1>1 DEF IInv, EntriesAccounted

(* What every step keeps: the site, and with it Rules and Sites.           *)
LEMMA SiteKept == [Next]_vars => site' = site
BY DEF Next, vars, FillAdequate, Install, Decide, Defer, NoConflicts, LastResort

LEMMA Inductive == IInv /\ [Next]_vars => IInv'
<1> SUFFICES ASSUME IInv, [Next]_vars PROVE IInv'
  OBVIOUS
<1>0. /\ site' = site /\ Rules' = Rules /\ site \in Sites /\ Rules \subseteq Nat \ {0}
      /\ edges \in [Terms -> Rules \union {NoEdge, ShiftEdge}]
      /\ lookahead \in [Rules -> SUBSET Terms]
      /\ \A r \in Rules : lookahead[r] \subseteq site.lookahead[r]
      /\ accepts \subseteq Terms /\ todo \subseteq Rules /\ conflicts \subseteq Rules
      /\ visited \subseteq conflicts /\ reports \in [Terms -> Nat] /\ isAdequate \in BOOLEAN
  BY SiteKept, SiteFacts DEF IInv, TypeOK, Rules
<1>1. CASE FillAdequate
  <2>1. PICK r \in todo :
          edges' = [t \in Terms |->
                       IF t \in lookahead[r] \/ lookahead[r] = {} THEN r ELSE edges[t]]
    BY <1>1 DEF FillAdequate
  <2>2. todo' = {} /\ UNCHANGED <<site, lookahead, accepts, conflicts, visited, reports, isAdequate>>
    BY <1>1 DEF FillAdequate
  <2>3. TypeOK'
    BY <1>0, <2>1, <2>2 DEF TypeOK
  <2>4. \A t \in Terms : edges'[t] = ShiftEdge => edges[t] = ShiftEdge
    BY <1>0, <2>1 DEF ShiftEdge
  <2> QED
    BY <2>2, <2>3, <2>4 DEF IInv, EntriesAccounted
<1>2. ASSUME NEW r \in Rules, Install(r) PROVE IInv'
  <2>1. /\ ~isAdequate /\ Later(r) = {} /\ r \in todo
        /\ accepts' = accepts \union lookahead[r]
        /\ edges' = [t \in Terms |-> IF t \in lookahead[r] THEN r ELSE edges[t]]
        /\ todo' = todo \ {r}
        /\ UNCHANGED <<site, lookahead, conflicts, visited, reports, isAdequate>>
    BY <1>2 DEF Install, Current
  <2>2. TypeOK'
    BY <1>0, <2>1 DEF TypeOK
  <2>3. \A s \in todo \ {r} : lookahead[s] \intersect lookahead[r] = {}
    BY <2>1 DEF Later
  <2>4. \A t \in Terms : edges'[t] = ShiftEdge => t \in accepts'
    BY <1>0, <2>1 DEF IInv, EntriesAccounted, ShiftEdge
  <2>5. \A t \in Terms : edges'[t] \in Rules => \A s \in todo' : t \notin lookahead'[s]
    BY <1>0, <2>1, <2>3 DEF IInv, EntriesAccounted
  <2> QED
    BY <1>0, <2>1, <2>2, <2>4, <2>5 DEF IInv, EntriesAccounted
<1>3. ASSUME NEW r \in Rules, Decide(r) PROVE IInv'
  <2> DEFINE kept == {t \in lookahead[r] : edges[t] = NoEdge \/ PrefersReduce(t)}
  <2>1. /\ ~isAdequate /\ Later(r) = {} /\ r \in todo
        /\ edges' = [t \in Terms |->
                        IF t \notin lookahead[r] THEN edges[t]
                        ELSE IF edges[t] = NoEdge \/ PrefersReduce(t) THEN r
                        ELSE IF NonAssoc(t) THEN NoEdge ELSE edges[t]]
        /\ lookahead' = [lookahead EXCEPT ![r] = kept]
        /\ todo' = todo \ {r}
        /\ UNCHANGED <<site, accepts, conflicts, visited, reports, isAdequate>>
    BY <1>3 DEF Decide, Current
  <2>2. kept \subseteq lookahead[r]
    OBVIOUS
  <2> HIDE DEF kept
  <2>3. /\ lookahead' \in [Rules -> SUBSET Terms]
        /\ \A s \in Rules : lookahead'[s] \subseteq lookahead[s]
    BY <1>0, <2>1, <2>2
  <2>4. /\ edges' \in [Terms -> Rules \union {NoEdge, ShiftEdge}]
        /\ \A t \in Terms : edges'[t] = ShiftEdge => edges[t] = ShiftEdge
        /\ \A t \in Terms : t \in lookahead[r] \/ edges'[t] = edges[t]
    BY <1>0, <2>1 DEF ShiftEdge, NoEdge
  <2>5. TypeOK'
    BY <1>0, <2>1, <2>3, <2>4 DEF TypeOK
  <2>6. \A s \in todo \ {r} : lookahead[s] \intersect lookahead[r] = {}
    BY <2>1 DEF Later
  <2>7. ASSUME NEW t \in Terms, edges'[t] \in Rules, NEW s \in todo'
        PROVE  t \notin lookahead'[s]
    <3>1. s \in todo /\ s # r /\ lookahead'[s] = lookahead[s]
      BY <1>0, <2>1
    <3>2. CASE t \in lookahead[r]
      BY <3>1, <3>2, <2>6
    <3>3. CASE edges'[t] = edges[t]
      BY <3>1, <3>3, <2>7 DEF IInv, EntriesAccounted
    <3> QED
      BY <3>2, <3>3, <2>4
  <2> QED
    BY <1>0, <2>1, <2>4, <2>5, <2>7 DEF IInv, EntriesAccounted
<1>4. ASSUME NEW r \in Rules, Defer(r) PROVE IInv'
  <2>1. /\ ~isAdequate /\ conflicts' = conflicts \union Later(r) \union {r} /\ todo' = todo \ {r}
        /\ UNCHANGED <<site, edges, lookahead, accepts, visited, reports, isAdequate>>
    BY <1>4 DEF Defer
  <2>2. Later(r) \subseteq todo
    BY DEF Later
  <2>3. TypeOK'
    BY <1>0, <2>1, <2>2 DEF TypeOK
  <2> QED
    BY <1>0, <2>1, <2>3 DEF IInv, EntriesAccounted
<1>5. CASE NoConflicts
  <2>1. TypeOK'
    BY <1>0, <1>5 DEF NoConflicts, TypeOK
  <2> QED
    BY <1>0, <1>5, <2>1 DEF NoConflicts, IInv, EntriesAccounted
<1>6. ASSUME NEW r \in Rules, LastResort(r) PROVE IInv'
  <2>1. /\ todo = {} /\ r \in conflicts
        /\ edges' = [t \in Terms |->
                        IF t \in lookahead[r] /\ (edges[t] = NoEdge \/ edges[t] > r)
                        THEN r ELSE edges[t]]
        /\ reports' = [t \in Terms |->
                          IF t \in lookahead[r] /\ edges[t] \notin {NoEdge, r}
                          THEN reports[t] + 1 ELSE reports[t]]
        /\ visited' = visited \union {r}
        /\ UNCHANGED <<site, lookahead, accepts, todo, conflicts, isAdequate>>
    BY <1>6 DEF LastResort
  <2>2. TypeOK'
    BY <1>0, <2>1 DEF TypeOK
  <2>3. \A t \in Terms : edges'[t] = ShiftEdge => edges[t] = ShiftEdge
    BY <1>0, <2>1 DEF ShiftEdge
  <2> QED
    BY <1>0, <2>1, <2>2, <2>3 DEF IInv, EntriesAccounted
<1>7. CASE UNCHANGED vars
  BY <1>0, <1>7 DEF vars, IInv, TypeOK, EntriesAccounted
<1> QED
  BY <1>1, <1>2, <1>3, <1>4, <1>5, <1>6, <1>7 DEF Next

LEMMA InvariantHolds == Spec => []IInv
  BY InitInv, Inductive, PTL DEF Spec

(* Every variable keeps its type, and a lookahead never grows.             *)
THEOREM TypeCorrect == Spec => []TypeOK
<1>1. IInv => TypeOK
  BY DEF IInv
<1> QED
  BY <1>1, InvariantHolds, PTL

(* The assertion of lalr.cc:253 holds.                                     *)
THEOREM AssertionHolds == Spec => []InstallAssertion
  BY InvariantHolds, InstallAssertionHolds, PTL

(* The chain loop deletes shifts only.                                     *)
THEOREM OnlyShiftsDeleted == Spec => ChainKeepsReductions
<1>1. ASSUME IInv, [Next]_vars, todo' # todo, NEW t \in Terms, edges[t] \in Rules
      PROVE  edges'[t] = edges[t]
  <2>0. /\ edges \in [Terms -> Rules \union {NoEdge, ShiftEdge}]
        /\ todo # {} => ~isAdequate
        /\ \A s \in todo : t \notin lookahead[s]
    BY <1>1 DEF IInv, TypeOK, EntriesAccounted
  <2>1. CASE FillAdequate
    <3>1. isAdequate /\ todo # {}
      BY <2>1 DEF FillAdequate
    <3> QED
      BY <2>0, <3>1
  <2>2. ASSUME NEW r \in Rules, Install(r) PROVE edges'[t] = edges[t]
    BY <2>0, <2>2 DEF Install, Current
  <2>3. ASSUME NEW r \in Rules, Decide(r) PROVE edges'[t] = edges[t]
    BY <2>0, <2>3 DEF Decide, Current
  <2>4. ASSUME NEW r \in Rules, Defer(r) \/ LastResort(r) PROVE edges'[t] = edges[t]
    BY <1>1, <2>4 DEF Defer, LastResort
  <2> QED
    BY <1>1, <2>1, <2>2, <2>3, <2>4 DEF Next, NoConflicts, vars
<1>2. IInv /\ [Next]_vars =>
        [todo' # todo => \A t \in Terms : edges[t] \in Rules => edges'[t] = edges[t]]_vars
  BY <1>1
<1> QED
  BY <1>2, InvariantHolds, PTL DEF Spec, ChainKeepsReductions
-----------------------------------------------------------------------------
(* The reductions before "edge" in the chain.                              *)
Walked == Rules \ todo

HasLookahead == \E r \in Rules : site.lookahead[r] # {}

(* What the chain loop has yet to read is as it was at the start.          *)
AheadUntouched ==
    /\ todo # {} => visited = {}
    /\ isAdequate /\ todo # {} => site.shifts = {} /\ todo = Rules /\ \E r \in Rules : Rules = {r}
    /\ \A r \in Walked, s \in todo : InChain(r, s)
    /\ \A r \in todo : lookahead[r] = site.lookahead[r]
    /\ \A r \in todo : \A t \in site.lookahead[r] :
          /\ edges[t] = IF t \in site.shifts THEN ShiftEdge ELSE NoEdge
          /\ t \in accepts <=> t \in site.shifts

(* What it has read is settled, or is left to the last resort.             *)
WalkedSettled ==
    \A r \in Walked :
        /\ \A t \in Terms : t \in lookahead[r] <=> Wants(r, t)
        /\ Settles(r) \/ r \in conflicts

(* An entry has the shift as long as nothing settled takes it away, and    *)
(* else the least of the reductions so far that want it.                   *)
EntriesDetermined ==
    \A t \in Terms :
        /\ edges[t] = ShiftEdge <=>
              /\ t \in site.shifts
              /\ \A r \in Walked : t \in site.lookahead[r] /\ Settles(r)
                                       => ~PrefersReduce(t) /\ ~NonAssoc(t)
        /\ edges[t] \in Rules => Wants(edges[t], t)
        /\ \A r \in Walked : (Settles(r) \/ r \in visited) /\ Wants(r, t)
              => edges[t] # NoEdge /\ (edges[t] \in Rules => edges[t] <= r)

TableInv == HasLookahead => AheadUntouched /\ WalkedSettled /\ EntriesDetermined

(* The edges that competed for an entry so far.                            *)
Come(t) == {r \in visited : t \in lookahead[r]} \union ({edges[t]} \ {NoEdge})
ReportsCounted ==
    /\ todo # {} => visited = {}
    /\ \A t \in Terms : (\E r \in visited : t \in lookahead[r]) => edges[t] # NoEdge
    /\ \A t \in Terms : reports[t] + 1 >= Cardinality(Come(t))

LEMMA RulesFinite ==
    ASSUME site \in Sites
    PROVE  IsFiniteSet(Rules)
<1>1. PICK l \in RuleLengths : site.length = l
  BY DEF Sites
<1>2. DOMAIN l = 1 .. Len(l) /\ Len(l) \in Nat
  BY RuleLengthsAssumption, LenProperties
<1>3. IsFiniteSet(1 .. Len(l))
  BY <1>2, FS_Interval
<1> QED
  BY <1>1, <1>2, <1>3 DEF Rules

LEMMA ChainOrder ==
    ASSUME site \in Sites, NEW r \in Rules, NEW s \in Rules
    PROVE  /\ ~(InChain(r, s) /\ InChain(s, r))
           /\ r # s => InChain(r, s) \/ InChain(s, r)
<1>1. Rules \subseteq Nat \ {0} /\ \A q \in Rules : site.length[q] \in Nat
  <2>1. PICK l \in RuleLengths : site.length = l
    BY DEF Sites
  <2>2. DOMAIN l = 1 .. Len(l) /\ \A q \in 1 .. Len(l) : l[q] \in Nat
    BY RuleLengthsAssumption, LenProperties, ElementOfSeq
  <2> QED
    BY <2>1, <2>2, SiteFacts DEF Rules
<1>2. r \in Nat /\ s \in Nat /\ site.length[r] \in Nat /\ site.length[s] \in Nat
  BY <1>1
<1> QED
  BY <1>2 DEF InChain

(* What the table stands for depends on the site alone.                    *)
LEMMA TableKept ==
    ASSUME site' = site
    PROVE  /\ Rules' = Rules /\ HasLookahead' = HasLookahead
           /\ \A r, s : InChain(r, s)' <=> InChain(r, s)
           /\ \A r : Settles(r)' <=> Settles(r)
           /\ \A r, t : Wants(r, t)' <=> Wants(r, t)
           /\ \A t : PrefersReduce(t)' <=> PrefersReduce(t)
           /\ \A t : NonAssoc(t)' <=> NonAssoc(t)
<1>1. Rules' = Rules
  BY DEF Rules
<1>2. HasLookahead' = HasLookahead
  BY <1>1 DEF HasLookahead
<1>3. \A r, s : InChain(r, s)' <=> InChain(r, s)
  BY DEF InChain
<1>4. \A t : (PrefersReduce(t)' <=> PrefersReduce(t)) /\ (NonAssoc(t)' <=> NonAssoc(t))
  BY DEF PrefersReduce, NonAssoc
<1>5. \A r : HasPrecedence(r)' <=> HasPrecedence(r)
  BY DEF HasPrecedence
<1>6. \A r, s : Overlap(r, s)' <=> Overlap(r, s)
  BY DEF Overlap
<1>7. \A r : Settles(r)' <=> Settles(r)
  BY <1>1, <1>3, <1>5, <1>6 DEF Settles
<1>8. \A r, t : Wants(r, t)' <=> Wants(r, t)
  BY <1>4, <1>7 DEF Wants
<1> QED
  BY <1>1, <1>2, <1>3, <1>4, <1>7, <1>8

(* Whether the reduction the loop comes to settles its conflicts is what   *)
(* the code decides: from the lookaheads further down and from "accepts".  *)
LEMMA CurrentSettles ==
    ASSUME IInv, AheadUntouched, NEW r \in Rules, Current(r)
    PROVE  /\ Settles(r) <=> Later(r) = {} /\ (lookahead[r] \intersect accepts = {} \/ PrecedenceDecides(r))
           /\ \A q \in Walked : Settles(q) => site.lookahead[q] \intersect site.lookahead[r] = {}
<1>1. /\ site \in Sites /\ todo \subseteq Rules /\ r \in todo
      /\ site.lookahead \in [Rules -> SUBSET Terms]
  BY SiteFacts DEF IInv, TypeOK, Current
<1>2. \A q \in Walked : InChain(q, r) /\ q # r /\ q \in Rules
  BY <1>1 DEF AheadUntouched, Walked
<1>3. \A s \in todo \ {r} : InChain(r, s)
  BY DEF Current
<1>4. \A s \in todo : lookahead[s] = site.lookahead[s]
  BY DEF AheadUntouched
<1>5. Later(r) = {} <=> \A s \in Rules : Overlap(r, s) => InChain(s, r)
  <2>1. ASSUME Later(r) = {}, NEW s \in Rules, Overlap(r, s) PROVE InChain(s, r)
    <3>1. s \notin todo \ {r}
      BY <1>1, <1>4, <2>1 DEF Later, Overlap
    <3> QED
      BY <1>2, <2>1, <3>1 DEF Overlap, Walked
  <2>2. ASSUME \A s \in Rules : Overlap(r, s) => InChain(s, r), NEW s \in Later(r) PROVE FALSE
    <3>1. s \in todo \ {r} /\ Overlap(r, s)
      BY <1>1, <1>4, <2>2 DEF Later, Overlap
    <3> QED
      BY <1>1, <1>3, <2>2, <3>1, ChainOrder
  <2> QED
    BY <2>1, <2>2
<1>6. lookahead[r] = site.lookahead[r] /\ lookahead[r] \intersect accepts = site.lookahead[r] \intersect site.shifts
  BY <1>1, <1>4 DEF AheadUntouched
<1>7. (\A t \in site.lookahead[r] \intersect site.shifts : HasPrecedence(r) /\ site.prec[t] # 0)
        <=> lookahead[r] \intersect accepts = {} \/ PrecedenceDecides(r)
  BY <1>6 DEF PrecedenceDecides
<1>8. ASSUME NEW q \in Walked, Settles(q) PROVE site.lookahead[q] \intersect site.lookahead[r] = {}
  <2>1. ~InChain(r, q) /\ q # r
    BY <1>1, <1>2, ChainOrder
  <2>2. ~Overlap(q, r)
    BY <1>8, <2>1 DEF Settles
  <2> QED
    BY <2>1, <2>2 DEF Overlap
<1> QED
  BY <1>5, <1>7, <1>8 DEF Settles

(* A reduction of which every later one keeps clear is taken off the       *)
(* chain: the rest is still as it was.                                     *)
LEMMA RestUntouched ==
    ASSUME IInv, AheadUntouched, ~isAdequate, isAdequate' = isAdequate, site' = site,
           visited' = visited,
           NEW r \in Rules, Current(r), todo' = todo \ {r},
           \A s \in todo \ {r} : lookahead'[s] = lookahead[s],
           \A s \in todo \ {r} : \A t \in site.lookahead[s] :
               edges'[t] = edges[t] /\ (t \in accepts' <=> t \in accepts)
    PROVE  AheadUntouched'
<1>1. /\ Rules' = Rules /\ \A q, s : InChain(q, s)' <=> InChain(q, s)
  BY TableKept
<1>2. r \in todo /\ \A s \in todo \ {r} : InChain(r, s)
  BY DEF Current
<1>3. \A q \in Walked', s \in todo' : InChain(q, s)'
  <2> SUFFICES ASSUME NEW q \in Walked', NEW s \in todo' PROVE InChain(q, s)
    BY <1>1
  <2>1. s \in todo \ {r} /\ (q = r \/ q \in Walked)
    BY <1>1 DEF Walked
  <2> QED
    BY <1>2, <2>1 DEF AheadUntouched
<1>4. \A s \in todo' : /\ lookahead'[s] = site'.lookahead[s]
                       /\ \A t \in site'.lookahead[s] :
                             /\ edges'[t] = IF t \in site'.shifts THEN ShiftEdge ELSE NoEdge
                             /\ t \in accepts' <=> t \in site'.shifts
  BY DEF AheadUntouched
<1>5. todo' # {} => visited' = {}
  BY DEF AheadUntouched
<1> QED
  BY <1>3, <1>4, <1>5 DEF AheadUntouched

LEMMA TableInstall ==
    ASSUME IInv, TableInv, HasLookahead, site' = site, NEW r \in Rules, Install(r)
    PROVE  AheadUntouched' /\ WalkedSettled' /\ EntriesDetermined'
<1>1. /\ ~isAdequate /\ Current(r) /\ r \in todo /\ Later(r) = {} /\ lookahead[r] \intersect accepts = {}
      /\ accepts' = accepts \union lookahead[r]
      /\ edges' = [t \in Terms |-> IF t \in lookahead[r] THEN r ELSE edges[t]]
      /\ todo' = todo \ {r}
      /\ UNCHANGED <<lookahead, conflicts, visited, isAdequate>>
  BY DEF Install, Current
<1>2. AheadUntouched /\ WalkedSettled /\ EntriesDetermined
  BY DEF TableInv
<1>3. /\ Settles(r) /\ \A q \in Walked : Settles(q) => site.lookahead[q] \intersect site.lookahead[r] = {}
  BY <1>1, <1>2, CurrentSettles
<1>4. /\ site \in Sites /\ todo \subseteq Rules /\ Rules \subseteq Nat \ {0} /\ visited = {}
      /\ site.lookahead \in [Rules -> SUBSET Terms] /\ lookahead[r] = site.lookahead[r]
      /\ edges \in [Terms -> Rules \union {NoEdge, ShiftEdge}]
      /\ \A s \in todo : lookahead[s] = site.lookahead[s]
      /\ \A t \in lookahead[r] : t \notin site.shifts
  BY <1>1, <1>2, SiteFacts DEF IInv, TypeOK, AheadUntouched
<1>5. \A s \in todo \ {r} : site.lookahead[s] \intersect lookahead[r] = {}
  BY <1>1, <1>4 DEF Later
<1>6. /\ Walked' = Walked \union {r} /\ Rules' = Rules
      /\ \A q : Settles(q)' <=> Settles(q)
      /\ \A q, t : Wants(q, t)' <=> Wants(q, t)
      /\ \A t : (PrefersReduce(t)' <=> PrefersReduce(t)) /\ (NonAssoc(t)' <=> NonAssoc(t))
  BY <1>1, <1>4, TableKept DEF Walked
<1>7. \A t \in Terms : t \in lookahead[r] <=> Wants(r, t)
  BY <1>4 DEF Wants
<1>8. AheadUntouched'
  <2>1. \A s \in todo \ {r} : \A t \in site.lookahead[s] :
            edges'[t] = edges[t] /\ (t \in accepts' <=> t \in accepts)
    BY <1>1, <1>4, <1>5
  <2> QED
    BY <1>1, <1>2, <2>1, RestUntouched
<1>9. WalkedSettled'
  BY <1>1, <1>2, <1>3, <1>6, <1>7 DEF WalkedSettled
<1>10. EntriesDetermined'
  <2> SUFFICES ASSUME NEW t \in Terms
               PROVE  /\ edges'[t] = ShiftEdge <=>
                            /\ t \in site.shifts
                            /\ \A q \in Walked \union {r} :
                                  t \in site.lookahead[q] /\ Settles(q)
                                      => ~PrefersReduce(t) /\ ~NonAssoc(t)
                      /\ edges'[t] \in Rules => Wants(edges'[t], t)
                      /\ \A q \in Walked \union {r} : Settles(q) /\ Wants(q, t)
                            => edges'[t] # NoEdge /\ (edges'[t] \in Rules => edges'[t] <= q)
    BY <1>1, <1>4, <1>6 DEF EntriesDetermined
  <2>1. /\ edges[t] = ShiftEdge <=>
              /\ t \in site.shifts
              /\ \A q \in Walked : t \in site.lookahead[q] /\ Settles(q)
                                       => ~PrefersReduce(t) /\ ~NonAssoc(t)
        /\ edges[t] \in Rules => Wants(edges[t], t)
        /\ \A q \in Walked : Settles(q) /\ Wants(q, t)
              => edges[t] # NoEdge /\ (edges[t] \in Rules => edges[t] <= q)
    BY <1>2 DEF EntriesDetermined
  <2>2. CASE t \in lookahead[r]
    <3>1. edges'[t] = r /\ r # ShiftEdge /\ r # NoEdge /\ r \in Nat /\ t \notin site.shifts
      BY <1>1, <1>4, <2>2 DEF ShiftEdge, NoEdge
    <3>2. \A q \in Walked : ~(Settles(q) /\ Wants(q, t))
      BY <1>3, <1>4, <2>2 DEF Wants
    <3> QED
      BY <1>7, <2>2, <3>1, <3>2
  <2>3. CASE t \notin lookahead[r]
    <3>1. edges'[t] = edges[t] /\ ~Wants(r, t) /\ t \notin site.lookahead[r]
      BY <1>1, <1>4, <1>7, <2>3
    <3> QED
      BY <2>1, <3>1
  <2> QED
    BY <2>2, <2>3
<1> QED
  BY <1>8, <1>9, <1>10

LEMMA TableDecide ==
    ASSUME IInv, TableInv, HasLookahead, site' = site, NEW r \in Rules, Decide(r)
    PROVE  AheadUntouched' /\ WalkedSettled' /\ EntriesDetermined'
<1>1. /\ ~isAdequate /\ Current(r) /\ r \in todo /\ Later(r) = {} /\ PrecedenceDecides(r)
      /\ edges' = [t \in Terms |->
                      IF t \notin lookahead[r] THEN edges[t]
                      ELSE IF edges[t] = NoEdge \/ PrefersReduce(t) THEN r
                      ELSE IF NonAssoc(t) THEN NoEdge ELSE edges[t]]
      /\ lookahead' = [lookahead EXCEPT ![r] =
                          {t \in lookahead[r] : edges[t] = NoEdge \/ PrefersReduce(t)}]
      /\ todo' = todo \ {r}
      /\ UNCHANGED <<accepts, conflicts, visited, isAdequate>>
  BY DEF Decide, Current
<1>2. AheadUntouched /\ WalkedSettled /\ EntriesDetermined
  BY DEF TableInv
<1>3. /\ Settles(r) /\ \A q \in Walked : Settles(q) => site.lookahead[q] \intersect site.lookahead[r] = {}
  BY <1>1, <1>2, CurrentSettles
<1>4. /\ site \in Sites /\ todo \subseteq Rules /\ Rules \subseteq Nat \ {0} /\ visited = {}
      /\ site.lookahead \in [Rules -> SUBSET Terms] /\ lookahead[r] = site.lookahead[r]
      /\ edges \in [Terms -> Rules \union {NoEdge, ShiftEdge}]
      /\ lookahead \in [Rules -> SUBSET Terms]
      /\ \A s \in todo : lookahead[s] = site.lookahead[s]
      /\ \A t \in lookahead[r] : edges[t] = IF t \in site.shifts THEN ShiftEdge ELSE NoEdge
  BY <1>1, <1>2, SiteFacts DEF IInv, TypeOK, AheadUntouched
<1>5. \A s \in todo \ {r} : site.lookahead[s] \intersect lookahead[r] = {}
  BY <1>1, <1>4 DEF Later
<1>6. /\ Walked' = Walked \union {r} /\ Rules' = Rules
      /\ \A q : Settles(q)' <=> Settles(q)
      /\ \A q, t : Wants(q, t)' <=> Wants(q, t)
      /\ \A t : (PrefersReduce(t)' <=> PrefersReduce(t)) /\ (NonAssoc(t)' <=> NonAssoc(t))
  BY <1>1, <1>4, TableKept DEF Walked
<1>7. \A t \in Terms : Wants(r, t) <=> t \in lookahead[r] /\ (t \in site.shifts => PrefersReduce(t))
  BY <1>3, <1>4 DEF Wants
<1>8. \A q \in Rules : lookahead'[q] = IF q = r THEN {t \in lookahead[r] : edges[t] = NoEdge \/ PrefersReduce(t)}
                                       ELSE lookahead[q]
  BY <1>1, <1>4
<1>9. AheadUntouched'
  <2>1. \A s \in todo \ {r} : \A t \in site.lookahead[s] :
            edges'[t] = edges[t] /\ (t \in accepts' <=> t \in accepts)
    BY <1>1, <1>4, <1>5
  <2>2. \A s \in todo \ {r} : lookahead'[s] = lookahead[s]
    BY <1>4, <1>8
  <2> QED
    BY <1>1, <1>2, <2>1, <2>2, RestUntouched
<1>10. WalkedSettled'
  <2>1. ASSUME NEW t \in Terms PROVE t \in lookahead'[r] <=> Wants(r, t)
    <3>1. t \in lookahead[r] => (edges[t] = NoEdge <=> t \notin site.shifts)
      BY <1>4 DEF ShiftEdge, NoEdge
    <3> QED
      BY <1>7, <1>8, <3>1
  <2>2. \A q \in Walked : q \in Rules /\ lookahead'[q] = lookahead[q]
    BY <1>1, <1>8 DEF Walked
  <2> QED
    BY <1>1, <1>2, <1>3, <1>6, <2>1, <2>2 DEF WalkedSettled
<1>11. EntriesDetermined'
  <2> SUFFICES ASSUME NEW t \in Terms
               PROVE  /\ edges'[t] = ShiftEdge <=>
                            /\ t \in site.shifts
                            /\ \A q \in Walked \union {r} :
                                  t \in site.lookahead[q] /\ Settles(q)
                                      => ~PrefersReduce(t) /\ ~NonAssoc(t)
                      /\ edges'[t] \in Rules => Wants(edges'[t], t)
                      /\ \A q \in Walked \union {r} : Settles(q) /\ Wants(q, t)
                            => edges'[t] # NoEdge /\ (edges'[t] \in Rules => edges'[t] <= q)
    BY <1>1, <1>4, <1>6 DEF EntriesDetermined
  <2>1. /\ edges[t] = ShiftEdge <=>
              /\ t \in site.shifts
              /\ \A q \in Walked : t \in site.lookahead[q] /\ Settles(q)
                                       => ~PrefersReduce(t) /\ ~NonAssoc(t)
        /\ edges[t] \in Rules => Wants(edges[t], t)
        /\ \A q \in Walked : Settles(q) /\ Wants(q, t)
              => edges[t] # NoEdge /\ (edges[t] \in Rules => edges[t] <= q)
    BY <1>2 DEF EntriesDetermined
  <2>2. CASE t \in lookahead[r]
    <3>1. \A q \in Walked : ~(Settles(q) /\ t \in site.lookahead[q])
      BY <1>3, <1>4, <2>2
    <3>2. \A q \in Walked : ~(Settles(q) /\ Wants(q, t))
      BY <3>1 DEF Wants
    <3>3. /\ edges[t] = IF t \in site.shifts THEN ShiftEdge ELSE NoEdge
          /\ r # ShiftEdge /\ r # NoEdge /\ r \in Nat /\ ShiftEdge # NoEdge /\ ShiftEdge \notin Rules
          /\ NoEdge \notin Rules /\ t \in site.lookahead[r]
      BY <1>4, <2>2 DEF ShiftEdge, NoEdge
    <3>4. CASE t \notin site.shifts \/ PrefersReduce(t)
      <4>1. edges'[t] = r
        BY <1>1, <2>2, <3>3, <3>4
      <4>2. Wants(r, t)
        BY <1>7, <2>2, <3>4
      <4>3. ~(t \in site.shifts /\ ~PrefersReduce(t))
        BY <3>4
      <4> QED
        BY <1>3, <3>2, <3>3, <4>1, <4>2, <4>3
    <3>5. CASE t \in site.shifts /\ ~PrefersReduce(t)
      <4>1. edges'[t] = IF NonAssoc(t) THEN NoEdge ELSE ShiftEdge
        BY <1>1, <2>2, <3>3, <3>5
      <4>2. ~Wants(r, t)
        BY <1>7, <2>2, <3>5
      <4> QED
        BY <1>3, <3>1, <3>2, <3>3, <3>5, <4>1, <4>2
    <3> QED
      BY <3>4, <3>5
  <2>3. CASE t \notin lookahead[r]
    <3>1. edges'[t] = edges[t] /\ ~Wants(r, t) /\ t \notin site.lookahead[r]
      BY <1>1, <1>4, <1>7, <2>3
    <3> QED
      BY <2>1, <3>1
  <2> QED
    BY <2>2, <2>3
<1> QED
  BY <1>9, <1>10, <1>11

LEMMA TableDefer ==
    ASSUME IInv, TableInv, HasLookahead, site' = site, NEW r \in Rules, Defer(r)
    PROVE  AheadUntouched' /\ WalkedSettled' /\ EntriesDetermined'
<1>1. /\ ~isAdequate /\ Current(r) /\ r \in todo
      /\ Later(r) # {} \/ (lookahead[r] \intersect accepts # {} /\ ~PrecedenceDecides(r))
      /\ conflicts' = conflicts \union Later(r) \union {r} /\ todo' = todo \ {r}
      /\ UNCHANGED <<edges, lookahead, accepts, visited, isAdequate>>
  BY DEF Defer, Current
<1>2. AheadUntouched /\ WalkedSettled /\ EntriesDetermined
  BY DEF TableInv
<1>3. ~Settles(r)
  BY <1>1, <1>2, CurrentSettles
<1>4. /\ todo \subseteq Rules /\ visited = {} /\ lookahead[r] = site.lookahead[r]
  BY <1>1, <1>2 DEF IInv, TypeOK, AheadUntouched
<1>5. /\ Walked' = Walked \union {r} /\ Rules' = Rules
      /\ \A q : Settles(q)' <=> Settles(q)
      /\ \A q, t : Wants(q, t)' <=> Wants(q, t)
      /\ \A t : (PrefersReduce(t)' <=> PrefersReduce(t)) /\ (NonAssoc(t)' <=> NonAssoc(t))
  BY <1>1, <1>4, TableKept DEF Walked
<1>6. \A t \in Terms : t \in lookahead[r] <=> Wants(r, t)
  BY <1>3, <1>4 DEF Wants
<1>7. AheadUntouched'
  BY <1>1, <1>2, RestUntouched
<1>8. WalkedSettled'
  BY <1>1, <1>2, <1>5, <1>6 DEF WalkedSettled
<1>9. EntriesDetermined'
  BY <1>1, <1>2, <1>3, <1>4, <1>5 DEF EntriesDetermined
<1> QED
  BY <1>7, <1>8, <1>9

LEMMA TableFill ==
    ASSUME IInv, TableInv, HasLookahead, site' = site, FillAdequate
    PROVE  AheadUntouched' /\ WalkedSettled' /\ EntriesDetermined'
<1>1. AheadUntouched /\ isAdequate /\ todo # {} /\ todo' = {}
      /\ UNCHANGED <<lookahead, conflicts, visited>>
  BY DEF TableInv, FillAdequate
<1>2. site.shifts = {} /\ todo = Rules /\ visited = {}
  BY <1>1 DEF AheadUntouched
<1>3. PICK r \in Rules : Rules = {r}
  BY <1>1 DEF AheadUntouched
<1>4. lookahead[r] = site.lookahead[r] /\ site.lookahead[r] # {} /\ r \in Nat \ {0}
  BY <1>1, <1>2, <1>3, SiteFacts DEF AheadUntouched, HasLookahead, IInv, TypeOK
<1>5. edges' = [t \in Terms |-> IF t \in lookahead[r] THEN r ELSE edges[t]]
  BY <1>2, <1>3, <1>4 DEF FillAdequate
<1>6. /\ Walked' = {r} /\ Rules' = Rules
      /\ \A q : Settles(q)' <=> Settles(q)
      /\ \A q, t : Wants(q, t)' <=> Wants(q, t)
  BY <1>1, <1>3, TableKept DEF Walked
<1>7. Settles(r)
  BY <1>2, <1>3 DEF Settles, Overlap
<1>8. \A t : Wants(r, t) <=> t \in site.lookahead[r]
  BY <1>2 DEF Wants
<1>9. \A t \in Terms : edges[t] = NoEdge
  <2>1. edges \in [Terms -> Rules \union {NoEdge, ShiftEdge}]
    BY DEF IInv, TypeOK
  <2>2. \A t \in Terms : edges[t] \notin Rules
    BY <1>1 DEF IInv, EntriesAccounted
  <2>3. \A t \in Terms : edges[t] # ShiftEdge
    BY <1>1, <1>2 DEF TableInv, EntriesDetermined
  <2> QED
    BY <2>1, <2>2, <2>3
<1>10. AheadUntouched'
  BY <1>1 DEF AheadUntouched
<1>11. WalkedSettled'
  BY <1>1, <1>4, <1>6, <1>7, <1>8 DEF WalkedSettled
<1>12. EntriesDetermined'
  <2>1. \A t \in Terms : /\ edges'[t] # ShiftEdge
                         /\ edges'[t] \in Rules => edges'[t] = r /\ t \in site.lookahead[r]
                         /\ t \in site.lookahead[r] => edges'[t] = r /\ edges'[t] # NoEdge
    BY <1>3, <1>4, <1>5, <1>9 DEF ShiftEdge, NoEdge
  <2>2. r <= r
    BY <1>4
  <2> QED
    BY <1>2, <1>6, <1>8, <2>1, <2>2 DEF EntriesDetermined
<1> QED
  BY <1>10, <1>11, <1>12

LEMMA TableLastResort ==
    ASSUME IInv, TableInv, HasLookahead, site' = site, NEW r \in Rules, LastResort(r)
    PROVE  AheadUntouched' /\ WalkedSettled' /\ EntriesDetermined'
<1>1. /\ todo = {} /\ r \in conflicts
      /\ edges' = [t \in Terms |->
                      IF t \in lookahead[r] /\ (edges[t] = NoEdge \/ edges[t] > r)
                      THEN r ELSE edges[t]]
      /\ visited' = visited \union {r}
      /\ UNCHANGED <<lookahead, accepts, todo, conflicts, isAdequate>>
  BY DEF LastResort
<1>2. AheadUntouched /\ WalkedSettled /\ EntriesDetermined
  BY DEF TableInv
<1>3. /\ Rules \subseteq Nat \ {0} /\ edges \in [Terms -> Rules \union {NoEdge, ShiftEdge}]
  BY SiteFacts DEF IInv, TypeOK
<1>4. /\ Walked = Rules /\ Walked' = Rules /\ Rules' = Rules
      /\ \A q : Settles(q)' <=> Settles(q)
      /\ \A q, t : Wants(q, t)' <=> Wants(q, t)
      /\ \A t : (PrefersReduce(t)' <=> PrefersReduce(t)) /\ (NonAssoc(t)' <=> NonAssoc(t))
  BY <1>1, TableKept DEF Walked
<1>5. AheadUntouched'
  BY <1>1 DEF AheadUntouched
<1>6. WalkedSettled'
  BY <1>1, <1>2, <1>4 DEF WalkedSettled
<1>7. EntriesDetermined'
  <2> SUFFICES ASSUME NEW t \in Terms
               PROVE  /\ edges'[t] = ShiftEdge <=> edges[t] = ShiftEdge
                      /\ edges'[t] \in Rules => Wants(edges'[t], t)
                      /\ \A q \in Rules : (Settles(q) \/ q \in visited \/ q = r) /\ Wants(q, t)
                            => edges'[t] # NoEdge /\ (edges'[t] \in Rules => edges'[t] <= q)
    BY <1>1, <1>2, <1>4 DEF EntriesDetermined
  <2>1. /\ edges[t] \in Rules => Wants(edges[t], t)
        /\ \A q \in Rules : (Settles(q) \/ q \in visited) /\ Wants(q, t)
              => edges[t] # NoEdge /\ (edges[t] \in Rules => edges[t] <= q)
    BY <1>2, <1>4 DEF EntriesDetermined
  <2>2. t \in lookahead[r] <=> Wants(r, t)
    BY <1>2, <1>4 DEF WalkedSettled
  <2>3. r \in Nat \ {0} /\ edges[t] \in Rules \union {NoEdge, ShiftEdge} /\ (edges[t] \in Rules => edges[t] \in Nat)
    BY <1>3
  <2>4. CASE Wants(r, t) /\ (edges[t] = NoEdge \/ edges[t] > r)
    <3>1. edges'[t] = r
      BY <1>1, <2>2, <2>4
    <3>2. edges[t] # ShiftEdge /\ r # ShiftEdge /\ r # NoEdge
      BY <2>3, <2>4 DEF ShiftEdge, NoEdge
    <3>3. ASSUME NEW q \in Rules, Settles(q) \/ q \in visited \/ q = r, Wants(q, t) PROVE r <= q
      <4>1. CASE q = r
        BY <2>3, <4>1
      <4>2. CASE q # r
        <5>1. edges[t] # NoEdge /\ (edges[t] \in Rules => edges[t] <= q)
          BY <2>1, <3>3, <4>2
        <5>2. edges[t] \in Nat /\ edges[t] > r /\ edges[t] <= q /\ q \in Nat
          BY <1>3, <2>3, <2>4, <3>2, <5>1
        <5> QED
          BY <2>3, <5>2
      <4> QED
        BY <4>1, <4>2
    <3> QED
      BY <2>4, <3>1, <3>2, <3>3
  <2>5. CASE ~(Wants(r, t) /\ (edges[t] = NoEdge \/ edges[t] > r))
    <3>1. edges'[t] = edges[t]
      BY <1>1, <2>2, <2>5
    <3>2. Wants(r, t) => edges[t] # NoEdge /\ (edges[t] \in Rules => edges[t] <= r)
      BY <2>3, <2>5
    <3> QED
      BY <2>1, <3>1, <3>2
  <2> QED
    BY <2>4, <2>5
<1> QED
  BY <1>5, <1>6, <1>7

LEMMA TableInit == Init => TableInv
<1> SUFFICES ASSUME Init, HasLookahead PROVE AheadUntouched /\ WalkedSettled /\ EntriesDetermined
  BY DEF TableInv
<1>1. /\ site \in Sites /\ todo = Rules /\ visited = {} /\ lookahead = site.lookahead /\ accepts = site.shifts
      /\ edges = [t \in Terms |-> IF t \in site.shifts THEN ShiftEdge ELSE NoEdge]
      /\ isAdequate => site.shifts = {} /\ Cardinality(Rules) = 1
  BY DEF Init
<1>2. Walked = {}
  BY <1>1 DEF Walked
<1>3. Rules \subseteq Nat \ {0} /\ site.lookahead \in [Rules -> SUBSET Terms] /\ site.shifts \subseteq Terms
  BY <1>1, SiteFacts
<1>4. isAdequate => \E r \in Rules : Rules = {r}
  BY <1>1, RulesFinite, FS_Singleton
<1>5. AheadUntouched
  BY <1>1, <1>2, <1>3, <1>4 DEF AheadUntouched
<1>6. WalkedSettled
  BY <1>2 DEF WalkedSettled
<1>7. EntriesDetermined
  BY <1>1, <1>2, <1>3 DEF EntriesDetermined, ShiftEdge, NoEdge
<1> QED
  BY <1>5, <1>6, <1>7

LEMMA TableInductive == IInv /\ TableInv /\ [Next]_vars => TableInv'
<1> SUFFICES ASSUME IInv, TableInv, [Next]_vars, HasLookahead'
             PROVE  AheadUntouched' /\ WalkedSettled' /\ EntriesDetermined'
  BY DEF TableInv
<1>1. site' = site /\ HasLookahead
  BY SiteKept, TableKept
<1>2. AheadUntouched /\ WalkedSettled /\ EntriesDetermined
  BY <1>1 DEF TableInv
<1>3. CASE FillAdequate
  BY <1>1, <1>3, TableFill
<1>4. CASE NoConflicts \/ UNCHANGED vars
  <2>1. /\ UNCHANGED <<edges, lookahead, accepts, todo, conflicts, visited>>
        /\ todo = {} \/ isAdequate' = isAdequate
    BY <1>4 DEF NoConflicts, vars
  <2>2. /\ Walked' = Walked /\ Rules' = Rules
        /\ \A q, s : InChain(q, s)' <=> InChain(q, s)
        /\ \A q : Settles(q)' <=> Settles(q)
        /\ \A q, t : Wants(q, t)' <=> Wants(q, t)
        /\ \A t : (PrefersReduce(t)' <=> PrefersReduce(t)) /\ (NonAssoc(t)' <=> NonAssoc(t))
    BY <1>1, <2>1, TableKept DEF Walked
  <2>3. AheadUntouched'
    BY <1>1, <1>2, <2>1, <2>2 DEF AheadUntouched
  <2>4. WalkedSettled'
    BY <1>1, <1>2, <2>1, <2>2 DEF WalkedSettled
  <2>5. EntriesDetermined'
    BY <1>1, <1>2, <2>1, <2>2 DEF EntriesDetermined
  <2> QED
    BY <2>3, <2>4, <2>5
<1>5. ASSUME NEW r \in Rules, Install(r) \/ Decide(r) \/ Defer(r) \/ LastResort(r)
      PROVE  AheadUntouched' /\ WalkedSettled' /\ EntriesDetermined'
  BY <1>1, <1>5, TableInstall, TableDecide, TableDefer, TableLastResort
<1> QED
  BY <1>3, <1>4, <1>5 DEF Next

LEMMA TableIsOutcome == IInv /\ TableInv => TableIsDetermined
<1> SUFFICES ASSUME IInv, TableInv, Done, HasLookahead, NEW t \in Terms
             PROVE  {edges[t]} \ {NoEdge} = Outcome(t)
  BY DEF TableIsDetermined, HasLookahead
<1>1. Walked = Rules /\ visited = conflicts
  BY DEF Done, Walked
<1>2. Rules \subseteq Nat \ {0} /\ edges[t] \in Rules \union {NoEdge, ShiftEdge}
  BY SiteFacts DEF IInv, TypeOK
<1>3. \A r \in Rules : Settles(r) \/ r \in visited
  BY <1>1 DEF TableInv, WalkedSettled
<1>4. edges[t] = ShiftEdge <=> ShiftStands(t)
  BY <1>1 DEF TableInv, EntriesDetermined, ShiftStands
<1>5. /\ edges[t] \in Rules => Wants(edges[t], t)
      /\ \A r \in Rules : Wants(r, t) => edges[t] # NoEdge /\ (edges[t] \in Rules => edges[t] <= r)
  BY <1>1, <1>3 DEF TableInv, EntriesDetermined
<1>6. CASE edges[t] = ShiftEdge
  BY <1>4, <1>6 DEF Outcome, ShiftEdge, NoEdge
<1>7. CASE edges[t] = NoEdge
  <2>1. ~ShiftStands(t)
    BY <1>4, <1>7 DEF ShiftEdge, NoEdge
  <2> QED
    BY <1>5, <1>7, <2>1 DEF Outcome
<1>8. CASE edges[t] \in Rules
  <2> DEFINE e == edges[t]
  <2>1. ~ShiftStands(t) /\ e # NoEdge
    BY <1>2, <1>4, <1>8 DEF ShiftEdge, NoEdge
  <2>2. e \in Nat /\ Wants(e, t) /\ \A r \in Rules : Wants(r, t) => e <= r
    BY <1>2, <1>5, <1>8
  <2>3. ASSUME NEW r \in Rules, Wants(r, t), \A s \in Rules : Wants(s, t) => r <= s PROVE r = e
    <3>1. r \in Nat /\ r <= e /\ e <= r
      BY <1>2, <1>8, <2>2, <2>3
    <3> QED
      BY <2>2, <3>1
  <2>4. Outcome(t) = {r \in Rules : Wants(r, t) /\ \A s \in Rules : Wants(s, t) => r <= s}
    BY <2>1 DEF Outcome
  <2> HIDE DEF e
  <2>5. Outcome(t) = {e}
    BY <1>8, <2>2, <2>3, <2>4 DEF e
  <2> QED
    BY <2>1, <2>5 DEF e
<1> QED
  BY <1>2, <1>6, <1>7, <1>8

(* The table of a state does not depend on the order in which the          *)
(* conflicts are visited.                                                  *)
THEOREM TableCorrect == Spec => []TableIsDetermined
<1>1. Spec => []TableInv
  BY TableInit, TableInductive, InvariantHolds, PTL DEF Spec
<1> QED
  BY <1>1, InvariantHolds, TableIsOutcome, PTL

LEMMA AtMostOne ==
    ASSUME NEW e, NEW n
    PROVE  Cardinality({e} \ {n}) \in Nat /\ Cardinality({e} \ {n}) <= 1
<1>1. {e} \ {n} = {} \/ {e} \ {n} = {e}
  OBVIOUS
<1> QED
  BY <1>1, FS_EmptySet, FS_Singleton

(* Before the last resort an entry has one contender at most.              *)
LEMMA NoneVisited == visited = {} /\ reports \in [Terms -> Nat] => ReportsCounted
<1> SUFFICES ASSUME visited = {}, reports \in [Terms -> Nat] PROVE ReportsCounted
  OBVIOUS
<1>1. ASSUME NEW t \in Terms PROVE reports[t] + 1 >= Cardinality(Come(t))
  <2>1. Come(t) = {edges[t]} \ {NoEdge}
    BY DEF Come
  <2>2. Cardinality(Come(t)) \in Nat /\ Cardinality(Come(t)) <= 1
    BY <2>1, AtMostOne
  <2>3. reports[t] \in Nat
    OBVIOUS
  <2> QED
    BY <2>2, <2>3
<1> QED
  BY <1>1 DEF ReportsCounted

LEMMA ComeFinite ==
    ASSUME IInv, NEW t \in Terms
    PROVE  IsFiniteSet(Come(t)) /\ Cardinality(Come(t)) \in Nat
<1>1. IsFiniteSet(Rules) /\ visited \subseteq Rules
  BY RulesFinite DEF IInv, TypeOK
<1>2. IsFiniteSet({r \in visited : t \in lookahead[r]}) /\ IsFiniteSet({edges[t]} \ {NoEdge})
  <2>1. {r \in visited : t \in lookahead[r]} \subseteq Rules
    BY <1>1
  <2>2. IsFiniteSet({edges[t]}) /\ {edges[t]} \ {NoEdge} \subseteq {edges[t]}
    BY FS_Singleton
  <2> QED
    BY <1>1, <2>1, <2>2, FS_Subset
<1> QED
  BY <1>2, FS_Union, FS_CardinalityType DEF Come

LEMMA CountLastResort ==
    ASSUME IInv, ReportsCounted, NEW r \in Rules, LastResort(r)
    PROVE  ReportsCounted'
<1>1. /\ todo = {}
      /\ edges' = [t \in Terms |->
                      IF t \in lookahead[r] /\ (edges[t] = NoEdge \/ edges[t] > r)
                      THEN r ELSE edges[t]]
      /\ reports' = [t \in Terms |->
                        IF t \in lookahead[r] /\ edges[t] \notin {NoEdge, r}
                        THEN reports[t] + 1 ELSE reports[t]]
      /\ visited' = visited \union {r}
      /\ UNCHANGED <<lookahead, todo>>
  BY DEF LastResort
<1>2. r \in Nat \ {0} /\ reports \in [Terms -> Nat] /\ r # NoEdge
  BY SiteFacts DEF IInv, TypeOK, NoEdge
<1>3. ASSUME NEW t \in Terms, NEW q \in visited', t \in lookahead'[q] PROVE edges'[t] # NoEdge
  BY <1>1, <1>2, <1>3 DEF ReportsCounted
<1>4. ASSUME NEW t \in Terms PROVE reports'[t] + 1 >= Cardinality(Come(t)')
  <2> DEFINE old == Come(t)
             new == Come(t)'
  <2>0. /\ reports[t] \in Nat /\ reports[t] + 1 >= Cardinality(old)
        /\ IsFiniteSet(old) /\ Cardinality(old) \in Nat
    BY <1>2, ComeFinite DEF ReportsCounted
  <2>1. new = {q \in visited \union {r} : t \in lookahead[q]} \union ({edges'[t]} \ {NoEdge})
    BY <1>1 DEF Come
  <2>2. CASE t \notin lookahead[r]
    <3>1. edges'[t] = edges[t] /\ reports'[t] = reports[t]
      BY <1>1, <2>2
    <3>2. new = old
      BY <2>1, <2>2, <3>1 DEF Come
    <3> QED
      BY <2>0, <3>1, <3>2
  <2>3. CASE t \in lookahead[r] /\ edges[t] = NoEdge
    <3>1. edges'[t] = r /\ reports'[t] = reports[t]
      BY <1>1, <2>3
    <3>2. \A q \in visited : t \notin lookahead[q]
      BY <2>3 DEF ReportsCounted
    <3>3. new = {r}
      <4>1. {q \in visited \union {r} : t \in lookahead[q]} = {r}
        BY <2>3, <3>2
      <4>2. {edges'[t]} \ {NoEdge} \subseteq {r}
        BY <3>1
      <4> QED
        BY <2>1, <4>1, <4>2
    <3>4. Cardinality({r}) = 1
      BY FS_Singleton
    <3> HIDE DEF new
    <3>5. reports'[t] + 1 >= Cardinality(new)
      BY <2>0, <3>1, <3>3, <3>4
    <3> QED
      BY <3>5 DEF new
  <2>4. CASE t \in lookahead[r] /\ edges[t] = r
    <3>1. edges'[t] = r /\ reports'[t] = reports[t]
      BY <1>1, <1>2, <2>4
    <3>2. new = old
      BY <1>2, <2>1, <2>4, <3>1 DEF Come
    <3> QED
      BY <2>0, <3>1, <3>2
  <2>5. CASE t \in lookahead[r] /\ edges[t] \notin {NoEdge, r}
    <3>1. reports'[t] = reports[t] + 1 /\ (edges'[t] = r \/ edges'[t] = edges[t])
      BY <1>1, <2>5
    <3>2. new \subseteq old \union {r}
      BY <2>1, <3>1 DEF Come
    <3> HIDE DEF old, new
    <3>3. IsFiniteSet(old \union {r}) /\ Cardinality(old \union {r}) <= Cardinality(old) + 1
          /\ Cardinality(old \union {r}) \in Nat
      BY SMTT(30), <2>0, FS_AddElement, FS_CardinalityType
    <3>4. Cardinality(new) \in Nat /\ Cardinality(new) <= Cardinality(old \union {r})
      BY <3>2, <3>3, FS_Subset, FS_CardinalityType
    <3>5. reports'[t] + 1 >= Cardinality(new)
      BY <2>0, <3>1, <3>3, <3>4
    <3> QED
      BY <3>5 DEF new
  <2> QED
    BY <2>2, <2>3, <2>4, <2>5
<1> QED
  BY <1>1, <1>3, <1>4 DEF ReportsCounted

LEMMA CountInductive == IInv /\ IInv' /\ ReportsCounted /\ [Next]_vars => ReportsCounted'
<1> SUFFICES ASSUME IInv, IInv', ReportsCounted, [Next]_vars PROVE ReportsCounted'
  OBVIOUS
<1>1. CASE todo # {} /\ visited' = visited
  <2>1. visited' = {} /\ reports' \in [Terms -> Nat]
    BY <1>1 DEF ReportsCounted, IInv, TypeOK
  <2>2. (visited = {} /\ reports \in [Terms -> Nat])' => ReportsCounted'
    BY NoneVisited, PTL
  <2> QED
    BY <2>1, <2>2
<1>2. CASE UNCHANGED <<edges, lookahead, todo, visited, reports>>
  BY <1>2 DEF ReportsCounted, Come
<1>3. ASSUME NEW r \in Rules, LastResort(r) PROVE ReportsCounted'
  BY <1>3, CountLastResort
<1>4. FillAdequate => todo # {} /\ visited' = visited
  BY DEF FillAdequate
<1>5. \A r \in Rules : Install(r) \/ Decide(r) \/ Defer(r) => todo # {} /\ visited' = visited
  BY DEF Install, Decide, Defer, Current
<1>6. NoConflicts \/ UNCHANGED vars => UNCHANGED <<edges, lookahead, todo, visited, reports>>
  BY DEF NoConflicts, vars
<1> QED
  BY <1>1, <1>2, <1>3, <1>4, <1>5, <1>6 DEF Next

(* No reduction that loses an entry in the last resort goes unreported.    *)
THEOREM ReportsComplete == Spec => []NoSilentResolution
<1>1. Init => ReportsCounted
  <2> SUFFICES ASSUME Init PROVE ReportsCounted
    OBVIOUS
  <2> QED
    BY NoneVisited DEF Init
<1>2. IInv /\ ReportsCounted => NoSilentResolution
  <2> SUFFICES ASSUME IInv, ReportsCounted, Done, NEW t \in Terms
               PROVE  reports[t] >= Cardinality(Contenders(t)) - 1
    BY DEF NoSilentResolution
  <2>1. Contenders(t) = Come(t)
    BY DEF Contenders, Come, Done
  <2>2. reports[t] \in Nat /\ Cardinality(Come(t)) \in Nat /\ reports[t] + 1 >= Cardinality(Come(t))
    BY ComeFinite DEF ReportsCounted, IInv, TypeOK
  <2> QED
    BY <2>1, <2>2
<1> QED
  BY <1>1, <1>2, InvariantHolds, CountInductive, PTL DEF Spec
=============================================================================
