---------------------------- MODULE ResolveState ----------------------------
(***************************************************************************)
(* LRTable::resolveState (lalr.cc): the edges of one state once the        *)
(* lookaheads of its reductions are known.  The chain of reductions is     *)
(* walked from its head; reductions that cannot be settled by lookahead or *)
(* by precedence go to a set of pointers, which the "last resort" walks in *)
(* the order of the addresses, here any order.                             *)
(***************************************************************************)
EXTENDS Integers, Sequences, FiniteSets

CONSTANTS
    Terms,          \* the terminals, positive symbolIds
    RuleLengths,    \* the reductions a state may have: lengths by ruleId
    MaxPrec         \* the number of precedence levels

ASSUME TermsAssumption == Terms \subseteq Nat \ {0}
ASSUME RuleLengthsAssumption == RuleLengths \subseteq Seq(Nat)
ASSUME MaxPrecAssumption == MaxPrec \in Nat

VARIABLES
    site,       \* the state and the grammar around it, which do not change
    edges,      \* LRState::edges of the terminals: a rule, or one of the next two
    lookahead,  \* LRReduceEdge::lookahead, by rule
    accepts,    \* LRState::accepts
    todo,       \* the part of the chain "edge" has not come to
    conflicts,
    visited,    \* the conflicts the last resort has come to
    reports,    \* the calls of reportConflict(), by terminal
    isAdequate  \* LRState::isAdequate

vars == <<site, edges, lookahead, accepts, todo, conflicts, visited, reports, isAdequate>>

NoEdge == 0
ShiftEdge == -1
Assocs == {"left", "right", "none"}

Rules == DOMAIN site.length

(***************************************************************************)
(* All reductions of a state end the same prefixes, so those of two        *)
(* symbols or more have the same symbol before the last: "before", 0 for a *)
(* nonterminal.  Precedence 0 is none.                                     *)
(***************************************************************************)
Sites ==
    UNION {[length : {l}, lookahead : [DOMAIN l -> SUBSET Terms], shifts : SUBSET Terms,
            before : Terms \union {0}, prec : [Terms -> 0 .. MaxPrec], assoc : Assocs] :
           l \in RuleLengths}

(* The chain: shorter rules first, the later rule first among equals.      *)
InChain(r, s) ==
    site.length[r] < site.length[s] \/ (site.length[r] = site.length[s] /\ r > s)

Current(r) == r \in todo /\ \A s \in todo \ {r} : InChain(r, s)
-----------------------------------------------------------------------------
(* A state with one reduction and no shift of a terminal is adequate       *)
(* unless it shifts a nonterminal.                                         *)
Init ==
    /\ site \in Sites
    /\ edges = [t \in Terms |-> IF t \in site.shifts THEN ShiftEdge ELSE NoEdge]
    /\ lookahead = site.lookahead
    /\ isAdequate \in {FALSE, site.shifts = {} /\ Cardinality(Rules) = 1}
    /\ accepts = site.shifts
    /\ todo = Rules
    /\ conflicts = {}
    /\ visited = {}
    /\ reports = [t \in Terms |-> 0]

(* One reduction and nothing else: it is done on its lookahead, or, if it  *)
(* has none, on everything.                                                *)
FillAdequate ==
    /\ isAdequate
    /\ \E r \in todo :
        edges' = [t \in Terms |->
                     IF t \in lookahead[r] \/ lookahead[r] = {} THEN r ELSE edges[t]]
    /\ todo' = {}
    /\ UNCHANGED <<site, lookahead, accepts, conflicts, visited, reports, isAdequate>>

MutLaterNeighbour(r) ==
    {s \in todo \ {r} :
        lookahead[s] \intersect lookahead[r] # {} /\ \A u \in todo \ {r} : u = s \/ InChain(s, u)}

(* The reductions further down the chain with a common lookahead.          *)
Later(r) == {s \in todo \ {r} : lookahead[s] \intersect lookahead[r] # {}}

(* A shift/reduce conflict precedence can settle: the rule has one, and so *)
(* has every terminal in conflict.                                         *)
HasPrecedence(r) ==
    site.length[r] >= 2 /\ site.before # 0 /\ site.prec[site.before] # 0
PrecedenceDecides(r) ==
    HasPrecedence(r) /\ \A t \in lookahead[r] \intersect accepts : site.prec[t] # 0

PrefersReduce(t) ==
    LET p == site.prec[site.before]
    IN  p > site.prec[t] \/ (p = site.prec[t] /\ site.assoc = "left")
NonAssoc(t) == site.prec[site.before] = site.prec[t] /\ site.assoc = "none"

Install(r) ==
    /\ ~isAdequate /\ Current(r) /\ Later(r) = {}
    /\ lookahead[r] \intersect accepts = {}
    /\ accepts' = accepts \union lookahead[r]
    /\ edges' = [t \in Terms |-> IF t \in lookahead[r] THEN r ELSE edges[t]]
    /\ todo' = todo \ {r}
    /\ UNCHANGED <<site, lookahead, conflicts, visited, reports, isAdequate>>

(* "accepts" is left as it is.                                             *)
Decide(r) ==
    /\ ~isAdequate /\ Current(r) /\ Later(r) = {}
    /\ lookahead[r] \intersect accepts # {} /\ PrecedenceDecides(r)
    /\ edges' = [t \in Terms |->
                    IF t \notin lookahead[r] THEN edges[t]
                    ELSE IF edges[t] = NoEdge \/ PrefersReduce(t) THEN r
                    ELSE IF NonAssoc(t) THEN NoEdge ELSE edges[t]]
    /\ lookahead' = [lookahead EXCEPT ![r] =
                        {t \in @ : edges[t] = NoEdge \/ PrefersReduce(t)}]
    /\ todo' = todo \ {r}
    /\ UNCHANGED <<site, accepts, conflicts, visited, reports, isAdequate>>

Defer(r) ==
    /\ ~isAdequate /\ Current(r)
    /\ \/ Later(r) # {}
       \/ lookahead[r] \intersect accepts # {} /\ ~PrecedenceDecides(r)
    /\ conflicts' = conflicts \union Later(r) \union {r}
    /\ todo' = todo \ {r}
    /\ UNCHANGED <<site, edges, lookahead, accepts, visited, reports, isAdequate>>

NoConflicts ==
    /\ ~isAdequate /\ todo = {} /\ conflicts = {}
    /\ isAdequate' = TRUE
    /\ UNCHANGED <<site, edges, lookahead, accepts, todo, conflicts, visited, reports>>

MutLastResortLatest(r) ==
    /\ todo = {} /\ r \in conflicts \ visited
    /\ edges' = [t \in Terms |->
                    IF t \in lookahead[r] /\ edges[t] # ShiftEdge THEN r ELSE edges[t]]
    /\ reports' = [t \in Terms |->
                      IF t \in lookahead[r] /\ edges[t] \notin {NoEdge, r}
                      THEN reports[t] + 1 ELSE reports[t]]
    /\ visited' = visited \union {r}
    /\ UNCHANGED <<site, lookahead, accepts, todo, conflicts, isAdequate>>

MutReportsReplacements(r) ==
    /\ todo = {} /\ r \in conflicts \ visited
    /\ edges' = [t \in Terms |->
                    IF t \in lookahead[r] /\ (edges[t] = NoEdge \/ edges[t] > r)
                    THEN r ELSE edges[t]]
    /\ reports' = [t \in Terms |->
                      IF t \in lookahead[r] /\ edges[t] > r THEN reports[t] + 1 ELSE reports[t]]
    /\ visited' = visited \union {r}
    /\ UNCHANGED <<site, lookahead, accepts, todo, conflicts, isAdequate>>

(* "Last resort resolution": a free entry is taken, a shift stays, of two  *)
(* reductions the lower ruleId does.                                       *)
LastResort(r) ==
    /\ todo = {} /\ r \in conflicts \ visited
    /\ edges' = [t \in Terms |->
                    IF t \in lookahead[r] /\ (edges[t] = NoEdge \/ edges[t] > r)
                    THEN r ELSE edges[t]]
    /\ reports' = [t \in Terms |->
                      IF t \in lookahead[r] /\ edges[t] \notin {NoEdge, r}
                      THEN reports[t] + 1 ELSE reports[t]]
    /\ visited' = visited \union {r}
    /\ UNCHANGED <<site, lookahead, accepts, todo, conflicts, isAdequate>>

Next ==
    \/ FillAdequate \/ NoConflicts
    \/ \E r \in Rules : Install(r) \/ Decide(r) \/ Defer(r) \/ LastResort(r)

Spec == Init /\ [][Next]_vars

Done == todo = {} /\ visited = conflicts /\ (conflicts = {} => isAdequate)
-----------------------------------------------------------------------------
(* Edges, sets and counters in their ranges; lookaheads only shrink.       *)
TypeOK ==
    /\ site \in Sites
    /\ edges \in [Terms -> Rules \union {NoEdge, ShiftEdge}]
    /\ lookahead \in [Rules -> SUBSET Terms]
    /\ \A r \in Rules : lookahead[r] \subseteq site.lookahead[r]
    /\ accepts \subseteq Terms
    /\ todo \subseteq Rules /\ conflicts \subseteq Rules /\ visited \subseteq conflicts
    /\ reports \in [Terms -> Nat]
    /\ isAdequate \in BOOLEAN

(* assert(state->edges[i] == NULL), lalr.cc:253: a reduction that overlaps *)
(* no later one and not "accepts" finds its entries free, though "accepts" *)
(* misses what was installed by precedence.                                *)
InstallAssertion ==
    \A r \in Rules :
        ~isAdequate /\ Current(r) /\ Later(r) = {} /\ lookahead[r] \intersect accepts = {}
            => \A t \in lookahead[r] : edges[t] = NoEdge

(* An edge the chain loop deletes or overwrites is a shift: a reduction it *)
(* has installed is still in the chain, and "delete state->edges[i]"       *)
(* (lalr.cc:278, 282) would leave the chain with a dead edge.              *)
ChainKeepsReductions ==
    [][todo' # todo => \A t \in Terms : edges[t] \in Rules => edges'[t] = edges[t]]_vars

(***************************************************************************)
(* The table the resolution stands for, without an order among conflicts.  *)
(* A reduction that overlaps none after it in the chain, and whose shift   *)
(* conflicts have precedences, settles them and gives up the terminals it  *)
(* loses.  A shift stands unless such a reduction beats it.  Any other     *)
(* entry goes to the first rule of the grammar that still wants it.        *)
(***************************************************************************)
Overlap(r, s) == r # s /\ site.lookahead[r] \intersect site.lookahead[s] # {}

Settles(r) ==
    /\ \A s \in Rules : Overlap(r, s) => InChain(s, r)
    /\ \A t \in site.lookahead[r] \intersect site.shifts : HasPrecedence(r) /\ site.prec[t] # 0

Wants(r, t) ==
    /\ t \in site.lookahead[r]
    /\ t \in site.shifts /\ Settles(r) => PrefersReduce(t)

ShiftStands(t) ==
    /\ t \in site.shifts
    /\ \A r \in Rules : t \in site.lookahead[r] /\ Settles(r) => ~PrefersReduce(t) /\ ~NonAssoc(t)

Outcome(t) ==
    IF ShiftStands(t) THEN {ShiftEdge}
    ELSE {r \in Rules : Wants(r, t) /\ \A s \in Rules : Wants(s, t) => r <= s}

(* The table does not depend on where the edges were allocated.            *)
TableIsDetermined ==
    (Done /\ \E r \in Rules : site.lookahead[r] # {}) =>
        \A t \in Terms : {edges[t]} \ {NoEdge} = Outcome(t)

(* Of the edges that still compete for an entry in the last resort all but *)
(* one are reported, whatever the order: main() refuses a grammar whose    *)
(* reports are not the expected number (main.cc:208), so none may be lost. *)
Contenders(t) == {r \in conflicts : t \in lookahead[r]} \union ({edges[t]} \ {NoEdge})
NoSilentResolution ==
    Done => \A t \in Terms : reports[t] >= Cardinality(Contenders(t)) - 1

(* assert(states[state]->edges[sym->symbolId]), lalrk.cc:37: an item that  *)
(* shifts a terminal has an edge on it after resolveState().               *)
ShiftItemsHaveEdges == Done => \A t \in site.shifts : edges[t] # NoEdge
=============================================================================
