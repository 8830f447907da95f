--------------------------- MODULE Digraph_proofs ---------------------------
(***************************************************************************)
(* Proofs about Digraph, for any finite set of nodes and any relation on   *)
(* it: the traversal implements the steps of Components.  What Tarjan's    *)
(* algorithm keeps: the stack is cut into one segment for each activation, *)
(* the nodes from its own up to that of the next; its node reaches all of  *)
(* the stack above it and is reached by all of it up to the next; and N,   *)
(* base and the sets of finished neighbours of a segment are accounted for *)
(* in those of its activation, or of the call it has just come back from.  *)
(* The invariant has the set of nodes as a parameter, All: here it is      *)
(* Node, in Lalr the set of nonterminal edges, which the run finds out.    *)
(***************************************************************************)
EXTENDS Digraph, SequenceTheorems, FiniteSetTheorems, FunctionTheorems, TLAPS

Top == Len(stack)
Last == Len(calls)

Depth(i) == calls[i].depth
NodeOf(i) == calls[i].node
Pending(i) == calls[i].todo \union calls[i].waiting

(* The segment of an activation, by positions on the stack.                *)
InSegment(i, p) == p \in Depth(i) .. Top /\ (i < Last => p < Depth(i + 1))

(* The neighbours whose N and sets are in those of y, or about to be.      *)
Seen(y, z) == z \in rel[y] /\ \A i \in 1 .. Last : NodeOf(i) = y => z \notin Pending(i)

Accounts(i) == {NodeOf(i)} \union (IF i = Last THEN calls[i].waiting ELSE {})

Frames(All) == [node : All, depth : Nat \ {0}, todo : SUBSET All, waiting : SUBSET All]

Typed(All) ==
    /\ IsFiniteSet(All)
    /\ rel \in [All -> SUBSET All]
    /\ base \in [All -> SUBSET Elem] /\ read \in [All -> SUBSET Elem]
    /\ N \in [All -> Nat]
    /\ stack \in Seq(All)
    /\ calls \in Seq(Frames(All))

(* N of a node is 0, Infinity or the position of one at or below it.       *)
StackWF(All) ==
    /\ \A p, q \in 1 .. Top : stack[p] = stack[q] => p = q
    /\ \A p \in 1 .. Top : N[stack[p]] \in 1 .. p
    /\ \A x \in All : N[x] = 0 \/ N[x] = Infinity \/ \E p \in 1 .. Top : stack[p] = x

CallsWF ==
    /\ \A i \in 1 .. Last : Depth(i) <= Top /\ stack[Depth(i)] = NodeOf(i)
    /\ \A i, j \in 1 .. Last : i < j => Depth(i) < Depth(j)
    /\ Top > 0 => Last > 0 /\ Depth(1) = 1
    /\ \A i \in 1 .. Last : Pending(i) \subseteq rel[NodeOf(i)]
    /\ \A i \in 1 .. Last : i < Last => calls[i].waiting = {NodeOf(i + 1)}
    /\ \A i \in 1 .. Last : \A y \in calls[i].waiting :
          calls[i].waiting = {y} /\ N[y] # 0 /\ y \notin calls[i].todo

(* What was seen has been visited, before the next activation began.       *)
SeenVisited(All) ==
    /\ \A p \in 1 .. Top : \A z \in All : Seen(stack[p], z) => N[z] # 0
    /\ \A x \in Finished : rel[x] \subseteq Finished
    /\ \A i \in 1 .. Last : \A p, q \in 1 .. Top :
          i < Last /\ InSegment(i, p) /\ Seen(stack[p], stack[q]) => q < Depth(i + 1)

Reaches(x, y) == y \in Abstract!Reach(rel, x)
Sum(x) == Abstract!Total(rel, base, x)

Connected ==
    /\ \A i \in 1 .. Last : \A p \in 1 .. Top :
          (i < Last => p < Depth(i + 1)) => Reaches(stack[p], NodeOf(i))
    /\ \A i \in 1 .. Last : \A p \in Depth(i) .. Top : Reaches(NodeOf(i), stack[p])
    /\ \A p \in 1 .. Top : Reaches(stack[p], stack[N[stack[p]]])

LowAccounted ==
    \A i \in 1 .. Last : \A p, q \in 1 .. Top :
        InSegment(i, p) /\ Seen(stack[p], stack[q]) => \E w \in Accounts(i) : N[w] <= q

SetsSound(All) ==
    /\ \A x \in All : base[x] \subseteq read[x] /\ read[x] \subseteq Sum(x)
    /\ \A x \in Finished : read[x] = Sum(x)

SetsAccounted ==
    \A i \in 1 .. Last : \A p \in 1 .. Top : InSegment(i, p) =>
        /\ \A e \in base[stack[p]] : \E w \in Accounts(i) : e \in read[w]
        /\ \A z \in Finished : Seen(stack[p], z) =>
              \A e \in read[z] : \E w \in Accounts(i) : e \in read[w]

DInv(All) ==
    /\ Typed(All) /\ StackWF(All) /\ CallsWF /\ SeenVisited(All) /\ Connected /\ LowAccounted
    /\ SetsSound(All) /\ SetsAccounted
-----------------------------------------------------------------------------
(* Reach is the reflexive and transitive closure of the relation.          *)
LEMMA ReachSelf ==
    ASSUME NEW All, rel \in [All -> SUBSET All], NEW x \in All
    PROVE  Reaches(x, x)
BY DEF Reaches, Abstract!Reach

LEMMA ReachEdge ==
    ASSUME NEW All, rel \in [All -> SUBSET All], NEW x \in All, NEW y \in rel[x]
    PROVE  Reaches(x, y)
BY DEF Reaches, Abstract!Reach, Abstract!Closed

LEMMA ReachTrans ==
    ASSUME NEW All, rel \in [All -> SUBSET All], NEW x, NEW y, NEW z, Reaches(x, y), Reaches(y, z)
    PROVE  Reaches(x, z)
BY DEF Reaches, Abstract!Reach

LEMMA ReachInClosed ==
    ASSUME NEW All, rel \in [All -> SUBSET All], NEW S \in SUBSET All, Abstract!Closed(rel, S),
           NEW x \in S, NEW y, Reaches(x, y)
    PROVE  y \in S
BY DEF Reaches, Abstract!Reach

LEMMA SumMonotone ==
    ASSUME NEW All, rel \in [All -> SUBSET All], NEW x \in All, NEW y, Reaches(x, y)
    PROVE  Sum(y) \subseteq Sum(x)
<1>1. \A z : Reaches(y, z) => Reaches(x, z)
  BY ReachTrans
<1> QED
  BY <1>1 DEF Sum, Reaches, Abstract!Total

LEMMA BaseInSum ==
    ASSUME NEW All, rel \in [All -> SUBSET All], NEW x \in All
    PROVE  base[x] \subseteq Sum(x)
<1>1. Reaches(x, x)
  BY ReachSelf
<1> QED
  BY <1>1 DEF Sum, Reaches, Abstract!Total

LEMMA ReachKept ==
    ASSUME rel' = rel, base' = base
    PROVE  /\ \A x, y : Reaches(x, y)' <=> Reaches(x, y)
           /\ \A x : Sum(x)' = Sum(x)
<1>1. \A x : Abstract!Reach(rel', x) = Abstract!Reach(rel, x)
  OBVIOUS
<1> QED
  BY <1>1 DEF Reaches, Sum

LEMMA Basics ==
    ASSUME NEW All, Typed(All)
    PROVE  /\ Top \in Nat /\ Last \in Nat /\ Nodes = All /\ Infinity \in Nat
           /\ Infinity = Cardinality(All) + 1 /\ IsFiniteSet(All) /\ Cardinality(All) \in Nat
           /\ \A p \in 1 .. Top : stack[p] \in All
           /\ \A i \in 1 .. Last : /\ calls[i] \in Frames(All) /\ NodeOf(i) \in All /\ Depth(i) \in Nat \ {0}
                                   /\ Pending(i) \subseteq All /\ calls[i].waiting \subseteq All
           /\ \A y, z : Seen(y, z) => z \in rel[y]
<1>1. Nodes = All
  BY DEF Typed, Nodes
<1>2. Infinity \in Nat /\ Infinity = Cardinality(All) + 1 /\ IsFiniteSet(All) /\ Cardinality(All) \in Nat
  BY <1>1, FS_CardinalityType DEF Infinity, Typed
<1>3. Top \in Nat /\ \A p \in 1 .. Top : stack[p] \in All
  BY LenProperties, ElementOfSeq DEF Typed, Top
<1>4. Last \in Nat /\ \A i \in 1 .. Last : calls[i] \in Frames(All)
  BY LenProperties, ElementOfSeq DEF Typed, Last
<1>5. \A i \in 1 .. Last : NodeOf(i) \in All /\ Depth(i) \in Nat \ {0} /\ Pending(i) \subseteq All
                           /\ calls[i].waiting \subseteq All
  BY <1>4 DEF Frames, NodeOf, Depth, Pending
<1> QED
  BY <1>1, <1>2, <1>3, <1>4, <1>5 DEF Seen

(* The stack never holds a node twice, so it is never longer than Node.    *)
LEMMA StackBound ==
    ASSUME NEW All, Typed(All), StackWF(All)
    PROVE  /\ Top <= Cardinality(All)
           /\ \A p \in 1 .. Top : N[stack[p]] # 0 /\ N[stack[p]] # Infinity
           /\ \A x \in All : N[x] = 0 => Top < Cardinality(All)
<1>1. /\ Top \in Nat /\ IsFiniteSet(All) /\ Cardinality(All) \in Nat /\ Infinity = Cardinality(All) + 1
      /\ \A p \in 1 .. Top : stack[p] \in All
  BY Basics
<1> DEFINE f == [p \in 1 .. Top |-> stack[p]]
<1>2. f \in Injection(1 .. Top, All)
  BY <1>1, Fun_IsInj DEF StackWF, Injection, IsInjective
<1>3. Cardinality(1 .. Top) = Top
  BY <1>1, FS_Interval
<1>4. Cardinality(1 .. Top) <= Cardinality(All)
  BY <1>1, <1>2, FS_Injection
<1>5. \A p \in 1 .. Top : N[stack[p]] \in 1 .. p
  BY DEF StackWF
<1>6. ASSUME NEW x \in All, N[x] = 0 PROVE Top < Cardinality(All)
  <2>1. \A p \in 1 .. Top : stack[p] # x
    BY <1>1, <1>5, <1>6
  <2>2. f \in Injection(1 .. Top, All \ {x})
    BY <1>1, <2>1 DEF StackWF, Injection, IsInjective
  <2>3. IsFiniteSet(All \ {x}) /\ Cardinality(All \ {x}) = Cardinality(All) - 1
    BY <1>1, <1>6, FS_RemoveElement
  <2>4. Cardinality(1 .. Top) <= Cardinality(All \ {x})
    BY <2>2, <2>3, FS_Injection
  <2> QED
    BY <1>1, <1>3, <2>3, <2>4
<1>7. \A p \in 1 .. Top : N[stack[p]] # 0 /\ N[stack[p]] # Infinity
  BY <1>1, <1>3, <1>4, <1>5
<1> QED
  BY <1>3, <1>4, <1>6, <1>7

(* An activation and its place on the stack.                               *)
LEMMA CallBasics ==
    ASSUME NEW All, Typed(All), StackWF(All), CallsWF
    PROVE  /\ \A i \in 1 .. Last : Depth(i) \in 1 .. Top
           /\ \A i, j \in 1 .. Last : NodeOf(i) = NodeOf(j) => i = j
           /\ \A i \in 1 .. Last : N[NodeOf(i)] \in 1 .. Depth(i)
           /\ \A i \in 1 .. Last : InSegment(i, Depth(i))
<1>1. /\ Top \in Nat /\ Last \in Nat /\ \A i \in 1 .. Last : Depth(i) \in Nat \ {0} /\ NodeOf(i) \in All
  BY Basics
<1>2. \A i \in 1 .. Last : Depth(i) \in 1 .. Top /\ stack[Depth(i)] = NodeOf(i)
  BY <1>1 DEF CallsWF
<1>3. ASSUME NEW i \in 1 .. Last, NEW j \in 1 .. Last, NodeOf(i) = NodeOf(j) PROVE i = j
  <2>1. Depth(i) = Depth(j)
    BY <1>2, <1>3 DEF StackWF
  <2>2. ~(Depth(i) < Depth(j)) /\ ~(Depth(j) < Depth(i))
    BY <1>1, <2>1
  <2>3. ~(i < j) /\ ~(j < i)
    BY <2>2 DEF CallsWF
  <2> QED
    BY <1>1, <2>3
<1>4. \A i \in 1 .. Last : N[NodeOf(i)] \in 1 .. Depth(i)
  BY <1>2 DEF StackWF
<1>5. ASSUME NEW i \in 1 .. Last PROVE InSegment(i, Depth(i))
  <2>1. i < Last => Depth(i) < Depth(i + 1)
    BY <1>1 DEF CallsWF
  <2> QED
    BY <1>1, <1>2, <2>1 DEF InSegment
<1> QED
  BY <1>2, <1>3, <1>4, <1>5

(* What is seen of a node in an activation and of one in none.             *)
LEMMA SeenOf ==
    ASSUME NEW All, Typed(All), StackWF(All), CallsWF
    PROVE  /\ \A i \in 1 .. Last : \A z : Seen(NodeOf(i), z) <=> z \in rel[NodeOf(i)] \ Pending(i)
           /\ \A y : (\A i \in 1 .. Last : NodeOf(i) # y) => \A z : Seen(y, z) <=> z \in rel[y]
BY CallBasics DEF Seen

LEMMA StartInv ==
    ASSUME NEW All, IsFiniteSet(All), rel \in [All -> SUBSET All],
           base \in [All -> SUBSET Elem], read = base, Clear
    PROVE  DInv(All)
<1>1. /\ N = [x \in All |-> 0] /\ stack = <<>> /\ calls = <<>> /\ Top = 0 /\ Last = 0
  BY DEF Clear, Nodes, Top, Last
<1>2. Typed(All)
  BY <1>1, EmptySeq DEF Typed
<1>3. Finished = {}
  <2>1. Infinity # 0
    BY <1>2, Basics
  <2> QED
    BY <1>1, <1>2, <2>1, Basics DEF Finished
<1>4. StackWF(All) /\ CallsWF /\ SeenVisited(All) /\ Connected /\ LowAccounted /\ SetsAccounted
  BY <1>1, <1>3 DEF StackWF, CallsWF, SeenVisited, Connected, LowAccounted, SetsAccounted
<1>5. SetsSound(All)
  BY <1>3, BaseInSum DEF SetsSound
<1> QED
  BY <1>2, <1>4, <1>5 DEF DInv

(* traverse(x) begins, from the loop of digraph() or from a loop of its    *)
(* own: the last activation has x taken out of what it has to come to and  *)
(* waits for it.                                                           *)
Pushed(All, x) ==
    /\ calls' \in Seq(Frames(All)) /\ Len(calls') = Last + 1 /\ calls'[Last + 1] = Frame(x)
    /\ \A i \in 1 .. Last :
          /\ calls'[i].node = NodeOf(i) /\ calls'[i].depth = Depth(i)
          /\ calls'[i].todo \union calls'[i].waiting = Pending(i)
          /\ i < Last => calls'[i] = calls[i]
    /\ Last > 0 => /\ x \in rel[NodeOf(Last)] /\ calls[Last].waiting = {}
                   /\ calls'[Last].waiting = {x} /\ x \notin calls'[Last].todo

LEMMA PushInv ==
    ASSUME NEW All, DInv(All), NEW x \in All, Enter(x), Pushed(All, x)
    PROVE  DInv(All)' /\ Finished' = Finished
<1>0. PICK k, m : k = Last /\ m = Top
  OBVIOUS
<1>1. /\ Top \in Nat /\ Last \in Nat /\ Infinity \in Nat /\ Infinity = Cardinality(All) + 1 /\ Cardinality(All) \in Nat
      /\ \A p \in 1 .. Top : stack[p] \in All
      /\ \A i \in 1 .. Last : NodeOf(i) \in All /\ Depth(i) \in Nat \ {0} /\ Pending(i) \subseteq All
      /\ \A y, z : Seen(y, z) => z \in rel[y]
      /\ rel \in [All -> SUBSET All] /\ N \in [All -> Nat] /\ stack \in Seq(All)
  BY Basics DEF DInv, Typed
<1>2. /\ Top <= Cardinality(All) /\ Top < Cardinality(All) /\ N[x] = 0 /\ \A p \in 1 .. Top : stack[p] # x
  BY StackBound DEF DInv, Enter
<1>3. /\ rel' = rel /\ base' = base /\ read' = read /\ Infinity' = Infinity
      /\ \A y, z : Reaches(y, z)' <=> Reaches(y, z)
      /\ \A y : Sum(y)' = Sum(y)
  BY ReachKept DEF Enter, Infinity, Nodes
<1>4. /\ stack' \in Seq(All) /\ Top' = Top + 1 /\ stack'[Top + 1] = x /\ \A p \in 1 .. Top : stack'[p] = stack[p]
  BY <1>1, AppendProperties DEF Enter, Top
<1>5. N' = [N EXCEPT ![x] = Top + 1]
  BY DEF Enter, Top
<1>6. /\ N'[x] = Top + 1 /\ \A y \in All : y # x => N'[y] = N[y]
      /\ N' \in [All -> Nat]
  BY <1>1, <1>5
<1>7. Finished' = Finished
  <2>1. Nodes = All /\ Nodes' = All
    BY <1>1, <1>3, Basics DEF DInv, Nodes
  <2>2. N'[x] # Infinity /\ N[x] # Infinity
    BY <1>1, <1>2, <1>6
  <2> QED
    BY <1>3, <1>6, <2>1, <2>2 DEF Finished
<1>8. /\ Last' = Last + 1 /\ k = Last /\ m = Top
      /\ \A i \in 1 .. Last : /\ NodeOf(i)' = NodeOf(i) /\ Depth(i)' = Depth(i) /\ Pending(i)' = Pending(i)
                              /\ i < Last => calls'[i] = calls[i]
      /\ NodeOf(k + 1)' = x /\ Depth(k + 1)' = Top + 1 /\ Pending(k + 1)' = rel[x]
      /\ calls'[k + 1].waiting = {}
  BY <1>0, <1>1 DEF Pushed, Last, NodeOf, Depth, Pending, Frame, Top
<1>9. /\ \A i \in 1 .. Last : Depth(i) \in 1 .. Top /\ NodeOf(i) # x /\ InSegment(i, Depth(i))
      /\ \A i, j \in 1 .. Last : NodeOf(i) = NodeOf(j) => i = j
  <2>1. Typed(All) /\ StackWF(All) /\ CallsWF
    BY DEF DInv
  <2>2. /\ \A i \in 1 .. Last : Depth(i) \in 1 .. Top /\ InSegment(i, Depth(i)) /\ stack[Depth(i)] = NodeOf(i)
        /\ \A i, j \in 1 .. Last : NodeOf(i) = NodeOf(j) => i = j
    BY <2>1, CallBasics DEF CallsWF
  <2> QED
    BY <1>2, <2>2
<1>10. /\ \A i \in 1 .. Last : \A p \in 1 .. Top : InSegment(i, p)' <=> InSegment(i, p)
       /\ \A i \in 1 .. Last : ~InSegment(i, m + 1)'
       /\ \A p \in 1 .. Top : ~InSegment(k + 1, p)'
       /\ InSegment(k + 1, m + 1)'
  <2>1. ASSUME NEW i \in 1 .. Last
        PROVE  /\ \A p \in 1 .. Top : InSegment(i, p)' <=> InSegment(i, p)
               /\ ~InSegment(i, m + 1)'
    <3>1. /\ i < Last' /\ Depth(i)' = Depth(i) /\ Top' = Top + 1 /\ Top \in Nat
          /\ Depth(i) \in 1 .. Top
      BY <1>1, <1>4, <1>8, <1>9
    <3>2. CASE i = Last
      <4>1. Depth(i + 1)' = Top + 1
        BY <1>8, <3>2
      <4> QED
        BY <1>8, <3>1, <3>2, <4>1 DEF InSegment
    <3>3. CASE i < Last
      <4>1. i + 1 \in 1 .. Last
        BY <1>1, <3>3
      <4>2. Depth(i + 1)' = Depth(i + 1) /\ Depth(i + 1) \in 1 .. Top
        BY <1>8, <1>9, <4>1
      <4> QED
        BY <1>8, <3>1, <3>3, <4>2 DEF InSegment
    <3> QED
      BY <1>1, <3>2, <3>3
  <2>2. (\A p \in 1 .. Top : ~InSegment(k + 1, p)') /\ InSegment(k + 1, m + 1)'
    BY <1>1, <1>4, <1>8 DEF InSegment
  <2> QED
    BY <2>1, <2>2
<1>11. /\ \A y : y # x => \A z : Seen(y, z)' <=> Seen(y, z)
       /\ \A z : ~Seen(x, z)'
  <2>1. ASSUME NEW y, y # x, NEW z PROVE Seen(y, z)' <=> Seen(y, z)
    <3>0. \A i \in 1 .. Last' : i \in 1 .. Last \/ i = k + 1
      BY <1>1, <1>8
    <3>1. \A i \in 1 .. Last' : i \in 1 .. Last \/ NodeOf(i)' # y
      BY <1>8, <2>1, <3>0
    <3>2. 1 .. Last \subseteq 1 .. Last'
      BY <1>1, <1>8
    <3> QED
      BY <1>3, <1>8, <3>1, <3>2 DEF Seen
  <2>2. ASSUME NEW z PROVE ~Seen(x, z)'
    BY <1>1, <1>3, <1>8 DEF Seen
  <2> QED
    BY <2>1, <2>2
<1>12. /\ \A i \in 1 .. Last : Accounts(i)' = {NodeOf(i)} /\ Accounts(i) = {NodeOf(i)}
       /\ Accounts(k + 1)' = {x}
  <2>1. ASSUME NEW i \in 1 .. Last PROVE Accounts(i)' = {NodeOf(i)} /\ Accounts(i) = {NodeOf(i)}
    <3>1. i # Last' /\ (i = Last => calls[i].waiting = {})
      BY <1>1, <1>8 DEF Pushed
    <3> QED
      BY <1>8, <3>1 DEF Accounts
  <2> QED
    BY <1>1, <1>8, <2>1 DEF Accounts
<1>13. Typed(All)'
  BY <1>1, <1>3, <1>4, <1>6 DEF DInv, Typed, Pushed
<1>14. StackWF(All)'
  <2>1. ASSUME NEW p \in 1 .. Top', NEW q \in 1 .. Top', stack'[p] = stack'[q] PROVE p = q
    <3>1. (p = Top + 1 \/ p \in 1 .. Top) /\ (q = Top + 1 \/ q \in 1 .. Top)
      BY <1>1, <1>4
    <3> QED
      BY <1>2, <1>4, <2>1, <3>1 DEF DInv, StackWF
  <2>2. ASSUME NEW p \in 1 .. Top' PROVE N'[stack'[p]] \in 1 .. p
    <3>1. p = Top + 1 \/ p \in 1 .. Top
      BY <1>1, <1>4
    <3>2. CASE p = Top + 1
      BY <1>1, <1>4, <1>6, <3>2
    <3>3. CASE p \in 1 .. Top
      BY <1>1, <1>2, <1>4, <1>6, <3>3 DEF DInv, StackWF
    <3> QED
      BY <3>1, <3>2, <3>3
  <2>3. ASSUME NEW y \in All PROVE N'[y] = 0 \/ N'[y] = Infinity' \/ \E p \in 1 .. Top' : stack'[p] = y
    <3>1. CASE y = x
      BY <1>1, <1>4, <3>1
    <3>2. CASE y # x
      <4>1. N'[y] = N[y] /\ 1 .. Top \subseteq 1 .. Top'
        BY <1>1, <1>4, <1>6, <3>2
      <4> QED
        BY <1>3, <1>4, <4>1 DEF DInv, StackWF
    <3> QED
      BY <3>1, <3>2
  <2> QED
    BY <2>1, <2>2, <2>3 DEF StackWF
<1>15. CallsWF'
  <2>0. \A i \in 1 .. Last' : i = Last + 1 \/ i \in 1 .. Last
    BY <1>1, <1>8
  <2>1. ASSUME NEW i \in 1 .. Last' PROVE Depth(i)' <= Top' /\ stack'[Depth(i)'] = NodeOf(i)'
    <3>1. CASE i = Last + 1
      BY <1>1, <1>4, <1>8, <3>1
    <3>2. CASE i \in 1 .. Last
      <4>1. Depth(i) \in 1 .. Top /\ stack[Depth(i)] = NodeOf(i)
        BY <1>9, <3>2 DEF DInv, CallsWF
      <4>2. Depth(i)' = Depth(i) /\ NodeOf(i)' = NodeOf(i)
        BY <1>8, <3>2
      <4>3. Depth(i) <= Top' /\ stack'[Depth(i)] = stack[Depth(i)]
        BY <1>1, <1>4, <4>1
      <4> QED
        BY <4>1, <4>2, <4>3
    <3> QED
      BY <2>0, <3>1, <3>2
  <2>2. ASSUME NEW i \in 1 .. Last', NEW j \in 1 .. Last', i < j PROVE Depth(i)' < Depth(j)'
    <3>1. i \in 1 .. Last /\ Depth(i)' = Depth(i) /\ Depth(i) \in 1 .. Top
      <4>1. i \in 1 .. Last
        BY <1>1, <1>8, <2>2
      <4> QED
        BY <1>8, <1>9, <4>1
    <3>2. CASE j = Last + 1
      BY <1>1, <1>8, <3>1, <3>2
    <3>3. CASE j \in 1 .. Last
      BY <1>8, <2>2, <3>1, <3>3 DEF DInv, CallsWF
    <3> QED
      BY <2>0, <3>2, <3>3
  <2>3. Last' > 0 /\ Depth(1)' = 1
    <3>1. CASE Last = 0
      BY <1>1, <1>8, <3>1 DEF DInv, CallsWF
    <3>2. CASE Last > 0
      <4>1. 1 \in 1 .. Last /\ Top > 0
        BY <1>1, <1>9, <3>2
      <4> QED
        BY <1>1, <1>8, <4>1 DEF DInv, CallsWF
    <3> QED
      BY <1>1, <3>1, <3>2
  <2>4. ASSUME NEW i \in 1 .. Last' PROVE Pending(i)' \subseteq rel'[NodeOf(i)']
    BY <1>3, <1>8, <2>0 DEF DInv, CallsWF
  <2>5. ASSUME NEW i \in 1 .. Last', i < Last' PROVE calls'[i].waiting = {NodeOf(i + 1)'}
    <3>1. CASE i = Last
      BY <1>1, <1>8, <2>5, <3>1 DEF Pushed
    <3>2. CASE i < Last
      <4>0. i \in 1 .. Last /\ i + 1 \in 1 .. Last
        BY <1>1, <1>8, <3>2
      <4>1. i \in 1 .. Last /\ i + 1 \in 1 .. Last /\ calls'[i] = calls[i]
        BY <1>8, <3>2, <4>0
      <4> QED
        BY <1>8, <3>2, <4>1 DEF DInv, CallsWF
    <3> QED
      BY <1>1, <1>8, <2>5, <3>1, <3>2
  <2>6. ASSUME NEW i \in 1 .. Last', NEW y \in calls'[i].waiting
        PROVE  calls'[i].waiting = {y} /\ N'[y] # 0 /\ y \notin calls'[i].todo
    <3>1. CASE i = Last + 1
      BY <1>8, <2>6, <3>1
    <3>2. CASE i = Last
      <4>1. Last > 0 /\ y = x
        BY <1>1, <2>6, <3>2 DEF Pushed
      <4> QED
        BY <1>1, <1>6, <3>2, <4>1 DEF Pushed
    <3>3. CASE i \in 1 .. Last /\ i < Last
      <4>1. calls'[i] = calls[i] /\ y \in All
        BY <1>1, <1>8, <2>6, <3>3 DEF Pending
      <4>2. N[y] # 0 /\ calls[i].waiting = {y} /\ y \notin calls[i].todo
        BY <2>6, <3>3, <4>1 DEF DInv, CallsWF
      <4> QED
        BY <1>2, <1>6, <4>1, <4>2
    <3> QED
      BY <1>1, <2>0, <2>6, <3>1, <3>2, <3>3
  <2> QED
    BY <2>1, <2>2, <2>3, <2>4, <2>5, <2>6 DEF CallsWF
<1>16. SeenVisited(All)'
  <2>0. \A p \in 1 .. Top' : p = Top + 1 \/ p \in 1 .. Top
    BY <1>1, <1>4
  <2>1. ASSUME NEW p \in 1 .. Top', NEW z \in All, Seen(stack[p], z)' PROVE N'[z] # 0
    <3>1. p \in 1 .. Top /\ Seen(stack[p], z)
      BY <1>2, <1>4, <1>11, <2>0, <2>1
    <3>2. N[z] # 0
      BY <3>1 DEF DInv, SeenVisited
    <3> QED
      BY <1>2, <1>6, <3>2
  <2>2. \A y \in Finished' : rel'[y] \subseteq Finished'
    BY <1>3, <1>7 DEF DInv, SeenVisited
  <2>3. ASSUME NEW i \in 1 .. Last', NEW p \in 1 .. Top', NEW q \in 1 .. Top',
               i < Last', InSegment(i, p)', Seen(stack[p], stack[q])'
        PROVE  q < Depth(i + 1)'
    <3>0. i \in 1 .. Last
      BY <1>1, <1>8, <2>3
    <3>00. p \in 1 .. Top
      BY <1>8, <1>10, <2>0, <2>3, <3>0
    <3>1. i \in 1 .. Last /\ p \in 1 .. Top /\ InSegment(i, p) /\ Seen(stack[p], stack'[q])
      BY <1>2, <1>4, <1>10, <1>11, <2>3, <3>0, <3>00
    <3>2. q \in 1 .. Top
      <4>1. N[x] = 0 /\ (Seen(stack[p], x) => N[x] # 0)
        BY <1>2, <3>1 DEF DInv, SeenVisited
      <4> QED
        BY <1>4, <2>0, <3>1, <4>1
    <3>3. CASE i = Last
      BY <1>1, <1>8, <3>2, <3>3
    <3>4. CASE i < Last
      <4>0. i + 1 \in 1 .. Last /\ stack'[q] = stack[q]
        <5>1. i + 1 \in 1 .. Last
          <6>1. Last \in Nat
            BY <1>1
          <6> QED
            BY ONLY <3>1, <3>4, <6>1
        <5> QED
          BY <1>4, <3>2, <5>1
      <4>1. q < Depth(i + 1) /\ i + 1 \in 1 .. Last
        BY <3>1, <3>2, <3>4, <4>0 DEF DInv, SeenVisited
      <4> QED
        BY <1>8, <4>1
    <3> QED
      BY <1>1, <3>1, <3>3, <3>4
  <2> QED
    BY <2>1, <2>2, <2>3 DEF SeenVisited
<1>17. Connected'
  <2>0. \A p \in 1 .. Top' : p = Top + 1 \/ p \in 1 .. Top
    BY <1>1, <1>4
  <2>00. \A i \in 1 .. Last' : i = Last + 1 \/ i \in 1 .. Last
    BY <1>1, <1>8
  <2>1. Reaches(x, x)
    BY <1>1, ReachSelf
  <2>2. ASSUME NEW i \in 1 .. Last', NEW p \in 1 .. Top', i < Last' => p < Depth(i + 1)'
        PROVE  Reaches(stack'[p], NodeOf(i)')
    <3>1. CASE i = Last + 1
      <4>1. CASE p = Top + 1
        BY <1>4, <1>8, <2>1, <3>1, <4>1
      <4>2. CASE p \in 1 .. Top
        <5>1. Last > 0 /\ Last \in 1 .. Last
          BY <1>1, <4>2 DEF DInv, CallsWF
        <5>2. Reaches(stack[p], NodeOf(Last))
          BY <4>2, <5>1 DEF DInv, Connected
        <5>3. Reaches(NodeOf(Last), x)
          BY <1>1, <5>1, ReachEdge DEF Pushed
        <5> QED
          BY <1>1, <1>4, <1>8, <3>1, <4>2, <5>2, <5>3, ReachTrans
      <4> QED
        BY <2>0, <4>1, <4>2
    <3>2. CASE i \in 1 .. Last
      <4>1. p < Depth(i + 1)' /\ p \in Nat
        BY <1>1, <1>8, <2>2, <3>2
      <4>2. p \in 1 .. Top /\ (i < Last => p < Depth(i + 1))
        <5>1. CASE i = Last
          BY <1>1, <1>4, <1>8, <2>0, <4>1, <5>1
        <5>2. CASE i < Last
          <6>1. i + 1 \in 1 .. Last
            BY <1>1, <3>2, <5>2
          <6>2. Depth(i + 1)' = Depth(i + 1) /\ Depth(i + 1) \in 1 .. Top
            BY <1>8, <1>9, <6>1
          <6> QED
            BY <1>1, <2>0, <4>1, <6>2
        <5> QED
          BY <1>1, <3>2, <5>1, <5>2
      <4> QED
        BY <1>4, <1>8, <3>2, <4>2 DEF DInv, Connected
    <3> QED
      BY <2>00, <3>1, <3>2
  <2>3. ASSUME NEW i \in 1 .. Last', NEW p \in Depth(i)' .. Top'
        PROVE  Reaches(NodeOf(i)', stack'[p])
    <3>1. CASE i = Last + 1
      <4>1. p = Top + 1
        BY <1>1, <1>4, <1>8, <2>3, <3>1
      <4> QED
        BY <1>4, <1>8, <2>1, <3>1, <4>1
    <3>2. CASE i \in 1 .. Last
      <4>1. \A q \in Depth(i) .. Top : Reaches(NodeOf(i), stack[q])
        BY <3>2 DEF DInv, Connected
      <4>2. CASE p \in Depth(i) .. Top
        <5>1. p \in 1 .. Top
          BY <1>1, <1>9, <3>2, <4>2
        <5> QED
          BY <1>4, <1>8, <3>2, <4>1, <4>2, <5>1
      <4>3. CASE p = Top + 1
        <5>1. Last > 0 /\ Last \in 1 .. Last /\ Depth(Last) \in Depth(i) .. Top
          <6>1. Last > 0 /\ Last \in 1 .. Last
            BY <1>1, <3>2
          <6>2. i = Last \/ Depth(i) < Depth(Last)
            BY <1>1, <3>2, <6>1 DEF DInv, CallsWF
          <6> QED
            BY <1>1, <1>9, <3>2, <6>1, <6>2
        <5>2. stack[Depth(Last)] = NodeOf(Last)
          BY <5>1 DEF DInv, CallsWF
        <5>3. Reaches(NodeOf(i), NodeOf(Last))
          BY <4>1, <5>1, <5>2
        <5>4. Reaches(NodeOf(Last), x)
          BY <1>1, <5>1, ReachEdge DEF Pushed
        <5> QED
          BY <1>1, <1>4, <1>8, <3>2, <4>3, <5>3, <5>4, ReachTrans
      <4> QED
        BY <1>1, <1>4, <1>8, <3>2, <4>2, <4>3
    <3> QED
      BY <2>00, <3>1, <3>2
  <2>4. ASSUME NEW p \in 1 .. Top' PROVE Reaches(stack'[p], stack'[N'[stack'[p]]])
    <3>1. CASE p = Top + 1
      BY <1>4, <1>6, <2>1, <3>1
    <3>2. CASE p \in 1 .. Top
      <4>1. N'[stack'[p]] = N[stack[p]] /\ N[stack[p]] \in 1 .. Top
        BY SMTT(30), <1>1, <1>2, <1>4, <1>6, <3>2 DEF DInv, StackWF
      <4>2. Reaches(stack[p], stack[N[stack[p]]])
        BY <3>2 DEF DInv, Connected
      <4> QED
        BY <1>4, <3>2, <4>1, <4>2
    <3> QED
      BY <2>0, <3>1, <3>2
  <2> QED
    BY <1>3, <2>2, <2>3, <2>4 DEF Connected
<1>18. LowAccounted'
  <2> SUFFICES ASSUME NEW i \in 1 .. Last', NEW p \in 1 .. Top', NEW q \in 1 .. Top',
                      InSegment(i, p)', Seen(stack[p], stack[q])'
               PROVE  \E w \in Accounts(i)' : N'[w] <= q
    BY DEF LowAccounted
  <2>1. (p = Top + 1 \/ p \in 1 .. Top) /\ (q = Top + 1 \/ q \in 1 .. Top) /\ (i = Last + 1 \/ i \in 1 .. Last)
    BY <1>1, <1>4, <1>8
  <2>2. p \in 1 .. Top /\ Seen(stack[p], stack'[q])
    BY <1>2, <1>4, <1>11, <2>1
  <2>3. i \in 1 .. Last /\ InSegment(i, p)
    BY <1>8, <1>10, <2>1, <2>2
  <2>4. q \in 1 .. Top /\ stack'[q] = stack[q]
    <3>1. N[x] = 0 /\ (Seen(stack[p], x) => N[x] # 0)
      BY <1>2, <2>2 DEF DInv, SeenVisited
    <3> QED
      BY <1>4, <2>1, <2>2, <3>1
  <2>5. N[NodeOf(i)] <= q
    BY <1>8, <1>12, <2>2, <2>3, <2>4 DEF DInv, LowAccounted
  <2> QED
    BY <1>8, <1>1, <1>6, <1>9, <1>12, <2>3, <2>5
<1>19. SetsSound(All)'
  BY <1>3, <1>7 DEF DInv, SetsSound
<1>20. SetsAccounted'
  <2> SUFFICES ASSUME NEW i \in 1 .. Last', NEW p \in 1 .. Top', InSegment(i, p)'
               PROVE  /\ \A e \in base[stack'[p]] : \E w \in Accounts(i)' : e \in read[w]
                      /\ \A z \in Finished : Seen(stack[p], z)' =>
                            \A e \in read[z] : \E w \in Accounts(i)' : e \in read[w]
    BY <1>3, <1>7 DEF SetsAccounted
  <2>1. (p = Top + 1 \/ p \in 1 .. Top) /\ (i = Last + 1 \/ i \in 1 .. Last)
    BY <1>1, <1>4, <1>8
  <2>2. CASE p = Top + 1
    <3>1. i = Last + 1 /\ stack'[p] = x
      BY <1>8, <1>4, <1>10, <2>1, <2>2
    <3>2. base[x] \subseteq read[x]
      BY DEF DInv, SetsSound
    <3> QED
      BY <1>8, <1>11, <1>12, <3>1, <3>2
  <2>3. CASE p \in 1 .. Top
    <3>1. i \in 1 .. Last /\ InSegment(i, p) /\ stack'[p] = stack[p] /\ stack[p] # x
      BY <1>8, <1>2, <1>4, <1>10, <2>1, <2>3
    <3>2. Accounts(i)' = Accounts(i)
      BY <1>8, <1>12, <3>1
    <3>3. \A z : Seen(stack[p], z)' <=> Seen(stack[p], z)
      BY <1>11, <3>1
    <3> QED
      BY <2>3, <3>1, <3>2, <3>3 DEF DInv, SetsAccounted
  <2> QED
    BY <2>1, <2>2, <2>3
<1> QED
  BY <1>7, <1>13, <1>14, <1>15, <1>16, <1>17, <1>18, <1>19, <1>20 DEF DInv

LEMMA FrameType == ASSUME NEW All, Typed(All), NEW x \in All PROVE Frame(x) \in Frames(All)
<1>1. Top \in Nat /\ rel[x] \in SUBSET All
  BY Basics DEF Typed
<1> QED
  BY <1>1 DEF Frame, Frames, Top

LEMMA StartPushes == ASSUME NEW All, DInv(All), NEW x \in Nodes, StartAt(x) PROVE x \in All /\ Enter(x) /\ Pushed(All, x)
<1>1. x \in All /\ Frame(x) \in Frames(All)
  BY Basics, FrameType DEF DInv
<1>2. Last = 0 /\ calls' = <<Frame(x)>> /\ Enter(x)
  BY DEF StartAt, Last
<1>3. calls' \in Seq(Frames(All)) /\ Len(calls') = 1 /\ calls'[1] = Frame(x)
  BY <1>1, <1>2
<1> QED
  BY <1>1, <1>2, <1>3 DEF Pushed

(* The last activation after its loop has gone on by one step.             *)
LEMMA OuterProperties ==
    ASSUME NEW All, Typed(All), calls # <<>>
    PROVE  /\ Last \in Nat \ {0} /\ LastCall = calls[Last] /\ LastCall \in Frames(All)
           /\ Outer \in Seq(Frames(All)) /\ Len(Outer) = Last - 1
           /\ \A i \in 1 .. Last - 1 : Outer[i] = calls[i]
           /\ \A f \in Frames(All) : /\ Append(Outer, f) \in Seq(Frames(All)) /\ Len(Append(Outer, f)) = Last
                                /\ Append(Outer, f)[Last] = f
                                /\ \A i \in 1 .. Last - 1 : Append(Outer, f)[i] = calls[i]
<1>1. Last \in Nat \ {0} /\ \A i \in 1 .. Last : calls[i] \in Frames(All)
  BY Basics, EmptySeq DEF Typed, Last
<1>2. LastCall = calls[Last] /\ LastCall \in Frames(All)
  BY <1>1 DEF LastCall, Last
<1>3. /\ Outer \in Seq(Frames(All)) /\ Len(Outer) = Last - 1
      /\ \A i \in 1 .. Last - 1 : Outer[i] = calls[i]
  <2>1. Outer = SubSeq(calls, 1, Last - 1)
    BY DEF Outer, Last
  <2>2. 1 \in Int /\ Last - 1 \in Int /\ \A i \in 1 .. Last - 1 : calls[i] \in Frames(All)
    BY <1>1
  <2>3. /\ Outer \in Seq(Frames(All)) /\ Len(Outer) = IF 1 <= Last - 1 THEN Last - 1 - 1 + 1 ELSE 0
        /\ \A i \in 1 .. Last - 1 - 1 + 1 : Outer[i] = calls[1 + i - 1]
    BY <2>1, <2>2, SubSeqProperties
  <2> QED
    BY <1>1, <2>3
<1>4. ASSUME NEW f \in Frames(All)
      PROVE  /\ Append(Outer, f) \in Seq(Frames(All)) /\ Len(Append(Outer, f)) = Last
             /\ Append(Outer, f)[Last] = f
             /\ \A i \in 1 .. Last - 1 : Append(Outer, f)[i] = calls[i]
  BY <1>1, <1>3, AppendProperties
<1> QED
  BY <1>1, <1>2, <1>3, <1>4

LEMMA DescendPushes == ASSUME NEW All, DInv(All), Descend PROVE \E y \in All : Enter(y) /\ Pushed(All, y)
<1> DEFINE went(y) == [LastCall EXCEPT !.todo = @ \ {y}, !.waiting = {y}]
<1>1. PICK y \in LastCall.todo : Enter(y) /\ calls' = Append(Append(Outer, went(y)), Frame(y))
  BY DEF Descend
<1>2. calls # <<>> /\ LastCall.waiting = {} /\ Typed(All) /\ CallsWF
  BY DEF Descend, DInv
<1>3. /\ Last \in Nat \ {0} /\ LastCall = calls[Last] /\ LastCall \in Frames(All) /\ y \in All
  BY <1>2, OuterProperties DEF Frames
<1>4. Frame(y) \in Frames(All)
  BY <1>2, <1>3, FrameType
<1>5. /\ went(y) \in Frames(All) /\ went(y).node = LastCall.node /\ went(y).depth = LastCall.depth
      /\ went(y).todo = LastCall.todo \ {y} /\ went(y).waiting = {y}
  BY <1>3 DEF Frames
<1> HIDE DEF went
<1>6. /\ calls' \in Seq(Frames(All)) /\ Len(calls') = Last + 1 /\ calls'[Last + 1] = Frame(y)
      /\ calls'[Last] = went(y) /\ \A i \in 1 .. Last - 1 : calls'[i] = calls[i]
  <2> DEFINE c == Append(Outer, went(y))
  <2>1. /\ c \in Seq(Frames(All)) /\ Len(c) = Last /\ c[Last] = went(y)
        /\ \A i \in 1 .. Last - 1 : c[i] = calls[i]
    BY <1>2, <1>5, OuterProperties
  <2>2. calls' = Append(c, Frame(y))
    BY <1>1
  <2> HIDE DEF c
  <2>3. /\ calls' \in Seq(Frames(All)) /\ Len(calls') = Last + 1 /\ calls'[Last + 1] = Frame(y)
        /\ \A i \in 1 .. Last : calls'[i] = c[i]
    BY <1>4, <2>1, <2>2, AppendProperties
  <2> QED
    BY <1>3, <2>1, <2>3
<1>7. y \in rel[NodeOf(Last)] /\ calls[Last].waiting = {}
  <2>1. y \in Pending(Last)
    BY <1>1, <1>3 DEF Pending
  <2> QED
    BY <1>2, <1>3, <2>1 DEF CallsWF
<1>8. ASSUME NEW i \in 1 .. Last
      PROVE  /\ calls'[i].node = NodeOf(i) /\ calls'[i].depth = Depth(i)
             /\ calls'[i].todo \union calls'[i].waiting = Pending(i)
             /\ i < Last => calls'[i] = calls[i]
  <2>1. CASE i = Last
    <3>1. y \in calls[Last].todo
      BY <1>1, <1>3
    <3> QED
      BY <1>2, <1>3, <1>5, <1>6, <2>1, <3>1 DEF NodeOf, Depth, Pending
  <2>2. CASE i < Last
    <3>1. calls'[i] = calls[i]
      BY <1>3, <1>6, <2>2
    <3> QED
      BY <2>2, <3>1 DEF NodeOf, Depth, Pending
  <2> QED
    BY <1>3, <2>1, <2>2
<1>9. Pushed(All, y)
  BY <1>3, <1>5, <1>6, <1>7, <1>8 DEF Pushed
<1> QED
  BY <1>1, <1>3, <1>9

LEMMA OuterSegments ==
    ASSUME NEW All, Typed(All), StackWF(All), CallsWF, NEW i \in 1 .. Last, i < Last
    PROVE  /\ Depth(i + 1) <= Depth(Last) /\ NodeOf(i) # NodeOf(Last)
           /\ \A p \in 1 .. Top : InSegment(i, p) => p < Depth(Last) /\ stack[p] # NodeOf(Last)
<1>1. /\ Top \in Nat /\ Last \in Nat /\ i + 1 \in 1 .. Last /\ Last \in 1 .. Last
      /\ \A j \in 1 .. Last : Depth(j) \in 1 .. Top /\ stack[Depth(j)] = NodeOf(j)
  <2>1. Top \in Nat /\ Last \in Nat
    BY Basics
  <2>2. \A j \in 1 .. Last : Depth(j) \in 1 .. Top /\ stack[Depth(j)] = NodeOf(j)
    BY CallBasics DEF CallsWF
  <2> QED
    BY <2>1, <2>2
<1>2. Depth(i + 1) <= Depth(Last)
  <2>1. i + 1 = Last \/ Depth(i + 1) < Depth(Last)
    BY <1>1 DEF CallsWF
  <2> QED
    BY <1>1, <2>1
<1>3. NodeOf(i) # NodeOf(Last)
  BY <1>1, CallBasics
<1>4. ASSUME NEW p \in 1 .. Top, InSegment(i, p) PROVE p < Depth(Last) /\ stack[p] # NodeOf(Last)
  <2>1. p < Depth(Last)
    BY <1>1, <1>2, <1>4 DEF InSegment
  <2> QED
    BY <1>1, <2>1 DEF StackWF
<1> QED
  BY <1>2, <1>3, <1>4

LEMMA MergeInv ==
    ASSUME NEW All, DInv(All), Merge
    PROVE  DInv(All)' /\ Finished' = Finished /\ \A z \in Finished : read'[z] = read[z]
<1> DEFINE x == LastCall.node
<1>0. PICK y \in Nodes :
        /\ Neighbour(y) /\ Absorb(LastCall.node, y)
        /\ calls' = Append(Outer, [LastCall EXCEPT !.todo = @ \ {y}, !.waiting = {}])
  BY DEF Merge
<1>1. /\ Top \in Nat /\ Last \in Nat \ {0} /\ Last \in 1 .. Last /\ Infinity \in Nat /\ Nodes = All
      /\ \A p \in 1 .. Top : stack[p] \in All
      /\ \A i \in 1 .. Last : NodeOf(i) \in All /\ Depth(i) \in Nat \ {0} /\ Pending(i) \subseteq All
      /\ \A u, z : Seen(u, z) => z \in rel[u]
      /\ rel \in [All -> SUBSET All] /\ N \in [All -> Nat] /\ stack \in Seq(All)
      /\ read \in [All -> SUBSET Elem]
  <2>1. Last \in Nat \ {0}
    BY OuterProperties DEF DInv, Merge
  <2> QED
    BY <2>1, Basics DEF DInv, Typed
<1>2. Typed(All) /\ StackWF(All) /\ CallsWF /\ LastCall = calls[Last] /\ LastCall \in Frames(All) /\ x = NodeOf(Last) /\ x \in All
  BY <1>1, OuterProperties DEF DInv, Merge, Frames, NodeOf
<1> HIDE DEF x
<1>3. /\ y \in All /\ y \in Pending(Last) /\ N[y] # 0 /\ y \in rel[x]
      /\ calls[Last].waiting \subseteq {y} /\ (calls[Last].waiting = {} \/ y \notin calls[Last].todo)
  <2>1. /\ y \in Pending(Last) /\ N[y] # 0
        /\ calls[Last].waiting \subseteq {y} /\ (calls[Last].waiting = {} \/ y \notin calls[Last].todo)
    <3>1. CASE LastCall.waiting = {}
      BY <1>0, <1>2, <3>1 DEF Neighbour, Pending
    <3>2. CASE LastCall.waiting # {}
      <4>1. y \in calls[Last].waiting
        BY <1>0, <1>2, <3>2 DEF Neighbour
      <4> QED
        BY <1>1, <1>2, <4>1 DEF CallsWF, Pending
    <3> QED
      BY <3>1, <3>2
  <2> QED
    BY <1>0, <1>1, <1>2, <2>1 DEF CallsWF
<1>4. /\ rel' = rel /\ base' = base /\ stack' = stack /\ Top' = Top /\ Infinity' = Infinity
      /\ \A u, z : Reaches(u, z)' <=> Reaches(u, z)
      /\ \A u : Sum(u)' = Sum(u)
  BY ReachKept DEF Merge, Top, Infinity, Nodes
<1>5. /\ N' = [N EXCEPT ![x] = MinOf(N[x], N[y])]
      /\ read' = [read EXCEPT ![x] = read[x] \union read[y]]
  BY <1>0, <1>1, <1>2 DEF Absorb, x
<1>6. /\ N'[x] <= N[x] /\ N'[x] <= N[y] /\ N'[x] \in {N[x], N[y]} /\ N'[x] # 0 /\ N'[x] \in Nat
      /\ \A u \in All : u # x => N'[u] = N[u]
      /\ N' \in [All -> Nat]
      /\ N[x] \in Nat /\ N[x] <= Depth(Last)
  <2>1. N[x] \in 1 .. Depth(Last) /\ N[y] \in Nat \ {0}
    BY <1>1, <1>2, <1>3, CallBasics
  <2> QED
    BY <1>1, <1>2, <1>3, <1>5, <2>1 DEF MinOf
<1>7. /\ read' \in [All -> SUBSET Elem] /\ read'[x] = read[x] \union read[y]
      /\ \A u \in All : u # x => read'[u] = read[u]
  BY <1>1, <1>2, <1>3, <1>5
<1>8. /\ calls' \in Seq(Frames(All)) /\ Last' = Last
      /\ \A i \in 1 .. Last : NodeOf(i)' = NodeOf(i) /\ Depth(i)' = Depth(i) /\ (i < Last => calls'[i] = calls[i] /\ Pending(i)' = Pending(i))
      /\ \A i \in 1 .. Last : i = Last => calls'[i].waiting = {} /\ Pending(i)' = Pending(i) \ {y}
  <2> DEFINE f == [LastCall EXCEPT !.todo = @ \ {y}, !.waiting = {}]
  <2>1. /\ f \in Frames(All) /\ f.node = LastCall.node /\ f.depth = LastCall.depth
        /\ f.todo = LastCall.todo \ {y} /\ f.waiting = {}
    BY <1>2 DEF Frames
  <2>2. calls' = Append(Outer, f)
    BY <1>0
  <2> HIDE DEF f
  <2>3. /\ calls' \in Seq(Frames(All)) /\ Len(calls') = Last /\ calls'[Last] = f
        /\ \A i \in 1 .. Last - 1 : calls'[i] = calls[i]
    BY <1>2, <2>1, <2>2, OuterProperties DEF Merge
  <2>4. Last' = Last
    BY <2>3 DEF Last
  <2>5. ASSUME NEW i \in 1 .. Last
        PROVE  /\ NodeOf(i)' = NodeOf(i) /\ Depth(i)' = Depth(i)
               /\ i < Last => calls'[i] = calls[i] /\ Pending(i)' = Pending(i)
               /\ i = Last => calls'[i].waiting = {} /\ Pending(i)' = Pending(i) \ {y}
    <3>1. CASE i = Last
      <4>1. Pending(i)' = Pending(i) \ {y}
        BY <1>2, <1>3, <2>1, <2>3, <3>1 DEF Pending
      <4> QED
        BY <1>1, <1>2, <2>1, <2>3, <3>1, <4>1 DEF NodeOf, Depth
    <3>2. CASE i < Last
      <4>1. i \in 1 .. Last - 1
        BY <1>1, <3>2
      <4>2. calls'[i] = calls[i]
        BY <2>3, <4>1
      <4> QED
        BY <3>2, <4>2 DEF NodeOf, Depth, Pending
    <3> QED
      BY <1>1, <3>1, <3>2
  <2> QED
    BY <2>3, <2>4, <2>5
<1>9. x \notin Finished /\ Finished' = Finished
  <2>1. x = stack[Depth(Last)] /\ Depth(Last) \in 1 .. Top
    BY <1>1, <1>2, CallBasics DEF CallsWF
  <2>2. N[x] # Infinity /\ N[x] < Infinity
    <3>1. N[x] <= Top /\ Top <= Cardinality(All) /\ Cardinality(All) \in Nat /\ Infinity = Cardinality(All) + 1
      BY <1>1, <1>2, <1>6, <2>1, StackBound, Basics
    <3> QED
      BY <1>1, <1>6, <3>1
  <2>3. N'[x] # Infinity
    BY <1>1, <1>6, <2>2
  <2> QED
    BY <1>1, <1>2, <1>4, <1>6, <2>2, <2>3 DEF Finished, Nodes
<1>10. \A i \in 1 .. Last : \A p : InSegment(i, p)' <=> InSegment(i, p)
  <2> SUFFICES ASSUME NEW i \in 1 .. Last, NEW p PROVE InSegment(i, p)' <=> InSegment(i, p)
    OBVIOUS
  <2>1. CASE i = Last
    BY <1>1, <1>4, <1>8, <2>1 DEF InSegment
  <2>2. CASE i < Last
    <3>1. i + 1 \in 1 .. Last
      BY <1>1, <2>2
    <3> QED
      BY <1>4, <1>8, <2>2, <3>1 DEF InSegment
  <2> QED
    BY <1>1, <2>1, <2>2
<1>11. \A u, z : Seen(u, z)' <=> Seen(u, z) \/ (u = x /\ z = y)
  <2> SUFFICES ASSUME NEW u, NEW z PROVE Seen(u, z)' <=> Seen(u, z) \/ (u = x /\ z = y)
    OBVIOUS
  <2>1. \A i \in 1 .. Last : NodeOf(i) = x => i = Last
    BY <1>1, <1>2, CallBasics
  <2>2. CASE u # x
    <3>1. \A i \in 1 .. Last : NodeOf(i) = u => i < Last
      BY <1>1, <1>2, <2>2
    <3> QED
      BY <1>4, <1>8, <2>2, <3>1 DEF Seen
  <2>3. CASE u = x
    <3>1. Seen(u, z) <=> z \in rel[x] \ Pending(Last)
      BY <1>1, <1>2, <2>3, SeenOf
    <3>2. Seen(u, z)' <=> z \in rel[x] /\ z \notin Pending(Last) \ {y}
      BY <1>1, <1>2, <1>4, <1>8, <2>1, <2>3 DEF Seen
    <3> QED
      BY <1>3, <2>3, <3>1, <3>2
  <2> QED
    BY <2>2, <2>3
<1>12. /\ \A i \in 1 .. Last : i < Last => /\ Accounts(i)' = {NodeOf(i)} /\ Accounts(i) = {NodeOf(i)}
                                           /\ NodeOf(i) # x /\ NodeOf(i) \in All
       /\ \A i \in 1 .. Last : i = Last => Accounts(i)' = {x} /\ Accounts(i) \subseteq {x, y}
  <2>1. ASSUME NEW i \in 1 .. Last, i < Last
        PROVE  Accounts(i)' = {NodeOf(i)} /\ Accounts(i) = {NodeOf(i)} /\ NodeOf(i) # x /\ NodeOf(i) \in All
    BY <1>1, <1>2, <1>8, <2>1, OuterSegments DEF Accounts
  <2>2. ASSUME NEW i \in 1 .. Last, i = Last
        PROVE  Accounts(i)' = {x} /\ Accounts(i) \subseteq {x, y}
    BY <1>2, <1>3, <1>8, <2>2 DEF Accounts
  <2> QED
    BY <2>1, <2>2
<1>13. \A i \in 1 .. Last : \A p \in 1 .. Top : i < Last /\ InSegment(i, p) => stack[p] # x
  BY <1>2, OuterSegments
<1>14. Typed(All)'
  BY <1>4, <1>6, <1>7, <1>8 DEF DInv, Typed
<1>15. StackWF(All)'
  <2>1. ASSUME NEW p \in 1 .. Top PROVE N'[stack[p]] \in 1 .. p
    <3>1. N[stack[p]] \in 1 .. p /\ stack[p] \in All
      BY <1>1, <1>2 DEF StackWF
    <3>2. CASE stack[p] = x
      BY <1>1, <1>6, <3>1, <3>2
    <3>3. CASE stack[p] # x
      BY <1>6, <3>1, <3>3
    <3> QED
      BY <3>2, <3>3
  <2>2. ASSUME NEW u \in All PROVE N'[u] = 0 \/ N'[u] = Infinity \/ \E p \in 1 .. Top : stack[p] = u
    <3>1. CASE u = x
      <4>1. Depth(Last) \in 1 .. Top /\ stack[Depth(Last)] = x
        BY <1>1, <1>2, CallBasics DEF CallsWF
      <4> QED
        BY <3>1, <4>1
    <3>2. CASE u # x
      BY <1>2, <1>6, <3>2 DEF StackWF
    <3> QED
      BY <3>1, <3>2
  <2> QED
    BY <1>2, <1>4, <2>1, <2>2 DEF StackWF
<1>16. CallsWF'
  <2>1. \A i \in 1 .. Last' : Depth(i)' <= Top' /\ stack'[Depth(i)'] = NodeOf(i)'
    BY <1>2, <1>4, <1>8 DEF CallsWF
  <2>2. \A i, j \in 1 .. Last' : i < j => Depth(i)' < Depth(j)'
    BY <1>2, <1>8 DEF CallsWF
  <2>3. Last' > 0 /\ (Top' > 0 => Depth(1)' = 1)
    <3>1. 1 \in 1 .. Last
      BY <1>1
    <3> QED
      BY <1>1, <1>2, <1>4, <1>8, <3>1 DEF CallsWF
  <2>4. ASSUME NEW i \in 1 .. Last' PROVE Pending(i)' \subseteq rel'[NodeOf(i)']
    <3>1. i \in 1 .. Last /\ (i = Last \/ i < Last)
      BY <1>1, <1>8
    <3>2. Pending(i)' \subseteq Pending(i) /\ Pending(i) \subseteq rel[NodeOf(i)]
      BY <1>2, <1>8, <3>1 DEF CallsWF
    <3> QED
      BY <1>4, <1>8, <3>1, <3>2
  <2>5. ASSUME NEW i \in 1 .. Last', i < Last' PROVE calls'[i].waiting = {NodeOf(i + 1)'}
    <3>1. i + 1 \in 1 .. Last /\ i \in 1 .. Last
      BY <1>1, <1>8, <2>5
    <3> QED
      BY <1>2, <1>8, <2>5, <3>1 DEF CallsWF
  <2>6. ASSUME NEW i \in 1 .. Last', NEW z \in calls'[i].waiting
        PROVE  calls'[i].waiting = {z} /\ N'[z] # 0 /\ z \notin calls'[i].todo
    <3>1. i < Last /\ i \in 1 .. Last
      BY <1>1, <1>8, <2>6
    <3>2. calls'[i] = calls[i] /\ z \in All
      BY <1>1, <1>8, <2>6, <3>1 DEF Pending
    <3>3. calls[i].waiting = {z} /\ N[z] # 0 /\ z \notin calls[i].todo
      BY <1>2, <2>6, <3>1, <3>2 DEF CallsWF
    <3> QED
      BY <1>6, <3>2, <3>3
  <2> QED
    BY <2>1, <2>2, <2>3, <2>4, <2>5, <2>6 DEF CallsWF
<1>17. SeenVisited(All)'
  <2>1. ASSUME NEW p \in 1 .. Top, NEW z \in All, Seen(stack[p], z)' PROVE N'[z] # 0
    <3>1. Seen(stack[p], z) \/ z = y
      BY <1>4, <1>11, <2>1
    <3>2. N[z] # 0
      BY <1>3, <3>1 DEF DInv, SeenVisited
    <3> QED
      BY <1>6, <3>2
  <2>2. \A u \in Finished' : rel'[u] \subseteq Finished'
    BY <1>4, <1>9 DEF DInv, SeenVisited
  <2>3. ASSUME NEW i \in 1 .. Last, NEW p \in 1 .. Top, NEW q \in 1 .. Top,
               i < Last, InSegment(i, p)', Seen(stack[p], stack[q])'
        PROVE  q < Depth(i + 1)'
    <3>1. InSegment(i, p) /\ stack[p] # x
      BY <1>10, <1>13, <2>3
    <3>2. Seen(stack[p], stack[q])
      BY <1>4, <1>11, <2>3, <3>1
    <3>3. i + 1 \in 1 .. Last
      BY <1>1, <2>3
    <3> QED
      BY <1>8, <2>3, <3>1, <3>2, <3>3 DEF DInv, SeenVisited
  <2> QED
    BY <1>4, <1>8, <2>1, <2>2, <2>3 DEF SeenVisited
<1>18. Connected'
  <2>1. ASSUME NEW i \in 1 .. Last, NEW p \in 1 .. Top, i < Last => p < Depth(i + 1)'
        PROVE  Reaches(stack[p], NodeOf(i)')
    <3>1. i < Last => i + 1 \in 1 .. Last
      BY <1>1
    <3> QED
      BY <1>8, <2>1, <3>1 DEF DInv, Connected
  <2>2. \A i \in 1 .. Last : \A p \in Depth(i)' .. Top : Reaches(NodeOf(i)', stack[p])
    BY <1>8 DEF DInv, Connected
  <2>3. ASSUME NEW p \in 1 .. Top PROVE Reaches(stack[p], stack[N'[stack[p]]])
    <3>1. Reaches(stack[p], stack[N[stack[p]]]) /\ stack[p] \in All
      BY <1>1 DEF DInv, Connected
    <3>2. CASE N'[stack[p]] = N[stack[p]]
      BY <3>1, <3>2
    <3>3. CASE N'[stack[p]] # N[stack[p]]
      <4>1. stack[p] = x /\ N'[x] = N[y]
        BY <1>6, <3>1, <3>3
      <4>2. N[y] # Infinity
        <5>1. N'[x] \in 1 .. p
          BY <1>4, <1>15, <4>1 DEF StackWF
        <5>2. p <= Cardinality(All) /\ Cardinality(All) \in Nat /\ Infinity = Cardinality(All) + 1
          BY <1>1, <1>2, StackBound, Basics
        <5> QED
          BY <4>1, <5>1, <5>2
      <4>3. PICK q \in 1 .. Top : stack[q] = y
        BY <1>2, <1>3, <4>2 DEF StackWF
      <4>4. Reaches(y, stack[N[y]])
        BY <4>3 DEF DInv, Connected
      <4>5. Reaches(x, y)
        BY <1>1, <1>2, <1>3, ReachEdge
      <4> QED
        BY <1>1, <4>1, <4>4, <4>5, ReachTrans
    <3> QED
      BY <3>2, <3>3
  <2> QED
    BY <1>4, <1>8, <2>1, <2>2, <2>3 DEF Connected
<1>19. LowAccounted'
  <2> SUFFICES ASSUME NEW i \in 1 .. Last, NEW p \in 1 .. Top, NEW q \in 1 .. Top,
                      InSegment(i, p)', Seen(stack[p], stack[q])'
               PROVE  \E w \in Accounts(i)' : N'[w] <= q
    BY <1>4, <1>8 DEF LowAccounted
  <2>1. InSegment(i, p) /\ (Seen(stack[p], stack[q]) \/ (stack[p] = x /\ stack[q] = y))
    BY <1>4, <1>10, <1>11
  <2>2. CASE i < Last
    <3>1. Seen(stack[p], stack[q])
      BY <1>13, <2>1, <2>2
    <3>2. \E w \in Accounts(i) : N[w] <= q
      BY <2>1, <3>1 DEF DInv, LowAccounted
    <3>3. N[NodeOf(i)] <= q /\ N'[NodeOf(i)] = N[NodeOf(i)]
      BY <1>6, <1>12, <2>2, <3>2
    <3> QED
      BY <1>12, <2>2, <3>3
  <2>3. CASE i = Last
    <3>1. N[x] <= q \/ N[y] <= q
      <4>1. CASE Seen(stack[p], stack[q])
        <5>1. \E w \in Accounts(i) : N[w] <= q
          BY <2>1, <4>1 DEF DInv, LowAccounted
        <5> QED
          BY <1>12, <2>3, <5>1
      <4>2. CASE stack[q] = y
        <5>1. N[y] \in 1 .. q
          BY <1>2, <4>2 DEF StackWF
        <5> QED
          BY <5>1
      <4> QED
        BY <2>1, <4>1, <4>2
    <3>2. N'[x] <= q
      <4>1. N[x] \in Nat /\ N[y] \in Nat /\ N'[x] \in Nat
        BY <1>1, <1>3, <1>6
      <4> QED
        BY <1>6, <3>1, <4>1
    <3> QED
      BY <1>12, <2>3, <3>2
  <2> QED
    BY <1>1, <2>2, <2>3
<1>20. SetsSound(All)'
  <2>1. ASSUME NEW u \in All PROVE base[u] \subseteq read'[u] /\ read'[u] \subseteq Sum(u)
    <3>1. base[u] \subseteq read[u] /\ read[u] \subseteq Sum(u) /\ read[y] \subseteq Sum(y)
      BY <1>3 DEF DInv, SetsSound
    <3>2. CASE u = x
      <4>1. Sum(y) \subseteq Sum(x)
        BY <1>1, <1>2, <1>3, ReachEdge, SumMonotone
      <4> QED
        BY <1>7, <3>1, <3>2, <4>1
    <3>3. CASE u # x
      BY <1>7, <3>1, <3>3
    <3> QED
      BY <3>2, <3>3
  <2>2. \A u \in Finished : u \in All /\ u # x
    BY <1>1, <1>9 DEF Finished
  <2> QED
    BY <1>4, <1>7, <1>9, <2>1, <2>2 DEF DInv, SetsSound
<1>21. \A z \in Finished : z \in All /\ read'[z] = read[z]
  BY <1>1, <1>7, <1>9 DEF Finished
<1>22. SetsAccounted'
  <2> SUFFICES ASSUME NEW i \in 1 .. Last, NEW p \in 1 .. Top, InSegment(i, p)'
               PROVE  /\ \A e \in base[stack[p]] : \E w \in Accounts(i)' : e \in read'[w]
                      /\ \A z \in Finished : Seen(stack[p], z)' =>
                            \A e \in read[z] : \E w \in Accounts(i)' : e \in read'[w]
    BY <1>4, <1>8, <1>9, <1>21 DEF SetsAccounted
  <2>1. InSegment(i, p)
    BY <1>10
  <2>2. /\ \A e \in base[stack[p]] : \E w \in Accounts(i) : e \in read[w]
        /\ \A z \in Finished : Seen(stack[p], z) => \A e \in read[z] : \E w \in Accounts(i) : e \in read[w]
    BY <2>1 DEF DInv, SetsAccounted
  <2>3. \A e : (\E w \in Accounts(i) : e \in read[w]) => \E w \in Accounts(i)' : e \in read'[w]
    <3>1. CASE i < Last
      <4>1. read'[NodeOf(i)] = read[NodeOf(i)]
        BY <1>7, <1>12, <3>1
      <4> QED
        BY <1>12, <3>1, <4>1
    <3>2. CASE i = Last
      BY <1>7, <1>12, <3>2
    <3> QED
      BY <1>1, <3>1, <3>2
  <2>4. ASSUME NEW z \in Finished, Seen(stack[p], z)', NEW e \in read[z]
        PROVE  \E w \in Accounts(i)' : e \in read'[w]
    <3>1. Seen(stack[p], z) \/ (stack[p] = x /\ z = y)
      BY <1>4, <1>11, <2>4
    <3>2. CASE Seen(stack[p], z)
      BY <2>2, <2>3, <2>4, <3>2
    <3>3. CASE stack[p] = x /\ z = y
      <4>1. i = Last
        BY <1>1, <1>13, <2>1, <3>3
      <4> QED
        BY <1>7, <1>12, <2>4, <3>3, <4>1
    <3> QED
      BY <3>1, <3>2, <3>3
  <2> QED
    BY <2>2, <2>3, <2>4
<1> QED
  BY <1>9, <1>14, <1>15, <1>16, <1>17, <1>18, <1>19, <1>20, <1>21, <1>22 DEF DInv

(* traverse(x) returns: it has seen all of rel[x], and the activation      *)
(* before it is the last one.                                              *)
LEMMA Popped ==
    ASSUME NEW All, DInv(All), LoopDone, calls' = Outer, rel' = rel
    PROVE  /\ Last \in Nat \ {0} /\ Last \in 1 .. Last /\ calls' \in Seq(Frames(All)) /\ Last' = Last - 1
           /\ LastCall.node = NodeOf(Last) /\ LastCall.depth = Depth(Last)
           /\ Pending(Last) = {} /\ Accounts(Last) = {NodeOf(Last)}
           /\ \A i \in 1 .. Last' : /\ i \in 1 .. Last /\ i < Last /\ calls'[i] = calls[i]
                                    /\ NodeOf(i)' = NodeOf(i) /\ Depth(i)' = Depth(i) /\ Pending(i)' = Pending(i)
           /\ \A u, z : Seen(u, z)' <=> Seen(u, z)
           /\ \A i \in 1 .. Last' : i < Last' => Accounts(i)' = Accounts(i) /\ Accounts(i) = {NodeOf(i)}
           /\ \A i \in 1 .. Last' : i = Last' => /\ Accounts(i)' = {NodeOf(i), NodeOf(Last)}
                                                 /\ Accounts(i) = {NodeOf(i)}
<1>1. /\ Last \in Nat \ {0} /\ Last \in 1 .. Last /\ calls' \in Seq(Frames(All)) /\ Last' = Last - 1
      /\ LastCall = calls[Last] /\ \A i \in 1 .. Last - 1 : calls'[i] = calls[i]
  <2>1. calls # <<>> /\ Typed(All)
    BY DEF LoopDone, DInv
  <2>2. /\ Last \in Nat \ {0} /\ calls' \in Seq(Frames(All)) /\ Len(calls') = Last - 1
        /\ LastCall = calls[Last] /\ \A i \in 1 .. Last - 1 : calls'[i] = calls[i]
    BY <2>1, OuterProperties
  <2>3. Last' = Len(calls')
    BY DEF Last
  <2> QED
    BY <2>2, <2>3
<1>2. /\ LastCall.node = NodeOf(Last) /\ LastCall.depth = Depth(Last)
      /\ calls[Last].waiting = {} /\ Pending(Last) = {} /\ Accounts(Last) = {NodeOf(Last)}
  BY <1>1 DEF LoopDone, NodeOf, Depth, Pending, Accounts
<1>3. ASSUME NEW i \in 1 .. Last'
      PROVE  /\ i \in 1 .. Last /\ i < Last /\ calls'[i] = calls[i]
             /\ NodeOf(i)' = NodeOf(i) /\ Depth(i)' = Depth(i) /\ Pending(i)' = Pending(i)
  <2>1. i \in 1 .. Last /\ i < Last /\ i \in 1 .. Last - 1
    BY <1>1
  <2>2. calls'[i] = calls[i]
    BY <1>1, <2>1
  <2> QED
    BY <2>1, <2>2 DEF NodeOf, Depth, Pending
<1>4. ASSUME NEW u, NEW z PROVE Seen(u, z)' <=> Seen(u, z)
  <2>1. \A i \in 1 .. Last : i = Last \/ i \in 1 .. Last'
    BY <1>1
  <2> QED
    BY <1>2, <1>3, <2>1 DEF Seen
<1>5. ASSUME NEW i \in 1 .. Last', i < Last' PROVE Accounts(i)' = Accounts(i) /\ Accounts(i) = {NodeOf(i)}
  BY <1>1, <1>3, <1>5 DEF Accounts
<1>6. ASSUME NEW i \in 1 .. Last', i = Last'
      PROVE  Accounts(i)' = {NodeOf(i), NodeOf(Last)} /\ Accounts(i) = {NodeOf(i)}
  <2>1. i + 1 = Last /\ i < Last
    BY <1>1, <1>6
  <2>2. calls[i].waiting = {NodeOf(i + 1)}
    BY <1>3, <2>1 DEF DInv, CallsWF
  <2> QED
    BY <1>3, <1>6, <2>1, <2>2 DEF Accounts
<1> QED
  BY <1>1, <1>2, <1>3, <1>4, <1>5, <1>6

LEMMA ReturnInsideInv ==
    ASSUME NEW All, DInv(All), ReturnInside
    PROVE  DInv(All)' /\ Finished' = Finished /\ read' = read
<1> DEFINE x == NodeOf(Last)
<1>1. /\ Top \in Nat /\ rel \in [All -> SUBSET All]
      /\ \A p \in 1 .. Top : stack[p] \in All
      /\ Typed(All) /\ StackWF(All) /\ CallsWF
  BY Basics DEF DInv, Typed
<1>2. /\ UNCHANGED <<rel, base, read, N, stack>> /\ Top' = Top /\ Infinity' = Infinity /\ Finished' = Finished
      /\ \A u, z : Reaches(u, z)' <=> Reaches(u, z)
      /\ \A u : Sum(u)' = Sum(u)
  <2>1. UNCHANGED <<rel, base, read, N, stack>>
    BY DEF ReturnInside
  <2>2. Infinity' = Infinity /\ Nodes' = Nodes /\ Top' = Top
    BY <2>1 DEF Infinity, Nodes, Top
  <2>3. Finished' = Finished
    BY <2>1, <2>2 DEF Finished
  <2> QED
    BY <2>1, <2>2, <2>3, ReachKept
<1>3. /\ Last \in Nat \ {0} /\ Last \in 1 .. Last /\ calls' \in Seq(Frames(All)) /\ Last' = Last - 1
      /\ LastCall.node = NodeOf(Last) /\ LastCall.depth = Depth(Last)
      /\ Accounts(Last) = {x}
      /\ \A i \in 1 .. Last' : /\ i \in 1 .. Last /\ i < Last /\ calls'[i] = calls[i]
                               /\ NodeOf(i)' = NodeOf(i) /\ Depth(i)' = Depth(i) /\ Pending(i)' = Pending(i)
      /\ \A u, z : Seen(u, z)' <=> Seen(u, z)
      /\ \A i \in 1 .. Last' : i < Last' => Accounts(i)' = Accounts(i) /\ Accounts(i) = {NodeOf(i)}
      /\ \A i \in 1 .. Last' : i = Last' => Accounts(i)' = {NodeOf(i), x} /\ Accounts(i) = {NodeOf(i)}
  BY <1>2, Popped DEF ReturnInside
<1> HIDE DEF x
<1>4. /\ N[x] \in 1 .. Top /\ N[x] < Depth(Last) /\ Last' \in 1 .. Last' /\ x \in All
      /\ Depth(Last) \in 1 .. Top /\ x = stack[Depth(Last)]
  <2>1. N[x] # Depth(Last)
    BY <1>3 DEF ReturnInside, x
  <2>2. N[x] \in 1 .. Depth(Last) /\ Depth(Last) \in 1 .. Top /\ x \in All /\ x = stack[Depth(Last)]
    BY <1>1, <1>3, CallBasics, Basics DEF x, CallsWF
  <2>3. Last # 1
    BY <1>1, <2>1, <2>2 DEF CallsWF
  <2> QED
    BY <1>1, <1>3, <2>1, <2>2, <2>3
<1>5. \A i \in 1 .. Last' : \A p : InSegment(i, p)' => InSegment(i, p) \/ (i = Last' /\ InSegment(Last, p))
  <2> SUFFICES ASSUME NEW i \in 1 .. Last', NEW p, InSegment(i, p)'
               PROVE  InSegment(i, p) \/ (i = Last' /\ InSegment(Last, p))
    OBVIOUS
  <2>1. CASE i = Last'
    <3>1. p \in Depth(i) .. Top /\ i + 1 = Last /\ Depth(i) \in Nat /\ Depth(Last) \in Nat
      BY <1>1, <1>2, <1>3, <2>1, Basics DEF InSegment
    <3>2. p < Depth(Last) \/ p \in Depth(Last) .. Top
      BY <1>1, <3>1
    <3>3. ~(Last < Last)
      BY <1>3
    <3> QED
      BY <2>1, <3>1, <3>2, <3>3 DEF InSegment
  <2>2. CASE i < Last'
    <3>1. i + 1 \in 1 .. Last'
      BY <1>3, <2>2
    <3> QED
      BY <1>2, <1>3, <2>2, <3>1 DEF InSegment
  <2> QED
    BY <1>3, <2>1, <2>2
<1>6. Typed(All)'
  BY <1>1, <1>2, <1>3 DEF Typed
<1>7. StackWF(All)'
  BY <1>1, <1>2 DEF StackWF
<1>8. CallsWF'
  <2>1. \A i \in 1 .. Last' : Depth(i)' <= Top' /\ stack'[Depth(i)'] = NodeOf(i)'
    BY <1>1, <1>2, <1>3 DEF CallsWF
  <2>2. \A i, j \in 1 .. Last' : i < j => Depth(i)' < Depth(j)'
    BY <1>1, <1>3 DEF CallsWF
  <2>3. Last' > 0 /\ Depth(1)' = 1
    <3>1. Last' > 0 /\ 1 \in 1 .. Last'
      BY <1>3, <1>4
    <3>2. Top > 0
      BY <1>1, <1>4
    <3> QED
      BY <1>1, <1>3, <3>1, <3>2 DEF CallsWF
  <2>4. \A i \in 1 .. Last' : Pending(i)' \subseteq rel'[NodeOf(i)']
    BY <1>1, <1>2, <1>3 DEF CallsWF
  <2>5. ASSUME NEW i \in 1 .. Last', i < Last' PROVE calls'[i].waiting = {NodeOf(i + 1)'}
    <3>1. i + 1 \in 1 .. Last'
      BY <1>3, <2>5
    <3> QED
      BY <1>1, <1>3, <3>1 DEF CallsWF
  <2>6. \A i \in 1 .. Last' : \A y \in calls'[i].waiting :
           calls'[i].waiting = {y} /\ N'[y] # 0 /\ y \notin calls'[i].todo
    BY <1>1, <1>2, <1>3 DEF CallsWF
  <2> QED
    BY <2>1, <2>2, <2>3, <2>4, <2>5, <2>6 DEF CallsWF
<1>9. SeenVisited(All)'
  <2>1. ASSUME NEW i \in 1 .. Last', NEW p \in 1 .. Top, NEW q \in 1 .. Top,
               i < Last', InSegment(i, p)', Seen(stack[p], stack[q])'
        PROVE  q < Depth(i + 1)'
    <3>1. InSegment(i, p) /\ Seen(stack[p], stack[q]) /\ i + 1 \in 1 .. Last' /\ i \in 1 .. Last /\ i < Last
      BY <1>2, <1>3, <1>5, <2>1
    <3>2. q < Depth(i + 1)
      BY <3>1 DEF DInv, SeenVisited
    <3> QED
      BY <1>3, <3>1, <3>2
  <2>2. \A p \in 1 .. Top : \A z \in All : Seen(stack[p], z)' => N[z] # 0
    BY <1>2, <1>3 DEF DInv, SeenVisited
  <2> QED
    BY <1>2, <2>1, <2>2 DEF DInv, SeenVisited
<1>10. Connected'
  <2>1. ASSUME NEW i \in 1 .. Last', NEW p \in 1 .. Top, i < Last' => p < Depth(i + 1)'
        PROVE  Reaches(stack[p], NodeOf(i))
    <3>1. CASE i < Last'
      <4>1. i + 1 \in 1 .. Last' /\ i \in 1 .. Last
        BY <1>3, <3>1
      <4>2. p < Depth(i + 1)
        BY <1>3, <2>1, <3>1, <4>1
      <4> QED
        BY <4>1, <4>2 DEF DInv, Connected
    <3>2. CASE i = Last'
      <4>1. i + 1 = Last /\ i \in 1 .. Last
        BY <1>3, <3>2
      <4>2. \A q \in 1 .. Top : q < Depth(Last) => Reaches(stack[q], NodeOf(i))
        BY <4>1 DEF DInv, Connected
      <4>3. Reaches(stack[p], x) /\ Reaches(x, stack[N[x]]) /\ Reaches(stack[N[x]], NodeOf(i))
        <5>1. Reaches(stack[p], x)
          <6>1. ~(Last < Last)
            BY <1>3
          <6> QED
            BY <1>3, <6>1 DEF DInv, Connected, x
        <5>2. Reaches(x, stack[N[x]])
          BY <1>4 DEF DInv, Connected
        <5> QED
          BY <1>4, <4>2, <5>1, <5>2
      <4>4. Reaches(stack[p], stack[N[x]])
        BY <1>1, <4>3, ReachTrans
      <4> QED
        BY <1>1, <4>3, <4>4, ReachTrans
    <3> QED
      BY <1>3, <3>1, <3>2
  <2>2. \A i \in 1 .. Last' : \A p \in Depth(i) .. Top : Reaches(NodeOf(i), stack[p])
    BY <1>3 DEF DInv, Connected
  <2> QED
    BY <1>2, <1>3, <2>1, <2>2 DEF DInv, Connected
<1>11. LowAccounted'
  <2> SUFFICES ASSUME NEW i \in 1 .. Last', NEW p \in 1 .. Top, NEW q \in 1 .. Top,
                      InSegment(i, p)', Seen(stack[p], stack[q])'
               PROVE  \E w \in Accounts(i)' : N[w] <= q
    BY <1>2 DEF LowAccounted
  <2>1. Seen(stack[p], stack[q]) /\ i \in 1 .. Last
    BY <1>2, <1>3
  <2>2. CASE InSegment(i, p)
    <3>1. \E w \in Accounts(i) : N[w] <= q
      BY <2>1, <2>2 DEF DInv, LowAccounted
    <3>2. Accounts(i) \subseteq Accounts(i)'
      BY <1>3
    <3> QED
      BY <3>1, <3>2
  <2>3. CASE i = Last' /\ InSegment(Last, p)
    <3>1. \E w \in Accounts(Last) : N[w] <= q
      BY <1>3, <2>1, <2>3 DEF DInv, LowAccounted
    <3> QED
      BY <1>3, <2>3, <3>1
  <2> QED
    BY <1>5, <2>2, <2>3
<1>12. SetsSound(All)'
  BY <1>2 DEF DInv, SetsSound
<1>13. SetsAccounted'
  <2> SUFFICES ASSUME NEW i \in 1 .. Last', NEW p \in 1 .. Top, InSegment(i, p)'
               PROVE  /\ \A e \in base[stack[p]] : \E w \in Accounts(i)' : e \in read[w]
                      /\ \A z \in Finished : Seen(stack[p], z)' =>
                            \A e \in read[z] : \E w \in Accounts(i)' : e \in read[w]
    BY <1>2 DEF SetsAccounted
  <2>1. PICK j \in 1 .. Last : InSegment(j, p) /\ Accounts(j) \subseteq Accounts(i)'
    <3>1. CASE InSegment(i, p)
      BY <1>3, <3>1
    <3>2. CASE i = Last' /\ InSegment(Last, p)
      BY <1>3, <3>2
    <3> QED
      BY <1>5, <3>1, <3>2
  <2>2. \A z : Seen(stack[p], z)' <=> Seen(stack[p], z)
    BY <1>2, <1>3
  <2> QED
    BY <2>1, <2>2 DEF DInv, SetsAccounted
<1> QED
  BY <1>2, <1>6, <1>7, <1>8, <1>9, <1>10, <1>11, <1>12, <1>13 DEF DInv

(* What traverse(x) pops is a component, and its set is the sum of all the *)
(* nodes it reaches.                                                       *)
LEMMA ComponentFacts ==
    ASSUME NEW All, DInv(All), LoopDone, N[LastCall.node] = LastCall.depth
    PROVE  /\ Component = {stack[q] : q \in Depth(Last) .. Top}
           /\ Component \subseteq All /\ NodeOf(Last) \in Component /\ Component \intersect Finished = {}
           /\ \A u, v \in Component : Reaches(u, v)
           /\ \A u \in Component : rel[u] \subseteq Finished \union Component
           /\ \A u \in Component : read[NodeOf(Last)] = Sum(u)
<1> DEFINE x == NodeOf(Last)
           d == Depth(Last)
<1>1. /\ Typed(All) /\ StackWF(All) /\ CallsWF /\ Top \in Nat /\ rel \in [All -> SUBSET All]
      /\ \A p \in 1 .. Top : stack[p] \in All
      /\ Last \in 1 .. Last /\ LastCall.node = x /\ LastCall.depth = d /\ Pending(Last) = {}
      /\ Accounts(Last) = {x} /\ ~(Last < Last) /\ d \in 1 .. Top /\ x = stack[d]
  <2>1. Last \in Nat \ {0} /\ LastCall = calls[Last] /\ Typed(All) /\ StackWF(All) /\ CallsWF
    BY OuterProperties DEF DInv, LoopDone
  <2>2. Last \in 1 .. Last /\ ~(Last < Last)
    BY <2>1
  <2>3. d \in 1 .. Top /\ x = stack[d]
    BY <2>1, <2>2, CallBasics DEF CallsWF
  <2>4. Pending(Last) = {} /\ Accounts(Last) = {x} /\ LastCall.node = x /\ LastCall.depth = d
    BY <2>1 DEF LoopDone, Pending, Accounts, NodeOf, Depth
  <2> QED
    BY <2>1, <2>2, <2>3, <2>4, Basics DEF Typed
<1> HIDE DEF x, d
<1>2. N[x] = d
  BY <1>1
<1>3. Component = {stack[q] : q \in d .. Top}
  BY <1>1 DEF Component, Top
<1>4. \A p \in d .. Top : p \in 1 .. Top /\ InSegment(Last, p) /\ stack[p] \in All
  BY <1>1 DEF InSegment, d
<1>5. Component \subseteq All /\ x \in Component
  <2>1. d \in d .. Top
    BY <1>1
  <2> QED
    BY <1>1, <1>3, <1>4, <2>1
<1>6. Component \intersect Finished = {}
  BY <1>1, <1>3, <1>4, StackBound DEF Finished
<1>7. ASSUME NEW p \in d .. Top, NEW z \in rel[stack[p]] PROVE Seen(stack[p], z)
  <2>1. ASSUME NEW i \in 1 .. Last, NodeOf(i) = stack[p] PROVE z \notin Pending(i)
    <3>1. Depth(i) = p
      <4>1. Depth(i) \in 1 .. Top /\ stack[Depth(i)] = NodeOf(i)
        BY <1>1, CallBasics DEF CallsWF
      <4> QED
        BY <1>1, <1>4, <2>1, <4>1 DEF StackWF
    <3>2. ~(Depth(i) < d)
      BY <1>1, <1>4, <3>1
    <3>3. i = Last
      <4>1. Last \in Nat /\ i \in Nat
        BY <1>1, Basics
      <4> QED
        BY <1>1, <3>2, <4>1 DEF CallsWF, d
    <3> QED
      BY <1>1, <3>3
  <2> QED
    BY <2>1 DEF Seen
<1>8. ASSUME NEW p \in d .. Top, NEW z \in rel[stack[p]] PROVE z \in Finished \union Component
  <2>1. p \in 1 .. Top /\ InSegment(Last, p) /\ Seen(stack[p], z) /\ z \in All
    BY <1>1, <1>4, <1>7
  <2>2. N[z] # 0
    BY <2>1 DEF DInv, SeenVisited
  <2>3. CASE N[z] = Infinity
    BY <1>1, <2>1, <2>3, Basics DEF Finished
  <2>4. CASE \E q \in 1 .. Top : stack[q] = z
    <3>1. PICK q \in 1 .. Top : stack[q] = z
      BY <2>4
    <3>2. N[x] <= q
      BY <1>1, <2>1, <3>1 DEF DInv, LowAccounted
    <3>3. q \in d .. Top
      BY <1>1, <1>2, <3>2
    <3> QED
      BY <1>3, <3>1, <3>3
  <2> QED
    BY <1>1, <2>1, <2>2, <2>3, <2>4 DEF StackWF
<1>9. ASSUME NEW u \in Component PROVE Reaches(u, x) /\ Reaches(x, u)
  <2>1. PICK p \in d .. Top : u = stack[p]
    BY <1>3
  <2>2. Reaches(stack[p], x)
    BY <1>1, <1>4 DEF DInv, Connected, x
  <2>3. Reaches(x, stack[p])
    BY <1>1 DEF DInv, Connected, x, d
  <2> QED
    BY <2>1, <2>2, <2>3
<1>10. \A u, v \in Component : Reaches(u, v)
  BY <1>1, <1>9, ReachTrans
<1>11. Sum(x) \subseteq read[x]
  <2> DEFINE S == Component \union {z \in Finished : read[z] \subseteq read[x]}
  <2>1. \A z \in Finished : z \in All /\ read[z] = Sum(z) /\ base[z] \subseteq read[z] /\ rel[z] \subseteq Finished
    BY <1>1, Basics DEF DInv, SetsSound, SeenVisited, Finished
  <2>2. ASSUME NEW u \in Component, NEW z \in rel[u] PROVE z \in S
    <3>1. PICK p \in d .. Top : u = stack[p]
      BY <1>3
    <3>2. z \in Finished \union Component /\ Seen(stack[p], z)
      BY <1>7, <1>8, <3>1
    <3>3. z \in Finished => read[z] \subseteq read[x]
      BY <1>1, <1>4, <3>2 DEF DInv, SetsAccounted
    <3> QED
      BY <3>2, <3>3
  <2>3. ASSUME NEW u \in Finished, read[u] \subseteq read[x], NEW z \in rel[u] PROVE z \in S
    <3>1. z \in Finished /\ u \in All
      BY <2>1
    <3>2. Sum(z) \subseteq Sum(u)
      BY <1>1, <2>1, ReachEdge, SumMonotone
    <3> QED
      BY <2>1, <2>3, <3>1, <3>2
  <2>4. Abstract!Closed(rel, S) /\ S \in SUBSET All /\ x \in S
    BY <1>5, <2>1, <2>2, <2>3 DEF Abstract!Closed
  <2>5. ASSUME NEW u \in Component PROVE base[u] \subseteq read[x]
    <3>1. PICK p \in d .. Top : u = stack[p]
      BY <1>3
    <3> QED
      BY <1>1, <1>4, <3>1 DEF DInv, SetsAccounted
  <2>6. \A u \in S : base[u] \subseteq read[x]
    BY <2>1, <2>5
  <2> HIDE DEF S
  <2>7. \A y : Reaches(x, y) => base[y] \subseteq read[x]
    BY <1>1, <2>4, <2>6, ReachInClosed
  <2> QED
    BY <2>7 DEF Sum, Reaches, Abstract!Total
<1>12. ASSUME NEW u \in Component PROVE read[x] = Sum(u)
  <2>1. Sum(u) \subseteq Sum(x) /\ Sum(x) \subseteq Sum(u)
    BY <1>1, <1>5, <1>9, SumMonotone
  <2>2. read[x] \subseteq Sum(x)
    BY <1>5 DEF DInv, SetsSound
  <2> QED
    BY <1>11, <2>1, <2>2
<1>13. \A u \in Component : rel[u] \subseteq Finished \union Component
  BY <1>3, <1>8
<1> QED
  BY <1>3, <1>5, <1>6, <1>10, <1>12, <1>13 DEF x, d

LEMMA ReturnComponentInv ==
    ASSUME NEW All, DInv(All), ReturnComponent
    PROVE  /\ DInv(All)' /\ Finished' = Finished \union Component
           /\ \A y \in All : read'[y] = IF y \in Component THEN Sum(y) ELSE read[y]
<1> DEFINE d == Depth(Last)
           C == Component
<1>1. /\ Top \in Nat /\ rel \in [All -> SUBSET All] /\ Nodes = All /\ Infinity \in Nat /\ Infinity # 0
      /\ \A p \in 1 .. Top : stack[p] \in All
      /\ Typed(All) /\ StackWF(All) /\ CallsWF /\ N \in [All -> Nat] /\ read \in [All -> SUBSET Elem] /\ stack \in Seq(All)
  <2>1. Typed(All)
    BY DEF DInv
  <2>2. Infinity \in Nat /\ Infinity # 0
    BY <2>1, Basics
  <2> QED
    BY <2>1, <2>2, Basics DEF DInv, Typed
<1>2. LoopDone /\ N[LastCall.node] = LastCall.depth
  BY DEF ReturnComponent
<1>3. /\ C = {stack[q] : q \in d .. Top}
      /\ C \subseteq All /\ NodeOf(Last) \in C /\ C \intersect Finished = {}
      /\ \A u \in C : rel[u] \subseteq Finished \union C
      /\ \A u \in C : read[NodeOf(Last)] = Sum(u)
  BY <1>2, ComponentFacts
<1>4. /\ Last \in Nat \ {0} /\ Last \in 1 .. Last /\ calls' \in Seq(Frames(All)) /\ Last' = Last - 1
      /\ LastCall.node = NodeOf(Last) /\ LastCall.depth = d
      /\ \A i \in 1 .. Last' : /\ i \in 1 .. Last /\ i < Last /\ calls'[i] = calls[i]
                               /\ NodeOf(i)' = NodeOf(i) /\ Depth(i)' = Depth(i) /\ Pending(i)' = Pending(i)
      /\ \A u, z : Seen(u, z)' <=> Seen(u, z)
      /\ \A i \in 1 .. Last' : NodeOf(i) \in Accounts(i)' /\ Accounts(i) = {NodeOf(i)}
  <2>1. calls' = Outer /\ rel' = rel
    BY DEF ReturnComponent
  <2>2. \A i \in 1 .. Last' : i = Last' \/ i < Last'
    BY <1>2, <2>1, Popped
  <2>3. /\ \A i \in 1 .. Last' : i < Last' => Accounts(i)' = Accounts(i) /\ Accounts(i) = {NodeOf(i)}
        /\ \A i \in 1 .. Last' : i = Last' => /\ Accounts(i)' = {NodeOf(i), NodeOf(Last)}
                                              /\ Accounts(i) = {NodeOf(i)}
    BY <1>2, <2>1, Popped
  <2>4. \A i \in 1 .. Last' : NodeOf(i) \in Accounts(i)' /\ Accounts(i) = {NodeOf(i)}
    BY <2>2, <2>3
  <2> QED
    BY <1>2, <2>1, <2>4, Popped
<1>5. d \in 1 .. Top
  BY <1>1, <1>4, CallBasics
<1> HIDE DEF d, C
<1>6. /\ stack' \in Seq(All) /\ Top' = d - 1 /\ 1 .. Top' \subseteq 1 .. Top
      /\ \A p \in 1 .. Top' : stack'[p] = stack[p] /\ p < d
  <2>1. stack' = SubSeq(stack, 1, d - 1)
    BY <1>4 DEF ReturnComponent
  <2>2. 1 \in Int /\ d - 1 \in Int /\ \A p \in 1 .. d - 1 : stack[p] \in All
    BY <1>1, <1>5
  <2>3. /\ stack' \in Seq(All) /\ Len(stack') = IF 1 <= d - 1 THEN d - 1 - 1 + 1 ELSE 0
        /\ \A p \in 1 .. d - 1 - 1 + 1 : stack'[p] = stack[1 + p - 1]
    BY <2>1, <2>2, SubSeqProperties
  <2>4. Top' = d - 1
    BY <1>1, <1>5, <2>3 DEF Top
  <2> QED
    BY <1>1, <1>5, <2>3, <2>4
<1>7. /\ rel' = rel /\ base' = base /\ Infinity' = Infinity /\ Nodes' = All
      /\ \A u, z : Reaches(u, z)' <=> Reaches(u, z)
      /\ \A u : Sum(u)' = Sum(u)
  <2>1. rel' = rel /\ base' = base
    BY DEF ReturnComponent
  <2> QED
    BY <1>1, <2>1, ReachKept DEF Infinity, Nodes
<1>8. /\ N' = [y \in All |-> IF y \in C THEN Infinity ELSE N[y]]
      /\ read' = [y \in All |-> IF y \in C THEN read[NodeOf(Last)] ELSE read[y]]
  BY <1>1, <1>4 DEF ReturnComponent, C
<1>9. /\ N' \in [All -> Nat] /\ read' \in [All -> SUBSET Elem]
      /\ \A y \in All : N'[y] = IF y \in C THEN Infinity ELSE N[y]
      /\ \A y \in All : read'[y] = IF y \in C THEN Sum(y) ELSE read[y]
  <2>1. NodeOf(Last) \in All
    BY <1>3
  <2> QED
    BY <1>1, <1>3, <1>8, <2>1
<1>10. Finished' = Finished \union C
  BY <1>1, <1>3, <1>7, <1>9 DEF Finished
<1>11. \A p \in 1 .. Top' : stack[p] \notin C /\ stack[p] \in All /\ N'[stack[p]] = N[stack[p]]
  <2>1. ASSUME NEW p \in 1 .. Top' PROVE stack[p] \notin C
    <3>1. \A q \in d .. Top : stack[q] # stack[p]
      BY <1>1, <1>5, <1>6 DEF StackWF
    <3> QED
      BY <1>3, <3>1
  <2> QED
    BY <1>1, <1>6, <1>9, <2>1
<1>12. \A i \in 1 .. Last' : /\ Depth(i) \in 1 .. Top' /\ Depth(i) < d /\ NodeOf(i) = stack[Depth(i)]
                             /\ NodeOf(i) \notin C /\ NodeOf(i) \in All
                             /\ N'[NodeOf(i)] = N[NodeOf(i)] /\ read'[NodeOf(i)] = read[NodeOf(i)]
  <2> SUFFICES ASSUME NEW i \in 1 .. Last'
               PROVE  /\ Depth(i) \in 1 .. Top' /\ Depth(i) < d /\ NodeOf(i) = stack[Depth(i)]
                      /\ NodeOf(i) \notin C /\ NodeOf(i) \in All
                      /\ N'[NodeOf(i)] = N[NodeOf(i)] /\ read'[NodeOf(i)] = read[NodeOf(i)]
    OBVIOUS
  <2>1. i \in 1 .. Last /\ i < Last /\ Depth(i) \in 1 .. Top /\ NodeOf(i) = stack[Depth(i)]
    BY <1>1, <1>4, CallBasics DEF CallsWF
  <2>2. Depth(i) < d
    BY <1>1, <1>4, <2>1 DEF CallsWF, d
  <2>3. Depth(i) \in 1 .. Top'
    BY <1>1, <1>5, <1>6, <2>1, <2>2
  <2> QED
    BY <1>9, <1>11, <2>1, <2>2, <2>3
<1>13. \A i \in 1 .. Last' : \A p \in 1 .. Top' : InSegment(i, p)' => InSegment(i, p)
  <2> SUFFICES ASSUME NEW i \in 1 .. Last', NEW p \in 1 .. Top', InSegment(i, p)' PROVE InSegment(i, p)
    OBVIOUS
  <2>1. p \in Depth(i) .. Top
    <3>1. p \in Depth(i) .. Top' /\ Depth(i) \in Nat
      BY <1>4, <1>12 DEF InSegment
    <3> QED
      BY <1>1, <1>5, <1>6, <3>1
  <2>2. CASE i = Last'
    <3>1. i + 1 = Last /\ p < d
      BY <1>4, <1>6, <2>2
    <3> QED
      BY <2>1, <3>1 DEF InSegment, d
  <2>3. CASE i < Last'
    <3>1. i + 1 \in 1 .. Last'
      BY <1>4, <2>3
    <3>2. p < Depth(i + 1)
      BY <1>4, <2>3, <3>1 DEF InSegment
    <3> QED
      BY <2>1, <3>2 DEF InSegment
  <2> QED
    BY <1>4, <2>2, <2>3
<1>14. Typed(All)'
  BY <1>1, <1>4, <1>6, <1>7, <1>9 DEF Typed
<1>15. StackWF(All)'
  <2>1. \A p, q \in 1 .. Top' : stack'[p] = stack'[q] => p = q
    BY <1>1, <1>6 DEF StackWF
  <2>2. \A p \in 1 .. Top' : N'[stack'[p]] \in 1 .. p
    BY <1>1, <1>6, <1>11 DEF StackWF
  <2>3. ASSUME NEW y \in All PROVE N'[y] = 0 \/ N'[y] = Infinity \/ \E p \in 1 .. Top' : stack'[p] = y
    <3>1. CASE y \in C
      BY <1>9, <3>1
    <3>2. CASE y \notin C /\ \E p \in 1 .. Top : stack[p] = y
      <4>1. PICK p \in 1 .. Top : stack[p] = y
        BY <3>2
      <4>2. p \notin d .. Top
        BY <1>3, <3>2, <4>1
      <4>3. p \in 1 .. Top'
        BY <1>1, <1>5, <1>6, <4>2
      <4> QED
        BY <1>6, <4>1, <4>3
    <3> QED
      BY <1>1, <1>9, <3>1, <3>2 DEF StackWF
  <2> QED
    BY <1>7, <2>1, <2>2, <2>3 DEF StackWF
<1>16. CallsWF'
  <2>1. \A i \in 1 .. Last' : Depth(i)' <= Top' /\ stack'[Depth(i)'] = NodeOf(i)'
    <3>1. Top' \in Nat
      BY <1>1, <1>5, <1>6
    <3> QED
      BY <1>4, <1>6, <1>12, <3>1
  <2>2. \A i, j \in 1 .. Last' : i < j => Depth(i)' < Depth(j)'
    BY <1>1, <1>4 DEF CallsWF
  <2>3. ASSUME Top' > 0 PROVE Last' > 0 /\ Depth(1)' = 1
    <3>1. Depth(1) = 1
      BY <1>1, <1>5 DEF CallsWF
    <3>2. Last # 1
      BY <1>1, <1>5, <1>6, <2>3, <3>1 DEF d
    <3>3. 1 \in 1 .. Last' /\ Last' > 0
      BY <1>4, <3>2
    <3> QED
      BY <1>4, <3>1, <3>3
  <2>4. \A i \in 1 .. Last' : Pending(i)' \subseteq rel'[NodeOf(i)']
    <3>1. CallsWF /\ rel' = rel
      BY <1>1, <1>7
    <3> QED
      BY <1>4, <3>1 DEF CallsWF
  <2>5. ASSUME NEW i \in 1 .. Last', i < Last' PROVE calls'[i].waiting = {NodeOf(i + 1)'}
    <3>1. i + 1 \in 1 .. Last'
      BY <1>4, <2>5
    <3>2. calls'[i] = calls[i] /\ NodeOf(i + 1)' = NodeOf(i + 1) /\ i \in 1 .. Last /\ i < Last
      BY <1>4, <3>1
    <3>3. calls[i].waiting = {NodeOf(i + 1)}
      BY <1>1, <3>2 DEF CallsWF
    <3> QED
      BY <3>2, <3>3
  <2>6. ASSUME NEW i \in 1 .. Last', NEW y \in calls'[i].waiting
        PROVE  calls'[i].waiting = {y} /\ N'[y] # 0 /\ y \notin calls'[i].todo
    <3>1. i \in 1 .. Last /\ calls'[i] = calls[i]
      BY <1>4
    <3>2. calls[i].waiting = {y} /\ N[y] # 0 /\ y \notin calls[i].todo
      BY <1>1, <2>6, <3>1 DEF CallsWF
    <3>3. y \in All
      BY <2>6, <3>1, Basics, <1>1
    <3> QED
      BY <1>1, <1>9, <3>1, <3>2, <3>3
  <2> QED
    BY <2>1, <2>2, <2>3, <2>4, <2>5, <2>6 DEF CallsWF
<1>17. SeenVisited(All)'
  <2>1. ASSUME NEW p \in 1 .. Top', NEW z \in All, Seen(stack[p], z)' PROVE N'[z] # 0
    <3>1. p \in 1 .. Top /\ Seen(stack[p], z)
      BY <1>4, <1>6, <2>1
    <3>2. N[z] # 0
      BY <3>1 DEF DInv, SeenVisited
    <3> QED
      BY <1>1, <1>9, <3>2
  <2>2. \A u \in Finished' : rel'[u] \subseteq Finished'
    BY <1>3, <1>7, <1>10 DEF DInv, SeenVisited
  <2>3. ASSUME NEW i \in 1 .. Last', NEW p \in 1 .. Top', NEW q \in 1 .. Top',
               i < Last', InSegment(i, p)', Seen(stack[p], stack[q])'
        PROVE  q < Depth(i + 1)'
    <3>1. i + 1 \in 1 .. Last' /\ i \in 1 .. Last /\ i < Last
      BY <1>4, <2>3
    <3>2. InSegment(i, p) /\ Seen(stack[p], stack[q]) /\ p \in 1 .. Top /\ q \in 1 .. Top
      BY <1>4, <1>6, <1>13, <2>3
    <3>3. q < Depth(i + 1)
      BY <3>1, <3>2 DEF DInv, SeenVisited
    <3> QED
      BY <1>4, <3>1, <3>3
  <2> QED
    BY <2>1, <2>2, <2>3 DEF SeenVisited
<1>18. Connected'
  <2>1. ASSUME NEW i \in 1 .. Last', NEW p \in 1 .. Top', i < Last' => p < Depth(i + 1)'
        PROVE  Reaches(stack[p], NodeOf(i))
    <3>1. p < Depth(i + 1)
      <4>1. CASE i = Last'
        <5>1. i + 1 = Last /\ p < d
          BY <1>4, <1>6, <4>1
        <5> QED
          BY <5>1 DEF d
      <4>2. CASE i < Last'
        <5>1. i + 1 \in 1 .. Last'
          BY <1>4, <4>2
        <5> QED
          BY <1>4, <2>1, <4>2, <5>1
      <4> QED
        BY <1>4, <4>1, <4>2
    <3>2. i \in 1 .. Last /\ p \in 1 .. Top
      BY <1>4, <1>6
    <3> QED
      BY <3>1, <3>2 DEF DInv, Connected
  <2>2. ASSUME NEW i \in 1 .. Last', NEW p \in Depth(i) .. Top' PROVE Reaches(NodeOf(i), stack[p])
    <3>1. p \in Depth(i) .. Top /\ i \in 1 .. Last
      BY <1>1, <1>4, <1>5, <1>6, <1>12
    <3> QED
      BY <3>1 DEF DInv, Connected
  <2>3. ASSUME NEW p \in 1 .. Top' PROVE Reaches(stack[p], stack'[N'[stack[p]]])
    <3>1. N'[stack[p]] = N[stack[p]] /\ N[stack[p]] \in 1 .. p /\ p \in 1 .. Top
      BY <1>1, <1>6, <1>11 DEF StackWF
    <3>2. N[stack[p]] \in 1 .. Top'
      BY <1>1, <1>5, <1>6, <3>1
    <3>3. Reaches(stack[p], stack[N[stack[p]]])
      BY <3>1 DEF DInv, Connected
    <3> QED
      BY <1>6, <3>1, <3>2, <3>3
  <2>4. ASSUME NEW i \in 1 .. Last', NEW p \in Depth(i) .. Top' PROVE p \in 1 .. Top'
    <3>1. Depth(i) \in 1 .. Top'
      BY <1>12
    <3> QED
      BY <3>1
  <2>5. ASSUME NEW i \in 1 .. Last', NEW p \in 1 .. Top', i < Last' => p < Depth(i + 1)'
        PROVE  Reaches(stack[p], NodeOf(i))'
    BY <1>4, <1>6, <1>7, <2>1, <2>5
  <2>6. ASSUME NEW i \in 1 .. Last', NEW p \in (Depth(i) .. Top)' PROVE Reaches(NodeOf(i), stack[p])'
    <3>1. p \in Depth(i) .. Top'
      BY <1>4, <2>6
    <3> QED
      BY <1>4, <1>6, <1>7, <2>2, <2>4, <3>1
  <2>7. ASSUME NEW p \in 1 .. Top' PROVE Reaches(stack[p], stack[N[stack[p]]])'
    BY <1>6, <1>7, <2>3, <2>7
  <2> QED
    BY <2>5, <2>6, <2>7 DEF Connected
<1>19. LowAccounted'
  <2> SUFFICES ASSUME NEW i \in 1 .. Last', NEW p \in 1 .. Top', NEW q \in 1 .. Top',
                      InSegment(i, p)', Seen(stack[p], stack[q])'
               PROVE  \E w \in Accounts(i)' : N'[w] <= q
    BY DEF LowAccounted
  <2>1. InSegment(i, p) /\ Seen(stack[p], stack[q]) /\ p \in 1 .. Top /\ q \in 1 .. Top /\ i \in 1 .. Last
    BY <1>4, <1>6, <1>13
  <2>2. \E w \in Accounts(i) : N[w] <= q
    BY <2>1 DEF DInv, LowAccounted
  <2>3. N[NodeOf(i)] <= q
    BY <1>4, <2>2
  <2> QED
    BY <1>4, <1>12, <2>3
<1>20. SetsSound(All)'
  <2>1. ASSUME NEW u \in All PROVE base[u] \subseteq read'[u] /\ read'[u] \subseteq Sum(u)
    <3>1. CASE u \in C
      BY <1>1, <1>9, <3>1, BaseInSum
    <3>2. CASE u \notin C
      BY <1>9, <3>2 DEF DInv, SetsSound
    <3> QED
      BY <3>1, <3>2
  <2>2. ASSUME NEW u \in Finished \union C PROVE read'[u] = Sum(u)
    <3>1. CASE u \in C
      BY <1>3, <1>9, <3>1
    <3>2. CASE u \in Finished
      <4>1. u \in All /\ u \notin C
        BY <1>1, <1>3, <3>2 DEF Finished
      <4> QED
        BY <1>9, <3>2, <4>1 DEF DInv, SetsSound
    <3> QED
      BY <3>1, <3>2
  <2> QED
    BY <1>7, <1>10, <2>1, <2>2 DEF SetsSound
<1>21. SetsAccounted'
  <2> SUFFICES ASSUME NEW i \in 1 .. Last', NEW p \in 1 .. Top', InSegment(i, p)'
               PROVE  /\ \A e \in base[stack[p]] : e \in read[NodeOf(i)]
                      /\ \A z \in Finished \union C : Seen(stack[p], z) =>
                            \A e \in read'[z] : e \in read[NodeOf(i)]
    <3>1. \A i \in 1 .. Last' : \A e : e \in read[NodeOf(i)] => \E w \in Accounts(i)' : e \in read'[w]
      BY <1>4, <1>12
    <3>2. \A p \in 1 .. Top' : \A z : Seen(stack[p], z)' <=> Seen(stack[p], z)
      BY <1>4, <1>6
    <3> QED
      BY <1>6, <1>7, <1>10, <3>1, <3>2 DEF SetsAccounted
  <2>1. InSegment(i, p) /\ p \in 1 .. Top /\ i \in 1 .. Last /\ i < Last
    BY <1>4, <1>6, <1>13
  <2>2. /\ \A e \in base[stack[p]] : e \in read[NodeOf(i)]
        /\ \A z \in Finished : Seen(stack[p], z) => \A e \in read[z] : e \in read[NodeOf(i)]
    BY <1>4, <2>1 DEF DInv, SetsAccounted
  <2>3. ASSUME NEW z \in Finished \union C, Seen(stack[p], z), NEW e \in read'[z] PROVE e \in read[NodeOf(i)]
    <3>1. CASE z \in Finished
      <4>1. z \in All /\ z \notin C
        BY <1>1, <1>3, <3>1 DEF Finished
      <4> QED
        BY <1>9, <2>2, <2>3, <3>1, <4>1
    <3>2. CASE z \in C
      <4>1. PICK q \in d .. Top : z = stack[q]
        BY <1>3, <3>2
      <4>2. q \in 1 .. Top
        BY <1>1, <1>5, <4>1
      <4>3. q < Depth(i + 1)
        BY <2>1, <2>3, <4>1, <4>2 DEF DInv, SeenVisited
      <4>4. Depth(i + 1) <= d
        BY <1>1, <2>1, OuterSegments DEF d
      <4>5. Depth(i + 1) \in Nat
        <5>1. i + 1 \in 1 .. Last
          BY <1>4, <2>1
        <5> QED
          BY <1>1, <5>1, Basics
      <4> QED
        BY <1>1, <1>5, <4>2, <4>3, <4>4, <4>5
    <3> QED
      BY <3>1, <3>2
  <2> QED
    BY <2>2, <2>3
<1> QED
  BY <1>9, <1>10, <1>14, <1>15, <1>16, <1>17, <1>18, <1>19, <1>20, <1>21 DEF DInv, C

LEMMA DInductive ==
    ASSUME NEW All, DInv(All), [Next]_vars
    PROVE  /\ DInv(All)'
           /\ ReturnComponent \/ (Finished' = Finished /\ \A z \in Finished : read'[z] = read[z])
           /\ rel' = rel /\ base' = base
<1>1. rel' = rel /\ base' = base
  BY DEF Next, vars, StartRoot, StartAt, Descend, Enter, Merge, ReturnInside, ReturnComponent
<1>2. CASE StartRoot
  <2>1. PICK x \in All : Enter(x) /\ Pushed(All, x)
    BY <1>2, StartPushes DEF StartRoot
  <2> QED
    BY <1>1, <2>1, PushInv DEF Enter
<1>3. CASE Descend
  <2>1. PICK x \in All : Enter(x) /\ Pushed(All, x)
    BY <1>3, DescendPushes
  <2> QED
    BY <1>1, <2>1, PushInv DEF Enter
<1>4. CASE Merge
  BY <1>1, <1>4, MergeInv
<1>5. CASE ReturnInside
  BY <1>1, <1>5, ReturnInsideInv
<1>6. CASE ReturnComponent
  BY <1>1, <1>6, ReturnComponentInv
<1>7. CASE UNCHANGED vars
  <2>1. UNCHANGED <<rel, base, read, N, stack, calls>>
    BY <1>7 DEF vars
  <2>2. /\ Top' = Top /\ Last' = Last /\ Infinity' = Infinity /\ Finished' = Finished
        /\ \A i : NodeOf(i)' = NodeOf(i) /\ Depth(i)' = Depth(i) /\ Pending(i)' = Pending(i)
        /\ \A u, z : Reaches(u, z)' <=> Reaches(u, z)
        /\ \A u : Sum(u)' = Sum(u)
    BY <2>1, ReachKept DEF Top, Last, Infinity, Finished, Nodes, NodeOf, Depth, Pending
  <2>3. /\ \A i, p : InSegment(i, p)' <=> InSegment(i, p)
        /\ \A u, z : Seen(u, z)' <=> Seen(u, z)
        /\ \A i : Accounts(i)' = Accounts(i)
    BY <2>1, <2>2 DEF InSegment, Seen, Accounts
  <2>4. Typed(All)' /\ StackWF(All)' /\ CallsWF'
    BY <2>1, <2>2 DEF DInv, Typed, StackWF, CallsWF
  <2>5. SeenVisited(All)' /\ Connected' /\ LowAccounted'
    BY <2>1, <2>2, <2>3 DEF DInv, SeenVisited, Connected, LowAccounted
  <2>6. SetsSound(All)' /\ SetsAccounted'
    BY <2>1, <2>2, <2>3 DEF DInv, SetsSound, SetsAccounted
  <2> QED
    BY <1>1, <2>1, <2>2, <2>4, <2>5, <2>6 DEF DInv
<1> QED
  BY <1>2, <1>3, <1>4, <1>5, <1>6, <1>7 DEF Next

LEMMA InitDInv == Init => DInv(Node)
<1> SUFFICES ASSUME Init PROVE DInv(Node)
  OBVIOUS
<1>1. base \in [Node -> SUBSET Elem]
  BY DEF Init
<1> QED
  BY <1>1, StartInv, NodeAssumption DEF Init

(* Every step of the traversal is a step of Components or leaves what      *)
(* Components sees alone: a component is finished when its root returns.   *)
LEMMA StepRefines ==
    ASSUME DInv(Node), [Next]_vars
    PROVE  [Abstract!Next]_(Abstract!vars)
<1> DEFINE value == [y \in Nodes |-> IF y \in Finished THEN read[y] ELSE {}]
<1>1. Nodes = Node /\ Nodes' = Node /\ rel' = rel /\ base' = base /\ rel \in [Node -> SUBSET Node]
  BY DInductive, Basics DEF DInv, Typed, Nodes
<1>2. \A y \in Finished : y \in Node
  BY <1>1 DEF Finished
<1>3. CASE ReturnComponent
  <2>1. /\ Finished' = Finished \union Component
        /\ \A y \in Node : read'[y] = IF y \in Component THEN Sum(y) ELSE read[y]
    BY <1>3, ReturnComponentInv
  <2>2. /\ Component \subseteq Node /\ NodeOf(Last) \in Component /\ Component \intersect Finished = {}
        /\ \A u, v \in Component : Reaches(u, v)
        /\ \A u \in Component : rel[u] \subseteq Finished \union Component
    BY <1>3, ComponentFacts DEF ReturnComponent
  <2>3. \A u \in Finished : rel[u] \subseteq Finished
    BY DEF DInv, SeenVisited
  <2>4. value' = [y \in Node |-> IF y \in Component THEN Sum(y) ELSE value[y]]
    <3>1. value' = [y \in Node |-> IF y \in Finished' THEN read'[y] ELSE {}]
      BY <1>1
    <3>2. \A y \in Node : (IF y \in Finished' THEN read'[y] ELSE {}) = IF y \in Component THEN Sum(y) ELSE value[y]
      BY <1>1, <2>1
    <3> QED
      BY <3>1, <3>2
  <2>5. DOMAIN value = Node /\ DOMAIN rel = Node
    BY <1>1
  <2> HIDE DEF value
  <2>6. PICK C : C = Component
    OBVIOUS
  <2>7. Abstract!Complete(C)
    <3>1. Abstract!Closed(rel, Finished \union C)
      BY <2>2, <2>3, <2>6 DEF Abstract!Closed
    <3>2. \A u, v \in C : v \in Abstract!Reach(rel, u)
      BY <2>2, <2>6 DEF Reaches
    <3>3. value' = [y \in DOMAIN value |-> IF y \in C THEN Abstract!Total(rel, base, y) ELSE value[y]]
      BY <2>4, <2>5, <2>6 DEF Sum
    <3> QED
      BY <1>1, <2>1, <2>2, <2>6, <3>1, <3>2, <3>3 DEF Abstract!Complete, value
  <2>8. Abstract!Next
    BY <2>2, <2>5, <2>6, <2>7 DEF Abstract!Next
  <2> QED
    BY <2>8
<1>4. CASE Finished' = Finished /\ \A z \in Finished : read'[z] = read[z]
  <2>1. value' = value
    BY <1>1, <1>2, <1>4
  <2> HIDE DEF value
  <2> QED
    BY <1>1, <1>4, <2>1 DEF Abstract!vars, value
<1> QED
  BY <1>3, <1>4, DInductive

LEMMA InitRefines == Init => Abstract!Init
<1> SUFFICES ASSUME Init PROVE Abstract!Init
  OBVIOUS
<1>1. rel \in [Node -> SUBSET Node] /\ base \in [Node -> SUBSET Elem] /\ Nodes = Node /\ N = [x \in Node |-> 0]
  BY DEF Init, Clear, Nodes
<1>2. Infinity # 0
  BY InitDInv, Basics DEF DInv
<1>3. Finished = {}
  BY <1>1, <1>2 DEF Finished
<1>4. [x \in Nodes |-> IF x \in Finished THEN read[x] ELSE {}] = [x \in Node |-> {}]
  BY <1>1, <1>3
<1> QED
  BY <1>1, <1>3, <1>4 DEF Abstract!Init

LEMMA DInvHolds == Spec => []DInv(Node)
<1>1. DInv(Node) /\ [Next]_vars => DInv(Node)'
  BY DInductive
<1> QED
  BY <1>1, InitDInv, PTL DEF Spec

(* The safety part of FinishesComponents, for any finite set of nodes: the *)
(* traversal finishes components in an order of the condensation, each     *)
(* node of one with the sum of the sets of all the nodes it reaches.       *)
THEOREM ImplementsComponents == Spec => Abstract!Init /\ [][Abstract!Next]_(Abstract!vars)
<1>1. DInv(Node) /\ [Next]_vars => [Abstract!Next]_(Abstract!vars)
  BY StepRefines
<1> QED
  BY <1>1, InitRefines, DInvHolds, PTL DEF Spec

(* The theorem of DeRemer and Pennello: when digraph() returns, the set of *)
(* every node is the union of the initial sets of the nodes it reaches.    *)
LEMMA DoneResult ==
    ASSUME NEW All, DInv(All), Done
    PROVE  stack = <<>> /\ \A x \in All : read[x] = Abstract!Total(rel, base, x)
<1>1. Top = 0 /\ Nodes = All
  <2>1. Last = 0 /\ Top \in Nat /\ Nodes = All
    BY Basics DEF Done, Last, DInv
  <2> QED
    BY <2>1 DEF DInv, CallsWF
<1>2. stack = <<>>
  BY <1>1, EmptySeq DEF Top, DInv, Typed
<1>3. ASSUME NEW x \in All PROVE read[x] = Sum(x)
  <2>1. N[x] # 0
    BY <1>1 DEF Done
  <2>2. N[x] = Infinity
    BY <1>1, <2>1 DEF DInv, StackWF
  <2>3. x \in Finished
    BY <2>2, Basics DEF Finished, DInv
  <2> QED
    BY <2>3 DEF DInv, SetsSound
<1> QED
  BY <1>2, <1>3 DEF Sum

THEOREM DigraphResult ==
    Spec => [](Done => \A x \in Node : read[x] = Abstract!Total(rel, base, x))
<1>1. DInv(Node) => (Done => \A x \in Node : read[x] = Abstract!Total(rel, base, x))
  BY DoneResult
<1> QED
  BY <1>1, DInvHolds, PTL

(* N stays between 0 and Infinity and the depths below Infinity: a depth   *)
(* is never mistaken for the mark of a finished node.                      *)
LEMMA TypesOf == ASSUME NEW All, DInv(All) PROVE TypeOK
<1> DEFINE T == [node : All, depth : 1 .. Infinity - 1, todo : SUBSET All, waiting : SUBSET All]
<1>1. /\ Typed(All) /\ StackWF(All) /\ CallsWF /\ Nodes = All /\ Top \in Nat /\ Last \in Nat
      /\ Infinity = Cardinality(All) + 1 /\ Cardinality(All) \in Nat /\ Top <= Cardinality(All)
  BY Basics, StackBound DEF DInv
<1>2. ASSUME NEW x \in All PROVE N[x] \in 0 .. Infinity
  <2>1. CASE \E p \in 1 .. Top : stack[p] = x
    BY <1>1, <2>1 DEF StackWF
  <2>2. CASE N[x] = 0 \/ N[x] = Infinity
    BY <1>1, <2>2
  <2> QED
    BY <1>1, <2>1, <2>2 DEF StackWF
<1>3. ASSUME NEW i \in 1 .. Last PROVE calls[i] \in T
  <2>1. calls[i] \in Frames(All) /\ Depth(i) \in 1 .. Top
    BY <1>1, Basics, CallBasics
  <2>2. calls[i].depth \in 1 .. Infinity - 1
    BY <1>1, <2>1 DEF Depth
  <2> QED
    BY <2>1, <2>2 DEF Frames
<1> HIDE DEF T
<1>4. calls \in Seq(T)
  <2>1. DOMAIN calls = 1 .. Last /\ calls \in [1 .. Last -> Frames(All)]
    BY <1>1, LenProperties DEF Typed, Last
  <2>2. calls \in [1 .. Last -> T]
    BY <1>3, <2>1
  <2> QED
    BY <1>1, <2>2, SeqDef
<1>5. N \in [All -> 0 .. Infinity]
  BY <1>1, <1>2 DEF Typed
<1> QED
  BY <1>1, <1>4, <1>5 DEF TypeOK, Typed, T

THEOREM TypeCorrect == Spec => []TypeOK
<1>1. DInv(Node) => TypeOK
  BY TypesOf
<1> QED
  BY <1>1, DInvHolds, PTL
=============================================================================
