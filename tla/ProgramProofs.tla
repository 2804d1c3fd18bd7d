----------------------------- MODULE ProgramProofs ----------------------------
(***************************************************************************)
(* Proofs about the programs that stand alone: the list and the programs   *)
(* beside it in SmallPrograms, and the dining philosophers.  Each part has *)
(* an inductive invariant and the theorems that follow from it.            *)
(***************************************************************************)
EXTENDS Dining, SmallPrograms, Sequences, FiniteSetTheorems, FunctionTheorems,
        SequenceTheorems, WellFoundedInduction, TLAPS

-----------------------------------------------------------------------------
(* The doubly linked list, for any number of nodes.                        *)

(* The instance counts as we do.                                           *)
LEMMA ListCardinality == \A S : List!Cardinality(S) = Cardinality(S)
BY DEF List!Cardinality, Cardinality

(* What a search from the front finds exists.                              *)
LEMMA LeastNumber ==
    ASSUME NEW S \in SUBSET Nat, S # {}
    PROVE  \E m \in S : \A k \in S : m <= k
<1> DEFINE R == {ss \in Nat \X Nat : ss[1] < ss[2]}
<1>1. IsWellFoundedOn(R, Nat)
    BY NatLessThanWellFounded DEF OpToRel
<1>2. \A j, k \in Nat : <<j, k>> \in R <=> j < k
    OBVIOUS
<1> HIDE DEF R
<1>3. PICK m \in S : \A k \in S : ~ (<<k, m>> \in R)
    BY <1>1, WFMin
<1>4. ASSUME NEW k \in S PROVE m <= k
    <2>1. k \in Nat /\ m \in Nat
        OBVIOUS
    <2>2. ~ (k < m)
        BY <1>2, <1>3, <2>1
    <2> QED
        BY <2>1, <2>2
<1> QED
    BY <1>4

(* Induction, for a set of numbers.                                        *)
LEMMA AllNumbers ==
    ASSUME NEW S \in SUBSET Nat, 0 \in S, \A k \in S : k + 1 \in S
    PROVE  S = Nat
<1> SUFFICES ASSUME Nat \ S # {} PROVE FALSE
    OBVIOUS
<1>1. PICK m \in Nat \ S : \A k \in Nat \ S : m <= k
    BY LeastNumber
<1>2. m # 0 /\ m - 1 \in Nat
    BY <1>1
<1>3. m - 1 \in S
    BY <1>1, <1>2
<1> QED
    BY <1>1, <1>2, <1>3

-----------------------------------------------------------------------------
RightOf(nodes, n) == IF n = NIL THEN NIL ELSE nodes[n].right

(* The first steps of a walk.                                              *)
Begins(nodes, first, n, w) ==
    w = [k \in 0 .. n |-> IF k = 0 THEN first ELSE RightOf(nodes, w[k - 1])]

(* A walk can be begun with any number of steps.                           *)
LEMMA BeginsExist ==
    ASSUME NEW nodes, NEW first
    PROVE  \A n \in Nat : \E w : Begins(nodes, first, n, w)
<1> DEFINE S == {n \in Nat : \E w : Begins(nodes, first, n, w)}
<1>1. 0 \in S
    <2> DEFINE w == [k \in 0 .. 0 |-> first]
    <2>1. Begins(nodes, first, 0, w)
        BY DEF Begins
    <2> QED
        BY <2>1
<1>2. ASSUME NEW n \in S PROVE n + 1 \in S
    <2>1. PICK w : Begins(nodes, first, n, w)
        OBVIOUS
    <2> DEFINE v == [k \in 0 .. n + 1 |-> IF k <= n THEN w[k] ELSE RightOf(nodes, w[n])]
    <2>2. ASSUME NEW k \in 0 .. n + 1
          PROVE  v[k] = IF k = 0 THEN first ELSE RightOf(nodes, v[k - 1])
        BY <2>1 DEF Begins
    <2>3. Begins(nodes, first, n + 1, v)
        <3>1. v = [k \in 0 .. n + 1 |-> v[k]]
            OBVIOUS
        <3> HIDE DEF v
        <3> QED
            BY <2>2, <3>1 DEF Begins
    <2> QED
        BY <2>3
<1> HIDE DEF S
<1>3. S = Nat
    <2>1. S \in SUBSET Nat
        BY DEF S
    <2> QED
        BY <1>1, <1>2, <2>1, AllNumbers
<1> QED
    BY <1>3 DEF S

(* Two beginnings of the same walk agree as far as both go.                *)
LEMMA BeginsUnique ==
    ASSUME NEW nodes, NEW first, NEW n \in Nat, NEW m \in Nat, NEW w, NEW v,
           Begins(nodes, first, n, w), Begins(nodes, first, m, v)
    PROVE  \A k \in 0 .. n : k <= m => w[k] = v[k]
<1> DEFINE S == {k \in Nat : k <= n /\ k <= m => w[k] = v[k]}
<1>1. 0 \in S
    BY DEF Begins
<1>2. ASSUME NEW k \in S PROVE k + 1 \in S
    BY DEF Begins
<1> HIDE DEF S
<1>3. S = Nat
    <2>1. S \in SUBSET Nat
        BY DEF S
    <2> QED
        BY <1>1, <1>2, <2>1, AllNumbers
<1> QED
    BY <1>3 DEF S

(* The walk is what its equation says.                                     *)
LEMMA WalkSteps ==
    ASSUME NEW nodes, NEW first
    PROVE  /\ List!WalkFrom(nodes, first)[0] = first
           /\ \A k \in Nat : List!WalkFrom(nodes, first)[k + 1]
                             = RightOf(nodes, List!WalkFrom(nodes, first)[k])
<1> DEFINE Start(n) == CHOOSE w : Begins(nodes, first, n, w)
           W == [n \in Nat |-> Start(n)[n]]
           Is(walk) == walk = [k \in Nat |-> IF k = 0 THEN first
                                             ELSE LET n == walk[k - 1]
                                                  IN IF n = NIL THEN NIL ELSE nodes[n].right]
<1>1. \A n \in Nat : Begins(nodes, first, n, Start(n))
    BY BeginsExist
<1> HIDE DEF Start
<1>2. W[0] = first
    BY <1>1 DEF Begins
<1>3. ASSUME NEW n \in Nat PROVE W[n + 1] = RightOf(nodes, W[n])
    <2>1. Start(n + 1)[n + 1] = RightOf(nodes, Start(n + 1)[n])
        BY <1>1 DEF Begins
    <2>2. Start(n + 1)[n] = Start(n)[n]
        BY <1>1, BeginsUnique
    <2> QED
        BY <2>1, <2>2
<1>4. Is(W)
    <2>1. W = [k \in Nat |-> W[k]]
        OBVIOUS
    <2>2. ASSUME NEW k \in Nat
          PROVE  W[k] = IF k = 0 THEN first
                        ELSE LET n == W[k - 1]
                             IN IF n = NIL THEN NIL ELSE nodes[n].right
        <3> HIDE DEF W
        <3>1. CASE k = 0
            BY <1>2, <3>1
        <3>2. CASE k # 0
            BY <1>3, <3>2 DEF RightOf
        <3> QED
            BY <3>1, <3>2
    <2> HIDE DEF W
    <2> QED
        BY <2>1, <2>2
<1> HIDE DEF W
<1>5. Is(List!WalkFrom(nodes, first))
    <2>1. List!WalkFrom(nodes, first) = CHOOSE walk : Is(walk)
        BY DEF List!WalkFrom
    <2> HIDE DEF Is
    <2> QED
        BY <1>4, <2>1
<1>6. ASSUME NEW walk, Is(walk)
      PROVE  walk[0] = first /\ \A k \in Nat : walk[k + 1] = RightOf(nodes, walk[k])
    BY <1>6 DEF RightOf
<1> QED
    BY <1>5, <1>6

-----------------------------------------------------------------------------
(* The inductive invariant names the nodes in their order, o[0] the first  *)
(* and o[n - 1] the last of them: they are all there are, each is there    *)
(* once, and every link and both ends agree with the order.                *)
At(o, n, k) == IF k \in 0 .. n - 1 THEN o[k] ELSE NIL

Laid(nodes, first, last, n, o) ==
    /\ n \in Nat
    /\ o \in [0 .. n - 1 -> DOMAIN nodes]
    /\ \A m \in DOMAIN nodes : \E k \in 0 .. n - 1 : o[k] = m
    /\ \A j, k \in 0 .. n - 1 : o[j] = o[k] => j = k
    /\ \A k \in 0 .. n - 1 : /\ nodes[o[k]].left = At(o, n, k - 1)
                             /\ nodes[o[k]].right = At(o, n, k + 1)
    /\ first = At(o, n, 0)
    /\ last = At(o, n, n - 1)

ListInv ==
    /\ List!TypeOK
    /\ \E o : Laid(heap, head, tail, size, o)

(* A walk goes through the nodes in their order, and then stays at NULL.   *)
LEMMA WalkInOrder ==
    ASSUME NEW nodes, DOMAIN nodes \subseteq Node, NEW first, NEW last, NEW n, NEW o,
           Laid(nodes, first, last, n, o)
    PROVE  \A k \in Nat : List!WalkFrom(nodes, first)[k] = At(o, n, k)
<1> DEFINE W == List!WalkFrom(nodes, first)
           S == {k \in Nat : W[k] = At(o, n, k)}
<1>0. NIL \notin Node
    BY SmallProgramsAssumption
<1>1. W[0] = first /\ \A k \in Nat : W[k + 1] = RightOf(nodes, W[k])
    BY WalkSteps
<1> HIDE DEF W
<1>2. 0 \in S
    BY <1>1 DEF Laid
<1>3. ASSUME NEW k \in S PROVE k + 1 \in S
    <2>0. n \in Nat /\ W[k] = At(o, n, k) /\ W[k + 1] = RightOf(nodes, W[k])
        BY <1>1 DEF Laid
    <2>1. CASE k < n
        <3>1. k \in 0 .. n - 1 /\ W[k] = o[k]
            BY <2>0, <2>1 DEF At
        <3>2. o[k] \in Node /\ nodes[o[k]].right = At(o, n, k + 1)
            BY <3>1 DEF Laid
        <3>3. W[k + 1] = At(o, n, k + 1)
            BY <1>0, <2>0, <3>1, <3>2 DEF RightOf
        <3> QED
            BY <3>3
    <2>2. CASE ~(k < n)
        BY <2>0, <2>2 DEF At, RightOf
    <2> QED
        BY <2>0, <2>1, <2>2
<1> HIDE DEF S
<1>4. S = Nat
    <2>1. S \in SUBSET Nat
        BY DEF S
    <2> QED
        BY <1>2, <1>3, <2>1, AllNumbers
<1> QED
    BY <1>4 DEF S, W

(* There are as many nodes as size says, and no more than addresses.       *)
LEMMA LaidSize ==
    ASSUME NEW nodes, DOMAIN nodes \subseteq Node, NEW first, NEW last, NEW n, NEW o,
           Laid(nodes, first, last, n, o)
    PROVE  /\ n = Cardinality(DOMAIN nodes)
           /\ n <= Cardinality(Node)
           /\ Cardinality(Node) \in Nat
<1>1. IsFiniteSet(Node)
    BY SmallProgramsAssumption
<1>2. /\ IsFiniteSet(DOMAIN nodes) /\ Cardinality(Node) \in Nat
      /\ Cardinality(DOMAIN nodes) <= Cardinality(Node)
    BY <1>1, FS_Subset, FS_CardinalityType
<1>3. n \in Nat
    BY DEF Laid
<1>4. o \in Injection(0 .. n - 1, DOMAIN nodes) /\ o \in Surjection(0 .. n - 1, DOMAIN nodes)
    BY DEF Laid, Injection, Surjection, IsInjective
<1>5. IsFiniteSet(0 .. n - 1) /\ Cardinality(0 .. n - 1) = n
    BY <1>3, FS_Interval
<1>6. Cardinality(0 .. n - 1) = Cardinality(DOMAIN nodes)
    BY <1>2, <1>4, FS_Injection
<1> QED
    BY <1>2, <1>5, <1>6

(* All nodes are met on the way.                                           *)
LEMMA VisitedAll ==
    ASSUME ListInv
    PROVE  List!Visited = DOMAIN heap
<1>0. PICK o : Laid(heap, head, tail, size, o)
    BY DEF ListInv
<1>1. DOMAIN heap \subseteq Node /\ NIL \notin Node
    BY SmallProgramsAssumption DEF ListInv, List!TypeOK
<1>2. \A k \in Nat : List!Walk[k] = At(o, size, k)
    BY <1>0, <1>1, WalkInOrder DEF List!Walk
<1>3. size \in Nat /\ size <= Cardinality(Node) /\ Cardinality(Node) \in Nat
    <2>1. size \in Nat
        BY <1>0 DEF Laid
    <2> QED
        BY <1>0, <1>1, <2>1, LaidSize
<1>4. \A k \in 0 .. Cardinality(Node) : List!Walk[k] = At(o, size, k)
    BY <1>2, <1>3
<1>5. ASSUME NEW m \in DOMAIN heap PROVE m \in List!Visited
    <2>1. PICK k \in 0 .. size - 1 : o[k] = m
        BY <1>0 DEF Laid
    <2>2. k \in 0 .. Cardinality(Node) /\ At(o, size, k) = m
        BY <1>3, <2>1 DEF At
    <2>3. List!Walk[k] = m /\ m # NIL
        BY <1>1, <1>4, <2>2
    <2> QED
        BY <2>2, <2>3, ListCardinality DEF List!Visited
<1>6. ASSUME NEW m \in List!Visited PROVE m \in DOMAIN heap
    <2>1. PICK k \in 0 .. Cardinality(Node) : m = List!Walk[k] /\ m # NIL
        BY ListCardinality DEF List!Visited
    <2>2. m = At(o, size, k)
        BY <1>4, <2>1
    <2>3. k \in 0 .. size - 1 /\ m = o[k]
        BY <2>1, <2>2 DEF At
    <2> QED
        BY <1>0, <2>3 DEF Laid
<1> QED
    BY <1>5, <1>6

(* What the invariant says of the links is what the run checks.            *)
LEMMA ListImplies == ListInv => Mirrored
<1> SUFFICES ASSUME ListInv PROVE List!Mirrored
    BY DEF Mirrored
<1>0. PICK o : Laid(heap, head, tail, size, o)
    BY DEF ListInv
<1>1. List!TypeOK /\ DOMAIN heap \subseteq Node /\ NIL \notin Node
    BY SmallProgramsAssumption DEF ListInv, List!TypeOK
<1>2. ASSUME NEW n \in DOMAIN heap
      PROVE  /\ IF heap[n].right = NIL THEN n = tail ELSE heap[heap[n].right].left = n
             /\ IF heap[n].left = NIL THEN n = head ELSE heap[heap[n].left].right = n
    <2>1. PICK k \in 0 .. size - 1 : o[k] = n
        BY <1>0 DEF Laid
    <2>2. size \in Nat /\ \A j \in 0 .. size - 1 : o[j] # NIL
        BY <1>0, <1>1 DEF Laid
    <2>3. heap[n].right = At(o, size, k + 1) /\ heap[n].left = At(o, size, k - 1)
        BY <1>0, <2>1 DEF Laid
    <2>4. CASE k = size - 1
        BY <1>0, <2>1, <2>2, <2>3, <2>4 DEF Laid, At
    <2>5. CASE k # size - 1
        <3>1. k + 1 \in 0 .. size - 1 /\ k \in 0 .. size - 1 /\ heap[n].right = o[k + 1]
            BY <2>1, <2>2, <2>3, <2>5 DEF At
        <3>2. heap[o[k + 1]].left = At(o, size, k)
            <4>1. \A j \in 0 .. size - 1 : heap[o[j]].left = At(o, size, j - 1)
                BY <1>0 DEF Laid
            <4>2. heap[o[k + 1]].left = At(o, size, k + 1 - 1) /\ k + 1 - 1 = k
                BY <3>1, <4>1
            <4> QED
                BY <4>2
        <3>3. heap[heap[n].right].left = n /\ heap[n].right # NIL
            BY <2>1, <2>2, <3>1, <3>2 DEF At
        <3>4. CASE k = 0
            BY <1>0, <2>1, <2>2, <2>3, <3>3, <3>4 DEF Laid, At
        <3>5. CASE k # 0
            <4>1. k - 1 \in 0 .. size - 1 /\ heap[n].left = o[k - 1]
                BY <2>1, <2>2, <2>3, <3>5 DEF At
            <4>2. \A j \in 0 .. size - 1 : heap[o[j]].right = At(o, size, j + 1)
                BY <1>0 DEF Laid
            <4>3. heap[o[k - 1]].right = At(o, size, k - 1 + 1) /\ k - 1 + 1 = k
                BY <4>1, <4>2
            <4>4. heap[heap[n].left].right = n /\ heap[n].left # NIL
                BY <2>1, <2>2, <4>1, <4>3 DEF At
            <4> QED
                BY <3>3, <4>4
        <3> QED
            BY <3>4, <3>5
    <2> QED
        BY <2>4, <2>5
<1>3. List!Visited = DOMAIN heap
    BY VisitedAll
<1>4. size = Cardinality(DOMAIN heap)
    BY <1>0, <1>1, LaidSize
<1>5. List!Walk[size] = NIL
    <2>1. \A k \in Nat : List!Walk[k] = At(o, size, k)
        BY <1>0, <1>1, WalkInOrder DEF List!Walk
    <2>2. size \in Nat
        BY <1>0 DEF Laid
    <2> QED
        BY <2>1, <2>2 DEF At
<1> QED
    BY <1>1, <1>2, <1>3, <1>4, <1>5, ListCardinality DEF List!Mirrored
-----------------------------------------------------------------------------
(* The order after a node is put in at position j, or taken out there.     *)
Put(o, n, j, m) == [k \in 0 .. n |-> IF k < j THEN o[k] ELSE IF k = j THEN m ELSE o[k - 1]]
Cut(o, n, j)    == [k \in 0 .. n - 2 |-> IF k < j THEN o[k] ELSE o[k + 1]]

(* A node linked in at place j lies between its neighbours.                *)
LEMMA LaidPut ==
    ASSUME NEW nodes, NEW first, NEW last, NEW n, NEW o, Laid(nodes, first, last, n, o),
           NEW j \in 0 .. n, NEW m, m \notin DOMAIN nodes,
           NEW new, DOMAIN new = DOMAIN nodes \cup {m},
           new[m].left = At(o, n, j - 1), new[m].right = At(o, n, j),
           \A k \in 0 .. n - 1 :
               /\ new[o[k]].left = IF k = j THEN m ELSE At(o, n, k - 1)
               /\ new[o[k]].right = IF k = j - 1 THEN m ELSE At(o, n, k + 1)
    PROVE  Laid(new, IF j = 0 THEN m ELSE first, IF j = n THEN m ELSE last,
                n + 1, Put(o, n, j, m))
<1> DEFINE p == Put(o, n, j, m)
<1>1. /\ n \in Nat /\ o \in [0 .. n - 1 -> DOMAIN nodes]
      /\ first = At(o, n, 0) /\ last = At(o, n, n - 1)
    BY DEF Laid
<1>2. /\ \A k \in 0 .. n : k < j => k \in 0 .. n - 1 /\ p[k] = o[k]
      /\ \A k \in 0 .. n : k > j => k - 1 \in 0 .. n - 1 /\ p[k] = o[k - 1]
      /\ p[j] = m
      /\ p = [k \in 0 .. n |-> p[k]]
    BY <1>1 DEF Put
<1>3. /\ \A k \in 0 .. n : k < j => At(p, n + 1, k) = At(o, n, k)
      /\ \A k \in 0 .. n + 1 : k > j => At(p, n + 1, k) = At(o, n, k - 1)
      /\ At(p, n + 1, j) = m
      /\ At(p, n + 1, -1) = NIL /\ At(o, n, -1) = NIL
    BY <1>1, <1>2 DEF At
<1> HIDE DEF p
<1>4. p \in [0 .. n + 1 - 1 -> DOMAIN new]
    BY <1>1, <1>2
<1>5. ASSUME NEW q \in DOMAIN new PROVE \E k \in 0 .. n + 1 - 1 : p[k] = q
    <2>1. CASE q = m
        BY <1>1, <1>2, <2>1
    <2>2. CASE q # m
        <3>1. PICK k \in 0 .. n - 1 : o[k] = q
            BY <2>2 DEF Laid
        <3>2. CASE k < j
            <4>1. k \in 0 .. n /\ p[k] = o[k]
                BY <1>1, <1>2, <3>1, <3>2
            <4> QED
                BY <1>1, <3>1, <4>1
        <3>3. CASE ~(k < j)
            <4>1. k + 1 \in 0 .. n /\ k + 1 > j /\ k + 1 - 1 = k
                BY <1>1, <3>3
            <4>2. p[k + 1] = o[k]
                BY <1>2, <4>1
            <4> QED
                BY <1>1, <3>1, <4>1, <4>2
        <3> QED
            BY <3>2, <3>3
    <2> QED
        BY <2>1, <2>2
<1>6. ASSUME NEW a \in 0 .. n + 1 - 1, NEW b \in 0 .. n + 1 - 1, p[a] = p[b] PROVE a = b
    <2>1. \A c, d \in 0 .. n - 1 : o[c] = o[d] => c = d
        BY DEF Laid
    <2>2. \A c \in 0 .. n - 1 : o[c] # m
        BY <1>1
    <2>3. a \in 0 .. n /\ b \in 0 .. n /\ n \in Nat
        BY <1>1
    <2>4. /\ a < j => a \in 0 .. n - 1 /\ p[a] = o[a]
          /\ a > j => a - 1 \in 0 .. n - 1 /\ p[a] = o[a - 1]
          /\ a = j => p[a] = m
        BY <1>2, <2>3
    <2>5. /\ b < j => b \in 0 .. n - 1 /\ p[b] = o[b]
          /\ b > j => b - 1 \in 0 .. n - 1 /\ p[b] = o[b - 1]
          /\ b = j => p[b] = m
        BY <1>2, <2>3
    <2>6. CASE a < j
        BY <1>6, <2>1, <2>2, <2>3, <2>4, <2>5, <2>6
    <2>7. CASE a = j
        BY <1>6, <2>1, <2>2, <2>3, <2>4, <2>5, <2>7
    <2>8. CASE a > j
        BY <1>6, <2>1, <2>2, <2>3, <2>4, <2>5, <2>8
    <2> QED
        BY <2>3, <2>6, <2>7, <2>8
<1>7. ASSUME NEW k \in 0 .. n + 1 - 1
      PROVE  /\ new[p[k]].left = At(p, n + 1, k - 1)
             /\ new[p[k]].right = At(p, n + 1, k + 1)
    <2>0. k \in 0 .. n
        BY <1>1
    <2>1. CASE k < j
        <3>1. k \in 0 .. n - 1 /\ p[k] = o[k] /\ k # j
            BY <1>1, <1>2, <2>0, <2>1
        <3>2. new[p[k]].left = At(o, n, k - 1)
            BY <3>1
        <3>3. At(p, n + 1, k - 1) = At(o, n, k - 1)
            BY <1>1, <1>3, <2>1, <3>1
        <3>4. CASE k = j - 1
            BY <1>1, <1>3, <3>1, <3>2, <3>3, <3>4
        <3>5. CASE k # j - 1
            <4>1. k + 1 \in 0 .. n /\ k + 1 < j
                BY <1>1, <2>1, <3>1, <3>5
            <4>2. At(p, n + 1, k + 1) = At(o, n, k + 1)
                BY <1>3, <4>1
            <4> QED
                BY <3>1, <3>2, <3>3, <3>5, <4>2
        <3> QED
            BY <3>4, <3>5
    <2>2. CASE k = j
        <3>1. p[k] = m
            BY <1>2, <2>2
        <3>2. At(p, n + 1, k - 1) = At(o, n, j - 1)
            <4>1. CASE j = 0
                BY <1>3, <2>2, <4>1
            <4>2. CASE j # 0
                BY <1>1, <1>3, <2>2, <4>2
            <4> QED
                BY <4>1, <4>2
        <3>3. At(p, n + 1, k + 1) = At(o, n, j)
            <4>1. k + 1 \in 0 .. n + 1 /\ k + 1 > j /\ k + 1 - 1 = j
                BY <1>1, <2>2
            <4> QED
                BY <1>3, <4>1
        <3> QED
            BY <3>1, <3>2, <3>3
    <2>3. CASE k > j
        <3> DEFINE i == k - 1
        <3>1. i \in 0 .. n - 1 /\ p[k] = o[i] /\ i # j - 1
            BY <1>1, <1>2, <2>0, <2>3
        <3>2. new[p[k]].right = At(o, n, i + 1) /\ i + 1 = k
            BY <3>1
        <3>3. At(p, n + 1, k + 1) = At(o, n, k)
            <4>1. k + 1 \in 0 .. n + 1 /\ k + 1 > j /\ k + 1 - 1 = k
                BY <1>1, <2>3, <2>0
            <4> QED
                BY <1>3, <4>1
        <3>4. CASE i = j
            BY <1>1, <1>3, <3>1, <3>2, <3>3, <3>4
        <3>5. CASE i # j
            <4>1. new[p[k]].left = At(o, n, i - 1)
                BY <3>1, <3>5
            <4>2. i \in 0 .. n + 1 /\ i > j
                BY <1>1, <2>3, <3>1, <3>5
            <4>3. At(p, n + 1, i) = At(o, n, i - 1)
                BY <1>3, <4>2
            <4> QED
                BY <3>2, <3>3, <4>1, <4>3
        <3> QED
            BY <3>4, <3>5
    <2> QED
        BY <1>1, <2>0, <2>1, <2>2, <2>3
<1>8. (IF j = 0 THEN m ELSE first) = At(p, n + 1, 0)
    BY <1>1, <1>3
<1>9. (IF j = n THEN m ELSE last) = At(p, n + 1, n + 1 - 1)
    BY <1>1, <1>3
<1>10. n + 1 \in Nat
    BY <1>1
<1> QED
    BY <1>4, <1>5, <1>6, <1>7, <1>8, <1>9, <1>10 DEF Laid, p

(* Linking the neighbours of place j past it leaves the others in order.   *)
LEMMA LaidCut ==
    ASSUME NEW nodes, NEW first, NEW last, NEW n, NEW o, Laid(nodes, first, last, n, o),
           NEW j \in 0 .. n - 1,
           NEW new, DOMAIN new = DOMAIN nodes \ {o[j]},
           \A k \in 0 .. n - 1 : k # j =>
               /\ new[o[k]].left = At(o, n, IF k = j + 1 THEN j - 1 ELSE k - 1)
               /\ new[o[k]].right = At(o, n, IF k = j - 1 THEN j + 1 ELSE k + 1)
    PROVE  Laid(new, IF j = 0 THEN At(o, n, 1) ELSE first,
                IF j = n - 1 THEN At(o, n, n - 2) ELSE last, n - 1, Cut(o, n, j))
<1> DEFINE p == Cut(o, n, j)
<1>1. /\ n \in Nat /\ o \in [0 .. n - 1 -> DOMAIN nodes]
      /\ first = At(o, n, 0) /\ last = At(o, n, n - 1)
      /\ \A c, d \in 0 .. n - 1 : o[c] = o[d] => c = d
    BY DEF Laid
<1>2. /\ \A k \in 0 .. n - 2 : k < j => k \in 0 .. n - 1 /\ p[k] = o[k]
      /\ \A k \in 0 .. n - 2 : k >= j => k + 1 \in 0 .. n - 1 /\ p[k] = o[k + 1]
      /\ p = [k \in 0 .. n - 2 |-> p[k]]
    BY <1>1 DEF Cut
<1>3. /\ \A k \in -1 .. n : k < j => At(p, n - 1, k) = At(o, n, k)
      /\ \A k \in -1 .. n : k >= j => At(p, n - 1, k) = At(o, n, k + 1)
    BY <1>1, <1>2 DEF At
<1> HIDE DEF p
<1>4. p \in [0 .. n - 1 - 1 -> DOMAIN new]
    <2>1. ASSUME NEW k \in 0 .. n - 2 PROVE p[k] \in DOMAIN new
        <3>1. CASE k < j
            <4>1. k \in 0 .. n - 1 /\ p[k] = o[k] /\ k # j
                BY <1>1, <1>2, <3>1
            <4>2. o[k] # o[j] /\ o[k] \in DOMAIN nodes
                BY <1>1, <4>1
            <4> QED
                BY <4>1, <4>2
        <3>2. CASE k >= j
            <4>1. k + 1 \in 0 .. n - 1 /\ p[k] = o[k + 1] /\ k + 1 # j
                BY <1>1, <1>2, <3>2
            <4>2. o[k + 1] # o[j] /\ o[k + 1] \in DOMAIN nodes
                BY <1>1, <4>1
            <4> QED
                BY <4>1, <4>2
        <3> QED
            BY <1>1, <3>1, <3>2
    <2> QED
        BY <1>1, <1>2, <2>1
<1>5. ASSUME NEW q \in DOMAIN new PROVE \E k \in 0 .. n - 1 - 1 : p[k] = q
    <2>1. PICK k \in 0 .. n - 1 : o[k] = q
        BY DEF Laid
    <2>2. k # j
        BY <2>1
    <2>3. CASE k < j
        BY <1>1, <1>2, <2>1, <2>3
    <2>4. CASE k > j
        <3>1. k - 1 \in 0 .. n - 2 /\ k - 1 >= j /\ k - 1 + 1 = k
            BY <1>1, <2>4
        <3>2. p[k - 1] = o[k]
            BY <1>2, <3>1
        <3> QED
            BY <1>1, <2>1, <3>1, <3>2
    <2> QED
        BY <1>1, <2>2, <2>3, <2>4
<1>6. ASSUME NEW a \in 0 .. n - 1 - 1, NEW b \in 0 .. n - 1 - 1, p[a] = p[b] PROVE a = b
    <2>3. a \in 0 .. n - 2 /\ b \in 0 .. n - 2 /\ n \in Nat /\ j \in 0 .. n - 1
        BY <1>1
    <2>4. /\ a < j => a \in 0 .. n - 1 /\ p[a] = o[a]
          /\ a >= j => a + 1 \in 0 .. n - 1 /\ p[a] = o[a + 1]
        BY <1>2, <2>3
    <2>5. /\ b < j => b \in 0 .. n - 1 /\ p[b] = o[b]
          /\ b >= j => b + 1 \in 0 .. n - 1 /\ p[b] = o[b + 1]
        BY <1>2, <2>3
    <2>6. CASE a < j
        BY <1>1, <1>6, <2>3, <2>4, <2>5, <2>6
    <2>7. CASE a >= j
        BY <1>1, <1>6, <2>3, <2>4, <2>5, <2>7
    <2> QED
        BY <2>3, <2>6, <2>7
<1>7. ASSUME NEW k \in 0 .. n - 1 - 1
      PROVE  /\ new[p[k]].left = At(p, n - 1, k - 1)
             /\ new[p[k]].right = At(p, n - 1, k + 1)
    <2>0. k \in 0 .. n - 2
        BY <1>1
    <2>1. CASE k < j
        <3>1. k \in 0 .. n - 1 /\ p[k] = o[k] /\ k # j /\ k # j + 1
            BY <1>1, <1>2, <2>0, <2>1
        <3>2. new[p[k]].left = At(o, n, k - 1)
            BY <3>1
        <3>3. At(p, n - 1, k - 1) = At(o, n, k - 1)
            BY <1>1, <1>3, <2>1, <3>1
        <3>4. CASE k = j - 1
            <4>1. k + 1 \in -1 .. n /\ k + 1 >= j /\ k + 1 + 1 = j + 1
                BY <1>1, <3>1, <3>4
            <4>2. At(p, n - 1, k + 1) = At(o, n, j + 1)
                BY <1>3, <4>1
            <4> QED
                BY <3>1, <3>2, <3>3, <3>4, <4>2
        <3>5. CASE k # j - 1
            <4>1. k + 1 \in -1 .. n /\ k + 1 < j
                BY <1>1, <2>1, <3>1, <3>5
            <4>2. At(p, n - 1, k + 1) = At(o, n, k + 1)
                BY <1>3, <4>1
            <4> QED
                BY <3>1, <3>2, <3>3, <3>5, <4>2
        <3> QED
            BY <3>4, <3>5
    <2>2. CASE k >= j
        <3> DEFINE i == k + 1
        <3>1. i \in 0 .. n - 1 /\ p[k] = o[i] /\ i # j /\ i # j - 1
            BY <1>1, <1>2, <2>0, <2>2
        <3>2. new[p[k]].right = At(o, n, i + 1)
            BY <3>1
        <3>3. At(p, n - 1, k + 1) = At(o, n, i + 1)
            <4>1. i \in -1 .. n /\ i >= j
                BY <1>1, <2>2, <3>1
            <4> QED
                BY <1>3, <4>1
        <3>4. CASE i = j + 1
            <4>1. new[p[k]].left = At(o, n, j - 1)
                BY <3>1, <3>4
            <4>2. j - 1 \in -1 .. n /\ j - 1 < j /\ k = j
                BY <1>1, <3>4
            <4>3. At(p, n - 1, k - 1) = At(o, n, j - 1)
                BY <1>3, <4>2
            <4> QED
                BY <3>2, <3>3, <4>1, <4>3
        <3>5. CASE i # j + 1
            <4>1. new[p[k]].left = At(o, n, i - 1)
                BY <3>1, <3>5
            <4>2. k - 1 \in -1 .. n /\ k - 1 >= j /\ k - 1 + 1 = i - 1
                BY <1>1, <2>2, <3>1, <3>5
            <4>3. At(p, n - 1, k - 1) = At(o, n, i - 1)
                BY <1>3, <4>2
            <4> QED
                BY <3>2, <3>3, <4>1, <4>3
        <3> QED
            BY <3>4, <3>5
    <2> QED
        BY <1>1, <2>0, <2>1, <2>2
<1>8. (IF j = 0 THEN At(o, n, 1) ELSE first) = At(p, n - 1, 0)
    <2>1. 0 \in -1 .. n
        BY <1>1
    <2> QED
        BY <1>1, <1>3, <2>1
<1>9. (IF j = n - 1 THEN At(o, n, n - 2) ELSE last) = At(p, n - 1, n - 1 - 1)
    <2>1. n - 2 \in -1 .. n /\ n - 2 + 1 = n - 1 /\ n - 1 - 1 = n - 2
        BY <1>1
    <2>2. CASE j = n - 1
        <3>1. n - 2 < j
            BY <1>1, <2>2
        <3> QED
            BY <1>3, <2>1, <2>2, <3>1
    <2>3. CASE j # n - 1
        <3>1. n - 2 >= j
            BY <1>1, <2>3
        <3> QED
            BY <1>1, <1>3, <2>1, <2>3, <3>1
    <2> QED
        BY <2>2, <2>3
<1>10. n - 1 \in Nat
    BY <1>1
<1> QED
    BY <1>4, <1>5, <1>6, <1>7, <1>8, <1>9, <1>10 DEF Laid, p
-----------------------------------------------------------------------------
(* What the calls do with the order: an insertion puts a node in, a        *)
(* removal cuts one out, and the data of the others stay.                  *)
KeepsData == \A m \in DOMAIN heap \cap DOMAIN heap' : heap'[m].data = heap[m].data

(* dll_insert_head puts the datum in front, and moves no other.            *)
LEMMA PutHead ==
    ASSUME List!TypeOK, NEW o, Laid(heap, head, tail, size, o),
           NEW x \in Data, List!dll_insert_head(x)
    PROVE  /\ List!TypeOK'
           /\ KeepsData
           /\ \E m \in Node : /\ Laid(heap', head', tail', size', Put(o, size, 0, m))
                              /\ heap'[m].data = x
                              /\ m \notin DOMAIN heap
<1>1. PICK m \in Node \ DOMAIN heap :
          \/ /\ size = 0
             /\ heap' = List!With(List!create_Node(m, x), heap)
             /\ List!insert_first(m)
          \/ /\ size # 0
             /\ heap' = [List!With(List!create_Node(m, x), heap) EXCEPT
                            ![m].right = head, ![head].left = m]
             /\ head' = m
             /\ size' = size + 1
             /\ UNCHANGED tail
    BY DEF List!dll_insert_head
<1>2. /\ size \in Nat /\ o \in [0 .. size - 1 -> DOMAIN heap]
      /\ head = At(o, size, 0) /\ tail = At(o, size, size - 1)
      /\ \A c, d \in 0 .. size - 1 : o[c] = o[d] => c = d
      /\ \A k \in 0 .. size - 1 : /\ heap[o[k]].left = At(o, size, k - 1)
                                  /\ heap[o[k]].right = At(o, size, k + 1)
    BY DEF Laid
<1>3. ret' = 1 /\ 1 \in List!Index
    <2>1. m \in Node /\ IsFiniteSet(Node)
        BY SmallProgramsAssumption
    <2>2. Cardinality(Node) \in Nat /\ Cardinality(Node) # 0
        BY <2>1, FS_CardinalityType, FS_EmptySet
    <2> QED
        BY <2>2, ListCardinality DEF List!dll_insert_head, List!Index
<1>4. NIL \notin Node /\ DOMAIN heap \subseteq Node
    BY SmallProgramsAssumption DEF List!TypeOK
<1>5. CASE size = 0
    <2>1. heap' = List!With(List!create_Node(m, x), heap) /\ head' = m /\ tail' = m /\ size' = 1
        BY <1>1, <1>5 DEF List!insert_first
    <2>2. /\ DOMAIN heap' = DOMAIN heap \cup {m}
          /\ heap'[m] = [data |-> x, left |-> NIL, right |-> NIL]
          /\ \A q \in DOMAIN heap : heap'[q] = heap[q]
        BY <2>1 DEF List!With, List!create_Node
    <2>3. 0 \in 0 .. size /\ At(o, size, -1) = NIL /\ At(o, size, 0) = NIL
        BY <1>2, <1>5 DEF At
    <2>4. heap'[m].left = At(o, size, 0 - 1) /\ heap'[m].right = At(o, size, 0)
        BY <2>2, <2>3
    <2>5. \A k \in 0 .. size - 1 :
              /\ heap'[o[k]].left = IF k = 0 THEN m ELSE At(o, size, k - 1)
              /\ heap'[o[k]].right = IF k = 0 - 1 THEN m ELSE At(o, size, k + 1)
        BY <1>5
    <2>6. Laid(heap', IF 0 = 0 THEN m ELSE head, IF 0 = size THEN m ELSE tail,
               size + 1, Put(o, size, 0, m))
        BY <2>2, <2>3, <2>4, <2>5, LaidPut
    <2>7. Laid(heap', head', tail', size', Put(o, size, 0, m))
        BY <1>5, <2>1, <2>6
    <2>8. List!TypeOK'
        BY <1>3, <1>4, <2>1, <2>2 DEF List!TypeOK
    <2> QED
        BY <2>2, <2>7, <2>8 DEF KeepsData
<1>6. CASE size # 0
    <2>1. /\ heap' = [List!With(List!create_Node(m, x), heap) EXCEPT
                            ![m].right = head, ![head].left = m]
          /\ head' = m /\ size' = size + 1 /\ tail' = tail
        BY <1>1, <1>6
    <2>2. head \in DOMAIN heap /\ head = o[0] /\ 0 \in 0 .. size - 1
        BY <1>2, <1>6 DEF At
    <2>3. /\ DOMAIN heap' = DOMAIN heap \cup {m}
          /\ heap'[m] = [data |-> x, left |-> NIL, right |-> head]
          /\ heap'[head] = [heap[head] EXCEPT !.left = m]
          /\ \A q \in DOMAIN heap \ {head} : heap'[q] = heap[q]
        BY <2>1, <2>2 DEF List!With, List!create_Node
    <2>4. 0 \in 0 .. size /\ At(o, size, -1) = NIL
        BY <1>2, <1>6 DEF At
    <2>5. heap'[m].left = At(o, size, 0 - 1) /\ heap'[m].right = At(o, size, 0)
        BY <1>2, <2>3, <2>4
    <2>6. \A q \in DOMAIN heap : /\ heap[q] \in [data : Data, left : Node \cup {NIL}, right : Node \cup {NIL}]
                                 /\ heap'[q].data = heap[q].data
                                 /\ heap'[q].right = heap[q].right
                                 /\ heap'[q].left = IF q = head THEN m ELSE heap[q].left
                                 /\ heap'[q] \in [data : Data, left : Node \cup {NIL}, right : Node \cup {NIL}]
        BY <2>3 DEF List!TypeOK
    <2>7. ASSUME NEW k \in 0 .. size - 1
          PROVE  /\ heap'[o[k]].left = IF k = 0 THEN m ELSE At(o, size, k - 1)
                 /\ heap'[o[k]].right = IF k = 0 - 1 THEN m ELSE At(o, size, k + 1)
        <3>1. o[k] \in DOMAIN heap /\ (o[k] = head <=> k = 0)
            BY <1>2, <2>2
        <3> QED
            BY <1>2, <2>6, <3>1
    <2>8. Laid(heap', IF 0 = 0 THEN m ELSE head, IF 0 = size THEN m ELSE tail,
               size + 1, Put(o, size, 0, m))
        BY <2>3, <2>4, <2>5, <2>7, LaidPut
    <2>9. Laid(heap', head', tail', size', Put(o, size, 0, m))
        BY <1>6, <2>1, <2>8
    <2>10. List!TypeOK'
        BY <1>2, <1>3, <1>4, <2>1, <2>2, <2>3, <2>6 DEF List!TypeOK
    <2> QED
        BY <2>3, <2>6, <2>9, <2>10 DEF KeepsData
<1> QED
    BY <1>5, <1>6

(* dll_insert_tail puts the datum behind, and moves no other.              *)
LEMMA PutTail ==
    ASSUME List!TypeOK, NEW o, Laid(heap, head, tail, size, o),
           NEW x \in Data, List!dll_insert_tail(x)
    PROVE  /\ List!TypeOK'
           /\ KeepsData
           /\ \E m \in Node : /\ Laid(heap', head', tail', size', Put(o, size, size, m))
                              /\ heap'[m].data = x
                              /\ m \notin DOMAIN heap
<1>1. PICK m \in Node \ DOMAIN heap :
          \/ /\ size = 0
             /\ heap' = List!With(List!create_Node(m, x), heap)
             /\ List!insert_first(m)
          \/ /\ size # 0
             /\ heap' = [List!With(List!create_Node(m, x), heap) EXCEPT
                            ![m].left = tail, ![tail].right = m]
             /\ tail' = m
             /\ size' = size + 1
             /\ UNCHANGED head
    BY DEF List!dll_insert_tail
<1>2. /\ size \in Nat /\ o \in [0 .. size - 1 -> DOMAIN heap]
      /\ head = At(o, size, 0) /\ tail = At(o, size, size - 1)
      /\ \A c, d \in 0 .. size - 1 : o[c] = o[d] => c = d
      /\ \A k \in 0 .. size - 1 : /\ heap[o[k]].left = At(o, size, k - 1)
                                  /\ heap[o[k]].right = At(o, size, k + 1)
    BY DEF Laid
<1>3. ret' = 1 /\ 1 \in List!Index
    <2>1. m \in Node /\ IsFiniteSet(Node)
        BY SmallProgramsAssumption
    <2>2. Cardinality(Node) \in Nat /\ Cardinality(Node) # 0
        BY <2>1, FS_CardinalityType, FS_EmptySet
    <2> QED
        BY <2>2, ListCardinality DEF List!dll_insert_tail, List!Index
<1>4. NIL \notin Node /\ DOMAIN heap \subseteq Node
    BY SmallProgramsAssumption DEF List!TypeOK
<1>5. CASE size = 0
    <2>1. heap' = List!With(List!create_Node(m, x), heap) /\ head' = m /\ tail' = m /\ size' = 1
        BY <1>1, <1>5 DEF List!insert_first
    <2>2. /\ DOMAIN heap' = DOMAIN heap \cup {m}
          /\ heap'[m] = [data |-> x, left |-> NIL, right |-> NIL]
          /\ \A q \in DOMAIN heap : heap'[q] = heap[q]
        BY <2>1 DEF List!With, List!create_Node
    <2>3. size \in 0 .. size /\ At(o, size, size - 1) = NIL /\ At(o, size, size) = NIL
        BY <1>2, <1>5 DEF At
    <2>4. heap'[m].left = At(o, size, size - 1) /\ heap'[m].right = At(o, size, size)
        BY <2>2, <2>3
    <2>5. \A k \in 0 .. size - 1 :
              /\ heap'[o[k]].left = IF k = size THEN m ELSE At(o, size, k - 1)
              /\ heap'[o[k]].right = IF k = size - 1 THEN m ELSE At(o, size, k + 1)
        BY <1>5
    <2>6. Laid(heap', IF size = 0 THEN m ELSE head, IF size = size THEN m ELSE tail,
               size + 1, Put(o, size, size, m))
        BY <2>2, <2>3, <2>4, <2>5, LaidPut
    <2>7. Laid(heap', head', tail', size', Put(o, size, size, m))
        BY <1>5, <2>1, <2>6
    <2>8. List!TypeOK'
        BY <1>3, <1>4, <2>1, <2>2 DEF List!TypeOK
    <2> QED
        BY <2>2, <2>7, <2>8 DEF KeepsData
<1>6. CASE size # 0
    <2>1. /\ heap' = [List!With(List!create_Node(m, x), heap) EXCEPT
                            ![m].left = tail, ![tail].right = m]
          /\ tail' = m /\ size' = size + 1 /\ head' = head
        BY <1>1, <1>6
    <2>2. tail \in DOMAIN heap /\ tail = o[size - 1] /\ size - 1 \in 0 .. size - 1
        BY <1>2, <1>6 DEF At
    <2>3. /\ DOMAIN heap' = DOMAIN heap \cup {m}
          /\ heap'[m] = [data |-> x, left |-> tail, right |-> NIL]
          /\ heap'[tail] = [heap[tail] EXCEPT !.right = m]
          /\ \A q \in DOMAIN heap \ {tail} : heap'[q] = heap[q]
        BY <2>1, <2>2 DEF List!With, List!create_Node
    <2>4. size \in 0 .. size /\ At(o, size, size) = NIL
        BY <1>2, <1>6 DEF At
    <2>5. heap'[m].left = At(o, size, size - 1) /\ heap'[m].right = At(o, size, size)
        BY <1>2, <2>3, <2>4
    <2>6. \A q \in DOMAIN heap : /\ heap[q] \in [data : Data, left : Node \cup {NIL}, right : Node \cup {NIL}]
                                 /\ heap'[q].data = heap[q].data
                                 /\ heap'[q].left = heap[q].left
                                 /\ heap'[q].right = IF q = tail THEN m ELSE heap[q].right
                                 /\ heap'[q] \in [data : Data, left : Node \cup {NIL}, right : Node \cup {NIL}]
        BY <2>3 DEF List!TypeOK
    <2>7. ASSUME NEW k \in 0 .. size - 1
          PROVE  /\ heap'[o[k]].left = IF k = size THEN m ELSE At(o, size, k - 1)
                 /\ heap'[o[k]].right = IF k = size - 1 THEN m ELSE At(o, size, k + 1)
        <3>1. o[k] \in DOMAIN heap /\ (o[k] = tail <=> k = size - 1) /\ k # size
            BY <1>2, <2>2
        <3> QED
            BY <1>2, <2>6, <3>1
    <2>8. Laid(heap', IF size = 0 THEN m ELSE head, IF size = size THEN m ELSE tail,
               size + 1, Put(o, size, size, m))
        BY <2>3, <2>4, <2>5, <2>7, LaidPut
    <2>9. Laid(heap', head', tail', size', Put(o, size, size, m))
        BY <1>6, <2>1, <2>8
    <2>10. List!TypeOK'
        BY <1>2, <1>3, <1>4, <2>1, <2>2, <2>3, <2>6 DEF List!TypeOK
    <2> QED
        BY <2>3, <2>6, <2>9, <2>10 DEF KeepsData
<1> QED
    BY <1>5, <1>6
(* Freeing the node at place j after its neighbours were linked past it.   *)
LEMMA CutAt ==
    ASSUME List!TypeOK, NEW o, Laid(heap, head, tail, size, o), NEW j \in 0 .. size - 1,
           NEW prev, prev = At(o, size, j - 1), NEW nxt, nxt = At(o, size, j + 1),
           DOMAIN heap' = DOMAIN heap \ {o[j]},
           \A q \in DOMAIN heap' :
               /\ heap'[q] \in [data : Data, left : Node \cup {NIL}, right : Node \cup {NIL}]
               /\ heap'[q].data = heap[q].data
               /\ heap'[q].left = IF q = nxt THEN prev ELSE heap[q].left
               /\ heap'[q].right = IF q = prev THEN nxt ELSE heap[q].right,
           head' = IF j = 0 THEN nxt ELSE head,
           tail' = IF j = size - 1 THEN prev ELSE tail,
           size' = size - 1, ret' = 1
    PROVE  /\ List!TypeOK'
           /\ KeepsData
           /\ Laid(heap', head', tail', size', Cut(o, size, j))
<1>1. /\ size \in Nat /\ o \in [0 .. size - 1 -> DOMAIN heap]
      /\ head = At(o, size, 0) /\ tail = At(o, size, size - 1)
      /\ \A c, d \in 0 .. size - 1 : o[c] = o[d] => c = d
      /\ \A k \in 0 .. size - 1 : /\ heap[o[k]].left = At(o, size, k - 1)
                                  /\ heap[o[k]].right = At(o, size, k + 1)
    BY DEF Laid
<1>2. NIL \notin Node /\ DOMAIN heap \subseteq Node /\ o[j] \in Node
    BY <1>1, SmallProgramsAssumption DEF List!TypeOK
<1>3. ASSUME NEW k \in 0 .. size - 1, k # j
      PROVE  /\ heap'[o[k]].left = At(o, size, IF k = j + 1 THEN j - 1 ELSE k - 1)
             /\ heap'[o[k]].right = At(o, size, IF k = j - 1 THEN j + 1 ELSE k + 1)
    <2>1. o[k] \in DOMAIN heap' /\ o[k] \in DOMAIN heap /\ o[k] # NIL
        BY <1>1, <1>2, <1>3
    <2>2. o[k] = At(o, size, j + 1) <=> k = j + 1
        <3>1. CASE j + 1 \in 0 .. size - 1
            BY <1>1, <3>1 DEF At
        <3>2. CASE j + 1 \notin 0 .. size - 1
            BY <1>1, <2>1, <3>2 DEF At
        <3> QED
            BY <3>1, <3>2
    <2>3. o[k] = At(o, size, j - 1) <=> k = j - 1
        <3>1. CASE j - 1 \in 0 .. size - 1
            BY <1>1, <3>1 DEF At
        <3>2. CASE j - 1 \notin 0 .. size - 1
            BY <1>1, <2>1, <3>2 DEF At
        <3> QED
            BY <3>1, <3>2
    <2>4. heap[o[k]].left = At(o, size, k - 1) /\ heap[o[k]].right = At(o, size, k + 1)
        BY <1>1
    <2>5. heap'[o[k]].left = At(o, size, IF k = j + 1 THEN j - 1 ELSE k - 1)
        BY <2>1, <2>2, <2>4
    <2>6. heap'[o[k]].right = At(o, size, IF k = j - 1 THEN j + 1 ELSE k + 1)
        BY <2>1, <2>3, <2>4
    <2> QED
        BY <2>5, <2>6
<1>4. Laid(heap', head', tail', size', Cut(o, size, j))
    <2>1. Laid(heap', IF j = 0 THEN At(o, size, 1) ELSE head,
               IF j = size - 1 THEN At(o, size, size - 2) ELSE tail,
               size - 1, Cut(o, size, j))
        BY <1>3, LaidCut
    <2>2. j = 0 => nxt = At(o, size, 1)
        OBVIOUS
    <2>3. j = size - 1 => prev = At(o, size, size - 2)
        BY <1>1
    <2> QED
        BY <2>1, <2>2, <2>3
<1>5. ret' \in List!Index
    <2>1. IsFiniteSet(Node)
        BY SmallProgramsAssumption
    <2>2. Cardinality(Node) \in Nat /\ Cardinality(Node) # 0
        BY <1>2, <2>1, FS_CardinalityType, FS_EmptySet
    <2> QED
        BY <2>2, ListCardinality DEF List!Index
<1>6. \A k \in Int : At(o, size, k) \in Node \cup {NIL}
    BY <1>1, <1>2 DEF At
<1>7. List!TypeOK'
    <2>1. head' \in Node \cup {NIL} /\ tail' \in Node \cup {NIL} /\ size' \in Nat
        BY <1>1, <1>6
    <2> QED
        BY <1>2, <1>5, <2>1 DEF List!TypeOK
<1> QED
    BY <1>4, <1>7 DEF KeepsData

(* dll_remove_head takes the first node out, and moves no datum.           *)
LEMMA CutHead ==
    ASSUME List!TypeOK, NEW o, Laid(heap, head, tail, size, o), size # 0, List!dll_remove_head
    PROVE  /\ List!TypeOK'
           /\ KeepsData
           /\ Laid(heap', head', tail', size', Cut(o, size, 0))
           /\ ret' = 1
<1>1. /\ size \in Nat /\ o \in [0 .. size - 1 -> DOMAIN heap]
      /\ head = At(o, size, 0) /\ tail = At(o, size, size - 1)
      /\ \A c, d \in 0 .. size - 1 : o[c] = o[d] => c = d
      /\ \A k \in 0 .. size - 1 : /\ heap[o[k]].left = At(o, size, k - 1)
                                  /\ heap[o[k]].right = At(o, size, k + 1)
    BY DEF Laid
<1>2. NIL \notin Node /\ DOMAIN heap \subseteq Node
    BY SmallProgramsAssumption DEF List!TypeOK
<1>3. head = o[0] /\ 0 \in 0 .. size - 1 /\ At(o, size, -1) = NIL
    BY <1>1 DEF At
<1>4. \A q \in DOMAIN heap :
          heap[q] \in [data : Data, left : Node \cup {NIL}, right : Node \cup {NIL}]
    BY DEF List!TypeOK
<1>5. CASE size = 1
    <2>1. /\ heap' = List!freeNode(heap, head) /\ size' = 0
          /\ head' = NIL /\ tail' = NIL /\ ret' = 1
        BY <1>5 DEF List!dll_remove_head, List!remove_none, List!remove_last
    <2>2. DOMAIN heap' = DOMAIN heap \ {o[0]} /\ \A q \in DOMAIN heap' : heap'[q] = heap[q]
        BY <1>3, <2>1 DEF List!freeNode
    <2>3. NIL = At(o, size, 0 + 1) /\ NIL = At(o, size, 0 - 1)
        BY <1>5 DEF At
    <2>4. \A q \in DOMAIN heap' : q # NIL
        BY <1>2, <2>2
    <2>5. 0 = size - 1 /\ size' = size - 1
        BY <1>5, <2>1
    <2> QED
        BY <1>3, <1>4, <2>1, <2>2, <2>3, <2>4, <2>5, CutAt
<1>6. CASE size # 1
    <2>1. /\ heap' = List!freeNode([heap EXCEPT ![heap[head].right].left = NIL], head)
          /\ head' = heap[head].right /\ size' = size - 1 /\ tail' = tail /\ ret' = 1
        BY <1>6 DEF List!dll_remove_head, List!remove_none, List!remove_last
    <2>2. heap[head].right = o[1] /\ 1 \in 0 .. size - 1 /\ At(o, size, 1) = o[1]
        <3>1. 1 \in 0 .. size - 1
            BY <1>1, <1>6
        <3>2. heap[o[0]].right = At(o, size, 0 + 1)
            BY <1>1, <1>3
        <3> QED
            BY <1>3, <3>1, <3>2 DEF At
    <2>3. o[1] \in DOMAIN heap
        BY <1>1, <2>2
    <2>4. /\ DOMAIN heap' = DOMAIN heap \ {head}
          /\ \A q \in DOMAIN heap' : heap'[q] = IF q = o[1] THEN [heap[q] EXCEPT !.left = NIL]
                                                            ELSE heap[q]
        BY <2>1, <2>2, <2>3 DEF List!freeNode
    <2>5. \A q \in DOMAIN heap' :
              /\ heap'[q] \in [data : Data, left : Node \cup {NIL}, right : Node \cup {NIL}]
              /\ heap'[q].data = heap[q].data
              /\ heap'[q].left = IF q = o[1] THEN NIL ELSE heap[q].left
              /\ heap'[q].right = heap[q].right
              /\ q # NIL
        BY <1>2, <1>4, <2>4
    <2>6. PICK j, prev, nxt : j \in 0 .. size - 1 /\ j = 0 /\ prev = NIL /\ nxt = o[1]
        BY <1>3
    <2>7. prev = At(o, size, j - 1) /\ nxt = At(o, size, j + 1)
        BY <1>3, <2>2, <2>6
    <2>8. DOMAIN heap' = DOMAIN heap \ {o[j]}
        BY <1>3, <2>4, <2>6
    <2>9. head' = IF j = 0 THEN nxt ELSE head
        BY <2>1, <2>2, <2>6
    <2>10. tail' = IF j = size - 1 THEN prev ELSE tail
        BY <1>6, <2>1, <2>6
    <2>11. \A q \in DOMAIN heap' :
              /\ heap'[q] \in [data : Data, left : Node \cup {NIL}, right : Node \cup {NIL}]
              /\ heap'[q].data = heap[q].data
              /\ heap'[q].left = IF q = nxt THEN prev ELSE heap[q].left
              /\ heap'[q].right = IF q = prev THEN nxt ELSE heap[q].right
        BY <2>5, <2>6
    <2>12. /\ List!TypeOK'
           /\ KeepsData
           /\ Laid(heap', head', tail', size', Cut(o, size, j))
        <3>1. size' = size - 1 /\ ret' = 1
            BY <2>1
        <3>2. j \in 0 .. size - 1
            BY <2>6
        <3> QED
            BY <2>7, <2>8, <2>9, <2>10, <2>11, <3>1, <3>2, CutAt
    <2> QED
        BY <2>1, <2>6, <2>12
<1> QED
    BY <1>5, <1>6

(* dll_remove_tail takes the last node out, and moves no datum.            *)
LEMMA CutTail ==
    ASSUME List!TypeOK, NEW o, Laid(heap, head, tail, size, o), size # 0, List!dll_remove_tail
    PROVE  /\ List!TypeOK'
           /\ KeepsData
           /\ Laid(heap', head', tail', size', Cut(o, size, size - 1))
           /\ ret' = 1
<1>1. /\ size \in Nat /\ o \in [0 .. size - 1 -> DOMAIN heap]
      /\ head = At(o, size, 0) /\ tail = At(o, size, size - 1)
      /\ \A c, d \in 0 .. size - 1 : o[c] = o[d] => c = d
      /\ \A k \in 0 .. size - 1 : /\ heap[o[k]].left = At(o, size, k - 1)
                                  /\ heap[o[k]].right = At(o, size, k + 1)
    BY DEF Laid
<1>2. NIL \notin Node /\ DOMAIN heap \subseteq Node
    BY SmallProgramsAssumption DEF List!TypeOK
<1>3. /\ tail = o[size - 1] /\ size - 1 \in 0 .. size - 1
      /\ At(o, size, size - 1 + 1) = NIL
    BY <1>1 DEF At
<1>4. \A q \in DOMAIN heap :
          heap[q] \in [data : Data, left : Node \cup {NIL}, right : Node \cup {NIL}]
    BY DEF List!TypeOK
<1>5. CASE size = 1
    <2>1. /\ heap' = List!freeNode(heap, tail) /\ size' = 0
          /\ head' = NIL /\ tail' = NIL /\ ret' = 1
        BY <1>5 DEF List!dll_remove_tail, List!remove_none, List!remove_last
    <2>2. /\ DOMAIN heap' = DOMAIN heap \ {o[size - 1]}
          /\ \A q \in DOMAIN heap' : heap'[q] = heap[q]
        BY <1>3, <2>1 DEF List!freeNode
    <2>3. NIL = At(o, size, size - 1 + 1) /\ NIL = At(o, size, size - 1 - 1)
        BY <1>5 DEF At
    <2>4. \A q \in DOMAIN heap' : q # NIL
        BY <1>2, <2>2
    <2>5. size - 1 = 0 /\ size' = size - 1
        BY <1>5, <2>1
    <2> QED
        BY <1>3, <1>4, <2>1, <2>2, <2>3, <2>4, <2>5, CutAt
<1>6. CASE size # 1
    <2>1. /\ heap' = List!freeNode([heap EXCEPT ![heap[tail].left].right = NIL], tail)
          /\ tail' = heap[tail].left /\ size' = size - 1 /\ head' = head /\ ret' = 1
        BY <1>6 DEF List!dll_remove_tail, List!remove_none, List!remove_last
    <2>2. /\ heap[tail].left = o[size - 2] /\ size - 2 \in 0 .. size - 1
          /\ At(o, size, size - 2) = o[size - 2] /\ size - 1 - 1 = size - 2
        <3>1. size - 2 \in 0 .. size - 1
            BY <1>1, <1>6
        <3>2. heap[o[size - 1]].left = At(o, size, size - 1 - 1)
            BY <1>1, <1>3
        <3>3. size - 1 - 1 = size - 2
            BY <1>1
        <3> QED
            BY <1>3, <3>1, <3>2, <3>3 DEF At
    <2>3. o[size - 2] \in DOMAIN heap
        BY <1>1, <2>2
    <2>4. /\ DOMAIN heap' = DOMAIN heap \ {tail}
          /\ \A q \in DOMAIN heap' :
                 heap'[q] = IF q = o[size - 2] THEN [heap[q] EXCEPT !.right = NIL]
                                               ELSE heap[q]
        BY <2>1, <2>2, <2>3 DEF List!freeNode
    <2>5. \A q \in DOMAIN heap' :
              /\ heap'[q] \in [data : Data, left : Node \cup {NIL}, right : Node \cup {NIL}]
              /\ heap'[q].data = heap[q].data
              /\ heap'[q].right = IF q = o[size - 2] THEN NIL ELSE heap[q].right
              /\ heap'[q].left = heap[q].left
              /\ q # NIL
        BY <1>2, <1>4, <2>4
    <2>6. PICK j, prev, nxt :
              j \in 0 .. size - 1 /\ j = size - 1 /\ prev = o[size - 2] /\ nxt = NIL
        BY <1>3
    <2>7. prev = At(o, size, j - 1) /\ nxt = At(o, size, j + 1)
        BY <1>3, <2>2, <2>6
    <2>8. DOMAIN heap' = DOMAIN heap \ {o[j]}
        BY <1>3, <2>4, <2>6
    <2>9. tail' = IF j = size - 1 THEN prev ELSE tail
        BY <2>1, <2>2, <2>6
    <2>10. head' = IF j = 0 THEN nxt ELSE head
        BY <1>1, <1>6, <2>1, <2>6
    <2>11. \A q \in DOMAIN heap' :
              /\ heap'[q] \in [data : Data, left : Node \cup {NIL}, right : Node \cup {NIL}]
              /\ heap'[q].data = heap[q].data
              /\ heap'[q].left = IF q = nxt THEN prev ELSE heap[q].left
              /\ heap'[q].right = IF q = prev THEN nxt ELSE heap[q].right
        BY <2>5, <2>6
    <2>12. /\ List!TypeOK'
           /\ KeepsData
           /\ Laid(heap', head', tail', size', Cut(o, size, j))
        <3>1. size' = size - 1 /\ ret' = 1
            BY <2>1
        <3>2. j \in 0 .. size - 1
            BY <2>6
        <3> QED
            BY <2>7, <2>8, <2>9, <2>10, <2>11, <3>1, <3>2, CutAt
    <2> QED
        BY <2>1, <2>6, <2>12
<1> QED
    BY <1>5, <1>6

(* dll_remove_at takes out the node at the index, and moves no datum.      *)
LEMMA CutIndex ==
    ASSUME List!TypeOK, NEW o, Laid(heap, head, tail, size, o),
           NEW index \in Int, List!isIndexValid(index), List!dll_remove_at(index)
    PROVE  /\ index \in 0 .. size - 1
           /\ List!TypeOK'
           /\ KeepsData
           /\ Laid(heap', head', tail', size', Cut(o, size, index))
           /\ ret' = 1
<1>1. /\ size \in Nat /\ o \in [0 .. size - 1 -> DOMAIN heap]
      /\ head = At(o, size, 0) /\ tail = At(o, size, size - 1)
      /\ \A c, d \in 0 .. size - 1 : o[c] = o[d] => c = d
      /\ \A k \in 0 .. size - 1 : /\ heap[o[k]].left = At(o, size, k - 1)
                                  /\ heap[o[k]].right = At(o, size, k + 1)
    BY DEF Laid
<1>2. NIL \notin Node /\ DOMAIN heap \subseteq Node
    BY SmallProgramsAssumption DEF List!TypeOK
<1>3. index \in 0 .. size - 1 /\ index \in Nat
    BY <1>1 DEF List!isIndexValid
<1>4. List!Walk[index] = o[index]
    <2>1. List!Walk[index] = At(o, size, index)
        BY <1>2, <1>3, WalkInOrder DEF List!Walk
    <2> QED
        BY <1>3, <2>1 DEF At
<1> DEFINE cur == o[index]
           prev == At(o, size, index - 1)
           nxt == At(o, size, index + 1)
<1>5. heap[cur].left = prev /\ heap[cur].right = nxt /\ cur \in DOMAIN heap
    BY <1>1, <1>3
<1>6. /\ heap' = List!freeNode(List!Joined(cur), cur)
      /\ head' = IF heap[cur].left = NIL THEN heap[cur].right ELSE head
      /\ tail' = IF heap[cur].right = NIL THEN heap[cur].left ELSE tail
      /\ size' = size - 1
      /\ ret' = 1
    BY <1>4 DEF List!dll_remove_at
<1>7. /\ DOMAIN heap' = DOMAIN heap \ {cur}
      /\ \A q \in DOMAIN heap' :
             heap'[q] = [heap[q] EXCEPT !.right = IF q = prev THEN nxt ELSE @,
                                        !.left = IF q = nxt THEN prev ELSE @]
    BY <1>5, <1>6 DEF List!freeNode, List!Joined
<1>8. \A k \in Int : At(o, size, k) \in Node \cup {NIL}
    BY <1>1, <1>2 DEF At
<1>9. prev \in Node \cup {NIL} /\ nxt \in Node \cup {NIL}
    BY <1>3, <1>8
<1> HIDE DEF prev, nxt
<1>10. ASSUME NEW q \in DOMAIN heap'
       PROVE  /\ heap'[q] \in [data : Data, left : Node \cup {NIL}, right : Node \cup {NIL}]
              /\ heap'[q].data = heap[q].data
              /\ heap'[q].left = IF q = nxt THEN prev ELSE heap[q].left
              /\ heap'[q].right = IF q = prev THEN nxt ELSE heap[q].right
    <2>1. heap[q] \in [data : Data, left : Node \cup {NIL}, right : Node \cup {NIL}]
        BY <1>7 DEF List!TypeOK
    <2>2. heap'[q] = [heap[q] EXCEPT !.right = IF q = prev THEN nxt ELSE heap[q].right,
                                     !.left = IF q = nxt THEN prev ELSE heap[q].left]
        BY <1>7, <2>1
    <2>3. heap'[q] = [data |-> heap[q].data,
                      left |-> IF q = nxt THEN prev ELSE heap[q].left,
                      right |-> IF q = prev THEN nxt ELSE heap[q].right]
        BY <2>1, <2>2
    <2> QED
        BY <1>9, <2>1, <2>3
<1>11. /\ head' = IF index = 0 THEN nxt ELSE head
       /\ tail' = IF index = size - 1 THEN prev ELSE tail
    <2>1. prev = NIL <=> index = 0
        <3>1. CASE index = 0
            BY <3>1 DEF prev, At
        <3>2. CASE index # 0
            BY <1>1, <1>2, <1>3, <3>2 DEF prev, At
        <3> QED
            BY <3>1, <3>2
    <2>2. nxt = NIL <=> index = size - 1
        <3>1. CASE index = size - 1
            BY <1>1, <3>1 DEF nxt, At
        <3>2. CASE index # size - 1
            BY <1>1, <1>2, <1>3, <3>2 DEF nxt, At
        <3> QED
            BY <3>1, <3>2
    <2> QED
        BY <1>5, <1>6, <2>1, <2>2
<1>12. /\ List!TypeOK'
       /\ KeepsData
       /\ Laid(heap', head', tail', size', Cut(o, size, index))
    <2>1. prev = At(o, size, index - 1) /\ nxt = At(o, size, index + 1)
        BY DEF prev, nxt
    <2> QED
        <3>1. DOMAIN heap' = DOMAIN heap \ {o[index]}
            BY <1>7
        <3>2. size' = size - 1 /\ ret' = 1
            BY <1>6
        <3> QED
            BY <1>3, <1>10, <1>11, <2>1, <3>1, <3>2, CutAt
<1> QED
    BY <1>3, <1>6, <1>12
-----------------------------------------------------------------------------
(* The least index at which dll_find finds a datum is one.                 *)
LEMMA MinIsLeast ==
    ASSUME NEW S \in SUBSET Nat, S # {}
    PROVE  List!Min(S) \in S /\ \A y \in S : List!Min(S) <= y
<1>1. \E m \in S : \A y \in S : m <= y
    BY LeastNumber
<1> QED
    BY <1>1 DEF List!Min

(* No index is the address of a node, nor is the null pointer.             *)
LEMMA IndexRange ==
    /\ Cardinality(Node) \in Nat \ {0}
    /\ List!Index = -1 .. Cardinality(Node)
    /\ NIL \notin Node
    /\ \A k \in List!Index : k \notin Node
<1>1. Cardinality(Node) \in Nat /\ Cardinality(Node) # 0
    BY SmallProgramsAssumption, FS_CardinalityType, FS_EmptySet
<1>2. List!Index = -1 .. Cardinality(Node)
    BY ListCardinality DEF List!Index
<1> QED
    BY <1>1, <1>2, SmallProgramsAssumption

(* The data in the order of the nodes: the list that a caller sees.        *)
DataOf(nodes, o, n) == [k \in 1 .. n |-> nodes[o[k - 1]].data]

(* Walking along a list that is laid out in an order lists its data in     *)
(* that order.                                                             *)
LEMMA ListFromInOrder ==
    ASSUME NEW nodes, DOMAIN nodes \subseteq Node, NEW first, NEW last, NEW n, NEW o,
           Laid(nodes, first, last, n, o)
    PROVE  [k \in 1 .. n |-> nodes[List!WalkFrom(nodes, first)[k - 1]].data]
           = DataOf(nodes, o, n)
<1>1. \A k \in Nat : List!WalkFrom(nodes, first)[k] = At(o, n, k)
    BY WalkInOrder
<1>2. n \in Nat
    BY DEF Laid
<1>3. \A k \in 1 .. n : List!WalkFrom(nodes, first)[k - 1] = o[k - 1]
    BY <1>1, <1>2 DEF At
<1> QED
    BY <1>3 DEF DataOf

(* The same of the list as it is.                                          *)
LEMMA ListedInOrder ==
    ASSUME List!TypeOK, NEW o, Laid(heap, head, tail, size, o)
    PROVE  List!Listed = DataOf(heap, o, size)
<1>1. DOMAIN heap \subseteq Node
    BY DEF List!TypeOK
<1> QED
    BY <1>1, ListFromInOrder DEF List!Listed, List!Walk

(* The same of the list as it is after a step.                             *)
LEMMA ListedNextInOrder ==
    ASSUME List!TypeOK', NEW o, Laid(heap', head', tail', size', o)
    PROVE  List!Listed' = DataOf(heap', o, size')
<1>1. DOMAIN heap' \subseteq Node
    BY DEF List!TypeOK
<1> QED
    BY <1>1, ListFromInOrder DEF List!Listed, List!Walk

(* The data in the order of the nodes are a sequence.                      *)
LEMMA DataIsSeq ==
    ASSUME NEW nodes, \A q \in DOMAIN nodes : nodes[q].data \in Data,
           NEW first, NEW last, NEW n, NEW o, Laid(nodes, first, last, n, o)
    PROVE  /\ DataOf(nodes, o, n) \in Seq(Data)
           /\ Len(DataOf(nodes, o, n)) = n
           /\ \A k \in 1 .. n : DataOf(nodes, o, n)[k] = nodes[o[k - 1]].data
<1>1. n \in Nat /\ o \in [0 .. n - 1 -> DOMAIN nodes]
    BY DEF Laid
<1>2. DataOf(nodes, o, n) \in [1 .. n -> Data]
    BY <1>1 DEF DataOf
<1> QED
    BY <1>1, <1>2, SeqDef DEF DataOf

(* What a sequence is that has one more item in front.                     *)
LEMMA InFront ==
    ASSUME NEW S, NEW s \in Seq(S), NEW t \in Seq(S), NEW x \in S,
           Len(t) = Len(s) + 1, t[1] = x, \A k \in 1 .. Len(s) : t[k + 1] = s[k]
    PROVE  t = <<x>> \o s
<1>1. /\ <<x>> \in Seq(S) /\ Len(<<x>>) = 1 /\ <<x>>[1] = x
      /\ Len(s) \in Nat
    OBVIOUS
<1>2. /\ <<x>> \o s \in Seq(S)
      /\ Len(<<x>> \o s) = 1 + Len(s)
      /\ \A i \in 1 .. 1 + Len(s) :
             (<<x>> \o s)[i] = IF i <= 1 THEN <<x>>[i] ELSE s[i - 1]
    BY <1>1, ConcatProperties
<1>3. ASSUME NEW i \in 1 .. Len(t) PROVE t[i] = (<<x>> \o s)[i]
    <2>1. i \in 1 .. 1 + Len(s)
        BY <1>1
    <2>2. CASE i = 1
        BY <1>1, <1>2, <2>1, <2>2
    <2>3. CASE i # 1
        <3>1. i - 1 \in 1 .. Len(s) /\ i - 1 + 1 = i /\ ~(i <= 1)
            BY <1>1, <2>1, <2>3
        <3>2. t[i] = s[i - 1]
            BY <3>1
        <3> QED
            BY <1>2, <2>1, <3>1, <3>2
    <2> QED
        BY <2>2, <2>3
<1> QED
    BY <1>1, <1>2, <1>3, SeqEqual

(* What a sequence is that has one more item behind.                       *)
LEMMA Behind ==
    ASSUME NEW S, NEW s \in Seq(S), NEW t \in Seq(S), NEW x \in S,
           Len(t) = Len(s) + 1, t[Len(t)] = x, \A k \in 1 .. Len(s) : t[k] = s[k]
    PROVE  t = Append(s, x)
<1>1. /\ Append(s, x) \in Seq(S) /\ Len(Append(s, x)) = Len(s) + 1
      /\ Append(s, x)[Len(s) + 1] = x
      /\ \A k \in 1 .. Len(s) : Append(s, x)[k] = s[k]
      /\ Len(s) \in Nat
    OBVIOUS
<1>2. ASSUME NEW i \in 1 .. Len(t) PROVE t[i] = Append(s, x)[i]
    BY <1>1
<1> QED
    BY <1>1, <1>2, SeqEqual

(* What a sequence is that has lost one item.                              *)
LEMMA WithoutOne ==
    ASSUME NEW S, NEW s \in Seq(S), NEW t \in Seq(S), NEW i \in 1 .. Len(s),
           Len(t) = Len(s) - 1,
           \A k \in 1 .. Len(t) : t[k] = IF k < i THEN s[k] ELSE s[k + 1]
    PROVE  t = List!A!RemoveAt(s, i)
<1> DEFINE f == SubSeq(s, 1, i - 1)
           g == SubSeq(s, i + 1, Len(s))
<1>1. Len(s) \in Nat /\ i \in Nat /\ \A k \in 1 .. Len(s) : s[k] \in S
    BY ElementOfSeq, LenProperties
<1>2. /\ f \in Seq(S) /\ Len(f) = i - 1
      /\ \A k \in 1 .. i - 1 : f[k] = s[k]
    <2>1. \A k \in 1 .. i - 1 : s[k] \in S
        BY <1>1
    <2> QED
        BY <1>1, <2>1, SubSeqProperties
<1>3. /\ g \in Seq(S) /\ Len(g) = Len(s) - i
      /\ \A k \in 1 .. Len(s) - i : g[k] = s[i + k]
    <2>1. \A k \in i + 1 .. Len(s) : s[k] \in S
        BY <1>1
    <2> QED
        BY <1>1, <2>1, SubSeqProperties
<1> HIDE DEF f, g
<1>4. /\ f \o g \in Seq(S)
      /\ Len(f \o g) = Len(s) - 1
      /\ \A k \in 1 .. Len(s) - 1 :
             (f \o g)[k] = IF k <= i - 1 THEN f[k] ELSE g[k - (i - 1)]
    <2>1. Len(f) + Len(g) = Len(s) - 1
        BY <1>1, <1>2, <1>3
    <2>2. /\ f \o g \in Seq(S)
          /\ Len(f \o g) = Len(f) + Len(g)
          /\ \A k \in 1 .. Len(f) + Len(g) :
                 (f \o g)[k] = IF k <= Len(f) THEN f[k] ELSE g[k - Len(f)]
        BY <1>2, <1>3, ConcatProperties
    <2> QED
        BY <1>2, <2>1, <2>2
<1>5. ASSUME NEW k \in 1 .. Len(t) PROVE t[k] = (f \o g)[k]
    <2>0. k \in 1 .. Len(s) - 1
        OBVIOUS
    <2>1. CASE k < i
        BY <1>1, <1>2, <1>4, <2>0, <2>1
    <2>2. CASE ~(k < i)
        <3>1. k - (i - 1) \in 1 .. Len(s) - i /\ i + (k - (i - 1)) = k + 1 /\ ~(k <= i - 1)
            BY <1>1, <2>0, <2>2
        <3>2. g[k - (i - 1)] = s[k + 1]
            BY <1>3, <3>1
        <3> QED
            BY <1>4, <2>0, <2>2, <3>1, <3>2
    <2> QED
        BY <2>1, <2>2
<1>6. t = f \o g
    BY <1>4, <1>5, SeqEqual
<1> QED
    BY <1>6 DEF f, g, List!A!RemoveAt

(* What the caller's list becomes.                                         *)
LEMMA ListedAround ==
    ASSUME List!TypeOK, NEW o, Laid(heap, head, tail, size, o),
           List!TypeOK', NEW p, Laid(heap', head', tail', size', p)
    PROVE  /\ List!Listed \in Seq(Data) /\ List!Listed' \in Seq(Data)
           /\ Len(List!Listed) = size /\ Len(List!Listed') = size'
           /\ \A k \in 1 .. size : List!Listed[k] = heap[o[k - 1]].data
           /\ \A k \in 1 .. size' : List!Listed'[k] = heap'[p[k - 1]].data
<1>1. List!Listed = DataOf(heap, o, size) /\ List!Listed' = DataOf(heap', p, size')
    BY ListedInOrder, ListedNextInOrder
<1>2. /\ \A q \in DOMAIN heap : heap[q].data \in Data
      /\ \A q \in DOMAIN heap' : heap'[q].data \in Data
    BY DEF List!TypeOK
<1> HIDE DEF List!Listed
<1>3. /\ DataOf(heap, o, size) \in Seq(Data)
      /\ Len(DataOf(heap, o, size)) = size
      /\ \A k \in 1 .. size : DataOf(heap, o, size)[k] = heap[o[k - 1]].data
    BY ONLY <1>2, Laid(heap, head, tail, size, o), DataIsSeq
<1>4. /\ DataOf(heap', p, size') \in Seq(Data)
      /\ Len(DataOf(heap', p, size')) = size'
      /\ \A k \in 1 .. size' : DataOf(heap', p, size')[k] = heap'[p[k - 1]].data
    BY <1>2, DataIsSeq
<1> QED
    BY <1>1, <1>3, <1>4

(* What a node that is linked in does to the data in order.                *)
LEMMA ListedPut ==
    ASSUME List!TypeOK, NEW o, Laid(heap, head, tail, size, o),
           List!TypeOK', KeepsData, NEW x \in Data,
           NEW j \in 0 .. size, NEW m \in Node, m \notin DOMAIN heap, heap'[m].data = x,
           Laid(heap', head', tail', size', Put(o, size, j, m)), size' = size + 1
    PROVE  /\ List!Listed \in Seq(Data) /\ List!Listed' \in Seq(Data)
           /\ Len(List!Listed) = size /\ Len(List!Listed') = size + 1
           /\ List!Listed'[j + 1] = x
           /\ \A k \in 1 .. j : List!Listed'[k] = List!Listed[k]
           /\ \A k \in j + 1 .. size : List!Listed'[k + 1] = List!Listed[k]
<1> DEFINE p == Put(o, size, j, m)
<1>1. /\ size \in Nat /\ o \in [0 .. size - 1 -> DOMAIN heap]
      /\ p \in [0 .. size -> DOMAIN heap']
    <2>1. p \in [0 .. size' - 1 -> DOMAIN heap'] /\ size \in Nat
        BY DEF Laid
    <2> QED
        BY <2>1 DEF Laid
<1>2. /\ List!Listed \in Seq(Data) /\ List!Listed' \in Seq(Data)
      /\ Len(List!Listed) = size /\ Len(List!Listed') = size + 1
      /\ \A k \in 1 .. size : List!Listed[k] = heap[o[k - 1]].data
      /\ \A k \in 1 .. size + 1 : List!Listed'[k] = heap'[p[k - 1]].data
    BY ListedAround
<1>3. /\ \A k \in 0 .. size : k < j => k \in 0 .. size - 1 /\ p[k] = o[k]
      /\ \A k \in 0 .. size : k > j => k - 1 \in 0 .. size - 1 /\ p[k] = o[k - 1]
      /\ p[j] = m
    BY <1>1 DEF Put
<1> HIDE DEF p
<1>4. List!Listed'[j + 1] = x
    <2>1. j + 1 \in 1 .. size + 1 /\ j + 1 - 1 = j
        BY <1>1
    <2> QED
        BY <1>2, <1>3, <2>1
<1>5. ASSUME NEW k \in 1 .. j PROVE List!Listed'[k] = List!Listed[k]
    <2>1. /\ k \in 1 .. size /\ k \in 1 .. size + 1
          /\ k - 1 \in 0 .. size - 1 /\ k - 1 \in 0 .. size /\ k - 1 < j
        BY <1>1
    <2>2. p[k - 1] = o[k - 1] /\ o[k - 1] \in DOMAIN heap /\ p[k - 1] \in DOMAIN heap'
        BY <1>1, <1>3, <2>1
    <2> QED
        BY <1>2, <2>1, <2>2 DEF KeepsData
<1>6. ASSUME NEW k \in j + 1 .. size PROVE List!Listed'[k + 1] = List!Listed[k]
    <2>1. /\ k \in 1 .. size /\ k + 1 \in 1 .. size + 1 /\ k + 1 - 1 = k
          /\ k - 1 \in 0 .. size - 1 /\ k \in 0 .. size /\ k > j
        BY <1>1
    <2>2. p[k] = o[k - 1] /\ o[k - 1] \in DOMAIN heap /\ p[k] \in DOMAIN heap'
        BY <1>1, <1>3, <2>1
    <2>3. List!Listed'[k + 1] = heap'[p[k]].data /\ List!Listed[k] = heap[o[k - 1]].data
        BY <1>2, <2>1
    <2> QED
        BY <2>2, <2>3 DEF KeepsData
<1> QED
    BY <1>2, <1>4, <1>5, <1>6

(* What a node that is taken out does to the data in order.                *)
LEMMA ListedCut ==
    ASSUME List!TypeOK, NEW o, Laid(heap, head, tail, size, o),
           List!TypeOK', KeepsData, NEW j \in 0 .. size - 1,
           Laid(heap', head', tail', size', Cut(o, size, j)), size' = size - 1
    PROVE  /\ j + 1 \in 1 .. Len(List!Listed)
           /\ List!Listed \in Seq(Data)
           /\ List!Listed' = List!A!RemoveAt(List!Listed, j + 1)
<1> DEFINE p == Cut(o, size, j)
<1>1. /\ size \in Nat /\ o \in [0 .. size - 1 -> DOMAIN heap]
      /\ p \in [0 .. size - 2 -> DOMAIN heap'] /\ j + 1 \in 1 .. size
    <2>1. p \in [0 .. size' - 1 -> DOMAIN heap'] /\ size \in Nat
        BY DEF Laid
    <2>2. size' - 1 = size - 2
        BY <2>1
    <2>3. o \in [0 .. size - 1 -> DOMAIN heap]
        BY DEF Laid
    <2> HIDE DEF p
    <2> QED
        BY <2>1, <2>2, <2>3
<1>2. /\ List!Listed \in Seq(Data) /\ List!Listed' \in Seq(Data)
      /\ Len(List!Listed) = size /\ Len(List!Listed') = size - 1
      /\ \A k \in 1 .. size : List!Listed[k] = heap[o[k - 1]].data
      /\ \A k \in 1 .. size - 1 : List!Listed'[k] = heap'[p[k - 1]].data
    BY ListedAround
<1>3. /\ \A k \in 0 .. size - 2 : k < j => k \in 0 .. size - 1 /\ p[k] = o[k]
      /\ \A k \in 0 .. size - 2 : k >= j => k + 1 \in 0 .. size - 1 /\ p[k] = o[k + 1]
    BY <1>1 DEF Cut
<1> HIDE DEF p
<1>4. ASSUME NEW k \in 1 .. size - 1
      PROVE  List!Listed'[k] = IF k < j + 1 THEN List!Listed[k] ELSE List!Listed[k + 1]
    <2>0. k - 1 \in 0 .. size - 2 /\ k \in 1 .. size /\ k + 1 \in 1 .. size /\ k - 1 + 1 = k
        BY <1>1
    <2>1. CASE k < j + 1
        <3>1. p[k - 1] = o[k - 1] /\ o[k - 1] \in DOMAIN heap /\ p[k - 1] \in DOMAIN heap'
            BY <1>1, <1>3, <2>0, <2>1
        <3> QED
            BY <1>2, <2>0, <2>1, <3>1 DEF KeepsData
    <2>2. CASE ~(k < j + 1)
        <3>1. p[k - 1] = o[k] /\ o[k] \in DOMAIN heap /\ p[k - 1] \in DOMAIN heap'
            BY <1>1, <1>3, <2>0, <2>2
        <3>2. List!Listed[k + 1] = heap[o[k]].data
            <4>1. k + 1 - 1 = k
                BY <1>1
            <4> QED
                BY <1>2, <2>0, <4>1
        <3> QED
            BY <1>2, <2>0, <2>2, <3>1, <3>2 DEF KeepsData
    <2> QED
        BY <2>1, <2>2
<1>5. PICK i \in 1 .. Len(List!Listed) : i = j + 1
    BY <1>1, <1>2
<1>6. /\ Len(List!Listed') = Len(List!Listed) - 1
      /\ \A k \in 1 .. Len(List!Listed') :
             List!Listed'[k] = IF k < i THEN List!Listed[k] ELSE List!Listed[k + 1]
    BY <1>2, <1>4, <1>5
<1>7. List!Listed' = List!A!RemoveAt(List!Listed, i)
    BY <1>2, <1>6, WithoutOne
<1> QED
    BY <1>2, <1>5, <1>7
-----------------------------------------------------------------------------
(* The empty list has the invariant.                                       *)
LEMMA ListInvInit == List!Init => ListInv
<1> SUFFICES ASSUME List!Init PROVE ListInv
    OBVIOUS
<1>1. heap = << >> /\ head = NIL /\ tail = NIL /\ size = 0 /\ ret = 1
    BY DEF List!Init
<1>2. DOMAIN heap = {}
    BY <1>1
<1>3. Laid(heap, head, tail, size, [k \in 0 .. -1 |-> NIL])
    BY <1>1, <1>2 DEF Laid, At
<1>4. List!TypeOK
    BY <1>1, <1>2, IndexRange DEF List!TypeOK
<1> QED
    BY <1>3, <1>4 DEF ListInv

(* A call that leaves the list alone.                                      *)
LEMMA ListKept ==
    ASSUME ListInv, UNCHANGED <<heap, head, tail, size>>,
           ret' \in Node \cup {NIL} \cup List!Index
    PROVE  ListInv' /\ List!Listed' = List!Listed
BY DEF ListInv, List!TypeOK, List!Listed, List!Walk

(* dll_clear leaves nothing of the list.                                   *)
LEMMA ClearedList ==
    ASSUME ListInv, List!dll_clear
    PROVE  ListInv' /\ List!Listed' = << >> /\ ret' = NIL
<1>1. /\ heap' = [q \in DOMAIN heap \ List!Visited |-> heap[q]]
      /\ size' = 0 /\ head' = NIL /\ tail' = NIL /\ ret' = NIL
    BY DEF List!dll_clear
<1>2. DOMAIN heap' = {}
    BY <1>1, VisitedAll
<1>3. Laid(heap', head', tail', size', [k \in 0 .. -1 |-> NIL])
    BY <1>1, <1>2 DEF Laid, At
<1>4. List!TypeOK'
    BY <1>1, <1>2 DEF List!TypeOK
<1>5. List!Listed' = << >>
    BY <1>1 DEF List!Listed
<1> QED
    BY <1>1, <1>3, <1>4, <1>5 DEF ListInv

(* Where a look-up arrives.                                                *)
LEMMA LookedUp ==
    ASSUME ListInv
    PROVE  /\ size \in 0 .. Cardinality(Node)
           /\ List!Listed \in Seq(Data) /\ Len(List!Listed) = size
           /\ \A k \in 0 .. size - 1 : /\ List!Walk[k] \in DOMAIN heap
                                       /\ List!Listed[k + 1] = heap[List!Walk[k]].data
           /\ DOMAIN heap \subseteq Node
<1>0. PICK o : Laid(heap, head, tail, size, o)
    BY DEF ListInv
<1>1. List!TypeOK /\ DOMAIN heap \subseteq Node /\ \A q \in DOMAIN heap : heap[q].data \in Data
    BY DEF ListInv, List!TypeOK
<1>2. size \in Nat /\ o \in [0 .. size - 1 -> DOMAIN heap]
    BY <1>0 DEF Laid
<1>3. size <= Cardinality(Node) /\ Cardinality(Node) \in Nat
    BY <1>0, <1>1, LaidSize
<1>4. \A k \in Nat : List!Walk[k] = At(o, size, k)
    BY <1>0, <1>1, WalkInOrder DEF List!Walk
<1>5. List!Listed = DataOf(heap, o, size)
    BY <1>0, <1>1, ListedInOrder
<1>6. /\ DataOf(heap, o, size) \in Seq(Data)
      /\ Len(DataOf(heap, o, size)) = size
      /\ \A k \in 1 .. size : DataOf(heap, o, size)[k] = heap[o[k - 1]].data
    BY ONLY <1>0, <1>1, DataIsSeq
<1>7. ASSUME NEW k \in 0 .. size - 1
      PROVE  List!Walk[k] \in DOMAIN heap /\ List!Listed[k + 1] = heap[List!Walk[k]].data
    <2>1. List!Walk[k] = o[k] /\ o[k] \in DOMAIN heap
        BY <1>2, <1>4 DEF At
    <2>2. k + 1 \in 1 .. size /\ k + 1 - 1 = k
        BY <1>2
    <2> QED
        BY <1>5, <1>6, <2>1, <2>2
<1> QED
    BY <1>1, <1>2, <1>3, <1>5, <1>6, <1>7

(* The first index at which a search finds its datum.                      *)
LEMMA Found ==
    ASSUME ListInv, NEW x, List!dll_find(x),
           NEW found, found = {index \in 0 .. size - 1 : heap[List!Walk[index]].data = x}
    PROVE  /\ found = {} => ret' = -1
           /\ found # {} => ret' \in found /\ \A index \in found : ret' <= index
           /\ UNCHANGED <<heap, head, tail, size>>
<1>1. /\ ret' = IF found = {} THEN -1 ELSE List!Min(found)
      /\ UNCHANGED <<heap, head, tail, size>>
    BY DEF List!dll_find
<1>2. found \in SUBSET Nat
    OBVIOUS
<1> QED
    BY <1>1, <1>2, MinIsLeast

(* Every call on the list keeps the invariant.                             *)
LEMMA ListInvNext == ListInv /\ [List!Next]_List!vars => ListInv'
<1> SUFFICES ASSUME ListInv, [List!Next]_List!vars PROVE ListInv'
    OBVIOUS
<1>0. PICK o : List!TypeOK /\ Laid(heap, head, tail, size, o)
    BY DEF ListInv
<1>1. ASSUME NEW x \in Data, List!dll_insert_head(x) PROVE ListInv'
    BY <1>0, <1>1, PutHead DEF ListInv
<1>2. ASSUME NEW x \in Data, List!dll_insert_tail(x) PROVE ListInv'
    BY <1>0, <1>2, PutTail DEF ListInv
<1>3. ASSUME NEW x \in Data, List!dll_find(x) PROVE ListInv'
    <2> DEFINE found == {index \in 0 .. size - 1 : heap[List!Walk[index]].data = x}
    <2>1. /\ found = {} => ret' = -1
          /\ found # {} => ret' \in found
          /\ UNCHANGED <<heap, head, tail, size>>
        BY <1>3, Found
    <2>2. ret' \in List!Index
        BY <2>1, LookedUp, IndexRange
    <2> QED
        BY <2>1, <2>2, ListKept
<1>4. CASE List!remove_none
    <2>1. ret' = 0 /\ UNCHANGED <<heap, head, tail, size>>
        BY <1>4 DEF List!remove_none
    <2> QED
        BY <2>1, IndexRange, ListKept
<1>5. CASE List!dll_remove_head
    <2>1. CASE size = 0
        <3>1. List!remove_none
            BY <1>5, <2>1 DEF List!dll_remove_head, List!remove_last, List!remove_none
        <3> QED
            BY <1>4, <3>1
    <2>2. CASE size # 0
        BY <1>0, <1>5, <2>2, CutHead DEF ListInv
    <2> QED
        BY <2>1, <2>2
<1>6. CASE List!dll_remove_tail
    <2>1. CASE size = 0
        <3>1. List!remove_none
            BY <1>6, <2>1 DEF List!dll_remove_tail, List!remove_last, List!remove_none
        <3> QED
            BY <1>4, <3>1
    <2>2. CASE size # 0
        BY <1>0, <1>6, <2>2, CutTail DEF ListInv
    <2> QED
        BY <2>1, <2>2
<1>7. CASE List!dll_clear
    BY <1>7, ClearedList
<1>8. ASSUME NEW index \in List!Index, List!dll_remove_at(index) PROVE ListInv'
    <2>1. CASE List!isIndexValid(index)
        <3>1. index \in Int
            BY IndexRange
        <3> QED
            BY <1>0, <1>8, <2>1, <3>1, CutIndex DEF ListInv
    <2>2. CASE ~List!isIndexValid(index)
        <3>1. ret' = 0 /\ UNCHANGED <<heap, head, tail, size>>
            BY <1>8, <2>2 DEF List!dll_remove_at
        <3> QED
            BY <3>1, IndexRange, ListKept
    <2> QED
        BY <2>1, <2>2
<1>9. ASSUME NEW index \in List!Index, List!dll_get(index) PROVE ListInv'
    <2>1. /\ ret' = IF List!isIndexValid(index) THEN List!Walk[index] ELSE NIL
          /\ UNCHANGED <<heap, head, tail, size>>
        BY <1>9 DEF List!dll_get
    <2>2. List!isIndexValid(index) => index \in 0 .. size - 1
        BY IndexRange, LookedUp DEF List!isIndexValid
    <2>3. ret' \in Node \cup {NIL}
        BY <2>1, <2>2, LookedUp
    <2> QED
        BY <2>1, <2>3, ListKept
<1>10. CASE UNCHANGED List!vars
    BY <1>10 DEF List!vars, ListInv, List!TypeOK
<1> QED
    BY <1>1, <1>2, <1>3, <1>5, <1>6, <1>7, <1>8, <1>9, <1>10 DEF List!Next

(* The nodes of the list always lie in an order.                           *)
LEMMA ListAlwaysInv == List!Spec => []ListInv
BY ListInvInit, ListInvNext, PTL DEF List!Spec

(* Whatever the calls of the list and however many nodes, the links of     *)
(* DLinkedL.c mirror each other, and a walk meets every node.              *)
THEOREM MirroredCorrect == List!Spec => []Mirrored
BY ListAlwaysInv, ListImplies, PTL

-----------------------------------------------------------------------------
(* The empty list is the empty sequence.                                   *)
LEMMA ListInitImplements == List!Init => List!A!Init
<1> SUFFICES ASSUME List!Init PROVE List!A!Init
    OBVIOUS
<1>1. size = 0 /\ ret = 1 /\ 1 \notin Node
    BY IndexRange DEF List!Init
<1>2. List!Listed = << >>
    BY <1>1 DEF List!Listed
<1> QED
    BY <1>1, <1>2 DEF List!A!Init

(* Every call on the list is the call on the sequence.                     *)
LEMMA ListNextImplements ==
    ListInv /\ ListInv' /\ [List!Next]_List!vars => [List!A!Next]_List!A!vars
<1> SUFFICES ASSUME ListInv, ListInv', [List!Next]_List!vars
             PROVE  [List!A!Next]_List!A!vars
    OBVIOUS
<1> DEFINE l == List!Listed
<1>0. PICK o : List!TypeOK /\ Laid(heap, head, tail, size, o)
    BY DEF ListInv
<1>a. /\ l \in Seq(Data) /\ Len(l) = size /\ DOMAIN l = 1 .. size
      /\ size \in 0 .. Cardinality(Node) /\ Cardinality(Node) \in Nat
    BY LookedUp, IndexRange
<1>b. \A index \in Int : List!A!Valid(index) <=> index \in 0 .. size - 1
    BY <1>a DEF List!A!Valid
<1>c. \A index \in Int : List!isIndexValid(index) <=> index \in 0 .. size - 1
    BY <1>a DEF List!isIndexValid
<1>d. /\ \A k \in List!Index : ret' = k => (IF ret' \in Node THEN heap'[ret'].data ELSE ret') = k
      /\ ret' = NIL => (IF ret' \in Node THEN heap'[ret'].data ELSE ret') = NIL
      /\ {-1, 0, 1} \subseteq List!Index
      /\ \A k \in List!Index : k \in Int
    BY IndexRange
<1> DEFINE r == IF ret' \in Node THEN heap'[ret'].data ELSE ret'
<1> HIDE DEF r
<1>e. \A k : ret' = k /\ (k \in List!Index \/ k = NIL) => r = k
    BY <1>d DEF r
<1>1. ASSUME NEW x \in Data, List!dll_insert_head(x) PROVE List!A!InsertHead(x)
    <2>1. PICK m \in Node :
              /\ List!TypeOK' /\ KeepsData
              /\ Laid(heap', head', tail', size', Put(o, size, 0, m))
              /\ heap'[m].data = x
              /\ m \notin DOMAIN heap
        BY <1>0, <1>1, PutHead
    <2>2. size' = size + 1 /\ ret' = 1
        BY <1>1 DEF List!dll_insert_head, List!insert_first
    <2>3. 0 \in 0 .. size
        BY <1>a
    <2>4. PICK j \in 0 .. size : j = 0
        BY <2>3
    <2>5. /\ List!Listed' \in Seq(Data)
          /\ Len(List!Listed') = size + 1
          /\ List!Listed'[j + 1] = x
          /\ \A k \in j + 1 .. size : List!Listed'[k + 1] = List!Listed[k]
        BY <1>0, <2>1, <2>2, <2>4, ListedPut
    <2>6. List!Listed' = <<x>> \o List!Listed
        <3>1. /\ List!Listed'[1] = x
              /\ \A k \in 1 .. Len(l) : List!Listed'[k + 1] = l[k]
              /\ Len(List!Listed') = Len(l) + 1
            BY <1>a, <2>4, <2>5
        <3> QED
            BY ONLY <1>a, <2>5, <3>1, x \in Data, InFront
    <2>7. r = 1
        BY <1>d, <1>e, <2>2
    <2> QED
        BY <2>6, <2>7 DEF List!A!InsertHead, r
<1>2. ASSUME NEW x \in Data, List!dll_insert_tail(x) PROVE List!A!InsertTail(x)
    <2>1. PICK m \in Node :
              /\ List!TypeOK' /\ KeepsData
              /\ Laid(heap', head', tail', size', Put(o, size, size, m))
              /\ heap'[m].data = x
              /\ m \notin DOMAIN heap
        BY <1>0, <1>2, PutTail
    <2>2. size' = size + 1 /\ ret' = 1
        BY <1>2 DEF List!dll_insert_tail, List!insert_first
    <2>4. PICK j \in 0 .. size : j = size
        BY <1>a
    <2>5. /\ List!Listed' \in Seq(Data)
          /\ Len(List!Listed') = size + 1
          /\ List!Listed'[j + 1] = x
          /\ \A k \in 1 .. j : List!Listed'[k] = List!Listed[k]
        BY <1>0, <2>1, <2>2, <2>4, ListedPut
    <2>6. List!Listed' = Append(List!Listed, x)
        <3>1. /\ Len(List!Listed') = Len(l) + 1
              /\ List!Listed'[Len(List!Listed')] = x
              /\ \A k \in 1 .. Len(l) : List!Listed'[k] = l[k]
            BY <1>a, <2>4, <2>5
        <3> QED
            BY <1>a, <2>5, <3>1, Behind
    <2>7. r = 1
        BY <1>d, <1>e, <2>2
    <2> QED
        BY <2>6, <2>7 DEF List!A!InsertTail, r
<1>3. ASSUME NEW x \in Data, List!dll_find(x) PROVE List!A!Find(x)
    <2> DEFINE found == {index \in 0 .. size - 1 : heap[List!Walk[index]].data = x}
               seen == {index \in List!Index : List!A!Valid(index) /\ List!Listed[index + 1] = x}
    <2>1. /\ found = {} => ret' = -1
          /\ found # {} => ret' \in found /\ \A index \in found : ret' <= index
          /\ UNCHANGED <<heap, head, tail, size>>
        BY <1>3, Found
    <2>2. found = seen
        <3>1. \A k \in 0 .. size - 1 : List!Listed[k + 1] = heap[List!Walk[k]].data
            BY LookedUp
        <3>2. 0 .. size - 1 \subseteq List!Index
            BY <1>a, IndexRange
        <3>3. \A k \in List!Index : List!A!Valid(k) <=> k \in 0 .. size - 1
            BY <1>b, <1>d
        <3> QED
            BY <3>1, <3>2, <3>3
    <2>3. List!Listed' = List!Listed
        BY <2>1 DEF List!Listed, List!Walk
    <2>4. r = ret'
        <3>1. ret' \in List!Index
            BY <1>a, <1>d, <2>1, IndexRange
        <3> QED
            BY <1>e, <3>1
    <2>5. /\ seen = {} => r = -1
          /\ seen # {} => r \in seen /\ \A index \in seen : r <= index
        BY <2>1, <2>2, <2>4
    <2> QED
        BY <2>3, <2>5 DEF List!A!Find, r
<1>4. ASSUME NEW index \in List!Index, index \notin 0 .. size - 1, ret' = 0,
             UNCHANGED <<heap, head, tail, size>>
      PROVE  List!A!RemoveIndex(index)
    <2>1. List!Listed' = List!Listed
        BY <1>4 DEF List!Listed, List!Walk
    <2>2. r = 0
        BY <1>d, <1>e, <1>4
    <2>3. ~List!A!Valid(index)
        BY <1>b, <1>d, <1>4
    <2> QED
        BY <2>1, <2>2, <2>3 DEF List!A!RemoveIndex, r
<1>5. ASSUME NEW index \in 0 .. size - 1, KeepsData, ret' = 1, size' = size - 1,
             Laid(heap', head', tail', size', Cut(o, size, index))
      PROVE  index \in List!Index /\ List!A!RemoveIndex(index)
    <2>1. List!Listed' = List!A!RemoveAt(List!Listed, index + 1)
        BY <1>0, <1>5, ListedCut DEF ListInv
    <2>2. r = 1
        BY <1>d, <1>e, <1>5
    <2>3. List!A!Valid(index) /\ index \in List!Index
        BY <1>a, <1>b, IndexRange
    <2> QED
        BY <2>1, <2>2, <2>3 DEF List!A!RemoveIndex, r
<1>6. CASE List!remove_none
    <2>1. ret' = 0 /\ UNCHANGED <<heap, head, tail, size>> /\ size = 0
        BY <1>6 DEF List!remove_none
    <2>2. 0 \in List!Index /\ 0 \notin 0 .. size - 1
        BY <1>d, <2>1
    <2> QED
        BY <1>4, <2>1, <2>2 DEF List!A!Next
<1>7. CASE List!dll_remove_head
    <2>1. CASE size = 0
        <3>1. List!remove_none
            BY <1>7, <2>1 DEF List!dll_remove_head, List!remove_last, List!remove_none
        <3> QED
            BY <1>6, <3>1
    <2>2. CASE size # 0
        <3>1. /\ KeepsData /\ ret' = 1
              /\ Laid(heap', head', tail', size', Cut(o, size, 0))
            BY <1>0, <1>7, <2>2, CutHead
        <3>2. size' = size - 1
            BY <1>7, <2>2 DEF List!dll_remove_head, List!remove_last, List!remove_none
        <3>3. PICK j \in 0 .. size - 1 : j = 0
            BY <1>a, <2>2
        <3>4. Laid(heap', head', tail', size', Cut(o, size, j))
            BY <3>1, <3>3
        <3> QED
            BY <1>5, <3>1, <3>2, <3>4 DEF List!A!Next
    <2> QED
        BY <2>1, <2>2
<1>8. CASE List!dll_remove_tail
    <2>1. CASE size = 0
        <3>1. List!remove_none
            BY <1>8, <2>1 DEF List!dll_remove_tail, List!remove_last, List!remove_none
        <3> QED
            BY <1>6, <3>1
    <2>2. CASE size # 0
        <3>1. /\ KeepsData /\ ret' = 1
              /\ Laid(heap', head', tail', size', Cut(o, size, size - 1))
            BY <1>0, <1>8, <2>2, CutTail
        <3>2. size' = size - 1
            BY <1>8, <2>2 DEF List!dll_remove_tail, List!remove_last, List!remove_none
        <3>3. PICK j \in 0 .. size - 1 : j = size - 1
            BY <1>a, <2>2
        <3>4. Laid(heap', head', tail', size', Cut(o, size, j))
            BY <3>1, <3>3
        <3> QED
            BY <1>5, <3>1, <3>2, <3>4 DEF List!A!Next
    <2> QED
        BY <2>1, <2>2
<1>9. CASE List!dll_clear
    <2>1. List!Listed' = << >> /\ ret' = NIL
        BY <1>9, ClearedList
    <2>2. r = NIL
        BY <1>e, <2>1
    <2> QED
        BY <2>1, <2>2 DEF List!A!Next, List!A!Clear, r
<1>10. ASSUME NEW index \in List!Index, List!dll_remove_at(index)
       PROVE  List!A!RemoveIndex(index)
    <2>1. CASE List!isIndexValid(index)
        <3>1. /\ index \in 0 .. size - 1
              /\ KeepsData /\ ret' = 1
              /\ Laid(heap', head', tail', size', Cut(o, size, index))
            BY <1>0, <1>d, <1>10, <2>1, CutIndex
        <3>2. size' = size - 1
            BY <1>10, <2>1 DEF List!dll_remove_at
        <3> QED
            BY <1>5, <3>1, <3>2
    <2>2. CASE ~List!isIndexValid(index)
        <3>1. ret' = 0 /\ UNCHANGED <<heap, head, tail, size>>
            BY <1>10, <2>2 DEF List!dll_remove_at
        <3>2. index \notin 0 .. size - 1
            BY <1>c, <1>d, <2>2
        <3> QED
            BY <1>4, <3>1, <3>2
    <2> QED
        BY <2>1, <2>2
<1>11. ASSUME NEW index \in List!Index, List!dll_get(index) PROVE List!A!Get(index)
    <2>1. /\ ret' = IF List!isIndexValid(index) THEN List!Walk[index] ELSE NIL
          /\ UNCHANGED <<heap, head, tail, size>>
        BY <1>11 DEF List!dll_get
    <2>2. List!Listed' = List!Listed
        BY <2>1 DEF List!Listed, List!Walk
    <2>3. index \in Int
        BY <1>d
    <2>4. r = IF List!A!Valid(index) THEN List!Listed[index + 1] ELSE NIL
        <3>1. CASE List!isIndexValid(index)
            <4>1. index \in 0 .. size - 1 /\ List!A!Valid(index)
                BY <1>b, <1>c, <2>3, <3>1
            <4>2. ret' = List!Walk[index]
                BY <2>1, <3>1
            <4>3. /\ List!Walk[index] \in DOMAIN heap /\ DOMAIN heap \subseteq Node
                  /\ List!Listed[index + 1] = heap[List!Walk[index]].data
                BY <4>1, LookedUp
            <4> QED
                BY <2>1, <4>1, <4>2, <4>3 DEF r
        <3>2. CASE ~List!isIndexValid(index)
            <4>1. ~List!A!Valid(index)
                BY <1>b, <1>c, <2>3, <3>2
            <4> QED
                BY <1>e, <2>1, <3>2, <4>1
        <3> QED
            BY <3>1, <3>2
    <2> QED
        BY <2>2, <2>4 DEF List!A!Get, r
<1>12. CASE UNCHANGED List!vars
    BY <1>12 DEF List!vars, List!A!vars, List!Listed, List!Walk
<1> QED
    BY <1>1, <1>2, <1>3, <1>7, <1>8, <1>9, <1>10, <1>11, <1>12 DEF List!Next, List!A!Next

(* Every behaviour of the list is one of the list the header promises.     *)
THEOREM ImplementsListCorrect == List!Spec => ImplementsList
<1>1. List!Init /\ [][List!Next]_List!vars => List!A!Init /\ [][List!A!Next]_List!A!vars
    BY ListInvInit, ListInvNext, ListInitImplements, ListNextImplements, PTL
<1> QED
    BY <1>1 DEF List!Spec, ImplementsList, List!ImplementsList, List!A!Spec

-----------------------------------------------------------------------------
(* The buffer, for any sizes and amounts.                                  *)

(* Doubling k times is growing by k at least: the power of two is the      *)
(* number of subsets of k things.                                          *)
LEMMA PowerGrows ==
    ASSUME NEW k \in Nat
    PROVE  2^k \in Nat /\ 2^k >= k + 1
<1>1. IsFiniteSet(1 .. k) /\ Cardinality(1 .. k) = k
    BY FS_Interval
<1>2. IsFiniteSet(SUBSET (1 .. k)) /\ Cardinality(SUBSET (1 .. k)) = 2^k
    BY <1>1, FS_SUBSET
<1>3. 2^k \in Nat
    BY <1>2, FS_CardinalityType
<1> DEFINE f == [j \in 0 .. k |-> IF j = 0 THEN {} ELSE {j}]
<1>4. f \in Injection(0 .. k, SUBSET (1 .. k))
    <2>1. f \in [0 .. k -> SUBSET (1 .. k)]
        OBVIOUS
    <2>2. \A i, j \in 0 .. k : f[i] = f[j] => i = j
        OBVIOUS
    <2> HIDE DEF f
    <2> QED
        BY <2>1, <2>2, Fun_IsInj
<1>5. IsFiniteSet(0 .. k) /\ Cardinality(0 .. k) = k + 1
    BY FS_Interval
<1>6. Cardinality(0 .. k) <= Cardinality(SUBSET (1 .. k))
    BY <1>2, <1>4, FS_Injection DEF ExistsInjection
<1> QED
    BY <1>2, <1>3, <1>5, <1>6

BufferInv == Buffer!TypeOK /\ Buffer!OnlyNegativesStray

(* The doubled buffer has room for what made it double.                    *)
LEMMA GrownFits ==
    ASSUME BufferInv, strayed = "no", NEW n \in Amounts
    PROVE  /\ Buffer!Grown(n) \in Nat
           /\ Buffer!Grown(n) >= bufferSize
           /\ Buffer!Grown(n) - next >= n
<1> DEFINE M == {m \in {bufferSize * 2^k : k \in 0 .. MaxSize} : m - next >= n}
<1>1. bufferSize \in 1 .. MaxSize /\ next \in 0 .. bufferSize
      /\ n \in -MaxSize .. MaxSize /\ MaxSize \in Nat
    BY SmallProgramsAssumption DEF BufferInv, Buffer!TypeOK, Buffer!OnlyNegativesStray
<1>2. \A k \in 0 .. MaxSize : 2^k \in Nat /\ 2^k >= k + 1
    BY <1>1, PowerGrows
<1>3. ASSUME NEW p \in Nat, NEW q \in Nat, p >= q
      PROVE  bufferSize * p \in Nat /\ bufferSize * p >= bufferSize * q
    BY <1>1, <1>3
<1>4. ASSUME NEW k \in 0 .. MaxSize
      PROVE  bufferSize * 2^k \in Nat /\ bufferSize * 2^k >= bufferSize
    <2>1. 2^k \in Nat /\ 2^k >= 1
        BY <1>2
    <2>2. bufferSize * 2^k \in Nat /\ bufferSize * 2^k >= bufferSize * 1
        BY <1>3, <2>1
    <2> QED
        BY <1>1, <2>2
<1>5. M # {}
    <2>1. 2^MaxSize \in Nat /\ 2^MaxSize >= MaxSize + 1
        BY <1>1, <1>2
    <2>2. bufferSize * 2^MaxSize >= bufferSize * (MaxSize + 1) /\ bufferSize * 2^MaxSize \in Nat
        BY <1>1, <1>3, <2>1
    <2>3. bufferSize * (MaxSize + 1) = bufferSize * MaxSize + bufferSize
        BY <1>1
    <2>4. bufferSize * MaxSize >= MaxSize /\ bufferSize * MaxSize \in Nat
        BY <1>1
    <2>5. bufferSize * 2^MaxSize - next >= n
        <3>1. PICK p \in Nat, q \in Nat : p = bufferSize * 2^MaxSize /\ q = bufferSize * MaxSize
            BY <2>2, <2>4
        <3>2. p >= q + bufferSize /\ q >= MaxSize
            BY <2>2, <2>3, <2>4, <3>1
        <3> QED
            BY <1>1, <3>1, <3>2
    <2>6. bufferSize * 2^MaxSize \in M
        BY <1>1, <2>5
    <2> QED
        BY <2>6
<1>6. M \in SUBSET Nat
    BY <1>4
<1>7. Buffer!Grown(n) = Buffer!Min(M)
    BY DEF Buffer!Grown
<1> HIDE DEF M
<1>8. Buffer!Min(M) \in M
    <2>1. \E m \in M : \A y \in M : m <= y
        BY <1>5, <1>6, LeastNumber
    <2> QED
        BY <2>1 DEF Buffer!Min
<1> QED
    BY <1>1, <1>4, <1>7, <1>8 DEF M

(* A new buffer has the invariant.                                         *)
LEMMA BufferInvInit == Buffer!Init => BufferInv
BY SmallProgramsAssumption DEF Buffer!Init, BufferInv, Buffer!TypeOK, Buffer!OnlyNegativesStray

(* A copy that has room for what it copies, and is given nothing negative, *)
(* stays inside.                                                           *)
LEMMA RoomIsInside ==
    ASSUME NEW from \in Nat, NEW n \in Nat, NEW room \in Nat, room - from >= n
    PROVE  Buffer!Inside(from, n, room)
BY DEF Buffer!Inside, Buffer!Stretch

(* Every call on the buffer keeps the invariant.                           *)
LEMMA BufferInvNext == BufferInv /\ [Buffer!Next]_Buffer!vars => BufferInv'
<1> SUFFICES ASSUME BufferInv, [Buffer!Next]_Buffer!vars PROVE BufferInv'
    OBVIOUS
<1>0. CASE UNCHANGED Buffer!vars
    BY <1>0 DEF Buffer!vars, BufferInv, Buffer!TypeOK, Buffer!OnlyNegativesStray
<1> SUFFICES ASSUME Buffer!Next PROVE BufferInv'
    BY <1>0
<1>1. strayed = "no"
    BY DEF Buffer!Next
<1>2. /\ bufferSize \in 1 .. MaxSize /\ MaxSize \in Nat
      /\ bytes \in [0 .. bufferSize - 1 -> {"s", "o", "-"}]
      /\ next \in 0 .. bufferSize
      /\ lastRead \subseteq {"o", "-"}
      /\ \A k \in 0 .. bufferSize - 1 : bytes[k] = "s" => k < next
      /\ Amounts \subseteq Int /\ Offsets \subseteq Int
    BY <1>1, SmallProgramsAssumption DEF BufferInv, Buffer!TypeOK, Buffer!OnlyNegativesStray
<1>3. ASSUME NEW n \in Amounts, Buffer!serialize_string(n) PROVE BufferInv'
    <2>1. PICK new_size :
              /\ new_size = IF bufferSize - next < n THEN Buffer!Grown(n) ELSE bufferSize
              /\ n > 0 /\ new_size <= MaxSize
              /\ bytes' = [k \in 0 .. new_size - 1 |->
                              IF k \in Buffer!Stretch(next, n) THEN "s"
                              ELSE IF k < bufferSize THEN bytes[k] ELSE "-"]
              /\ bufferSize' = new_size
              /\ next' = next + n
              /\ strayed' = IF Buffer!Inside(next, n, new_size) THEN "no" ELSE "valid"
              /\ UNCHANGED lastRead
        BY <1>3 DEF Buffer!serialize_string
    <2>2. new_size \in Nat /\ new_size >= bufferSize /\ new_size - next >= n
        BY <1>1, <1>2, <2>1, GrownFits
    <2>3. strayed' = "no"
        BY <1>2, <2>1, <2>2, RoomIsInside
    <2>4. \A k \in 0 .. new_size - 1 :
              /\ bytes'[k] \in {"s", "o", "-"}
              /\ bytes'[k] = "s" => k < next + n
        BY <1>2, <2>1, <2>2 DEF Buffer!Stretch
    <2>5. bytes' \in [0 .. new_size - 1 -> {"s", "o", "-"}]
        BY <2>1, <2>4
    <2>6. new_size \in 1 .. MaxSize /\ next + n \in 0 .. new_size
        BY <1>2, <2>1, <2>2
    <2>7. Buffer!TypeOK'
        BY <1>2, <2>1, <2>3, <2>5, <2>6 DEF Buffer!TypeOK
    <2>8. Buffer!OnlyNegativesStray'
        BY <1>2, <2>1, <2>3, <2>4, <2>6 DEF Buffer!OnlyNegativesStray
    <2> QED
        BY <2>7, <2>8 DEF BufferInv
<1>4. ASSUME NEW n \in Amounts, Buffer!de_serialize_string(n) PROVE BufferInv'
    <2>1. /\ bufferSize - next >= n /\ next' = next + n /\ UNCHANGED <<bytes, bufferSize>>
          /\ lastRead' = {bytes[k] : k \in (next .. next + n - 1) \cap (0 .. bufferSize - 1)}
          /\ strayed' = IF Buffer!Inside(next, n, bufferSize) THEN "no"
                        ELSE IF n < 0 THEN "negative" ELSE "valid"
        BY <1>2, <1>4 DEF Buffer!de_serialize_string, Buffer!Stretch
    <2>2. \A k \in (next .. next + n - 1) \cap (0 .. bufferSize - 1) : bytes[k] \in {"o", "-"}
        BY <1>2
    <2>3. lastRead' \subseteq {"o", "-"}
        BY <2>1, <2>2
    <2>4. CASE n < 0
        <3>1. strayed' = "negative"
            BY <1>2, <2>1, <2>4 DEF Buffer!Inside
        <3> QED
            BY <1>2, <2>1, <2>3, <3>1 DEF BufferInv, Buffer!TypeOK, Buffer!OnlyNegativesStray
    <2>5. CASE n >= 0
        <3>1. strayed' = "no"
            BY <1>2, <2>1, <2>5, RoomIsInside
        <3>2. next' \in 0 .. bufferSize
            BY <1>2, <2>1, <2>5
        <3>3. \A k \in 0 .. bufferSize - 1 : bytes[k] = "s" => k < next'
            BY <1>2, <2>1, <2>5
        <3> QED
            BY <1>2, <2>1, <2>3, <3>1, <3>2, <3>3
                DEF BufferInv, Buffer!TypeOK, Buffer!OnlyNegativesStray
    <2> QED
        BY <1>2, <2>4, <2>5
<1>5. ASSUME NEW n \in Amounts, NEW offset \in Offsets,
             Buffer!copy_in_serialized_buffer_by_offset(n, offset)
      PROVE  BufferInv'
    <2>1. /\ bufferSize - offset >= n /\ UNCHANGED <<bufferSize, next, lastRead>>
          /\ bytes' = [k \in 0 .. bufferSize - 1 |->
                          IF k \in Buffer!Stretch(offset, n) THEN "o" ELSE bytes[k]]
          /\ strayed' = IF Buffer!Inside(offset, n, bufferSize) THEN "no"
                        ELSE IF n < 0 \/ offset < 0 THEN "negative" ELSE "valid"
        BY <1>2, <1>5 DEF Buffer!copy_in_serialized_buffer_by_offset
    <2>2. strayed' \in {"no", "negative"}
        BY <1>2, <2>1, RoomIsInside
    <2>3. bytes' \in [0 .. bufferSize - 1 -> {"s", "o", "-"}]
        BY <1>2, <2>1
    <2>4. \A k \in 0 .. bufferSize - 1 : bytes'[k] = "s" => k < next
        BY <1>2, <2>1
    <2> QED
        BY <1>2, <2>1, <2>2, <2>3, <2>4 DEF BufferInv, Buffer!TypeOK, Buffer!OnlyNegativesStray
<1> QED
    BY <1>3, <1>4, <1>5 DEF Buffer!Next

(* Whatever the sizes, amounts and offsets, the first copy that leaves the *)
(* buffer of 14.TVL, on either side, is of a call that is given a negative *)
(* amount or offset; before it the cursor stays inside, and no reader gets *)
(* back what serialize_string wrote.                                       *)
THEOREM OnlyNegativesStrayCorrect == Buffer!Spec => []OnlyNegativesStray
<1>1. BufferInv => OnlyNegativesStray
    BY DEF BufferInv, OnlyNegativesStray
<1> QED
    BY <1>1, BufferInvInit, BufferInvNext, PTL DEF Buffer!Spec

-----------------------------------------------------------------------------
(* The cancellation, for any number of threads.                            *)

NameOnly == <<"clear_malloc">>
Both     == <<"closeFile", "clear_malloc">>

(* What a thread holds at each point of its life, and with which handlers. *)
Stage(t) ==
    \/ /\ place[t] \in {"none", "id"} /\ handlers[t] = << >>
       /\ fileName[t] = "none" /\ fptr[t] = "none" /\ t \notin writing
    \/ /\ place[t] = "open" /\ handlers[t] = << >>
       /\ fileName[t] = "held" /\ fptr[t] = "none" /\ t \notin writing
    \/ /\ place[t] = "pushName" /\ handlers[t] = << >>
       /\ fileName[t] = "held" /\ fptr[t] \in {"open", "NULL"} /\ t \notin writing
    \/ /\ place[t] = "pushFile" /\ handlers[t] = NameOnly
       /\ fileName[t] = "held" /\ fptr[t] \in {"open", "NULL"} /\ t \notin writing
    \/ /\ place[t] = "write" /\ handlers[t] = Both
       /\ fileName[t] = "held" /\ fptr[t] = "open"
    \/ /\ place[t] = "unwind" /\ handlers[t] = Both
       /\ fileName[t] = "held" /\ fptr[t] \in {"open", "NULL"}
       /\ t \in writing => fptr[t] = "open"
    \/ /\ place[t] = "unwind" /\ handlers[t] = NameOnly
       /\ fileName[t] = "held" /\ fptr[t] \in {"open", "NULL", "closed"}
       /\ t \in writing => fptr[t] = "closed"
    \/ /\ place[t] \in {"unwind", "ended"} /\ handlers[t] = << >>
       /\ \/ fileName[t] = "none" /\ fptr[t] = "none"
          \/ fileName[t] \in {"held", "freed"} /\ fptr[t] \in {"none", "open", "NULL", "closed"}
       /\ t \in writing => fileName[t] = "freed" /\ fptr[t] = "closed"

(* A thread has read its own number, or the mark that main leaves for one  *)
(* it has asked to end.                                                    *)
Numbered(t) ==
    /\ id[t] \in {t, Cancel!Cleared}
    /\ place[t] # "none" /\ id[t] = Cancel!Cleared => t \in cancelled
    /\ fileName[t] # "none" => \/ own[t] = t
                               \/ own[t] = Cancel!Cleared /\ t \in cancelled

CancelInv ==
    /\ Cancel!TypeOK
    /\ main = "mark" => chosen \in cancelled
    /\ \A t \in Cancel!Thread : Stage(t) /\ Numbered(t)

(* The lists of handlers a thread can have.                                *)
LEMMA HandlerLists ==
    /\ NameOnly # << >> /\ Both # << >> /\ Both # NameOnly
    /\ Head(NameOnly) = "clear_malloc" /\ Tail(NameOnly) = << >>
    /\ Head(Both) = "closeFile" /\ Tail(Both) = NameOnly
    /\ <<"clear_malloc">> \o << >> = NameOnly
    /\ <<"closeFile">> \o NameOnly = Both
    /\ << >> \in Seq({"clear_malloc", "closeFile"})
    /\ NameOnly \in Seq({"clear_malloc", "closeFile"})
    /\ Both \in Seq({"clear_malloc", "closeFile"})
<1>1. <<"closeFile">> \o NameOnly = Both
    <2> DEFINE S == {"clear_malloc", "closeFile"}
               f == <<"closeFile">>
    <2>1. f \in Seq(S) /\ NameOnly \in Seq(S) /\ Both \in Seq(S)
        BY DEF NameOnly, Both
    <2>2. /\ Len(f) = 1 /\ f[1] = "closeFile"
          /\ Len(NameOnly) = 1 /\ NameOnly[1] = "clear_malloc"
          /\ Len(Both) = 2 /\ Both[1] = "closeFile" /\ Both[2] = "clear_malloc"
        BY DEF NameOnly, Both
    <2> HIDE DEF S, f
    <2>3. /\ f \o NameOnly \in Seq(S)
          /\ Len(f \o NameOnly) = Len(f) + Len(NameOnly)
          /\ \A i \in 1 .. Len(f) + Len(NameOnly) :
                 (f \o NameOnly)[i] = IF i <= Len(f) THEN f[i] ELSE NameOnly[i - Len(f)]
        BY <2>1, ConcatProperties
    <2>4. \A i \in 1 .. Len(f \o NameOnly) : (f \o NameOnly)[i] = Both[i]
        BY <2>2, <2>3
    <2>5. f \o NameOnly = Both
        BY <2>1, <2>2, <2>3, <2>4, SeqEqual
    <2> QED
        BY <2>5 DEF f
<1> QED
    BY <1>1 DEF NameOnly, Both

(* The threads, and what id holds when it holds none of them.              *)
LEMMA CancelThreads ==
    Cancel!Thread = 0 .. Nr_threads - 1 /\ 0 \in Cancel!Thread
    /\ Cancel!Cleared \notin Cancel!Thread
BY SmallProgramsAssumption DEF Cancel!Thread, Cancel!Cleared

(* Before any thread is created the invariant holds.                       *)
LEMMA CancelInvInit == Cancel!Init => CancelInv
<1> SUFFICES ASSUME Cancel!Init PROVE CancelInv
    OBVIOUS
<1> USE CancelThreads, HandlerLists DEF Cancel!Init
<1>1. Cancel!TypeOK
    BY DEF Cancel!TypeOK
<1>2. \A t \in Cancel!Thread : Stage(t) /\ Numbered(t)
    BY DEF Stage, Numbered
<1> QED
    BY <1>1, <1>2 DEF CancelInv

(* A thread whose handlers match what it holds releases all of it.         *)
LEMMA CancelImplies == CancelInv => NothingLeft /\ FilesApart
<1> SUFFICES ASSUME CancelInv PROVE NothingLeft /\ FilesApart
    OBVIOUS
<1>1. \A t \in Cancel!Thread : fileName[t] # "freed twice" /\ fptr[t] # "closed twice"
    BY DEF CancelInv, Stage
<1>2. \A t \in writing : place[t] = "ended" => fileName[t] = "freed" /\ fptr[t] = "closed"
    BY DEF CancelInv, Stage, Cancel!TypeOK
<1>3. \A t \in Cancel!Thread : fptr[t] # "none" => fileName[t] # "none"
    BY DEF CancelInv, Stage
<1>4. Cancel!FilesApart
    BY <1>3, CancelThreads DEF CancelInv, Numbered, Cancel!FilesApart
<1>5. Cancel!TypeOK
    BY DEF CancelInv
<1> QED
    BY <1>1, <1>2, <1>4, <1>5 DEF NothingLeft, Cancel!NothingLeft, FilesApart

(* What a step does not touch stays as it is.                              *)
LEMMA ThreadKept ==
    ASSUME NEW s \in Cancel!Thread, Stage(s), Numbered(s),
           place'[s] = place[s], handlers'[s] = handlers[s], fileName'[s] = fileName[s],
           fptr'[s] = fptr[s], s \in writing' <=> s \in writing, own'[s] = own[s],
           \/ id'[s] = id[s]
           \/ id'[s] = Cancel!Cleared /\ s \in cancelled,
           cancelled \subseteq cancelled'
    PROVE  Stage(s)' /\ Numbered(s)'
<1>1. Stage(s)'
    BY DEF Stage
<1>2. Numbered(s)'
    BY DEF Numbered
<1> QED
    BY <1>1, <1>2

(* Every step of main, of a thread and of a cancellation keeps the         *)
(* invariant.                                                              *)
LEMMA CancelInvNext == CancelInv /\ [Cancel!Next]_Cancel!vars => CancelInv'
<1> SUFFICES ASSUME CancelInv, [Cancel!Next]_Cancel!vars PROVE CancelInv'
    OBVIOUS
<1> USE CancelThreads
<1>0. /\ Cancel!TypeOK
      /\ main = "mark" => chosen \in cancelled
      /\ \A t \in Cancel!Thread : Stage(t) /\ Numbered(t)
    BY DEF CancelInv
<1>1. CASE Cancel!Create
    <2>1. PICK t \in Cancel!Thread :
              /\ place[t] = "none"
              /\ id' = [id EXCEPT ![t] = t] /\ place' = [place EXCEPT ![t] = "id"]
              /\ main' \in {"create", "choose"}
              /\ UNCHANGED <<own, fileName, fptr, handlers, writing, chosen, cancelled>>
        BY <1>1 DEF Cancel!Create, Cancel!Created, Cancel!locals
    <2>2. Cancel!TypeOK'
        BY <1>0, <2>1 DEF Cancel!TypeOK
    <2>3. ASSUME NEW s \in Cancel!Thread PROVE Stage(s)' /\ Numbered(s)'
        <3>1. CASE s # t
            BY <1>0, <2>1, <3>1, ThreadKept DEF Cancel!TypeOK
        <3>2. CASE s = t
            <4>1. Stage(t) /\ Numbered(t)
                BY <1>0
            <4>2. Stage(t)'
                <5>1. /\ place[t]' = "id"
                      /\ UNCHANGED <<fileName, fptr, handlers, writing>>
                    BY <1>0, <2>1 DEF Cancel!TypeOK
                <5> QED
                    BY <2>1, <4>1, <5>1 DEF Stage
            <4>3. Numbered(t)'
                BY <1>0, <2>1, <4>1 DEF Stage, Numbered, Cancel!TypeOK
            <4> QED
                BY <3>2, <4>2, <4>3
        <3> QED
            BY <3>1, <3>2
    <2> QED
        BY <2>1, <2>2, <2>3 DEF CancelInv
<1>2. CASE Cancel!Cancel
    <2>1. PICK t \in Cancel!Thread : chosen' = t /\ cancelled' = cancelled \cup {t}
        BY <1>2 DEF Cancel!Cancel
    <2>2. main' = "mark" /\ UNCHANGED <<own, fileName, fptr, handlers, writing, id, place>>
        BY <1>2 DEF Cancel!Cancel, Cancel!locals
    <2>3. Cancel!TypeOK'
        BY <1>0, <2>1, <2>2 DEF Cancel!TypeOK
    <2>4. ASSUME NEW s \in Cancel!Thread PROVE Stage(s)' /\ Numbered(s)'
        BY <1>0, <2>1, <2>2, ThreadKept
    <2> QED
        BY <2>1, <2>3, <2>4 DEF CancelInv
<1>3. CASE Cancel!Mark
    <2>1. /\ main = "mark" /\ id' = [id EXCEPT ![chosen] = Cancel!Cleared] /\ chosen' = 0
          /\ main' \in {"done", "choose"}
          /\ UNCHANGED <<own, fileName, fptr, handlers, writing, place, cancelled>>
        BY <1>3 DEF Cancel!Mark, Cancel!locals
    <2>2. Cancel!TypeOK'
        BY <1>0, <2>1 DEF Cancel!TypeOK
    <2>3. ASSUME NEW s \in Cancel!Thread PROVE Stage(s)' /\ Numbered(s)'
        BY <1>0, <2>1, ThreadKept DEF Cancel!TypeOK
    <2> QED
        BY <2>1, <2>2, <2>3 DEF CancelInv
<1>4. ASSUME NEW t \in Cancel!Thread, Cancel!ReadId(t) PROVE CancelInv'
    <2>1. /\ place[t] = "id" /\ place' = [place EXCEPT ![t] = "open"]
          /\ own' = [own EXCEPT ![t] = id[t]]
          /\ fileName' = [fileName EXCEPT ![t] = "held"]
          /\ UNCHANGED <<main, chosen, id, cancelled, fptr, handlers, writing>>
        BY <1>4 DEF Cancel!ReadId, Cancel!Go
    <2>2. Cancel!TypeOK'
        BY <1>0, <2>1 DEF Cancel!TypeOK
    <2>3. ASSUME NEW s \in Cancel!Thread PROVE Stage(s)' /\ Numbered(s)'
        <3>1. CASE s # t
            BY <1>0, <2>1, <3>1, ThreadKept DEF Cancel!TypeOK
        <3>2. CASE s = t
            <4>1. Stage(t) /\ Numbered(t)
                BY <1>0
            <4>2. Stage(t)'
                <5>1. /\ place[t]' = "open" /\ fileName[t]' = "held"
                      /\ UNCHANGED <<fptr, handlers, writing>>
                    BY <1>0, <2>1 DEF Cancel!TypeOK
                <5> QED
                    BY <2>1, <4>1, <5>1 DEF Stage
            <4>3. Numbered(t)'
                <5>1. /\ place[t]' = "open" /\ own[t]' = id[t] /\ id[t]' = id[t]
                      /\ cancelled' = cancelled
                    BY <1>0, <2>1 DEF Cancel!TypeOK
                <5>2. id[t] = t \/ (id[t] = Cancel!Cleared /\ t \in cancelled)
                    BY <2>1, <4>1 DEF Numbered
                <5> QED
                    BY <5>1, <5>2 DEF Numbered
            <4> QED
                BY <3>2, <4>2, <4>3
        <3> QED
            BY <3>1, <3>2
    <2> QED
        BY <1>0, <2>1, <2>2, <2>3 DEF CancelInv
<1>5. ASSUME NEW t \in Cancel!Thread, Cancel!Open(t) PROVE CancelInv'
    <2>1. PICK result \in {"open", "NULL"} : fptr' = [fptr EXCEPT ![t] = result]
        BY <1>5 DEF Cancel!Open
    <2>2. /\ place[t] = "open" /\ place' = [place EXCEPT ![t] = "pushName"]
          /\ UNCHANGED <<main, chosen, id, cancelled, own, fileName, handlers, writing>>
        BY <1>5 DEF Cancel!Open, Cancel!Go
    <2>3. Cancel!TypeOK'
        BY <1>0, <2>1, <2>2 DEF Cancel!TypeOK
    <2>4. ASSUME NEW s \in Cancel!Thread PROVE Stage(s)' /\ Numbered(s)'
        <3>1. CASE s # t
            BY <1>0, <2>1, <2>2, <3>1, ThreadKept DEF Cancel!TypeOK
        <3>2. CASE s = t
            <4>1. Stage(t) /\ Numbered(t)
                BY <1>0
            <4>2. Stage(t)'
                <5>1. /\ place[t]' = "pushName" /\ fptr[t]' = result
                      /\ UNCHANGED <<fileName, handlers, writing>>
                    BY <1>0, <2>1, <2>2 DEF Cancel!TypeOK
                <5> QED
                    BY <2>1, <2>2, <4>1, <5>1 DEF Stage
            <4>3. Numbered(t)'
                BY <1>0, <2>1, <2>2, <4>1 DEF Stage, Numbered, Cancel!TypeOK
            <4> QED
                BY <3>2, <4>2, <4>3
        <3> QED
            BY <3>1, <3>2
    <2> QED
        BY <1>0, <2>2, <2>3, <2>4 DEF CancelInv
<1>6. ASSUME NEW t \in Cancel!Thread, Cancel!PushName(t) PROVE CancelInv'
    <2>1. /\ place[t] = "pushName" /\ place' = [place EXCEPT ![t] = "pushFile"]
          /\ handlers' = [handlers EXCEPT ![t] = NameOnly]
          /\ UNCHANGED <<main, chosen, id, cancelled, own, fileName, fptr, writing>>
        <3>1. handlers[t] = << >> /\ place[t] = "pushName"
            BY <1>0, <1>6, HandlerLists DEF Stage, Cancel!PushName, Cancel!Go
        <3> QED
            BY <1>6, <3>1, HandlerLists DEF Cancel!PushName, Cancel!Go
    <2>2. Cancel!TypeOK'
        BY <1>0, <2>1, HandlerLists DEF Cancel!TypeOK
    <2>3. ASSUME NEW s \in Cancel!Thread PROVE Stage(s)' /\ Numbered(s)'
        <3>1. CASE s # t
            BY <1>0, <2>1, <3>1, ThreadKept DEF Cancel!TypeOK
        <3>2. CASE s = t
            <4>1. Stage(t) /\ Numbered(t)
                BY <1>0
            <4>2. Stage(t)'
                <5>1. /\ fileName[t] = "held" /\ fptr[t] \in {"open", "NULL"}
                      /\ t \notin writing
                    BY <2>1, <4>1 DEF Stage
                <5>2. /\ handlers'[t] = NameOnly /\ fileName'[t] = "held"
                      /\ fptr'[t] = fptr[t] /\ place'[t] = "pushFile" /\ t \notin writing'
                    BY <1>0, <2>1, <5>1 DEF Cancel!TypeOK
                <5> QED
                    BY <5>1, <5>2 DEF Stage
            <4>3. Numbered(t)'
                BY <1>0, <2>1, <4>1, HandlerLists DEF Stage, Numbered, Cancel!TypeOK
            <4> QED
                BY <3>2, <4>2, <4>3
        <3> QED
            BY <3>1, <3>2
    <2> QED
        BY <1>0, <2>1, <2>2, <2>3 DEF CancelInv
<1>7. ASSUME NEW t \in Cancel!Thread, Cancel!PushFile(t) PROVE CancelInv'
    <2>1. /\ place[t] = "pushFile"
          /\ place' = [place EXCEPT ![t] = IF fptr[t] = "NULL" THEN "unwind" ELSE "write"]
          /\ handlers' = [handlers EXCEPT ![t] = Both]
          /\ writing' = IF fptr[t] = "NULL" THEN writing ELSE writing \cup {t}
          /\ UNCHANGED <<main, chosen, id, cancelled, own, fileName, fptr>>
        <3>1. handlers[t] = NameOnly /\ place[t] = "pushFile"
            BY <1>0, <1>7, HandlerLists DEF Stage, Cancel!PushFile, Cancel!Go
        <3> QED
            BY <1>7, <3>1, HandlerLists DEF Cancel!PushFile, Cancel!Go
    <2>2. Cancel!TypeOK'
        BY <1>0, <2>1, HandlerLists DEF Cancel!TypeOK
    <2>3. ASSUME NEW s \in Cancel!Thread PROVE Stage(s)' /\ Numbered(s)'
        <3>1. CASE s # t
            BY <1>0, <2>1, <3>1, ThreadKept DEF Cancel!TypeOK
        <3>2. CASE s = t
            <4>1. Stage(t) /\ Numbered(t)
                BY <1>0
            <4>2. Stage(t)'
                <5>1. /\ handlers[t] = NameOnly /\ fileName[t] = "held"
                      /\ fptr[t] \in {"open", "NULL"} /\ t \notin writing
                    BY <2>1, <4>1, HandlerLists DEF Stage
                <5>2. /\ handlers'[t] = Both /\ fileName'[t] = "held" /\ fptr'[t] = fptr[t]
                      /\ fptr[t] = "NULL" => place'[t] = "unwind" /\ t \notin writing'
                      /\ fptr[t] = "open" => place'[t] = "write"
                    BY <1>0, <2>1, <5>1 DEF Cancel!TypeOK
                <5> QED
                    BY <5>1, <5>2 DEF Stage
            <4>3. Numbered(t)'
                BY <1>0, <2>1, <4>1, HandlerLists DEF Stage, Numbered, Cancel!TypeOK
            <4> QED
                BY <3>2, <4>2, <4>3
        <3> QED
            BY <3>1, <3>2
    <2> QED
        BY <1>0, <2>1, <2>2, <2>3 DEF CancelInv
<1>8. ASSUME NEW t \in Cancel!Thread, Cancel!ActOnCancel(t) PROVE CancelInv'
    <2>1. /\ place[t] \in {"id", "open", "pushName", "pushFile", "write"}
          /\ place' = [place EXCEPT ![t] = "unwind"]
          /\ UNCHANGED <<main, chosen, id, cancelled, own, fileName, fptr, handlers, writing>>
        BY <1>8 DEF Cancel!ActOnCancel, Cancel!Go, Cancel!locals
    <2>2. Cancel!TypeOK'
        BY <1>0, <2>1 DEF Cancel!TypeOK
    <2>3. ASSUME NEW s \in Cancel!Thread PROVE Stage(s)' /\ Numbered(s)'
        <3>1. CASE s # t
            BY <1>0, <2>1, <3>1, ThreadKept DEF Cancel!TypeOK
        <3>2. CASE s = t
            <4>1. Stage(t) /\ Numbered(t)
                BY <1>0
            <4>2. Stage(t)'
                <5>1. /\ place'[t] = "unwind" /\ handlers'[t] = handlers[t]
                      /\ fileName'[t] = fileName[t] /\ fptr'[t] = fptr[t]
                      /\ t \in writing' <=> t \in writing
                    BY <1>0, <2>1 DEF Cancel!TypeOK
                <5>2. CASE handlers[t] = << >>
                    BY <2>1, <4>1, <5>1, <5>2, HandlerLists DEF Stage
                <5>3. CASE handlers[t] = NameOnly
                    BY <2>1, <4>1, <5>1, <5>3, HandlerLists DEF Stage
                <5>4. CASE handlers[t] = Both
                    BY <2>1, <4>1, <5>1, <5>4, HandlerLists DEF Stage
                <5> QED
                    BY <4>1, <5>2, <5>3, <5>4 DEF Stage
            <4>3. Numbered(t)'
                BY <1>0, <2>1, <4>1, HandlerLists DEF Stage, Numbered, Cancel!TypeOK
            <4> QED
                BY <3>2, <4>2, <4>3
        <3> QED
            BY <3>1, <3>2
    <2> QED
        BY <1>0, <2>1, <2>2, <2>3 DEF CancelInv
<1>9. ASSUME NEW t \in Cancel!Thread, Cancel!RunHandler(t) PROVE CancelInv'
    <2>1. /\ place[t] = "unwind" /\ handlers[t] # << >>
          /\ UNCHANGED <<chosen, id, place, own, writing, cancelled>>
        BY <1>9 DEF Cancel!RunHandler
    <2>2. handlers' = [handlers EXCEPT ![t] = Tail(handlers[t])]
        BY <1>9 DEF Cancel!RunHandler
    <2>3. CASE handlers[t] = NameOnly
        <3>1. /\ fileName' = [fileName EXCEPT ![t] = Cancel!Released(fileName[t], "freed", "freed twice")]
              /\ UNCHANGED <<main, fptr>>
            BY <1>9, <2>3, HandlerLists DEF Cancel!RunHandler
        <3>2. /\ fptr[t] \in {"open", "NULL", "closed"} /\ fileName[t] = "held"
              /\ t \in writing => fptr[t] = "closed"
            BY <1>0, <2>1, <2>3, HandlerLists DEF Stage
        <3>3. handlers' = [handlers EXCEPT ![t] = << >>]
            BY <2>2, <2>3, HandlerLists
        <3>4. fileName' = [fileName EXCEPT ![t] = "freed"]
            BY <3>1, <3>2 DEF Cancel!Released
        <3>5. Cancel!TypeOK'
            <4>1. << >> \in Seq({"clear_malloc", "closeFile"})
                BY HandlerLists
            <4> QED
                BY <1>0, <2>1, <3>1, <3>3, <3>4, <4>1 DEF Cancel!TypeOK
        <3>6. ASSUME NEW s \in Cancel!Thread PROVE Stage(s)' /\ Numbered(s)'
            <4>1. CASE s # t
                BY <1>0, <2>1, <3>1, <3>3, <3>4, <4>1, ThreadKept DEF Cancel!TypeOK
            <4>2. CASE s = t
                <5>1. /\ place'[t] = "unwind" /\ handlers'[t] = << >> /\ fileName'[t] = "freed"
                      /\ fptr'[t] = fptr[t] /\ writing' = writing
                    BY <1>0, <2>1, <3>1, <3>3, <3>4 DEF Cancel!TypeOK
                <5>2. Stage(t)'
                    BY <3>2, <5>1 DEF Stage
                <5>3. Numbered(t)'
                    BY <1>0, <2>1, <3>2 DEF Numbered
                <5> QED
                    BY <4>2, <5>2, <5>3
            <4> QED
                BY <4>1, <4>2
        <3> QED
            BY <1>0, <2>1, <3>1, <3>5, <3>6 DEF CancelInv
    <2>4. CASE handlers[t] = Both
        <3>1. /\ fptr[t] = "NULL" => main' = "crashed" /\ UNCHANGED fptr
              /\ fptr[t] # "NULL" =>
                     /\ fptr' = [fptr EXCEPT ![t] = Cancel!Released(fptr[t], "closed", "closed twice")]
                     /\ UNCHANGED main
              /\ UNCHANGED fileName
            BY <1>9, <2>4, HandlerLists DEF Cancel!RunHandler
        <3>2. /\ fptr[t] \in {"open", "NULL"} /\ fileName[t] = "held"
              /\ t \in writing => fptr[t] = "open"
            BY <1>0, <2>1, <2>4, HandlerLists DEF Stage
        <3>3. handlers' = [handlers EXCEPT ![t] = NameOnly]
            BY <2>2, <2>4, HandlerLists
        <3>4. PICK left \in {"NULL", "closed"} :
                  /\ fptr' = [fptr EXCEPT ![t] = left]
                  /\ t \in writing => left = "closed"
            <4>1. CASE fptr[t] = "NULL"
                <5>1. fptr' = [fptr EXCEPT ![t] = "NULL"]
                    BY <1>0, <3>1, <4>1 DEF Cancel!TypeOK
                <5> QED
                    BY <3>2, <4>1, <5>1
            <4>2. CASE fptr[t] = "open"
                BY <3>1, <4>2 DEF Cancel!Released
            <4> QED
                BY <3>2, <4>1, <4>2
        <3>5. main' \in {main, "crashed"}
            BY <3>1
        <3>6. Cancel!TypeOK'
            <4>1. NameOnly \in Seq({"clear_malloc", "closeFile"})
                BY HandlerLists
            <4> QED
                BY <1>0, <2>1, <3>1, <3>3, <3>4, <3>5, <4>1 DEF Cancel!TypeOK
        <3>7. ASSUME NEW s \in Cancel!Thread PROVE Stage(s)' /\ Numbered(s)'
            <4>1. CASE s # t
                <5>1. fptr[s]' = fptr[s]
                    BY <1>0, <3>4, <4>1 DEF Cancel!TypeOK
                <5>2. handlers[s]' = handlers[s] /\ fileName[s]' = fileName[s]
                    BY <1>0, <3>1, <3>3, <4>1 DEF Cancel!TypeOK
                <5> QED
                    BY <1>0, <2>1, <4>1, <5>1, <5>2, ThreadKept
            <4>2. CASE s = t
                <5>1. /\ place'[t] = "unwind" /\ handlers'[t] = NameOnly /\ fileName'[t] = "held"
                      /\ fptr'[t] = left /\ writing' = writing
                    <6>1. place'[t] = "unwind" /\ writing' = writing
                        BY <2>1
                    <6>2. handlers'[t] = NameOnly
                        BY <1>0, <3>3 DEF Cancel!TypeOK
                    <6>3. fileName'[t] = "held" /\ fptr'[t] = left
                        BY <1>0, <3>1, <3>2, <3>4 DEF Cancel!TypeOK
                    <6> QED
                        BY <6>1, <6>2, <6>3
                <5>2. Stage(t)'
                    BY <3>4, <5>1 DEF Stage
                <5>3. Numbered(t)'
                    BY <1>0, <2>1, <3>1 DEF Numbered
                <5> QED
                    BY <4>2, <5>2, <5>3
            <4> QED
                BY <4>1, <4>2
        <3> QED
            BY <1>0, <2>1, <3>5, <3>6, <3>7 DEF CancelInv
    <2> QED
        BY <1>0, <2>1, <2>3, <2>4 DEF Stage
<1>10. ASSUME NEW t \in Cancel!Thread, Cancel!End(t) PROVE CancelInv'
    <2>1. /\ place[t] = "unwind" /\ handlers[t] = << >>
          /\ place' = [place EXCEPT ![t] = "ended"]
          /\ UNCHANGED <<main, chosen, id, cancelled, own, fileName, fptr, handlers, writing>>
        BY <1>10 DEF Cancel!End, Cancel!Go, Cancel!locals
    <2>2. Cancel!TypeOK'
        BY <1>0, <2>1 DEF Cancel!TypeOK
    <2>3. ASSUME NEW s \in Cancel!Thread PROVE Stage(s)' /\ Numbered(s)'
        <3>1. CASE s # t
            BY <1>0, <2>1, <3>1, ThreadKept DEF Cancel!TypeOK
        <3>2. CASE s = t
            <4>1. Stage(t) /\ Numbered(t)
                BY <1>0
            <4>2. Stage(t)'
                <5>1. /\ place[t]' = "ended"
                      /\ UNCHANGED <<fileName, fptr, handlers, writing>>
                    BY <1>0, <2>1 DEF Cancel!TypeOK
                <5> QED
                    BY <2>1, HandlerLists, <4>1, <5>1 DEF Stage
            <4>3. Numbered(t)'
                BY <1>0, <2>1, <4>1, HandlerLists DEF Stage, Numbered, Cancel!TypeOK
            <4> QED
                BY <3>2, <4>2, <4>3
        <3> QED
            BY <3>1, <3>2
    <2> QED
        BY <1>0, <2>1, <2>2, <2>3 DEF CancelInv
<1>11. CASE UNCHANGED Cancel!vars
    <2>1. UNCHANGED <<main, chosen, id, place, own, fileName, fptr, handlers, writing, cancelled>>
        BY <1>11 DEF Cancel!vars
    <2>2. Cancel!TypeOK'
        BY <1>0, <2>1 DEF Cancel!TypeOK
    <2>3. \A s \in Cancel!Thread : Stage(s)' /\ Numbered(s)'
        BY <1>0, <2>1, ThreadKept
    <2> QED
        BY <1>0, <2>1, <2>2, <2>3 DEF CancelInv
<1> QED
    BY <1>1, <1>2, <1>3, <1>4, <1>5, <1>6, <1>7, <1>8, <1>9, <1>10, <1>11
       DEF Cancel!Next, Cancel!ThreadStep

(* However many threads 6. Thread Cancellation creates and at whatever     *)
(* moments they are cancelled, no file and no name is released twice, and  *)
(* a thread that writes releases both.                                     *)
THEOREM NothingLeftCorrect == Cancel!Spec => []NothingLeft
BY CancelInvInit, CancelInvNext, CancelImplies, PTL DEF Cancel!Spec

(* Cancelling threads never disturbs the file of another one.              *)
THEOREM FilesApartCorrect == Cancel!Spec => []FilesApart
BY CancelInvInit, CancelInvNext, CancelImplies, PTL DEF Cancel!Spec

-----------------------------------------------------------------------------
(* The sum and the swap, for an array of any size.                         *)

(* The two ends of the array hold 1 and the size, in one order or the      *)
(* other, and what is lost of them for a moment is in temp.  What has been *)
(* summed is what it is of 1, 2, ..., Size, but for what the ends held.    *)
Ends == {1, ArraySize}

SumInv ==
    /\ Sum!TypeOK
    /\ arr[0] \in Ends /\ arr[ArraySize - 1] \in Ends
    /\ \A k \in 1 .. ArraySize - 2 : arr[k] = k + 1
    /\ replaceArr # "last" => arr[0] + arr[ArraySize - 1] = ArraySize + 1
    /\ replaceArr = "copy" => temp = arr[0]
    /\ replaceArr = "last" => /\ arr[0] = arr[ArraySize - 1]
                              /\ temp \in Ends /\ temp + arr[0] = ArraySize + 1
    /\ variant = "mutex" =>
           /\ printSum = "sum" <=> arr_mutex = "printSum"
           /\ replaceArr # "lock" <=> arr_mutex = "replaceArr"
    /\ printSum = "sum" =>
           /\ cell = 0 => sum = 0
           /\ cell \in 1 .. ArraySize - 1 =>
                  \E c \in Ends : /\ 2 * sum = cell * (cell + 1) + 2 * (c - 1)
                                  /\ variant = "mutex" => c = arr[0]
           /\ cell = ArraySize =>
                  \E c \in {1 - ArraySize, 0, ArraySize - 1} :
                      /\ 2 * sum = ArraySize * (ArraySize + 1) + 2 * c
                      /\ variant = "mutex" => c = 0
    /\ Sum!SumsPrinted

(* The array has two ends.                                                 *)
LEMMA SumSize == ArraySize \in Nat /\ ArraySize >= 2 /\ Sum!Cells = 0 .. ArraySize - 1
BY SmallProgramsAssumption DEF Sum!Cells

(* The array as main fills it has the invariant.                           *)
LEMMA SumInvInit == Sum!Init => SumInv
<1> SUFFICES ASSUME Sum!Init PROVE SumInv
    OBVIOUS
<1> USE SumSize DEF Sum!Init
<1>1. Sum!TypeOK
    BY DEF Sum!TypeOK
<1>2. /\ arr[0] = 1 /\ arr[ArraySize - 1] = ArraySize
      /\ \A k \in 1 .. ArraySize - 2 : arr[k] = k + 1
    BY DEF Ends
<1>3. Sum!SumsPrinted
    BY DEF Sum!SumsPrinted
<1> QED
    BY <1>1, <1>2, <1>3 DEF SumInv, Ends

(* Every access of either thread keeps the invariant.                      *)
LEMMA SumInvNext == SumInv /\ [Sum!Next]_Sum!vars => SumInv'
<1> SUFFICES ASSUME SumInv, [Sum!Next]_Sum!vars PROVE SumInv'
    OBVIOUS
<1> USE SumSize
<1>1. CASE Sum!SumLock
    BY <1>1 DEF SumInv, Sum!SumLock, Sum!TypeOK, Sum!Lock, Sum!swapper, Sum!SumsPrinted, Ends,
                Sum!Total
<1>2. CASE Sum!Add
    <2>1. /\ printSum = "sum" /\ cell \in 0 .. ArraySize - 1
          /\ sum' = sum + arr[cell] /\ cell' = cell + 1
          /\ UNCHANGED <<variant, arr, arr_mutex, printSum, printed, replaceArr, temp>>
        BY <1>2 DEF SumInv, Sum!Add, Sum!swapper, Sum!TypeOK
    <2>2. /\ arr[0] \in Ends /\ arr[ArraySize - 1] \in Ends
          /\ \A k \in 1 .. ArraySize - 2 : arr[k] = k + 1
          /\ sum \in Nat /\ arr[cell] \in Nat
          /\ cell = 0 => sum = 0
        BY <2>1 DEF SumInv, Sum!TypeOK
    <2>3. cell' # 0 /\ cell' \in 0 .. ArraySize /\ sum' \in Nat
        BY <2>1, <2>2
    <2>4. ASSUME cell' \in 1 .. ArraySize - 1
          PROVE  \E c \in Ends : /\ 2 * sum' = cell' * (cell' + 1) + 2 * (c - 1)
                                 /\ variant' = "mutex" => c = arr'[0]
        <3>1. CASE cell = 0
            <4>1. 2 * sum' = cell' * (cell' + 1) + 2 * (arr[0] - 1)
                BY <2>1, <2>2, <3>1 DEF Ends
            <4> QED
                BY <2>1, <2>2, <4>1
        <3>2. CASE cell # 0
            <4>1. PICK c \in Ends : /\ 2 * sum = cell * (cell + 1) + 2 * (c - 1)
                                    /\ variant = "mutex" => c = arr[0]
                BY <2>1, <3>2 DEF SumInv
            <4>2. arr[cell] = cell + 1
                BY <2>1, <2>2, <2>4, <3>2
            <4>3. 2 * sum' = cell' * (cell' + 1) + 2 * (c - 1)
                <5>1. c \in Int
                    BY <4>1 DEF Ends
                <5>2. (cell + 1) * (cell + 2) = cell * (cell + 1) + 2 * (cell + 1)
                    BY <2>1
                <5> QED
                    BY <2>1, <2>2, <4>1, <4>2, <5>1, <5>2
            <4> QED
                BY <2>1, <4>1, <4>3
        <3> QED
            BY <3>1, <3>2
    <2>5. ASSUME cell' = ArraySize
          PROVE  \E c \in {1 - ArraySize, 0, ArraySize - 1} :
                      /\ 2 * sum' = ArraySize * (ArraySize + 1) + 2 * c
                      /\ variant' = "mutex" => c = 0
        <3>1. cell \in 1 .. ArraySize - 1 /\ cell = ArraySize - 1
            BY <2>1, <2>5
        <3>2. PICK c \in Ends : /\ 2 * sum = cell * (cell + 1) + 2 * (c - 1)
                                /\ variant = "mutex" => c = arr[0]
            BY <2>1, <3>1 DEF SumInv
        <3> DEFINE d == c + arr[cell] - (ArraySize + 1)
        <3>3. c \in Int /\ arr[cell] \in Ends /\ d \in {1 - ArraySize, 0, ArraySize - 1}
            BY <2>2, <3>1, <3>2 DEF Ends
        <3>4. 2 * sum' = ArraySize * (ArraySize + 1) + 2 * d
            <4>1. cell * (cell + 1) + 2 * ArraySize = ArraySize * (ArraySize + 1)
                BY <3>1
            <4>2. PICK p \in Int, q \in Int, x \in Nat :
                      /\ p = cell * (cell + 1) /\ q = ArraySize * (ArraySize + 1)
                      /\ x = arr[cell]
                BY <2>1, <2>2
            <4>3. 2 * sum = p + 2 * (c - 1) /\ p + 2 * ArraySize = q /\ sum' = sum + x
                BY <2>1, <3>2, <4>1, <4>2
            <4>4. 2 * sum' = q + 2 * (c + x - (ArraySize + 1))
                BY <2>2, <3>3, <4>3
            <4> QED
                BY <4>2, <4>4
        <3>5. variant = "mutex" => d = 0
            <4>1. variant = "mutex" => replaceArr = "lock"
                BY <2>1 DEF SumInv
            <4> QED
                BY <2>2, <3>1, <3>2, <4>1 DEF SumInv, Ends
        <3> QED
            BY <2>1, <3>3, <3>4, <3>5
    <2>6. Sum!TypeOK' /\ Sum!SumsPrinted'
        BY <2>1, <2>3 DEF SumInv, Sum!TypeOK, Sum!SumsPrinted, Sum!Total
    <2> QED
        BY <2>1, <2>3, <2>4, <2>5, <2>6 DEF SumInv
<1>3. CASE Sum!PrintSum
    <2>1. /\ printSum = "sum" /\ cell = ArraySize /\ printed' = sum /\ printSum' = "lock"
          /\ arr_mutex' = "free"
          /\ UNCHANGED <<variant, arr, cell, sum, replaceArr, temp>>
        BY <1>3 DEF Sum!PrintSum, Sum!Unlock, Sum!swapper
    <2>2. PICK c \in {1 - ArraySize, 0, ArraySize - 1} :
              /\ 2 * sum = ArraySize * (ArraySize + 1) + 2 * c
              /\ variant = "mutex" => c = 0
        BY <2>1 DEF SumInv
    <2>3. sum = Sum!Total + c
        <3>1. PICK p \in Nat : p = ArraySize * (ArraySize + 1)
            OBVIOUS
        <3>2. sum \in Nat /\ c \in Int
            BY <2>1 DEF SumInv, Sum!TypeOK
        <3>3. p = 2 * (sum - c)
            BY <2>2, <3>1, <3>2
        <3>4. p \div 2 = sum - c
            BY <3>2, <3>3
        <3> QED
            BY <3>1, <3>2, <3>4 DEF Sum!Total
    <2>4. Sum!SumsPrinted'
        <3>1. Sum!Total \in Int
            BY DEF Sum!Total
        <3> QED
            BY <2>1, <2>2, <2>3, <3>1 DEF Sum!SumsPrinted, Sum!Total
    <2>5. Sum!TypeOK'
        BY <2>1 DEF SumInv, Sum!TypeOK
    <2>6. variant = "mutex" => replaceArr = "lock"
        BY <2>1 DEF SumInv
    <2> QED
        BY <2>1, <2>4, <2>5, <2>6 DEF SumInv
<1>4. CASE Sum!SwapLock
    BY <1>4 DEF SumInv, Sum!SwapLock, Sum!TypeOK, Sum!Lock, Sum!printer, Sum!SumsPrinted, Ends,
                Sum!Total
<1>5. CASE Sum!SwapFirst
    BY <1>5 DEF SumInv, Sum!SwapFirst, Sum!TypeOK, Sum!printer, Sum!SumsPrinted, Ends, Sum!Total
<1>6. CASE Sum!SwapCopy
    BY <1>6 DEF SumInv, Sum!SwapCopy, Sum!TypeOK, Sum!printer, Sum!SumsPrinted, Ends, Sum!Total
<1>7. CASE Sum!SwapLast
    BY <1>7 DEF SumInv, Sum!SwapLast, Sum!TypeOK, Sum!printer, Sum!SumsPrinted, Ends, Sum!Total
<1>8. CASE Sum!SwapUnlock
    BY <1>8 DEF SumInv, Sum!SwapUnlock, Sum!Unlock, Sum!TypeOK, Sum!printer, Sum!SumsPrinted,
                Ends, Sum!Total
<1>9. CASE UNCHANGED Sum!vars
    BY <1>9 DEF SumInv, Sum!vars, Sum!printer, Sum!swapper, Sum!TypeOK, Sum!SumsPrinted, Ends,
                Sum!Total
<1> QED
    BY <1>1, <1>2, <1>3, <1>4, <1>5, <1>6, <1>7, <1>8, <1>9 DEF Sum!Next

(* Whatever the number of cells and however the two threads of 8. Mutexes  *)
(* interleave, only the sums of the comment are printed, and only the      *)
(* right one when both use the mutex.                                      *)
THEOREM SumsPrintedCorrect == Sum!Spec => []SumsPrinted
<1>1. SumInv => SumsPrinted
    BY DEF SumInv, SumsPrinted
<1> QED
    BY <1>1, SumInvInit, SumInvNext, PTL DEF Sum!Spec

-----------------------------------------------------------------------------
(* The message queue, for any number of senders and messages.              *)

(* The numbers in s rise, and none is above n.                             *)
Rising(s, n) ==
    /\ s \in Seq(Nat)
    /\ \A j, k \in 1 .. Len(s) : j < k => s[j] < s[k]
    /\ \A j \in 1 .. Len(s) : s[j] <= n

(* The next number goes behind the others.                                 *)
LEMMA AppendRises ==
    ASSUME NEW n \in Nat, NEW s, Rising(s, n)
    PROVE  Rising(Append(s, n + 1), n + 1) /\ Len(Append(s, n + 1)) = Len(s) + 1
<1> DEFINE t == Append(s, n + 1)
<1>1. s \in Seq(Nat) /\ Len(s) \in Nat /\ n + 1 \in Nat
    BY DEF Rising
<1>2. /\ t \in Seq(Nat) /\ Len(t) = Len(s) + 1 /\ t[Len(s) + 1] = n + 1
      /\ \A j \in 1 .. Len(s) : t[j] = s[j]
    BY <1>1
<1> HIDE DEF t
<1>3. \A j \in 1 .. Len(s) : s[j] \in Nat
    BY <1>1
<1>4. \A j \in 1 .. Len(s) : t[j] \in Nat /\ t[j] <= n
    BY <1>2, <1>3 DEF Rising
<1>5. \A j \in 1 .. Len(t) : t[j] <= n + 1
    <2> SUFFICES ASSUME NEW j \in 1 .. Len(t) PROVE t[j] <= n + 1
        OBVIOUS
    <2>1. CASE j = Len(s) + 1
        BY <1>1, <1>2, <2>1
    <2>2. CASE j # Len(s) + 1
        <3>1. j \in 1 .. Len(s)
            BY <1>1, <1>2, <2>2
        <3> QED
            BY <1>4, <3>1
    <2> QED
        BY <2>1, <2>2
<1>6. \A j, k \in 1 .. Len(t) : j < k => t[j] < t[k]
    <2> SUFFICES ASSUME NEW j \in 1 .. Len(t), NEW k \in 1 .. Len(t), j < k PROVE t[j] < t[k]
        OBVIOUS
    <2>0. PICK e \in Nat : e = Len(s)
        BY <1>1
    <2>1. j \in 1 .. e /\ k \in 1 .. e + 1
        BY <1>2, <2>0
    <2>2. CASE k = Len(s) + 1
        BY <1>2, <1>4, <2>0, <2>1, <2>2
    <2>3. CASE k # Len(s) + 1
        <3>1. j \in 1 .. Len(s) /\ k \in 1 .. Len(s)
            BY <2>0, <2>1, <2>3
        <3>2. s[j] < s[k]
            BY <3>1 DEF Rising
        <3> QED
            BY <1>2, <3>1, <3>2
    <2> QED
        BY <2>2, <2>3
<1> QED
    BY <1>2, <1>5, <1>6 DEF Rising, t

(* Appending to the last part is appending to the whole.                   *)
LEMMA AppendGoesBehind ==
    ASSUME NEW p \in Seq(Nat), NEW q \in Seq(Nat), NEW n \in Nat
    PROVE  p \o Append(q, n) = Append(p \o q, n)
OBVIOUS

(* What is left when what stands between two parts is taken out rises.     *)
LEMMA WithoutRises ==
    ASSUME NEW n \in Nat, NEW p \in Seq(Nat), NEW m \in Seq(Nat), NEW q \in Seq(Nat),
           Rising(p \o m \o q, n)
    PROVE  Rising(p \o q, n) /\ Len(p \o m \o q) = Len(p) + Len(m) + Len(q)
                             /\ Len(p \o q) = Len(p) + Len(q)
<1> DEFINE w == p \o m \o q
           u == p \o q
           at(j) == IF j <= Len(p) THEN j ELSE j + Len(m)
<1>1. w \in Seq(Nat) /\ Len(w) = Len(p) + Len(m) + Len(q)
    OBVIOUS
<1>2. u \in Seq(Nat) /\ Len(u) = Len(p) + Len(q)
    OBVIOUS
<1>3. \A j \in 1 .. Len(u) : at(j) \in 1 .. Len(w) /\ u[j] = w[at(j)]
    <2> SUFFICES ASSUME NEW j \in 1 .. Len(u) PROVE at(j) \in 1 .. Len(w) /\ u[j] = w[at(j)]
        OBVIOUS
    <2>1. CASE j <= Len(p)
        BY <1>1, <1>2, <2>1
    <2>2. CASE j > Len(p)
        <3>1. u[j] = q[j - Len(p)]
            BY <1>2, <2>2
        <3>2. at(j) = j + Len(m) /\ at(j) \in 1 .. Len(w) /\ at(j) > Len(p \o m)
              /\ Len(p \o m) = Len(p) + Len(m) /\ p \o m \in Seq(Nat)
            BY <1>1, <1>2, <2>2
        <3>3. w[at(j)] = q[at(j) - (Len(p) + Len(m))]
            BY <1>1, <3>2
        <3> QED
            BY <2>2, <3>1, <3>2, <3>3
    <2>3. j \in Nat /\ Len(p) \in Nat
        BY <1>2
    <2> HIDE DEF w, u, at
    <2> QED
        BY <2>1, <2>2, <2>3
<1>4. \A j, k \in 1 .. Len(u) : j < k => at(j) < at(k)
    BY <1>2
<1> HIDE DEF w, u, at
<1>5. Rising(w, n)
    BY DEF w
<1>6. Rising(u, n)
    BY <1>1, <1>2, <1>3, <1>4, <1>5 DEF Rising
<1> QED
    BY <1>1, <1>2, <1>6 DEF w, u

(* Taking the head of a queue into an empty hand changes nothing on the    *)
(* way, nor does printing what is in hand.                                 *)
LEMMA HandOver ==
    ASSUME NEW p \in Seq(Nat), NEW q \in Seq(Nat), q # << >>
    PROVE  /\ <<Head(q)>> \in Seq(Nat) /\ Tail(q) \in Seq(Nat)
           /\ p \o <<Head(q)>> \o Tail(q) = p \o << >> \o q
<1>1. Head(q) \in Nat /\ Tail(q) \in Seq(Nat) /\ <<Head(q)>> \in Seq(Nat)
    OBVIOUS
<1>2. PICK h \in Seq(Nat), t \in Seq(Nat) : h = <<Head(q)>> /\ t = Tail(q)
    BY <1>1
<1>3. h \o t = q
    BY <1>2
<1>4. (p \o h) \o t = p \o (h \o t)
    OBVIOUS
<1>5. p \o << >> \o q = p \o q
    BY ConcatEmptySeq
<1> QED
    BY <1>1, <1>2, <1>3, <1>4, <1>5

(* Before anybody has opened the queue nobody has been refused.  A message *)
(* is in the buffer of a receiver that is about to print it.  On the way   *)
(* no number is higher than that of the message accepted last.             *)
QueueInv ==
    /\ Mqueue!TypeOK
    /\ creator = "nobody" => /\ receiver = "off"
                             /\ \A s \in Sender : sender[s] \in {"type", "open"}
    /\ creator = "receiver" =>
           /\ receiver # "failed"
           /\ \A s \in Sender : sender[s] = "refused" => length[s] = "long"
    /\ Len(hand) = IF receiver = "print" THEN 1 ELSE 0
    /\ Rising(Mqueue!Way, accepted)
    /\ Len(Mqueue!Way) + lost = accepted

(* Before the queue is created the invariant holds.                        *)
LEMMA QueueInvInit == Mqueue!Init => QueueInv
<1> SUFFICES ASSUME Mqueue!Init PROVE QueueInv
    OBVIOUS
<1>1. Mqueue!Way = << >> /\ accepted = 0 /\ lost = 0
    BY DEF Mqueue!Init, Mqueue!Way
<1>2. Rising(Mqueue!Way, accepted) /\ Len(Mqueue!Way) + lost = accepted
    BY <1>1 DEF Rising
<1>3. Mqueue!TypeOK
    BY DEF Mqueue!Init, Mqueue!TypeOK
<1> QED
    BY <1>2, <1>3 DEF Mqueue!Init, QueueInv

(* A step that leaves the messages alone leaves them where they are.       *)
LEMMA WayKept ==
    ASSUME QueueInv, UNCHANGED <<messages, hand, shown, accepted, lost>>
    PROVE  Rising(Mqueue!Way, accepted)' /\ (Len(Mqueue!Way) + lost = accepted)'
BY DEF QueueInv, Mqueue!Way, Rising

(* Every call on the queue keeps the invariant.                            *)
LEMMA QueueInvNext == QueueInv /\ [Mqueue!Next]_Mqueue!vars => QueueInv'
<1> SUFFICES ASSUME QueueInv, [Mqueue!Next]_Mqueue!vars PROVE QueueInv'
    OBVIOUS
<1>0. /\ messages \in Seq(Nat) /\ hand \in Seq(Nat) /\ shown \in Seq(Nat)
      /\ accepted \in Nat /\ lost \in Nat
      /\ Mqueue!Way = shown \o hand \o messages
      /\ Rising(shown \o hand \o messages, accepted)
      /\ Len(shown \o hand \o messages) + lost = accepted
    BY DEF QueueInv, Mqueue!TypeOK, Mqueue!Way
<1>1. ASSUME NEW s \in Sender, Mqueue!Type(s) PROVE QueueInv'
    BY <1>1, WayKept DEF Mqueue!Type, QueueInv, Mqueue!TypeOK
<1>2. ASSUME NEW s \in Sender, Mqueue!SenderOpen(s) PROVE QueueInv'
    BY <1>2, WayKept
        DEF Mqueue!SenderOpen, Mqueue!MayOpen, Mqueue!CreatedBy, QueueInv, Mqueue!TypeOK
<1>3. ASSUME NEW s \in Sender, Mqueue!Send(s) PROVE QueueInv'
    <2>1. /\ messages' = Append(messages, accepted + 1) /\ accepted' = accepted + 1
          /\ UNCHANGED <<hand, shown, lost, creator, length, receiver>>
          /\ sender' = [sender EXCEPT ![s] = "sent"]
          /\ sender[s] = "send"
          /\ UNCHANGED root
        BY <1>3 DEF Mqueue!Send
    <2>2. messages' \in Seq(Nat) /\ accepted' \in Nat
        BY <1>0, <2>1
    <2>3. shown \o hand \in Seq(Nat)
        BY <1>0
    <2>4. Mqueue!Way' = Append(shown \o hand \o messages, accepted + 1)
        <3>1. accepted + 1 \in Nat
            BY <1>0
        <3>2. Mqueue!Way' = (shown \o hand) \o Append(messages, accepted + 1)
            BY <2>1 DEF Mqueue!Way
        <3> QED
            BY <1>0, <2>3, <3>1, <3>2, AppendGoesBehind
    <2>5. Rising(Mqueue!Way, accepted)' /\ (Len(Mqueue!Way) + lost = accepted)'
        <3>1. /\ Rising(Append(shown \o hand \o messages, accepted + 1), accepted + 1)
              /\ Len(Append(shown \o hand \o messages, accepted + 1))
                     = Len(shown \o hand \o messages) + 1
            BY <1>0, AppendRises
        <3>2. Rising(Mqueue!Way', accepted')
            BY <2>1, <2>4, <3>1
        <3>3. Len(shown \o hand \o messages) \in Nat
            BY <1>0, <2>3
        <3>4. Len(Mqueue!Way') + lost' = accepted'
            BY <1>0, <2>1, <2>4, <3>1, <3>3
        <3> QED
            BY <3>2, <3>4 DEF Rising
    <2> QED
        BY <2>1, <2>2, <2>5 DEF QueueInv, Mqueue!TypeOK
<1>4. ASSUME NEW s \in Sender, Mqueue!SendFails(s) PROVE QueueInv'
    BY <1>4, WayKept DEF Mqueue!SendFails, Mqueue!TooLong, QueueInv, Mqueue!TypeOK
<1>5. CASE Mqueue!ReceiverOpen
    BY <1>5, WayKept
        DEF Mqueue!ReceiverOpen, Mqueue!MayOpen, Mqueue!CreatedBy, QueueInv, Mqueue!TypeOK
<1>6. CASE Mqueue!Receive
    <2>1. /\ messages # << >> /\ hand' = <<Head(messages)>> /\ messages' = Tail(messages)
          /\ receiver = "receive" /\ receiver' = "print"
          /\ UNCHANGED <<root, creator, accepted, sender, length, shown, lost>>
        BY <1>6 DEF Mqueue!Receive
    <2>2. hand = << >>
        BY <1>0, <2>1 DEF QueueInv
    <2>3. /\ hand' \in Seq(Nat) /\ messages' \in Seq(Nat)
          /\ Mqueue!Way' = shown \o hand \o messages
        BY <1>0, <2>1, <2>2, HandOver DEF Mqueue!Way
    <2>4. Rising(Mqueue!Way, accepted)' /\ (Len(Mqueue!Way) + lost = accepted)'
        BY <1>0, <2>1, <2>3 DEF Rising
    <2>5. Len(hand') = 1
        BY <2>1
    <2> QED
        BY <2>1, <2>3, <2>4, <2>5 DEF QueueInv, Mqueue!TypeOK
<1>7. CASE Mqueue!ReceiveFails
    BY <1>7, WayKept DEF Mqueue!ReceiveFails, Mqueue!BufferFits, QueueInv, Mqueue!TypeOK
<1>8. CASE Mqueue!PrintReceived
    <2>1. /\ shown' = shown \o hand /\ hand' = << >>
          /\ receiver = "print" /\ receiver' = "receive"
          /\ UNCHANGED <<root, creator, messages, accepted, sender, length, lost>>
        BY <1>8 DEF Mqueue!PrintReceived
    <2>2. shown' \in Seq(Nat) /\ hand' \in Seq(Nat) /\ Len(hand') = 0
        BY <1>0, <2>1
    <2>3. Mqueue!Way' = shown \o hand \o messages
        BY <1>0, <2>1, <2>2, ConcatEmptySeq DEF Mqueue!Way
    <2>4. Rising(Mqueue!Way, accepted)' /\ (Len(Mqueue!Way) + lost = accepted)'
        BY <1>0, <2>1, <2>3 DEF Rising
    <2> QED
        BY <2>1, <2>2, <2>4 DEF QueueInv, Mqueue!TypeOK
<1>9. CASE Mqueue!Restart
    <2>1. /\ receiver' = "off" /\ lost' = lost + Len(hand) /\ hand' = << >>
          /\ UNCHANGED <<root, creator, messages, accepted, sender, length, shown>>
        BY <1>9 DEF Mqueue!Restart
    <2>2. hand' \in Seq(Nat) /\ Len(hand') = 0 /\ lost' \in Nat
        BY <1>0, <2>1
    <2>3. Mqueue!Way' = shown \o messages
        BY <1>0, <2>1, ConcatEmptySeq DEF Mqueue!Way
    <2>4. /\ Rising(shown \o messages, accepted)
          /\ Len(shown \o hand \o messages) = Len(shown) + Len(hand) + Len(messages)
          /\ Len(shown \o messages) = Len(shown) + Len(messages)
        BY <1>0, WithoutRises
    <2>5. Rising(Mqueue!Way', accepted')
        BY <2>1, <2>3, <2>4
    <2>6. Len(Mqueue!Way') + lost' = accepted'
        <3>1. Len(shown) \in Nat /\ Len(hand) \in Nat /\ Len(messages) \in Nat
            BY <1>0
        <3>2. Len(shown) + Len(hand) + Len(messages) + lost = accepted
            BY <1>0, <2>4
        <3>3. Len(Mqueue!Way') = Len(shown) + Len(messages)
            BY <2>3, <2>4
        <3> QED
            BY <1>0, <2>1, <3>1, <3>2, <3>3
    <2>7. Rising(Mqueue!Way, accepted)' /\ (Len(Mqueue!Way) + lost = accepted)'
        BY <2>5, <2>6 DEF Rising
    <2> QED
        BY <2>1, <2>2, <2>7 DEF QueueInv, Mqueue!TypeOK
<1>10. CASE UNCHANGED Mqueue!vars
    BY <1>10, WayKept DEF Mqueue!vars, QueueInv, Mqueue!TypeOK
<1> QED
    BY <1>1, <1>2, <1>3, <1>4, <1>5, <1>6, <1>7, <1>8, <1>9, <1>10 DEF Mqueue!Next

(* If the receiver creates the queue of 23. Message Queue, nobody fails    *)
(* later but with a message that is too long; and messages are printed in  *)
(* order, each once, apart from those a killed receiver had in hand,       *)
(* however many senders there are and however often it is restarted.       *)
THEOREM ReceiverFirstDeliversCorrect == Mqueue!Spec => []ReceiverFirstDelivers
<1>1. ASSUME QueueInv PROVE ReceiverFirstDelivers
    <2>1. DOMAIN Mqueue!Way = 1 .. Len(Mqueue!Way)
        BY <1>1 DEF QueueInv, Rising
    <2> QED
        BY <1>1, <2>1 DEF QueueInv, Rising, ReceiverFirstDelivers, Mqueue!ReceiverFirstDelivers
<1> QED
    BY <1>1, QueueInvInit, QueueInvNext, PTL DEF Mqueue!Spec

-----------------------------------------------------------------------------
(* What is proved of the machines alone holds of them side by side.        *)

(* A step of one machine is a step of that machine alone.                  *)
LEMMA MachinesApart ==
    [SmallNext]_smallVars => /\ [List!Next]_(List!vars) /\ [Cancel!Next]_(Cancel!vars)
                             /\ [Sum!Next]_(Sum!vars) /\ [Mqueue!Next]_(Mqueue!vars)
                             /\ [Buffer!Next]_(Buffer!vars)
<1> USE DEF smallVars, listVars, cancelVars, sumVars, queueVars, bufferVars,
            List!vars, Cancel!vars, Sum!vars, Mqueue!vars, Buffer!vars
<1>1. [SmallNext]_smallVars => [List!Next]_(List!vars)
    BY DEF SmallNext
<1>2. [SmallNext]_smallVars => [Cancel!Next]_(Cancel!vars)
    BY DEF SmallNext
<1>3. [SmallNext]_smallVars => [Sum!Next]_(Sum!vars)
    BY DEF SmallNext, Sum!printer, Sum!swapper
<1>4. [SmallNext]_smallVars => [Mqueue!Next]_(Mqueue!vars)
    BY DEF SmallNext
<1>5. [SmallNext]_smallVars => [Buffer!Next]_(Buffer!vars)
    BY DEF SmallNext
<1> QED
    BY <1>1, <1>2, <1>3, <1>4, <1>5

(* The specification that is model-checked is, seen from each machine, the *)
(* specification of that machine.                                          *)
THEOREM MachinesAlone ==
    SmallSpec => List!Spec /\ Cancel!Spec /\ Sum!Spec /\ Mqueue!Spec /\ Buffer!Spec
<1>1. SmallInit => List!Init /\ Cancel!Init /\ Sum!Init /\ Mqueue!Init /\ Buffer!Init
    BY DEF SmallInit
<1> QED
    BY <1>1, MachinesApart, PTL
        DEF SmallSpec, List!Spec, Cancel!Spec, Sum!Spec, Mqueue!Spec, Buffer!Spec

-----------------------------------------------------------------------------
(* The dining philosophers, for a table of any size: nobody holds a spoon  *)
(* while blocked, and the assertions of phil_eat hold.                     *)

USE DiningAssumption, PThreadsAssumption

(* The two spoons of a philosopher are two spoons of the table.            *)
LEMMA TwoSpoons ==
    ASSUME NEW p \in Thread
    PROVE  /\ left_spoon(p) \in Spoon
           /\ right_spoon(p) \in Spoon
           /\ left_spoon(p) # right_spoon(p)
BY DEF left_spoon, right_spoon, Spoon

(* Marking and unmarking keep the types of the marks.                      *)
LEMMA MarkTypes ==
    ASSUME TypeOK, NEW p \in Thread, NEW S,
           Mark(p, S) \/ Unmark(S) \/ NoMarks
    PROVE  /\ is_used' \in [Spoon -> BOOLEAN]
           /\ phil' \in [Spoon -> Thread \cup {NoThread}]
<1>1. CASE Mark(p, S)
    <2>1. phil' \in [Spoon -> Thread \cup {NoThread}]
        BY <1>1 DEF Mark, TypeOK
    <2>2. is_used' \in [Spoon -> BOOLEAN]
        BY <1>1, Zenon DEF Mark
    <2> QED
        BY <2>1, <2>2
<1>2. CASE Unmark(S)
    <2>1. phil' \in [Spoon -> Thread \cup {NoThread}]
        BY <1>2 DEF Unmark, TypeOK
    <2>2. is_used' \in [Spoon -> BOOLEAN]
        BY <1>2, Zenon DEF Unmark
    <2> QED
        BY <2>1, <2>2
<1>3. CASE NoMarks
    BY <1>3 DEF NoMarks, TypeOK
<1> QED
    BY <1>1, <1>2, <1>3

(* Every step of a philosopher marks, unmarks or leaves the marks alone.   *)
LEMMA StepMarks ==
    ASSUME NEW p \in Thread, Step(p) \/ SpuriousWake(p)
    PROVE  /\ \E S \in SUBSET Spoon : Mark(p, S) \/ Unmark(S) \/ NoMarks
           /\ program' = program
<1>1. program' = program
    BY DEF Step, SpuriousWake
<1>2. left_spoon(p) \in Spoon /\ right_spoon(p) \in Spoon
    BY TwoSpoons
<1>3. CASE LockLeft(p)
    BY <1>1, <1>2, <1>3 DEF LockLeft
<1>4. CASE TryRight(p)
    <2>1. CASE program = "Assignment"
        <3>1. Mark(p, {right_spoon(p)} \cup {})
            BY <1>4, <2>1 DEF TryRight
        <3> QED
            BY <1>1, <1>2, <3>1
    <2>2. CASE program # "Assignment"
        <3>1. Mark(p, {right_spoon(p)} \cup {left_spoon(p)})
            BY <1>4, <2>2 DEF TryRight
        <3> QED
            BY <1>1, <1>2, <3>1
    <2> QED
        BY <2>1, <2>2
<1>5. CASE BackOff(p)
    BY <1>1, <1>2, <1>5 DEF BackOff
<1>6. CASE EatAndRelease(p)
    BY <1>1, <1>2, <1>6 DEF EatAndRelease
<1>7. CASE TryAgain(p) \/ TryFails(p) \/ Sleep(p) \/ Relock(p) \/ UnlockLeft(p) \/ Rested(p)
           \/ SpuriousWake(p)
    BY <1>1, <1>7 DEF TryAgain, TryFails, Sleep, Relock, UnlockLeft, Rested, SpuriousWake
<1> QED
    BY <1>1, <1>3, <1>4, <1>5, <1>6, <1>7 DEF Step

-----------------------------------------------------------------------------
(* Who owns a spoon follows from where the philosophers are.               *)
LEMMA HoldsInductive == NoHoldAndWait /\ [Next]_vars => NoHoldAndWait'
<1> SUFFICES ASSUME NoHoldAndWait, [Next]_vars PROVE NoHoldAndWait'
    OBVIOUS
<1> USE DEF NoHoldAndWait, Goto, Take, PutBack
<1>1. CASE UNCHANGED vars
    BY <1>1 DEF vars, TypeOK, Holds
<1>2. ASSUME NEW p \in Thread, Step(p) \/ SpuriousWake(p)
      PROVE  NoHoldAndWait'
    <2>1. /\ left_spoon(p) \in Spoon /\ right_spoon(p) \in Spoon
          /\ left_spoon(p) # right_spoon(p)
        BY TwoSpoons
    <2>2. /\ program' \in Programs
          /\ is_used' \in [Spoon -> BOOLEAN]
          /\ phil' \in [Spoon -> Thread \cup {NoThread}]
        <3>1. PICK S \in SUBSET Spoon : Mark(p, S) \/ Unmark(S) \/ NoMarks
            BY <1>2, StepMarks
        <3> QED
            BY <1>2, <3>1, StepMarks, MarkTypes DEF TypeOK
    <2>3. /\ pc \in [Thread -> Labels]
          /\ mutex \in [Spoon -> Thread \cup {NoThread}]
          /\ \A q \in Thread, s \in Spoon : mutex[s] = q <=> s \in Holds(q)
        BY DEF TypeOK
    <2> DEFINE Sound ==
            /\ mutex' \in [Spoon -> Thread \cup {NoThread}]
            /\ pc' \in [Thread -> Labels]
            /\ \A q \in Thread, s \in Spoon : mutex'[s] = q <=> s \in Holds(q)'
    <2> SUFFICES Sound
        BY <2>2 DEF TypeOK
    <2> USE DEF Labels, Holds
    <2>4. CASE LockLeft(p)
        BY <2>1, <2>3, <2>4 DEF LockLeft
    <2>5. CASE TryRight(p)
        BY <2>1, <2>3, <2>5 DEF TryRight
    <2>6. CASE BackOff(p)
        BY <2>1, <2>3, <2>6 DEF BackOff
    <2>7. CASE TryAgain(p) \/ TryFails(p) \/ Rested(p) \/ SpuriousWake(p)
        BY <2>1, <2>3, <2>7 DEF TryAgain, TryFails, Rested, SpuriousWake
    <2>8. CASE Sleep(p)
        BY <2>1, <2>3, <2>8 DEF Sleep
    <2>9. CASE Relock(p)
        BY <2>1, <2>3, <2>9 DEF Relock
    <2>10. CASE EatAndRelease(p)
        BY <2>1, <2>3, <2>10 DEF EatAndRelease
    <2>11. CASE UnlockLeft(p)
        BY <2>1, <2>3, <2>11 DEF UnlockLeft
    <2> QED
        BY <1>2, <2>4, <2>5, <2>6, <2>7, <2>8, <2>9, <2>10, <2>11 DEF Step
<1> QED
    BY <1>1, <1>2 DEF Next

(* THEOREM: both programs, any number of philosophers.  Nobody holds a     *)
(* spoon while it blocks in a lock or sleeps: each spoon is owned by the   *)
(* philosopher that is past its lock and by no other.                      *)
THEOREM NoHoldAndWaitCorrect == Spec => []NoHoldAndWait
<1>1. Init => NoHoldAndWait
    <2> SUFFICES ASSUME Init PROVE NoHoldAndWait
        OBVIOUS
    <2>1. is_used \in [Spoon -> BOOLEAN]
        BY DEF Init
    <2> QED
        BY <2>1 DEF Init, NoHoldAndWait, TypeOK, Labels, Holds
<1> QED
    BY <1>1, HoldsInductive, PTL DEF Spec

-----------------------------------------------------------------------------
(* The spoons that carry the mark of philosopher p: in Assignment.c the    *)
(* left one already while it tries the right one.  They are among those it *)
(* holds, which is why no other philosopher touches the marks.             *)
Marked(p) ==
    IF pc[p] = "eat" THEN {left_spoon(p), right_spoon(p)}
    ELSE IF pc[p] = "try_right" /\ program = "Assignment" THEN {left_spoon(p)}
    ELSE {}

MarksOwned ==
    /\ \A p \in Thread : \A s \in Marked(p) : is_used[s] /\ phil[s] = p
    /\ \A p \in Thread : pc[p] \in {"wait", "sleep", "relock"} => program # "Assignment"

(* A philosopher holds the spoons that carry its mark.                     *)
LEMMA MarkedHeld ==
    ASSUME NoHoldAndWait, NEW p \in Thread, NEW s \in Marked(p)
    PROVE  s \in Spoon /\ mutex[s] = p
BY TwoSpoons DEF Marked, Holds, NoHoldAndWait

(* The second part: only the second solution sleeps.                       *)
LEMMA OnlySecondSleeps == NoHoldAndWait /\ MarksOwned /\ [Next]_vars =>
    \A q \in Thread : pc'[q] \in {"wait", "sleep", "relock"} => program' # "Assignment"
<1> SUFFICES ASSUME NoHoldAndWait, MarksOwned, [Next]_vars,
                    NEW q \in Thread, pc'[q] \in {"wait", "sleep", "relock"}
             PROVE  program' # "Assignment"
    OBVIOUS
<1> pc \in [Thread -> Labels]
    BY DEF NoHoldAndWait, TypeOK
<1>1. CASE UNCHANGED vars
    BY <1>1 DEF vars, MarksOwned
<1>2. ASSUME NEW p \in Thread, Step(p) \/ SpuriousWake(p)
      PROVE  program' # "Assignment"
    <2>1. program' = program
        BY <1>2, StepMarks
    <2>2. CASE TryFails(p)
        BY <2>1, <2>2 DEF TryFails
    <2>3. CASE ~TryFails(p)
        <3>1. pc[q] \in {"wait", "sleep", "relock"}
            BY <1>2, <2>3
            DEF Step, SpuriousWake, LockLeft, TryRight, BackOff, TryAgain, Sleep, Relock,
                EatAndRelease, UnlockLeft, Rested, Goto
        <3> QED
            BY <2>1, <3>1 DEF MarksOwned
    <2> QED
        BY <2>2, <2>3
<1> QED
    BY <1>1, <1>2 DEF Next

(* The first part, for the others: a step of p changes the marks of spoons *)
(* that p holds, or that were free.                                        *)
LEMMA OthersMarks ==
    ASSUME NoHoldAndWait, MarksOwned, NEW p \in Thread, Step(p) \/ SpuriousWake(p),
           NEW q \in Thread \ {p}, NEW s \in Marked(q)'
    PROVE  is_used'[s] /\ phil'[s] = q
<1>1. program' = program
    BY StepMarks
<1>2. /\ pc \in [Thread -> Labels]
      /\ \A u \in Thread, x \in Spoon : mutex[x] = u <=> x \in Holds(u)
    BY DEF NoHoldAndWait, TypeOK
<1>3. pc'[q] = pc[q] \/ pc'[q] = "relock"
    BY <1>2
    DEF Step, SpuriousWake, LockLeft, TryRight, BackOff, TryAgain, TryFails, Sleep, Relock,
        EatAndRelease, UnlockLeft, Rested, Goto
<1>4. s \in Marked(q)
    BY <1>1, <1>3 DEF Marked
<1>5. s \in Spoon /\ mutex[s] = q /\ is_used[s] /\ phil[s] = q
    BY <1>4, MarkedHeld DEF MarksOwned
<1>6. q # NoThread /\ q # p
    OBVIOUS
<1>7. CASE LockLeft(p)
    BY <1>5, <1>6, <1>7 DEF LockLeft, Take, Mark, NoMarks
<1>8. CASE TryRight(p)
    <2>1. pc[p] = "try_right" /\ mutex[left_spoon(p)] = p
        BY <1>2, <1>8, TwoSpoons DEF TryRight, Holds
    <2>2. s # left_spoon(p) /\ s # right_spoon(p)
        BY <1>5, <1>6, <1>8, <2>1 DEF TryRight, Take
    <2> QED
        BY <1>5, <1>8, <2>2 DEF TryRight, Mark
<1>9. CASE BackOff(p)
    <2>1. mutex[left_spoon(p)] = p
        BY <1>2, <1>9, TwoSpoons DEF BackOff, Holds
    <2> QED
        BY <1>5, <1>6, <1>9, <2>1 DEF BackOff, Unmark
<1>10. CASE EatAndRelease(p)
    <2>1. mutex[left_spoon(p)] = p /\ mutex[right_spoon(p)] = p
        BY <1>2, <1>10, TwoSpoons DEF EatAndRelease, Holds
    <2> QED
        BY <1>5, <1>6, <1>10, <2>1 DEF EatAndRelease, Unmark
<1>11. CASE TryAgain(p) \/ TryFails(p) \/ Sleep(p) \/ Relock(p) \/ UnlockLeft(p) \/ Rested(p)
            \/ SpuriousWake(p)
    BY <1>5, <1>11
    DEF TryAgain, TryFails, Sleep, Relock, UnlockLeft, Rested, SpuriousWake, NoMarks
<1> QED
    BY <1>7, <1>8, <1>9, <1>10, <1>11 DEF Step

(* ... and for p itself.                                                   *)
LEMMA OwnMarks ==
    ASSUME NoHoldAndWait, MarksOwned, NEW p \in Thread, Step(p) \/ SpuriousWake(p),
           NEW s \in Marked(p)'
    PROVE  is_used'[s] /\ phil'[s] = p
<1>1. program' = program
    BY StepMarks
<1>2. pc \in [Thread -> Labels]
    BY DEF NoHoldAndWait, TypeOK
<1>3. left_spoon(p) \in Spoon /\ right_spoon(p) \in Spoon
    BY TwoSpoons
<1>4. CASE LockLeft(p)
    <2>1. pc'[p] = "try_right"
        BY <1>2, <1>4 DEF LockLeft, Goto
    <2>2. s = left_spoon(p) /\ program = "Assignment"
        BY <1>1, <2>1 DEF Marked
    <2> QED
        BY <1>3, <1>4, <2>2 DEF LockLeft, Mark
<1>5. CASE TryRight(p)
    <2>1. pc'[p] = "eat" /\ pc[p] = "try_right"
        BY <1>2, <1>5 DEF TryRight, Goto
    <2>2. s \in {left_spoon(p), right_spoon(p)}
        BY <2>1 DEF Marked
    <2>3. CASE program = "Assignment"
        <3>1. is_used[left_spoon(p)] /\ phil[left_spoon(p)] = p
            BY <2>1, <2>3 DEF MarksOwned, Marked
        <3>2. Mark(p, {right_spoon(p)} \cup {})
            BY <1>5, <2>3 DEF TryRight
        <3> QED
            BY <1>3, <2>2, <3>1, <3>2 DEF Mark
    <2>4. CASE program # "Assignment"
        <3>1. Mark(p, {right_spoon(p)} \cup {left_spoon(p)})
            BY <1>5, <2>4 DEF TryRight
        <3> QED
            BY <1>3, <2>2, <3>1 DEF Mark
    <2> QED
        BY <2>3, <2>4
<1>6. CASE Relock(p)
    <2>1. pc[p] = "relock" /\ pc'[p] = "try_right"
        BY <1>2, <1>6 DEF Relock, Goto
    <2> QED
        BY <1>1, <2>1 DEF MarksOwned, Marked
<1>7. CASE ~LockLeft(p) /\ ~TryRight(p) /\ ~Relock(p)
    <2>1. pc'[p] \notin {"eat", "try_right"}
        BY <1>2, <1>7
        DEF Step, SpuriousWake, BackOff, TryAgain, TryFails, Sleep, EatAndRelease,
            UnlockLeft, Rested, Goto
    <2> QED
        BY <2>1 DEF Marked
<1> QED
    BY <1>4, <1>5, <1>6, <1>7

(* Every step keeps the marks with their owners.                           *)
LEMMA MarksInductive == NoHoldAndWait /\ MarksOwned /\ [Next]_vars => MarksOwned'
<1> SUFFICES ASSUME NoHoldAndWait, MarksOwned, [Next]_vars PROVE MarksOwned'
    OBVIOUS
<1>1. CASE UNCHANGED vars
    BY <1>1 DEF vars, MarksOwned, Marked
<1>2. CASE Next
    <2> PICK p \in Thread : Step(p) \/ SpuriousWake(p)
        BY <1>2 DEF Next
    <2>1. \A q \in Thread : \A s \in Marked(q)' : is_used'[s] /\ phil'[s] = q
        BY OwnMarks, OthersMarks
    <2> QED
        BY <2>1, OnlySecondSleeps DEF MarksOwned
<1> QED
    BY <1>1, <1>2

(* THEOREM: both programs, any number of philosophers.  The two assertions *)
(* of phil_eat never fail.                                                 *)
THEOREM EatAssertsHoldCorrect == Spec => []EatAssertsHold
<1>1. Init => MarksOwned
    BY DEF Init, MarksOwned, Marked
<1>2. MarksOwned => EatAssertsHold
    BY DEF MarksOwned, Marked, EatAssertsHold
<1> QED
    BY <1>1, <1>2, MarksInductive, NoHoldAndWaitCorrect, PTL DEF Spec
=============================================================================
