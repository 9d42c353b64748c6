--------------------------- MODULE PbRouterProofs ---------------------------
(***************************************************************************)
(* The router of a complex block, for every routing resource graph, any    *)
(* nets and any costs: it connects the cheapest sink next, the drivers it  *)
(* writes back lead to the source, and it is a negotiated-congestion       *)
(* router, which gives up on a net only when a sink cannot be reached.     *)
(***************************************************************************)
EXTENDS PbRouter, FiniteSetTheorems, FunctionTheorems, SequenceTheorems, WellFoundedInduction, TLAPS

Searching == pc \in {"segment", "first", "wave"}
InNet     == pc \in {"source", "segment", "first", "wave", "close", "add"}
Root      == Source(inet)
OnTrace(i) == {trace[i][k] : k \in DOMAIN trace[i]}
Traced    == OnTrace(inet)
Last1     == Len(trace[inet])
Wanted    == Sinks(inet) \ routed

-----------------------------------------------------------------------------
(* The invariant.  First the types, and that every use of a node costs.    *)
VirtualEdges ==
    UNION {{<<VirtualSource[i], NetSources[i][k]>> : k \in DOMAIN NetSources[i]} : i \in MultiSource}

Shapes ==
    /\ edges \subseteq (Nodes \ SinkNodes) \X RrNodes
    /\ pc # "load" => VirtualEdges \subseteq edges /\ \A i \in Nets : sources[i] = <<Source(i)>>
    /\ trace \in [Nets -> Seq(Nodes)]
    /\ \A n \in Nodes : pres_cost[n] >= 1 /\ acc_cost[n] >= 1 /\ path_cost[n] <= HUGE

(* Where the router is.                                                    *)
ControlInv ==
    /\ InNet /\ pc # "add" => isrc = 1
    /\ Searching => isink \in 1 .. Len(NetSinks[inet]) + 1
    /\ pc \in {"first", "wave"} => isink <= Len(NetSinks[inet])
    /\ pc \in {"load", "check"} => inet = 1
    /\ pc = "load" => itry = 1
    /\ verdict = "none" <=> pc \notin {"annotate", "done"}
    /\ pc = "annotate" => verdict = "routed"

(* A trace is a tree: it starts at the source of its net and ends with a   *)
(* SINK; a branch leaves from a node the trace has and is an edge of the   *)
(* graph to a node it has not.                                             *)
Tree(t, r) ==
    t # <<>> =>
        /\ t[1] = r /\ t[Len(t)] \in SinkNodes
        /\ \A k \in DOMAIN t \ {1} :
               IF t[k - 1] \in SinkNodes
               THEN t[k] \notin SinkNodes /\ \E j \in 1 .. k - 1 : t[j] = t[k]
               ELSE <<t[k - 1], t[k]>> \in edges /\ \A j \in 1 .. k - 1 : t[j] # t[k]

TraceInv == \A i \in Nets : Tree(trace[i], Source(i))

(* The sinks the trace has, and those that are marked as targets.          *)
SinksInv ==
    /\ pc = "source" => routed = {}
    /\ InNet /\ pc # "source" => routed = Traced \cap SinkNodes /\ routed \subseteq Sinks(inet)
    /\ pc = "add" => Wanted = {}
    /\ \A n \in Nodes :
           target_flag[n] = IF (Searching \/ pc = "close" \/ verdict = "disconnected") /\ n \in Wanted
                            THEN 1 ELSE 0

(* What reset_rr_graph_path_costs will reset.                              *)
TouchedInv ==
    /\ \A n \in Nodes : path_cost[n] # HUGE <=> n \in modified
    /\ ~Searching /\ pc # "close" => heap = {} /\ modified = {}

(* A path of cost c to n by way of p: it comes from the wiring or from the *)
(* source, or from a node that has a cheaper path.                         *)
Path(n, c, p) ==
    IF p = NoNode THEN n \in Traced \cup {Root}
    ELSE <<p, n>> \in edges /\ p \in modified /\ path_cost[p] + StepCost(n) <= c

PathsInv ==
    Searching \/ pc = "close" =>
        /\ \A n \in modified : Path(n, path_cost[n], prev_node[n])
        /\ \A e \in heap : Path(e.index, e.cost, e.prev_node) /\ e.cost < HUGE
        /\ modified \cap Wanted = {}

(* The newest segment.                                                     *)
SegmentInv ==
    Searching => IF trace[inet] = <<>> THEN tptr = 0 ELSE tptr \in 1 .. Last1

(* It is expanded next.                                                    *)
Pending(n) == pc = "segment" /\ \E k \in DOMAIN trace[inet] : tptr <= k /\ trace[inet][k] = n

(* A search from nothing but the source.                                   *)
Rooted ==
    /\ \A e \in heap : /\ e.prev_node = NoNode => e.cost = Cong(Root)
                       /\ e.prev_node # NoNode => e.cost > Cong(Root)
    /\ \A n \in modified : path_cost[n] >= Cong(Root)
    /\ \/ path_cost[Root] = Cong(Root) /\ prev_node[Root] = NoNode
       \/ modified = {} /\ heap = {Entry(Root, Cong(Root), NoNode)}
       \/ modified = {} /\ heap = {} /\ Cong(Root) >= HUGE

Offered(n, c) ==
    \/ path_cost[n] <= c
    \/ \E e \in heap : e.index = n /\ e.cost <= c
    \/ Pending(n)

(* The search is complete: the wiring costs nothing, or is about to, and   *)
(* every path so far has been offered to the nodes that follow.            *)
Complete ==
    /\ Cardinality(routed) = isink - 1
    /\ trace[inet] = <<>> => Rooted
    /\ \A n \in Traced : path_cost[n] = 0 \/ Entry(n, 0, NoNode) \in heap \/ Pending(n)
    /\ \A m \in modified, n \in Nodes : <<m, n>> \in edges => Offered(n, path_cost[m] + StepCost(n))

(* No path to a wanted sink costs less than HUGE: d bounds the costs of    *)
(* all paths from below.                                                   *)
Potential(d) ==
    /\ \A n \in Traced : d[n] = 0
    /\ trace[inet] = <<>> => d[Root] <= Cong(Root)
    /\ \A m, n \in Nodes : <<m, n>> \in edges => d[n] <= d[m] + StepCost(n)
    /\ \A n \in Nodes : d[n] <= path_cost[n]
    /\ \A e \in heap : d[e.index] <= e.cost
    /\ \A n \in Wanted : d[n] >= HUGE

Hopeless == \E d \in [Nodes -> Nat] : Potential(d)

(* Once the heap ran empty, only the newest segment is expanded again, but *)
(* then there is nothing to be found.                                      *)
WaveInv == Searching => Complete \/ Hopeless

(* Nets that are charged, and nets that are routed.                        *)
ChargedNets == IF InNet THEN Nets \ {inet} ELSE Nets
OccInv ==
    verdict # "disconnected" =>
        \A n \in Nodes : occ[n] >= Cardinality({i \in ChargedNets : n \in OnTrace(i)})

Finished(i) ==
    \/ pc \in {"check", "annotate"} \/ verdict = "routed"
    \/ (pc = "rip" \/ InNet) /\ i # inet /\ (itry > 1 \/ i < inet)
ConnectedInv == \A i \in Nets : Finished(i) => Sinks(i) \subseteq OnTrace(i)

(* What backannotation writes, from the traces.                            *)
DriverPlaces(n) == {x \in Places : /\ trace[x[1]][x[2]] \notin SinkNodes
                                   /\ x[2] < Len(trace[x[1]])
                                   /\ trace[x[1]][x[2] + 1] = n}
AnnotatedInv ==
    /\ verdict = "routed" => Feasible(Recount)
    /\ verdict = "routed" /\ pc = "done" =>
           \A n \in Nodes :
               /\ net_num[n] = IF On(n) = {} THEN 0 ELSE Last(On(n))[1]
               /\ driver[n] = IF DriverPlaces(n) = {} THEN NoNode
                              ELSE LET x == Last(DriverPlaces(n)) IN trace[x[1]][x[2]]

SearchInv ==
    /\ TypeOK /\ Shapes /\ ControlInv /\ TraceInv /\ SinksInv /\ TouchedInv /\ PathsInv
    /\ SegmentInv /\ WaveInv

IInv == SearchInv /\ OccInv /\ ConnectedInv /\ AnnotatedInv
-----------------------------------------------------------------------------
(* Induction, and iteration of a function, as facts about sets and         *)
(* functions.                                                              *)
LEMMA LeastNatural ==
    ASSUME NEW S, S \subseteq Nat, S # {}
    PROVE  \E m \in S : \A k \in S : m <= k
<1> DEFINE R == OpToRel(<, Nat)
<1>1. \A x, y \in Nat : <<x, y>> \in R <=> x < y
  BY DEF OpToRel
<1>2. IsWellFoundedOn(R, Nat)
  BY NatLessThanWellFounded
<1> HIDE DEF R
<1>3. \E x \in S : \A y \in S : ~ (<<y, x>> \in R)
  BY <1>2, WFMin
<1>4. PICK x \in S : \A y \in S : ~ (<<y, x>> \in R)
  BY <1>3
<1>5. \A k \in S : k \in Nat /\ x \in Nat
  OBVIOUS
<1>6. \A k \in S : ~ (k < x)
  BY <1>1, <1>4, <1>5
<1> QED BY <1>5, <1>6

LEMMA NaturalsFromZero ==
    ASSUME NEW S, 0 \in S, \A n \in Nat : n \in S => n + 1 \in S
    PROVE  Nat \subseteq S
<1> SUFFICES ASSUME ~ (Nat \subseteq S) PROVE FALSE
  OBVIOUS
<1> DEFINE T == Nat \ S
<1>1. T # {} /\ T \subseteq Nat
  OBVIOUS
<1>2. PICK m \in T : \A k \in T : m <= k
  <2> HIDE DEF T
  <2> QED BY <1>1, LeastNatural
<1>3. m \in Nat /\ m # 0
  OBVIOUS
<1>4. m - 1 \in Nat /\ m - 1 \in S
  BY <1>2, <1>3
<1> QED BY <1>3, <1>4

(* A walk that takes one step of a function at a time.                     *)
Iterates(f, a, step) == f = CHOOSE g : g = [k \in Nat |-> IF k = 0 THEN a ELSE step[g[k - 1]]]

LEMMA Iteration ==
    ASSUME NEW S, NEW step \in [S -> S], NEW a \in S, NEW f, Iterates(f, a, step)
    PROVE  /\ f \in [Nat -> S] /\ f[0] = a
           /\ \A k \in Nat : f[k + 1] = step[f[k]]
<1> DEFINE Part(n) == {g \in [0 .. n -> S] : g[0] = a /\ \A k \in 1 .. n : g[k] = step[g[k - 1]]}
           Parts == {n \in Nat : Part(n) # {}}
<1>1. \A n \in Nat : Part(n) # {}
  <2>1. 0 \in Parts
    <3>1. [k \in 0 .. 0 |-> a] \in Part(0)
      OBVIOUS
    <3> QED BY <3>1
  <2>2. ASSUME NEW n \in Nat, n \in Parts PROVE n + 1 \in Parts
    <3>1. PICK g : g \in Part(n)
      BY <2>2
    <3> DEFINE h == [k \in 0 .. n + 1 |-> IF k = n + 1 THEN step[g[n]] ELSE g[k]]
    <3>2. n \in 0 .. n /\ g[n] \in S /\ step[g[n]] \in S
      BY <3>1
    <3>3. h \in [0 .. n + 1 -> S]
      BY <3>1, <3>2
    <3>4. h[0] = a
      BY <3>1
    <3>5. ASSUME NEW k \in 1 .. n + 1 PROVE h[k] = step[h[k - 1]]
      <4>1. CASE k = n + 1
        BY <4>1
      <4>2. CASE k # n + 1
        <5>1. k \in 1 .. n /\ k - 1 \in 0 .. n + 1 /\ k - 1 # n + 1
          BY <4>2
        <5>2. g[k] = step[g[k - 1]]
          BY <3>1, <5>1
        <5> QED BY <4>2, <5>1, <5>2
      <4> QED BY <4>1, <4>2
    <3>6. h \in Part(n + 1)
      <4> HIDE DEF h
      <4> QED BY <3>3, <3>4, <3>5
    <3> QED BY <3>6
  <2> HIDE DEF Part
  <2>3. Nat \subseteq Parts
    <3> HIDE DEF Parts
    <3> QED BY <2>1, <2>2, NaturalsFromZero
  <2> QED BY <2>3
<1> DEFINE Same == {k \in Nat : \A m, n \in Nat : \A g \in Part(m), h \in Part(n) :
                                    k <= m /\ k <= n => g[k] = h[k]}
<1>2. \A k, m, n \in Nat : \A g \in Part(m), h \in Part(n) : k <= m /\ k <= n => g[k] = h[k]
  <2>1. 0 \in Same
    OBVIOUS
  <2>2. ASSUME NEW k \in Nat, k \in Same PROVE k + 1 \in Same
    <3>1. ASSUME NEW m \in Nat, NEW n \in Nat, NEW g \in Part(m), NEW h \in Part(n),
                 k + 1 <= m, k + 1 <= n
          PROVE  g[k + 1] = h[k + 1]
      <4>1. g[k] = h[k]
        <5> HIDE DEF Part
        <5> QED BY <2>2, <3>1
      <4>2. k + 1 \in 1 .. m /\ k + 1 \in 1 .. n /\ k + 1 - 1 = k
        BY <3>1
      <4>3. g[k + 1] = step[g[k]] /\ h[k + 1] = step[h[k]]
        BY <4>2
      <4> QED BY <4>1, <4>3
    <3> HIDE DEF Part
    <3> QED BY <3>1
  <2>3. Nat \subseteq Same
    <3> HIDE DEF Same
    <3> QED BY <2>1, <2>2, NaturalsFromZero
  <2> HIDE DEF Part
  <2> QED BY <2>3
<1> DEFINE whole == [n \in Nat |-> (CHOOSE g : g \in Part(n))[n]]
<1>3. \A n \in Nat : (CHOOSE g : g \in Part(n)) \in Part(n)
  <2> HIDE DEF Part
  <2> QED BY <1>1
<1>4. ASSUME NEW n \in Nat, NEW h \in Part(n), NEW k \in 0 .. n PROVE whole[k] = h[k]
  <2>1. k \in Nat /\ k <= k /\ k <= n
    OBVIOUS
  <2> HIDE DEF Part
  <2>2. whole[k] = (CHOOSE g : g \in Part(k))[k]
    BY <2>1
  <2> QED BY <1>2, <1>3, <2>1, <2>2
<1>5. whole[0] = a
  <2>1. PICK h : h \in Part(0)
    BY <1>1
  <2>2. h[0] = a /\ 0 \in 0 .. 0
    BY <2>1
  <2> HIDE DEF whole
  <2> QED BY <1>4, <2>1, <2>2
<1>6. ASSUME NEW n \in Nat PROVE whole[n + 1] = step[whole[n]] /\ whole[n] \in S
  <2>1. PICK h : h \in Part(n + 1)
    BY <1>1
  <2>2. n + 1 \in 1 .. n + 1 /\ n + 1 - 1 = n /\ n \in 0 .. n + 1 /\ n + 1 \in 0 .. n + 1
    OBVIOUS
  <2>3. h[n + 1] = step[h[n]] /\ h[n] \in S
    BY <2>1, <2>2
  <2>4. whole[n + 1] = h[n + 1] /\ whole[n] = h[n]
    <3> HIDE DEF whole, Part
    <3> QED BY <1>4, <2>1, <2>2
  <2> QED BY <2>3, <2>4
<1>7. whole = [k \in Nat |-> IF k = 0 THEN a ELSE step[whole[k - 1]]]
  <2>1. whole = [n \in Nat |-> whole[n]]
    OBVIOUS
  <2> HIDE DEF whole
  <2>2. ASSUME NEW k \in Nat PROVE whole[k] = IF k = 0 THEN a ELSE step[whole[k - 1]]
    <3>1. CASE k = 0
      BY <1>5, <3>1
    <3>2. CASE k # 0
      <4>1. k - 1 \in Nat /\ (k - 1) + 1 = k
        BY <3>2
      <4> QED BY <1>6, <3>2, <4>1
    <3> QED BY <3>1, <3>2
  <2> QED BY <2>1, <2>2
<1> HIDE DEF whole
<1>8. f = [k \in Nat |-> IF k = 0 THEN a ELSE step[f[k - 1]]]
  <2> DEFINE Solves(g) == g = [k \in Nat |-> IF k = 0 THEN a ELSE step[g[k - 1]]]
  <2>1. \E g : Solves(g)
    BY <1>7
  <2>2. f = CHOOSE g : Solves(g)
    BY DEF Iterates
  <2>3. Solves(f)
    <3> HIDE DEF Solves
    <3> QED BY <2>1, <2>2
  <2> QED BY <2>3
<1> DEFINE value(n) == IF n = 0 THEN a ELSE step[f[n - 1]]
<1>13. \A n \in Nat : f[n] = value(n)
  <2>1. f = [n \in Nat |-> value(n)]
    BY <1>8
  <2> HIDE DEF value
  <2> QED BY <2>1
<1>9. f[0] = a
  BY <1>13
<1>10. ASSUME NEW k \in Nat PROVE f[k + 1] = step[f[k]]
  <2>1. k + 1 \in Nat /\ k + 1 # 0 /\ k + 1 - 1 = k
    OBVIOUS
  <2> QED BY <1>13, <2>1
<1>11. \A k \in Nat : f[k] \in S
  <2> DEFINE Good == {k \in Nat : f[k] \in S}
  <2>1. 0 \in Good
    BY <1>9
  <2>2. \A k \in Nat : k \in Good => k + 1 \in Good
    BY <1>10
  <2>3. Nat \subseteq Good
    <3> HIDE DEF Good
    <3> QED BY <2>1, <2>2, NaturalsFromZero
  <2> QED BY <2>3
<1>12. f \in [Nat -> S]
  BY <1>8, <1>11
<1> QED BY <1>9, <1>10, <1>12

-----------------------------------------------------------------------------
LEMMA FiniteNodes ==
    /\ IsFiniteSet(Nodes) /\ Cardinality(Nodes) \in Nat /\ NoNode \notin Nodes
    /\ IsFiniteSet(Nets) /\ NumNets \in Nat /\ SinkNodes \subseteq Nodes /\ RrNodes \subseteq Nodes
<1>1. NumNets \in Nat /\ IsFiniteSet(RrNodes) /\ NoNode \notin Nodes /\ SinkNodes \subseteq RrNodes
  BY RouterAssumption
<1>2. IsFiniteSet(Nets)
  BY <1>1, FS_Interval DEF Nets
<1> DEFINE V == {VirtualSource[i] : i \in Nets}
           f == [i \in Nets |-> VirtualSource[i]]
<1>3. f \in [Nets -> V] /\ \A y \in V : \E i \in Nets : f[i] = y
  OBVIOUS
<1> HIDE DEF f
<1>4. f \in Surjection(Nets, V)
  BY <1>3, Fun_IsSurj
<1>5. IsFiniteSet(V)
  BY <1>2, <1>4, FS_Surjection
<1> HIDE DEF V
<1>6. IsFiniteSet(RrNodes \cup V)
  BY <1>1, <1>5, FS_Union
<1>7. Nodes = RrNodes \cup V
  BY DEF Nodes, V
<1> QED BY <1>1, <1>2, <1>6, <1>7, FS_CardinalityType

LEMMA SourceFacts ==
    ASSUME NEW i \in Nets
    PROVE  Source(i) \in Nodes \ SinkNodes
<1>1. NetSources[i] \in Seq(RrNodes \ SinkNodes) /\ NetSources[i] # <<>>
  BY TerminalsAssumption
<1>2. NetSources[i][1] \in RrNodes \ SinkNodes
  <2>1. Len(NetSources[i]) \in Nat /\ Len(NetSources[i]) # 0
    BY <1>1, LenProperties, EmptySeq
  <2>2. 1 \in 1 .. Len(NetSources[i])
    BY <2>1
  <2> QED BY <1>1, <2>2, ElementOfSeq
<1>3. VirtualSource[i] \in Nodes /\ VirtualSource[i] \notin SinkNodes
  BY RouterAssumption DEF Nodes
<1> QED BY <1>2, <1>3 DEF Source, Nodes

LEMMA SinkFacts ==
    ASSUME NEW i \in Nets
    PROVE  /\ Sinks(i) \subseteq SinkNodes /\ IsFiniteSet(Sinks(i)) /\ Len(NetSinks[i]) \in Nat
           /\ Cardinality(Sinks(i)) = Len(NetSinks[i])
<1> DEFINE s == NetSinks[i]
           D == 1 .. Len(s)
<1>1. s \in Seq(SinkNodes) /\ \A k, l \in DOMAIN s : s[k] = s[l] => k = l
  BY TerminalsAssumption
<1>2. Len(s) \in Nat /\ DOMAIN s = D /\ s \in [D -> SinkNodes]
  BY <1>1, LenProperties, SeqDef
<1>3. Sinks(i) = {s[k] : k \in D}
  BY <1>2 DEF Sinks
<1>4. IsFiniteSet(D) /\ Cardinality(D) = Len(s)
  BY <1>2, FS_Interval
<1> HIDE DEF s, D
<1>5. s \in [D -> Sinks(i)] /\ \A y \in Sinks(i) : \E k \in D : s[k] = y
  BY <1>2, <1>3
<1>6. s \in Injection(D, Sinks(i)) /\ s \in Surjection(D, Sinks(i))
  BY <1>1, <1>2, <1>5, Fun_IsInj, Fun_IsSurj
<1>7. IsFiniteSet(Sinks(i)) /\ Cardinality(Sinks(i)) <= Cardinality(D)
  BY <1>4, <1>6, FS_Surjection
<1>8. Cardinality(D) <= Cardinality(Sinks(i))
  BY <1>6, <1>7, FS_Injection
<1>9. Cardinality(D) \in Nat /\ Cardinality(Sinks(i)) \in Nat
  BY <1>4, <1>7, FS_CardinalityType
<1>10. Cardinality(Sinks(i)) = Len(s)
  BY <1>4, <1>7, <1>8, <1>9
<1>11. Sinks(i) \subseteq SinkNodes
  BY <1>2, <1>3
<1> QED BY <1>2, <1>7, <1>10, <1>11 DEF s

LEMMA EdgeFacts ==
    ASSUME Shapes, NEW m, NEW n, <<m, n>> \in edges
    PROVE  m \in Nodes /\ m \notin SinkNodes /\ n \in Nodes /\ n \in RrNodes
<1>1. edges \subseteq (Nodes \ SinkNodes) \X RrNodes
  BY DEF Shapes
<1> QED BY <1>1 DEF Nodes

LEMMA HeapElements ==
    ASSUME TypeOK, NEW e \in heap
    PROVE  /\ e.index \in Nodes /\ e.cost \in Nat /\ e.prev_node \in Nodes \cup {NoNode}
           /\ e = Entry(e.index, e.cost, e.prev_node)
<1>1. e \in [index : Nodes, cost : Nat, prev_node : Nodes \cup {NoNode}]
  BY DEF TypeOK, Entries
<1> QED BY <1>1 DEF Entry

LEMMA ProductFacts ==
    ASSUME NEW a \in Nat, NEW b \in Nat
    PROVE  a * b \in Nat /\ (a >= 1 /\ b >= 1 => a * b >= 1)
  OBVIOUS

LEMMA CostFacts ==
    ASSUME TypeOK, Shapes, NEW n \in Nodes
    PROVE  /\ Cong(n) \in Nat /\ Cong(n) >= 1 /\ StepCost(n) \in Nat /\ StepCost(n) >= 1
           /\ path_cost[n] \in Nat /\ path_cost[n] <= HUGE /\ HUGE \in Nat /\ HUGE >= 1
<1>1. pres_cost[n] \in Nat /\ acc_cost[n] \in Nat /\ path_cost[n] \in Nat
  BY DEF TypeOK
<1>2. pres_cost[n] >= 1 /\ acc_cost[n] >= 1 /\ path_cost[n] <= HUGE
  BY DEF Shapes
<1>3. HUGE \in Nat /\ HUGE >= 1 /\ Intrinsic[n] \in Nat /\ Intrinsic[n] >= 1
  BY RouterAssumption, CostsAssumption
<1>4. Cong(n) \in Nat /\ Cong(n) >= 1
  BY <1>1, <1>2, ProductFacts DEF Cong
<1>5. StepCost(n) \in Nat /\ StepCost(n) >= 1
  BY <1>3, <1>4, ProductFacts DEF StepCost
<1> QED BY <1>1, <1>2, <1>3, <1>4, <1>5

(* A trace.                                                                *)
LEMMA NetFacts ==
    ASSUME Shapes, NEW i \in Nets
    PROVE  /\ trace[i] \in Seq(Nodes) /\ Len(trace[i]) \in Nat
           /\ DOMAIN trace[i] = 1 .. Len(trace[i])
           /\ \A k \in DOMAIN trace[i] : trace[i][k] \in Nodes
           /\ trace[i] = <<>> <=> Len(trace[i]) = 0
<1>1. trace[i] \in Seq(Nodes)
  BY DEF Shapes
<1> QED BY <1>1, LenProperties, EmptySeq, ElementOfSeq

LEMMA InNetFacts ==
    ASSUME TypeOK, Shapes
    PROVE  /\ inet \in Nets /\ inet \in Nat /\ Root \in Nodes /\ Root \notin SinkNodes
           /\ trace[inet] \in Seq(Nodes) /\ Last1 \in Nat /\ DOMAIN trace[inet] = 1 .. Last1
           /\ \A k \in 1 .. Last1 : trace[inet][k] \in Nodes
           /\ trace[inet] = <<>> <=> Last1 = 0
           /\ Traced \subseteq Nodes
<1>1. inet \in Nets /\ inet \in Nat
  BY DEF TypeOK, Nets
<1>2. Root \in Nodes \ SinkNodes
  BY <1>1, SourceFacts DEF Root
<1> QED BY <1>1, <1>2, NetFacts DEF Last1, Traced, OnTrace

LEMMA SourceIs ==
    ASSUME TypeOK, Shapes, ControlInv, InNet, pc # "add"
    PROVE  sources[inet][isrc] = Root /\ sources[inet] = <<Root>> /\ isrc = 1
<1>1. isrc = 1 /\ pc # "load" /\ inet \in Nets
  BY DEF ControlInv, InNet, TypeOK
<1>2. sources[inet] = <<Root>>
  BY <1>1 DEF Shapes, Root
<1> QED BY <1>1, <1>2

-----------------------------------------------------------------------------
(* Where the walk back from an element that is no path yet goes.           *)
LEMMA WalkBack ==
    ASSUME TypeOK, Shapes, PathsInv, Searching, NEW e \in heap,
           e.index \notin modified, e.prev_node # NoNode
    PROVE  /\ Up(e) \in [Nat -> Nodes \cup {NoNode}]
           /\ Up(e)[0] = e.index /\ Up(e)[1] = e.prev_node
           /\ \A k \in Nat : Up(e)[k] = NoNode => Up(e)[k + 1] = NoNode
           /\ \A k \in Nat \ {0} : Up(e)[k] # NoNode =>
                  /\ Up(e)[k] \in modified /\ Up(e)[k + 1] = prev_node[Up(e)[k]]
                  /\ Up(e)[k + 1] # NoNode => path_cost[Up(e)[k + 1]] < path_cost[Up(e)[k]]
<1> DEFINE up == Up(e)
           S == Nodes \cup {NoNode}
<1>1. e.index \in Nodes /\ e.cost \in Nat /\ e.prev_node \in Nodes /\ NoNode \notin Nodes
  BY HeapElements, FiniteNodes
<1>2. prev_node \in [Nodes -> S] /\ modified \subseteq Nodes
  BY DEF TypeOK
<1>3. Pred(e) \in [S -> S]
  BY <1>1, <1>2 DEF Pred
<1>4. Iterates(up, e.index, Pred(e))
  BY DEF Up, Iterates
<1> HIDE DEF up
<1>5. /\ up \in [Nat -> S] /\ up[0] = e.index
      /\ \A k \in Nat : up[k + 1] = Pred(e)[up[k]]
  <2>1. e.index \in S
    BY <1>1
  <2> HIDE DEF S
  <2> QED BY <1>3, <1>4, <2>1, Iteration
<1>6. /\ Pred(e)[NoNode] = NoNode /\ Pred(e)[e.index] = e.prev_node
      /\ \A n \in Nodes : n # e.index => Pred(e)[n] = prev_node[n]
  BY <1>1 DEF Pred
<1>7. up[1] = e.prev_node
  <2>1. up[0 + 1] = Pred(e)[up[0]]
    BY <1>5
  <2> QED BY <1>5, <1>6, <2>1
<1>8. \A k \in Nat : up[k] = NoNode => up[k + 1] = NoNode
  BY <1>5, <1>6
<1>9. ASSUME NEW n \in modified, prev_node[n] # NoNode
      PROVE  prev_node[n] \in modified /\ path_cost[prev_node[n]] < path_cost[n]
  <2>1. Path(n, path_cost[n], prev_node[n])
    BY <1>9 DEF PathsInv
  <2>2. prev_node[n] \in modified /\ path_cost[prev_node[n]] + StepCost(n) <= path_cost[n]
    BY <1>9, <2>1 DEF Path
  <2>3. n \in Nodes /\ prev_node[n] \in Nodes
    BY <1>2, <2>2
  <2>4. StepCost(n) >= 1 /\ StepCost(n) \in Nat /\ path_cost[n] \in Nat /\ path_cost[prev_node[n]] \in Nat
    BY <2>3, CostFacts
  <2> QED BY <2>2, <2>4
<1>10. e.prev_node \in modified
  BY DEF PathsInv, Path
<1>11. ASSUME NEW k \in Nat, up[k] \in modified PROVE up[k + 1] = prev_node[up[k]]
  BY <1>2, <1>5, <1>6, <1>11
<1> DEFINE Sound == {k \in Nat : k = 0 \/ up[k] = NoNode \/ up[k] \in modified}
<1>12. Nat \subseteq Sound
  <2>1. 0 \in Sound
    OBVIOUS
  <2>2. ASSUME NEW k \in Nat, k \in Sound PROVE k + 1 \in Sound
    <3>1. k + 1 \in Nat
      OBVIOUS
    <3>2. CASE k = 0
      BY <1>7, <1>10, <3>2
    <3>3. CASE up[k] = NoNode
      BY <1>8, <3>3
    <3>4. CASE up[k] \in modified
      <4>1. up[k + 1] = prev_node[up[k]]
        BY <1>11, <3>4
      <4>2. prev_node[up[k]] = NoNode \/ prev_node[up[k]] \in modified
        BY <1>9, <3>4
      <4> QED BY <3>1, <4>1, <4>2
    <3> QED BY <2>2, <3>2, <3>3, <3>4
  <2> HIDE DEF Sound
  <2> QED BY <2>1, <2>2, NaturalsFromZero
<1>13. ASSUME NEW k \in Nat \ {0}, up[k] # NoNode
       PROVE  /\ up[k] \in modified /\ up[k + 1] = prev_node[up[k]]
              /\ up[k + 1] # NoNode => path_cost[up[k + 1]] < path_cost[up[k]]
  <2>1. up[k] \in modified
    BY <1>12, <1>13
  <2>2. up[k + 1] = prev_node[up[k]]
    BY <1>11, <2>1
  <2> QED BY <1>9, <2>1, <2>2
<1>14. up \in [Nat -> Nodes \cup {NoNode}]
  BY <1>5
<1> QED BY <1>5, <1>7, <1>8, <1>13, <1>14 DEF up

(* The traceback: from a node without a predecessor, each node the         *)
(* predecessor of the next and cheaper, to the element's node.             *)
IsTraceback(q, L, e) ==
    /\ L \in Nat /\ L >= 2 /\ L <= Cardinality(Nodes) /\ q \in [1 .. L -> Nodes]
    /\ q[L] = e.index /\ q[L - 1] = e.prev_node
    /\ \A k \in 1 .. L - 1 : q[k] \in modified /\ prev_node[q[k]] = IF k = 1 THEN NoNode ELSE q[k - 1]
    /\ \A j, k \in 1 .. L - 1 : j < k => path_cost[q[j]] < path_cost[q[k]]

LEMMA Traceback ==
    ASSUME TypeOK, Shapes, PathsInv, Searching, NEW e \in heap,
           e.index \notin modified, e.prev_node # NoNode
    PROVE  \E L \in Nat : IsTraceback(BackTrace(e), L, e)
<1> DEFINE up == Up(e)
           N == Cardinality(Nodes)
<1> HIDE DEF up
<1>1. /\ up \in [Nat -> Nodes \cup {NoNode}]
      /\ up[0] = e.index /\ up[1] = e.prev_node
      /\ \A k \in Nat : up[k] = NoNode => up[k + 1] = NoNode
      /\ \A k \in Nat \ {0} : up[k] # NoNode =>
             /\ up[k] \in modified /\ up[k + 1] = prev_node[up[k]]
             /\ up[k + 1] # NoNode => path_cost[up[k + 1]] < path_cost[up[k]]
  BY WalkBack DEF up
<1>2. e.index \in Nodes /\ e.prev_node \in Nodes /\ NoNode \notin Nodes
  BY HeapElements, FiniteNodes
<1>3. N \in Nat /\ IsFiniteSet(Nodes)
  BY FiniteNodes
<1>4. \A n \in Nodes : path_cost[n] \in Int
  BY CostFacts
<1> DEFINE Down(j) == {k \in Nat : j < k /\ up[k] # NoNode
      => up[j] # NoNode /\ path_cost[up[k]] < path_cost[up[j]]}
<1>5. ASSUME NEW j \in Nat \ {0} PROVE Nat \subseteq Down(j)
  <2>1. 0 \in Down(j)
    OBVIOUS
  <2>2. ASSUME NEW k \in Nat, k \in Down(j) PROVE k + 1 \in Down(j)
    <3> SUFFICES ASSUME j < k + 1, up[k + 1] # NoNode
                 PROVE  up[j] # NoNode /\ path_cost[up[k + 1]] < path_cost[up[j]]
      OBVIOUS
    <3>1. up[k] # NoNode /\ k \in Nat \ {0}
      BY <1>1
    <3>2. path_cost[up[k + 1]] < path_cost[up[k]]
      BY <1>1, <3>1
    <3>3. CASE j = k
      BY <3>1, <3>2, <3>3
    <3>4. CASE j < k
      <4>1. up[j] # NoNode /\ path_cost[up[k]] < path_cost[up[j]]
        BY <2>2, <3>1, <3>4
      <4>2. up[j] \in Nodes /\ up[k] \in Nodes /\ up[k + 1] \in Nodes
        BY <1>1, <3>1, <4>1
      <4> QED BY <1>4, <3>2, <4>1, <4>2
    <3> QED BY <3>3, <3>4
  <2> HIDE DEF Down
  <2> QED BY <2>1, <2>2, NaturalsFromZero
<1>6. \A j \in Nat \ {0}, k \in Nat :
          j < k /\ up[k] # NoNode => up[j] # NoNode /\ path_cost[up[k]] < path_cost[up[j]]
  BY <1>5
<1> DEFINE Ends == {k \in 0 .. N : up[k] = NoNode}
<1>7. Ends # {}
  <2> SUFFICES ASSUME Ends = {} PROVE FALSE
    OBVIOUS
  <2>1. \A k \in 0 .. N : up[k] \in Nodes
    BY <1>1
  <2> DEFINE f == [k \in 0 .. N |-> up[k]]
  <2>2. f \in [0 .. N -> Nodes]
    BY <2>1
  <2>3. IsFiniteSet(0 .. N) /\ Cardinality(0 .. N) = N + 1
    BY <1>3, FS_Interval
  <2>4. N < Cardinality(0 .. N)
    BY <1>3, <2>3
  <2> HIDE DEF f
  <2>5. PICK x \in 0 .. N, y \in 0 .. N : x # y /\ f[x] = f[y]
    BY <1>3, <2>2, <2>3, <2>4, FS_PigeonHole
  <2>6. up[x] = up[y] /\ x \in Nat /\ y \in Nat
    BY <1>3, <2>5 DEF f
  <2>7. ASSUME NEW j \in 0 .. N, NEW k \in 0 .. N, j < k PROVE up[j] # up[k]
    <3>0. j \in Nat /\ k \in Nat /\ k # 0 /\ up[j] \in Nodes /\ up[k] \in Nodes
      BY <1>3, <2>1, <2>7
    <3>1. CASE j = 0
      <4>1. up[k] \in modified
        BY <1>1, <1>2, <3>0
      <4> QED BY <1>1, <3>1, <4>1
    <3>2. CASE j # 0
      <4>1. path_cost[up[k]] < path_cost[up[j]]
        BY <1>2, <1>6, <2>7, <3>0, <3>2
      <4> QED BY <1>4, <3>0, <4>1
    <3> QED BY <3>1, <3>2
  <2>8. x < y \/ y < x
    BY <2>5, <2>6
  <2> QED BY <2>5, <2>6, <2>7, <2>8
<1>8. PICK L \in Ends : \A k \in Ends : L <= k
  <2>1. Ends \subseteq Nat
    BY <1>3
  <2> HIDE DEF Ends
  <2> QED BY <1>7, <2>1, LeastNatural
<1>9. L \in Nat /\ L <= N /\ up[L] = NoNode /\ \A k \in 0 .. N : k < L => up[k] # NoNode
  <2>1. L \in 0 .. N /\ up[L] = NoNode
    BY <1>8
  <2>2. \A k \in 0 .. N : k < L => k \notin Ends
    BY <1>3, <1>8, <2>1
  <2> QED BY <1>3, <2>1, <2>2
<1>10. L >= 2
  BY <1>1, <1>2, <1>9
<1> DEFINE Over == {k \in Nat : k >= L => up[k] = NoNode}
<1>11. Nat \subseteq Over
  <2>1. 0 \in Over
    BY <1>10
  <2>2. ASSUME NEW k \in Nat, k \in Over PROVE k + 1 \in Over
    <3>1. CASE k + 1 = L
      BY <1>9, <3>1
    <3>2. CASE k + 1 # L
      <4>1. k + 1 >= L => k >= L
        BY <1>9, <3>2
      <4>2. k >= L => up[k] = NoNode
        BY <2>2
      <4> QED BY <1>1, <4>1, <4>2
    <3> QED BY <3>1, <3>2
  <2> HIDE DEF Over
  <2> QED BY <2>1, <2>2, NaturalsFromZero
<1>12. {k \in 0 .. N : up[k] # NoNode} = 0 .. L - 1
  BY <1>3, <1>9, <1>11
<1>13. Cardinality(0 .. L - 1) = L
  BY <1>9, <1>10, FS_Interval
<1> DEFINE q == [k \in 1 .. L |-> up[L - k]]
<1>14. BackTrace(e) = q
  BY <1>12, <1>13 DEF BackTrace, up
<1>15. ASSUME NEW k \in 1 .. L PROVE q[k] = up[L - k] /\ L - k \in 0 .. N /\ L - k \in Nat /\ q[k] \in Nodes
  <2>1. L - k \in 0 .. N /\ L - k \in Nat /\ L - k < L
    BY <1>3, <1>9
  <2>2. up[L - k] # NoNode
    BY <1>9, <2>1
  <2> QED BY <1>1, <2>1, <2>2
<1> HIDE DEF q
<1>16. q \in [1 .. L -> Nodes]
  BY <1>15 DEF q
<1>17. q[L] = e.index /\ q[L - 1] = e.prev_node
  <2>1. L \in 1 .. L /\ L - 1 \in 1 .. L /\ L - L = 0 /\ L - (L - 1) = 1
    BY <1>9, <1>10
  <2>2. q[L] = up[0] /\ q[L - 1] = up[1]
    BY <1>15, <2>1
  <2> QED BY <1>1, <2>2
<1>18. ASSUME NEW k \in 1 .. L - 1
       PROVE  q[k] \in modified /\ prev_node[q[k]] = IF k = 1 THEN NoNode ELSE q[k - 1]
  <2>1. k \in 1 .. L /\ L - k \in Nat \ {0}
    BY <1>9
  <2>2. q[k] = up[L - k] /\ q[k] # NoNode
    BY <1>2, <1>15, <2>1
  <2>3. q[k] \in modified /\ prev_node[q[k]] = up[(L - k) + 1]
    BY <1>1, <2>1, <2>2
  <2>4. CASE k = 1
    <3>1. (L - k) + 1 = L
      BY <1>9, <2>4
    <3> QED BY <1>9, <2>3, <2>4, <3>1
  <2>5. CASE k # 1
    <3>1. k - 1 \in 1 .. L /\ L - (k - 1) = (L - k) + 1
      BY <1>9, <2>5
    <3>2. q[k - 1] = up[(L - k) + 1]
      BY <1>15, <3>1
    <3> QED BY <2>3, <2>5, <3>2
  <2> QED BY <2>4, <2>5
<1>19. ASSUME NEW j \in 1 .. L - 1, NEW k \in 1 .. L - 1, j < k PROVE path_cost[q[j]] < path_cost[q[k]]
  <2>1. j \in 1 .. L /\ k \in 1 .. L /\ L - j \in Nat /\ L - k \in Nat \ {0} /\ L - k < L - j
    BY <1>9, <1>19
  <2>2. q[j] = up[L - j] /\ q[k] = up[L - k] /\ q[j] # NoNode
    BY <1>2, <1>15, <2>1
  <2> QED BY <1>6, <2>1, <2>2
<1>21. L <= Cardinality(Nodes)
  BY <1>9
<1>20. IsTraceback(q, L, e)
  BY <1>21, <1>9, <1>10, <1>16, <1>17, <1>18, <1>19 DEF IsTraceback
<1> QED BY <1>9, <1>14, <1>20

-----------------------------------------------------------------------------
LEMMA TargetIsWanted ==
    ASSUME TypeOK, SinksInv, NEW n \in Nodes, target_flag[n] > 0
    PROVE  target_flag[n] = 1 /\ n \in Wanted
  BY DEF SinksInv

(* The sink that is connected next is reached at some cost, by a path,     *)
(* when all wiring of the net costs nothing.                               *)
LEMMA NextSink ==
    ASSUME SearchInv, Complete, pc \in {"first", "wave"},
           NEW e \in Cheapest, target_flag[e.index] > 0
    PROVE  /\ e \in heap /\ e.index \in Nodes /\ e.index \in Wanted /\ target_flag[e.index] = 1
           /\ e.index \in Sinks(inet) /\ e.index \in SinkNodes /\ e.index \notin Traced
           /\ e.index \notin modified /\ e.prev_node # NoNode /\ e.prev_node \in modified
           /\ <<e.prev_node, e.index>> \in edges
           /\ e.cost \in Nat /\ e.cost > 0 /\ e.cost < HUGE
           /\ path_cost[e.prev_node] + StepCost(e.index) <= e.cost
           /\ \A n \in Traced : path_cost[n] = 0
           /\ trace[inet] = <<>> => path_cost[Root] = Cong(Root) /\ prev_node[Root] = NoNode
<1> USE DEF SearchInv
<1>1. Searching /\ InNet /\ pc # "source" /\ pc # "segment"
  BY DEF Searching, InNet
<1>2. e \in heap /\ \A f \in heap : e.cost <= f.cost
  BY DEF Cheapest
<1>3. e.index \in Nodes /\ e.cost \in Nat /\ e.prev_node \in Nodes \cup {NoNode}
  BY <1>2, HeapElements
<1>4. target_flag[e.index] = 1 /\ e.index \in Wanted
  BY <1>3, TargetIsWanted
<1>5. inet \in Nets /\ Root \in Nodes /\ Root \notin SinkNodes
  BY InNetFacts
<1>6. e.index \in Sinks(inet) /\ e.index \in SinkNodes /\ e.index \notin routed
  BY <1>4, <1>5, SinkFacts DEF Wanted
<1>7. e.index \notin Traced
  BY <1>1, <1>6 DEF SinksInv
<1>8. Path(e.index, e.cost, e.prev_node) /\ e.cost < HUGE /\ e.index \notin modified
  BY <1>1, <1>2, <1>4 DEF PathsInv
<1>9. e.prev_node # NoNode
  BY <1>5, <1>6, <1>7, <1>8 DEF Path
<1>10. e.prev_node \in modified /\ <<e.prev_node, e.index>> \in edges
       /\ path_cost[e.prev_node] + StepCost(e.index) <= e.cost
  BY <1>8, <1>9 DEF Path
<1>11. e.cost > 0
  <2>1. path_cost[e.prev_node] \in Nat /\ StepCost(e.index) \in Nat /\ StepCost(e.index) >= 1
    BY <1>3, <1>9, CostFacts
  <2> QED BY <1>3, <1>10, <2>1
<1>12. ASSUME NEW n \in Traced PROVE path_cost[n] = 0
  <2>1. Entry(n, 0, NoNode) \notin heap
    <3>1. Entry(n, 0, NoNode).cost = 0
      BY DEF Entry
    <3> QED BY <1>2, <1>3, <1>11, <3>1
  <2>2. ~Pending(n)
    BY <1>1 DEF Pending
  <2> QED BY <2>1, <2>2 DEF Complete
<1>13. ASSUME trace[inet] = <<>> PROVE path_cost[Root] = Cong(Root) /\ prev_node[Root] = NoNode
  <2>1. Rooted
    BY <1>13 DEF Complete
  <2> QED BY <1>10, <2>1 DEF Rooted
<1> QED BY <1>2, <1>3, <1>4, <1>6, <1>7, <1>8, <1>9, <1>10, <1>11, <1>12, <1>13

LEMMA NoTargetLeft ==
    ASSUME SearchInv, Hopeless, Searching, NEW e \in heap
    PROVE  target_flag[e.index] = 0
<1> USE DEF SearchInv
<1> SUFFICES ASSUME target_flag[e.index] # 0 PROVE FALSE
  OBVIOUS
<1>1. e.index \in Nodes /\ e.cost \in Nat
  BY HeapElements
<1>2. target_flag[e.index] > 0
  BY <1>1 DEF SinksInv
<1>3. e.index \in Wanted
  BY <1>1, <1>2, TargetIsWanted
<1>4. PICK d \in [Nodes -> Nat] : Potential(d)
  BY DEF Hopeless
<1>5. d[e.index] \in Nat /\ d[e.index] >= HUGE /\ d[e.index] <= e.cost
  BY <1>1, <1>3, <1>4 DEF Potential
<1>6. e.cost < HUGE /\ HUGE \in Nat
  BY CostsAssumption DEF PathsInv
<1> QED BY <1>1, <1>5, <1>6

(* A node that is a path by itself.                                        *)
LEMMA StartOfPath ==
    ASSUME SearchInv, Searching, NEW n \in modified, prev_node[n] = NoNode
    PROVE  n \in Traced \cup {Root}
  BY DEF SearchInv, PathsInv, Path

LEMMA RootIsTraced ==
    ASSUME SearchInv, trace[inet] # <<>>
    PROVE  Root \in Traced /\ 1 \in DOMAIN trace[inet] /\ trace[inet][1] = Root
           /\ trace[inet][Last1] \in SinkNodes
<1>1. inet \in Nets /\ Last1 \in Nat /\ DOMAIN trace[inet] = 1 .. Last1 /\ Last1 # 0
  BY InNetFacts DEF SearchInv
<1>2. trace[inet][1] = Root /\ trace[inet][Last1] \in SinkNodes
  BY <1>1 DEF SearchInv, TraceInv, Tree, Root, Last1
<1>3. 1 \in DOMAIN trace[inet]
  BY <1>1
<1> QED BY <1>2, <1>3 DEF Traced, OnTrace

(* What Connect does to the trace: q, L long, joins the trace of the net,  *)
(* and leaves it once, at its first node.                                  *)
Joining(e, q, L) ==
    /\ e \in heap /\ e.index \in Nodes /\ e.index \in Wanted /\ target_flag[e.index] = 1
    /\ L \in Nat /\ L >= 2 /\ \A k \in 1 .. L : q[k] \in Nodes
    /\ q[L] = e.index /\ q[L] \in SinkNodes /\ q[L] \in Sinks(inet)
    /\ q[1] \in Traced \cup {Root} /\ (trace[inet] = <<>> => q[1] = Root)
    /\ \A k \in 1 .. L - 1 : q[k] \notin SinkNodes /\ <<q[k], q[k + 1]>> \in edges
    /\ \A k \in 2 .. L : q[k] \notin Traced /\ q[k] # Root
    /\ \A j, k \in 1 .. L : q[j] = q[k] => j = k
    /\ \A n \in Traced : path_cost[n] = 0
    /\ trace' \in [Nets -> Seq(Nodes)] /\ \A i \in Nets \ {inet} : trace'[i] = trace[i]
    /\ Last1 \in Nat /\ DOMAIN trace[inet] = 1 .. Last1 /\ (trace[inet] = <<>> <=> Last1 = 0)
    /\ Len(trace'[inet]) = Last1 + L /\ DOMAIN trace'[inet] = 1 .. Last1 + L
    /\ \A k \in 1 .. Last1 : trace'[inet][k] = trace[inet][k]
    /\ \A k \in 1 .. L : trace'[inet][Last1 + k] = q[k]
    /\ trace'[inet] # <<>>
    /\ tptr' = IF Last1 = 0 THEN 1 ELSE Last1 + 2
    /\ heap' = heap \ {e} /\ routed' = routed \cup {e.index}
    /\ target_flag' = [target_flag EXCEPT ![e.index] = 0]

LEMMA Joins ==
    ASSUME SearchInv, Connect
    PROVE  Complete /\ \E e, q, L : Joining(e, q, L)
<1> USE DEF SearchInv
<1>0. pc \in {"first", "wave"} /\ Searching
  BY DEF Connect, Searching
<1>1. PICK e \in Cheapest :
          /\ target_flag[e.index] > 0
          /\ target_flag' = [target_flag EXCEPT ![e.index] = @ - 1]
          /\ trace' = [trace EXCEPT ![inet] = @ \o BackTrace(e)]
          /\ tptr' = IF trace[inet] = <<>> THEN 1 ELSE Len(trace[inet]) + 2
          /\ routed' = routed \cup ({e.index} \cap Sinks(inet))
          /\ heap' = heap \ {e}
  BY DEF Connect
<1>2. Complete
  <2>1. e \in heap
    BY <1>1 DEF Cheapest
  <2>2. ~Hopeless
    BY <1>0, <1>1, <2>1, NoTargetLeft
  <2> QED BY <1>0, <2>2 DEF WaveInv
<1>3. /\ e \in heap /\ e.index \in Nodes /\ e.index \in Wanted /\ target_flag[e.index] = 1
      /\ e.index \in Sinks(inet) /\ e.index \in SinkNodes /\ e.index \notin Traced
      /\ e.index \notin modified /\ e.prev_node # NoNode /\ e.prev_node \in modified
      /\ <<e.prev_node, e.index>> \in edges
      /\ \A n \in Traced : path_cost[n] = 0
      /\ trace[inet] = <<>> => path_cost[Root] = Cong(Root) /\ prev_node[Root] = NoNode
  BY <1>0, <1>1, <1>2, NextSink
<1>4. PICK L \in Nat : IsTraceback(BackTrace(e), L, e)
  BY <1>0, <1>3, Traceback
<1> DEFINE q == BackTrace(e)
           t == trace[inet]
<1> HIDE DEF q
<1>5. /\ L \in Nat /\ L >= 2 /\ q \in [1 .. L -> Nodes]
      /\ q[L] = e.index /\ q[L - 1] = e.prev_node
      /\ \A k \in 1 .. L - 1 : q[k] \in modified /\ prev_node[q[k]] = IF k = 1 THEN NoNode ELSE q[k - 1]
      /\ \A j, k \in 1 .. L - 1 : j < k => path_cost[q[j]] < path_cost[q[k]]
  BY <1>4 DEF q, IsTraceback
<1>6. /\ inet \in Nets /\ Root \in Nodes /\ Root \notin SinkNodes
      /\ t \in Seq(Nodes) /\ Last1 \in Nat /\ DOMAIN t = 1 .. Last1 /\ (t = <<>> <=> Last1 = 0)
      /\ Len(t) = Last1
  BY InNetFacts DEF Last1
<1>7. NoNode \notin Nodes /\ \A k \in 1 .. L : q[k] \in Nodes
  BY <1>5, FiniteNodes
<1>8. q[1] \in Traced \cup {Root} /\ (t = <<>> => q[1] = Root)
  <2>1. 1 \in 1 .. L - 1
    BY <1>5
  <2>2. q[1] \in Traced \cup {Root}
    BY <1>0, <1>5, <2>1, StartOfPath
  <2>3. t = <<>> => Traced = {}
    BY DEF Traced, OnTrace
  <2> QED BY <2>2, <2>3
<1>9. ASSUME NEW k \in 1 .. L - 1 PROVE q[k] \notin SinkNodes /\ <<q[k], q[k + 1]>> \in edges
  <2>1. <<q[k], q[k + 1]>> \in edges
    <3>1. CASE k = L - 1
      <4>1. k + 1 = L
        BY <1>5, <3>1
      <4> QED BY <1>3, <1>5, <3>1, <4>1
    <3>2. CASE k # L - 1
      <4>1. k + 1 \in 1 .. L - 1 /\ k + 1 # 1 /\ (k + 1) - 1 = k /\ k \in 1 .. L
        BY <1>5, <3>2
      <4>2. prev_node[q[k + 1]] = q[k] /\ q[k + 1] \in modified
        BY <1>5, <4>1
      <4>3. Path(q[k + 1], path_cost[q[k + 1]], q[k]) /\ q[k] # NoNode
        BY <1>0, <1>7, <4>1, <4>2 DEF PathsInv
      <4> QED BY <4>3 DEF Path
    <3> QED BY <3>1, <3>2
  <2> QED BY <2>1, EdgeFacts
<1>10. ASSUME NEW k \in 1 .. L PROVE path_cost[q[k]] \in Nat
  BY <1>7, CostFacts
<1>11. ASSUME NEW k \in 2 .. L PROVE q[k] \notin Traced /\ q[k] # Root
  <2>1. CASE k = L
    BY <1>3, <1>5, <1>6, <2>1
  <2>2. CASE k # L
    <3>1. k \in 1 .. L - 1 /\ 1 \in 1 .. L - 1 /\ 1 < k /\ 1 \in 1 .. L /\ k \in 1 .. L /\ k - 1 \in 1 .. L
      BY <1>5, <2>2
    <3>2. path_cost[q[1]] < path_cost[q[k]]
      BY <1>5, <3>1
    <3>3. path_cost[q[k]] # 0
      BY <1>10, <3>1, <3>2
    <3>4. q[k] \notin Traced
      BY <1>3, <3>3
    <3>5. CASE t = <<>>
      <4>1. prev_node[q[k]] # NoNode
        BY <1>5, <1>7, <3>1
      <4> QED BY <1>3, <3>4, <3>5, <4>1
    <3>6. CASE t # <<>>
      BY <3>4, <3>6, RootIsTraced
    <3> QED BY <3>4, <3>5, <3>6
  <2> QED BY <2>1, <2>2
<1>12. ASSUME NEW j \in 1 .. L, NEW k \in 1 .. L, q[j] = q[k] PROVE j = k
  <2>1. \A m \in 1 .. L - 1 : q[m] # q[L]
    BY <1>3, <1>5
  <2>2. CASE j = L \/ k = L
    <3>1. j = L \/ j \in 1 .. L - 1
      BY <1>5
    <3>2. k = L \/ k \in 1 .. L - 1
      BY <1>5
    <3> QED BY <1>12, <2>1, <2>2, <3>1, <3>2
  <2>3. CASE j # L /\ k # L
    <3>1. j \in 1 .. L - 1 /\ k \in 1 .. L - 1
      BY <1>5, <2>3
    <3>2. ~(j < k) /\ ~(k < j)
      BY <1>5, <1>10, <1>12, <3>1
    <3> QED BY <3>1, <3>2
  <2> QED BY <2>2, <2>3
<1>13. q \in Seq(Nodes) /\ Len(q) = L
  <2>1. q \in Seq(Nodes)
    BY <1>5, SeqDef
  <2>2. Len(q) \in Nat /\ DOMAIN q = 1 .. Len(q) /\ DOMAIN q = 1 .. L
    BY <1>5, <2>1, LenProperties
  <2> QED BY <1>5, <2>1, <2>2
<1> HIDE DEF t
<1>14. /\ t \o q \in Seq(Nodes) /\ Len(t \o q) = Len(t) + L
       /\ \A k \in 1 .. Len(t) + L : (t \o q)[k] = IF k <= Len(t) THEN t[k] ELSE q[k - Len(t)]
  <2>1. t \in Seq(Nodes) /\ q \in Seq(Nodes) /\ Len(q) = L
    BY <1>6, <1>13
  <2> QED BY <2>1, ConcatProperties
<1>15. DOMAIN (t \o q) = 1 .. Len(t) + L
  BY <1>14, LenProperties
<1>16. trace \in [Nets -> Seq(Nodes)]
  BY DEF Shapes
<1>17. trace'[inet] = t \o q /\ \A i \in Nets \ {inet} : trace'[i] = trace[i]
  BY <1>1, <1>6, <1>16 DEF t, q
<1>18. trace' \in [Nets -> Seq(Nodes)]
  <2>1. trace' = [trace EXCEPT ![inet] = t \o q]
    BY <1>1 DEF t, q
  <2> QED BY <1>14, <1>16, <2>1
<1>19. ASSUME NEW k \in 1 .. Last1 PROVE trace'[inet][k] = t[k]
  <2>1. k \in 1 .. Len(t) + L /\ k <= Len(t)
    BY <1>5, <1>6
  <2> QED BY <1>14, <1>17, <2>1
<1>20. ASSUME NEW k \in 1 .. L PROVE trace'[inet][Last1 + k] = q[k]
  <2>1. Len(t) + k \in 1 .. Len(t) + L /\ ~(Len(t) + k <= Len(t)) /\ (Len(t) + k) - Len(t) = k
    BY <1>5, <1>6
  <2> QED BY <1>6, <1>14, <1>17, <2>1
<1>21. t \o q # <<>>
  <2>1. Len(t \o q) # 0
    BY <1>5, <1>6, <1>14
  <2> QED BY <1>14, <2>1, EmptySeq
<1>22. /\ Len(trace'[inet]) = Last1 + L /\ DOMAIN trace'[inet] = 1 .. Last1 + L
       /\ trace'[inet] # <<>>
  BY <1>6, <1>14, <1>15, <1>17, <1>21
<1>23. routed' = routed \cup {e.index}
  BY <1>1, <1>3
<1>24. target_flag' = [target_flag EXCEPT ![e.index] = 0]
  <2>1. target_flag' = [target_flag EXCEPT ![e.index] = target_flag[e.index] - 1]
    BY <1>1
  <2>2. target_flag[e.index] - 1 = 0
    BY <1>3
  <2> QED BY <2>1, <2>2
<1>25. tptr' = IF Last1 = 0 THEN 1 ELSE Last1 + 2
  BY <1>1, <1>6 DEF t
<1>26. q[L] \in SinkNodes /\ q[L] \in Sinks(inet)
  BY <1>3, <1>5
<1>27. Joining(e, q, L)
  BY <1>1, <1>3, <1>5, <1>6, <1>7, <1>8, <1>9, <1>11, <1>12, <1>18, <1>17, <1>19, <1>20, <1>22,
     <1>23, <1>24, <1>25, <1>26 DEF Joining, t
<1> QED BY <1>2, <1>27
-----------------------------------------------------------------------------
(* Connect keeps the invariant of the search.                              *)
LEMMA SameCosts ==
    ASSUME UNCHANGED costs, NEW n
    PROVE  Cong(n)' = Cong(n) /\ StepCost(n)' = StepCost(n)
  BY DEF costs, Cong, StepCost

LEMMA ConnectTrace ==
    ASSUME SearchInv, Connect
    PROVE  TraceInv'
<1> USE DEF SearchInv
<1>1. PICK e, q, L : Joining(e, q, L)
  BY Joins
<1> DEFINE t == trace[inet]
           u == trace'[inet]
           T == Last1
<1>2. inet \in Nets /\ edges' = edges /\ inet' = inet
  BY InNetFacts DEF Connect, loops
<1>3. /\ L \in Nat /\ L >= 2 /\ T \in Nat
      /\ DOMAIN t = 1 .. T /\ Len(u) = T + L /\ DOMAIN u = 1 .. T + L /\ (t = <<>> <=> T = 0)
      /\ \A k \in 1 .. T : u[k] = t[k]
      /\ \A k \in 1 .. L : u[T + k] = q[k]
      /\ \A i \in Nets \ {inet} : trace'[i] = trace[i]
      /\ q[L] \in SinkNodes
      /\ q[1] \in Traced \cup {Root} /\ (t = <<>> => q[1] = Root)
      /\ \A k \in 1 .. L - 1 : q[k] \notin SinkNodes /\ <<q[k], q[k + 1]>> \in edges
      /\ \A k \in 2 .. L : q[k] \notin Traced
      /\ \A j, k \in 1 .. L : q[j] = q[k] => j = k
  BY <1>1 DEF Joining
<1>4. ASSUME NEW k \in DOMAIN u, k > T PROVE k - T \in 1 .. L /\ u[k] = q[k - T]
  <2>1. k - T \in 1 .. L /\ T + (k - T) = k
    BY <1>3, <1>4
  <2> QED BY <1>3, <2>1
<1>5. \A k \in 1 .. T : t[k] \in Traced
  BY <1>3 DEF Traced, OnTrace
<1>6. Tree(t, Root)
  BY <1>2 DEF TraceInv, Root
<1>7. t # <<>> => Root \in Traced
  BY RootIsTraced
<1> HIDE DEF t, u, T
<1>8. u[1] = Root
  <2>1. CASE T = 0
    <3>1. 1 \in 1 .. L /\ T + 1 = 1
      BY <1>3, <2>1
    <3>2. u[1] = q[1]
      BY <1>3, <3>1
    <3> QED BY <1>3, <2>1, <3>2
  <2>2. CASE T # 0
    <3>1. 1 \in 1 .. T
      BY <1>3, <2>2
    <3> QED BY <1>3, <1>6, <2>2, <3>1 DEF Tree
  <2> QED BY <2>1, <2>2
<1>9. u[Len(u)] \in SinkNodes
  <2>1. T + L \in DOMAIN u /\ T + L > T /\ (T + L) - T = L
    BY <1>3
  <2> QED BY <1>3, <1>4, <2>1
<1>10. ASSUME NEW k \in DOMAIN u \ {1}
       PROVE  IF u[k - 1] \in SinkNodes
              THEN u[k] \notin SinkNodes /\ \E j \in 1 .. k - 1 : u[j] = u[k]
              ELSE <<u[k - 1], u[k]>> \in edges /\ \A j \in 1 .. k - 1 : u[j] # u[k]
  <2>0. k \in Nat /\ k >= 2 /\ k - 1 \in DOMAIN u /\ k <= T + L
    BY <1>3
  <2>1. CASE k <= T
    <3>1. k \in DOMAIN t \ {1} /\ t # <<>> /\ \A j \in 1 .. k : u[j] = t[j]
      BY <1>3, <2>0, <2>1
    <3>2. IF t[k - 1] \in SinkNodes
          THEN t[k] \notin SinkNodes /\ \E j \in 1 .. k - 1 : t[j] = t[k]
          ELSE <<t[k - 1], t[k]>> \in edges /\ \A j \in 1 .. k - 1 : t[j] # t[k]
      BY <1>6, <3>1 DEF Tree
    <3>3. k - 1 \in 1 .. k /\ k \in 1 .. k /\ 1 .. k - 1 \subseteq 1 .. k
      BY <2>0
    <3>4. u[k - 1] = t[k - 1] /\ u[k] = t[k] /\ \A j \in 1 .. k - 1 : u[j] = t[j]
      BY <3>1, <3>3
    <3> QED BY <3>2, <3>4
  <2>2. CASE k = T + 1
    <3>1. T \in 1 .. T /\ k - 1 = T /\ 1 \in 1 .. L - 1 /\ t # <<>>
      BY <1>3, <2>0, <2>2
    <3>2. u[k - 1] = t[T] /\ u[k] = q[1]
      BY <1>3, <2>2, <3>1
    <3>3. t[T] \in SinkNodes
      BY <3>1, RootIsTraced DEF t, T
    <3>4. q[1] \notin SinkNodes /\ q[1] \in Traced
      BY <1>3, <1>7, <3>1
    <3>5. PICK j \in 1 .. T : t[j] = q[1]
      BY <1>3, <3>4 DEF Traced, OnTrace, t
    <3>6. j \in 1 .. k - 1 /\ u[j] = u[k]
      BY <1>3, <2>2, <3>2, <3>5
    <3> QED BY <3>2, <3>3, <3>4, <3>6
  <2>3. CASE k > T + 1
    <3> DEFINE m == k - T
    <3>1. m \in 2 .. L /\ m - 1 \in 1 .. L - 1 /\ (m - 1) + 1 = m /\ m \in 1 .. L
          /\ k - 1 > T /\ (k - 1) - T = m - 1 /\ k > T
      BY <1>3, <2>0, <2>3
    <3>2. u[k] = q[m] /\ u[k - 1] = q[m - 1]
      BY <1>4, <2>0, <3>1
    <3>3. u[k - 1] \notin SinkNodes /\ <<u[k - 1], u[k]>> \in edges
      BY <1>3, <3>1, <3>2
    <3>4. ASSUME NEW j \in 1 .. k - 1 PROVE u[j] # u[k]
      <4>1. CASE j <= T
        <5>1. j \in 1 .. T
          BY <1>3, <4>1
        <5>2. u[j] \in Traced
          BY <1>3, <1>5, <5>1
        <5> QED BY <1>3, <3>1, <3>2, <5>2
      <4>2. CASE j > T
        <5>1. j \in DOMAIN u /\ j - T # m
          BY <1>3, <2>0
        <5>2. j - T \in 1 .. L /\ u[j] = q[j - T]
          BY <1>4, <4>2, <5>1
        <5> QED BY <1>3, <3>1, <3>2, <5>1, <5>2
      <4>3. j <= T \/ j > T
        BY <1>3
      <4> QED BY <4>1, <4>2, <4>3
    <3> QED BY <3>3, <3>4
  <2>4. k <= T \/ k = T + 1 \/ k > T + 1
    BY <1>3, <2>0
  <2> QED BY <2>1, <2>2, <2>3, <2>4
<1>11. Tree(u, Root)
  BY <1>8, <1>9, <1>10 DEF Tree
<1>12. ASSUME NEW i \in Nets PROVE Tree(trace'[i], Source(i))
  <2>1. CASE i = inet
    BY <1>11, <2>1 DEF u, Root
  <2>2. CASE i # inet
    <3>1. trace'[i] = trace[i]
      BY <1>3, <2>2
    <3> QED BY <3>1 DEF TraceInv
  <2> QED BY <2>1, <2>2
<1>13. \A t1, r : Tree(t1, r)' <=> Tree(t1', r')
  BY <1>2 DEF Tree
<1> QED BY <1>2, <1>12 DEF TraceInv, Tree

(* The nodes on the trace after Connect.                                   *)
LEMMA JoinedNodes ==
    ASSUME SearchInv, NEW e, NEW q, NEW L, Joining(e, q, L), inet' = inet
    PROVE  /\ Traced' = Traced \cup {q[k] : k \in 1 .. L} /\ e.index \in Traced'
           /\ \A n \in Traced' \ Traced : \E k \in DOMAIN trace'[inet] : tptr' <= k /\ trace'[inet][k] = n
           /\ \E k \in DOMAIN trace'[inet] : tptr' <= k /\ trace'[inet][k] = e.index
<1> USE DEF SearchInv
<1> DEFINE u == trace'[inet]
           T == Last1
<1>1. /\ L \in Nat /\ L >= 2 /\ T \in Nat
      /\ DOMAIN trace[inet] = 1 .. T /\ DOMAIN u = 1 .. T + L /\ (trace[inet] = <<>> <=> T = 0)
      /\ \A k \in 1 .. T : u[k] = trace[inet][k]
      /\ \A k \in 1 .. L : u[T + k] = q[k]
      /\ q[1] \in Traced \cup {Root} /\ (trace[inet] = <<>> => q[1] = Root)
      /\ tptr' = IF T = 0 THEN 1 ELSE T + 2
      /\ q[L] = e.index
  BY DEF Joining
<1>2. trace[inet] # <<>> => Root \in Traced
  BY RootIsTraced
<1>3. Traced' = {u[k] : k \in DOMAIN u}
  BY DEF Traced, OnTrace
<1>4. Traced = {trace[inet][k] : k \in 1 .. T}
  BY <1>1 DEF Traced, OnTrace
<1> HIDE DEF u, T
<1>5. ASSUME NEW k \in 1 .. L
      PROVE  T + k \in DOMAIN u /\ u[T + k] = q[k]
  BY <1>1
<1>6. Traced \cup {q[k] : k \in 1 .. L} \subseteq Traced'
  <2>1. ASSUME NEW k \in 1 .. T PROVE trace[inet][k] \in Traced'
    <3>1. k \in DOMAIN u /\ u[k] = trace[inet][k]
      BY <1>1
    <3> QED BY <1>3, <3>1
  <2>2. ASSUME NEW k \in 1 .. L PROVE q[k] \in Traced'
    BY <1>3, <1>5
  <2> QED BY <1>4, <2>1, <2>2
<1>7. ASSUME NEW k \in DOMAIN u PROVE u[k] \in Traced \/ \E m \in 1 .. L : k = T + m /\ u[k] = q[m]
  <2>1. CASE k <= T
    BY <1>1, <1>4, <2>1
  <2>2. CASE k > T
    <3>1. k - T \in 1 .. L /\ k = T + (k - T)
      BY <1>1, <2>2
    <3> QED BY <1>1, <3>1
  <2> QED BY <1>1, <2>1, <2>2
<1>8. Traced' = Traced \cup {q[k] : k \in 1 .. L}
  <2>1. Traced' \subseteq Traced \cup {q[k] : k \in 1 .. L}
    BY <1>3, <1>7
  <2> QED BY <1>6, <2>1
<1>9. ASSUME NEW n \in Traced' \ Traced
      PROVE  \E k \in DOMAIN u : tptr' <= k /\ u[k] = n
  <2>1. PICK k \in DOMAIN u : u[k] = n
    BY <1>3
  <2>2. PICK m \in 1 .. L : k = T + m /\ u[k] = q[m]
    BY <1>7, <2>1
  <2>3. tptr' <= k
    <3>1. CASE T = 0
      BY <1>1, <2>2, <3>1
    <3>2. CASE T # 0
      <4>1. m # 1
        BY <1>1, <1>2, <2>1, <2>2, <3>2
      <4> QED BY <1>1, <2>2, <3>2, <4>1
    <3> QED BY <3>1, <3>2
  <2> QED BY <2>1, <2>3
<1>10. \E k \in DOMAIN u : tptr' <= k /\ u[k] = e.index
  <2>1. L \in 1 .. L /\ T + L \in DOMAIN u /\ tptr' <= T + L
    BY <1>1
  <2> QED BY <1>1, <2>1
<1>11. e.index \in Traced'
  BY <1>3, <1>10
<1> QED BY <1>8, <1>9, <1>10, <1>11 DEF u

LEMMA ConnectSinks ==
    ASSUME SearchInv, Connect
    PROVE  SinksInv'
<1> USE DEF SearchInv
<1>1. PICK e, q, L : Joining(e, q, L)
  BY Joins
<1>2. /\ pc \in {"first", "wave"} /\ pc' = "segment" /\ verdict' = verdict /\ inet' = inet
      /\ inet \in Nets
  BY InNetFacts DEF Connect, result, loops
<1>3. Searching /\ InNet /\ Searching' /\ InNet'
  BY <1>2 DEF Searching, InNet
<1>4. routed = Traced \cap SinkNodes /\ routed \subseteq Sinks(inet)
  BY <1>2, <1>3 DEF SinksInv
<1>5. /\ e.index \in SinkNodes /\ e.index \in Sinks(inet) /\ L \in Nat /\ L >= 2
      /\ q[L] = e.index /\ \A k \in 1 .. L - 1 : q[k] \notin SinkNodes
      /\ routed' = routed \cup {e.index}
      /\ target_flag' = [target_flag EXCEPT ![e.index] = 0] /\ e.index \in Nodes
  BY <1>1 DEF Joining
<1>6. Traced' = Traced \cup {q[k] : k \in 1 .. L}
  BY <1>1, <1>2, JoinedNodes
<1>7. {q[k] : k \in 1 .. L} \cap SinkNodes = {e.index}
  <2>1. ASSUME NEW k \in 1 .. L, q[k] \in SinkNodes PROVE q[k] = e.index
    <3>1. k = L \/ k \in 1 .. L - 1
      BY <1>5
    <3> QED BY <1>5, <2>1, <3>1
  <2>2. L \in 1 .. L
    BY <1>5
  <2> QED BY <1>5, <2>1, <2>2
<1>8. routed' = Traced' \cap SinkNodes /\ routed' \subseteq Sinks(inet)
  BY <1>4, <1>5, <1>6, <1>7
<1>9. Wanted' = Wanted \ {e.index}
  BY <1>2, <1>5 DEF Wanted
<1>10. ASSUME NEW n \in Nodes PROVE target_flag'[n] = IF n \in Wanted' THEN 1 ELSE 0
  <2>1. target_flag[n] = IF n \in Wanted THEN 1 ELSE 0
    BY <1>3 DEF SinksInv
  <2>2. target_flag \in [Nodes -> 0 .. Capacity]
    BY DEF TypeOK
  <2>3. target_flag'[n] = IF n = e.index THEN 0 ELSE target_flag[n]
    BY <1>5, <2>2
  <2> QED BY <1>9, <2>1, <2>3
<1> QED BY <1>2, <1>3, <1>8, <1>10 DEF SinksInv

LEMMA ConnectSearch ==
    ASSUME SearchInv, Connect, TypeOK'
    PROVE  SearchInv' /\ Complete'
<1> USE DEF SearchInv
<1>1. PICK e, q, L : Joining(e, q, L)
  BY Joins
<1>2. /\ pc \in {"first", "wave"} /\ pc' = "segment" /\ verdict' = verdict /\ inet' = inet
      /\ edges' = edges /\ sources' = sources /\ isrc' = isrc /\ itry' = itry /\ isink' = isink + 1
      /\ UNCHANGED costs /\ path_cost' = path_cost /\ prev_node' = prev_node /\ modified' = modified
      /\ pres_cost' = pres_cost /\ acc_cost' = acc_cost
  BY DEF Connect, result, loops, costs
<1>3. Searching /\ InNet /\ Searching' /\ InNet' /\ inet \in Nets /\ Root' = Root
  BY <1>2, InNetFacts DEF Searching, InNet, Root
<1>4. /\ e \in heap /\ heap' = heap \ {e} /\ e.index \in Wanted /\ e.index \in SinkNodes
      /\ routed' = routed \cup {e.index} /\ e.index \in Nodes
      /\ \A n \in Traced : path_cost[n] = 0
      /\ trace' \in [Nets -> Seq(Nodes)] /\ trace'[inet] # <<>>
      /\ L \in Nat /\ L >= 2 /\ Last1 \in Nat /\ Len(trace'[inet]) = Last1 + L
      /\ tptr' = IF Last1 = 0 THEN 1 ELSE Last1 + 2
  BY <1>1 DEF Joining
<1>5. /\ Traced' = Traced \cup {q[k] : k \in 1 .. L}
      /\ \A n \in Traced' \ Traced : \E k \in DOMAIN trace'[inet] : tptr' <= k /\ trace'[inet][k] = n
      /\ \E k \in DOMAIN trace'[inet] : tptr' <= k /\ trace'[inet][k] = e.index
  BY <1>1, <1>2, JoinedNodes
<1>6. \A n \in Traced' \ Traced : Pending(n)'
  BY <1>2, <1>5 DEF Pending
<1>7. Pending(e.index)'
  BY <1>2, <1>5 DEF Pending
<1>8. Shapes'
  BY <1>2, <1>4 DEF Shapes
<1>9. ControlInv'
  <2>1. isink \in Nat /\ isink \in 1 .. Len(NetSinks[inet]) + 1 /\ isink <= Len(NetSinks[inet])
    BY <1>2, <1>3 DEF ControlInv, TypeOK
  <2>2. Len(NetSinks[inet]) \in Nat
    BY <1>3, SinkFacts
  <2>3. isink' \in 1 .. Len(NetSinks[inet]) + 1
    BY <1>2, <2>1, <2>2
  <2> QED BY <1>2, <1>3, <2>3 DEF ControlInv
<1>10. TraceInv' /\ SinksInv'
  BY ConnectTrace, ConnectSinks
<1>11. TouchedInv'
  BY <1>2, <1>3 DEF TouchedInv
<1>12. PathsInv'
  <2>1. ASSUME NEW n, NEW c, NEW p, Path(n, c, p)
        PROVE  IF p = NoNode THEN n \in Traced' \cup {Root'}
               ELSE <<p, n>> \in edges' /\ p \in modified' /\ path_cost'[p] + StepCost(n)' <= c
    BY <1>2, <1>3, <1>5, <2>1, SameCosts DEF Path
  <2>2. Wanted' \subseteq Wanted
    BY <1>2, <1>4 DEF Wanted
  <2>3. ASSUME NEW n \in modified' PROVE Path(n, path_cost[n], prev_node[n])'
    <3>1. Path(n, path_cost[n], prev_node[n])
      BY <1>2, <1>3 DEF PathsInv
    <3> QED BY <1>2, <2>1, <3>1 DEF Path
  <2>4. ASSUME NEW f \in heap' PROVE Path(f.index, f.cost, f.prev_node)' /\ f.cost < HUGE
    <3>1. Path(f.index, f.cost, f.prev_node) /\ f.cost < HUGE
      BY <1>3, <1>4 DEF PathsInv
    <3> QED BY <2>1, <3>1 DEF Path
  <2>5. modified' \cap Wanted' = {}
    BY <1>2, <1>3, <2>2 DEF PathsInv
  <2> QED BY <2>3, <2>4, <2>5 DEF PathsInv
<1>13. SegmentInv'
  <2>1. tptr' \in 1 .. Last1'
    BY <1>2, <1>4 DEF Last1
  <2> QED BY <1>2, <1>4, <2>1 DEF SegmentInv
<1>14. Complete'
  <2>0. Complete
    BY Joins
  <2>1. Cardinality(routed') = isink' - 1
    <3>1. IsFiniteSet(routed)
      <4>1. routed \subseteq Nodes
        BY FiniteNodes DEF TypeOK
      <4> QED BY <4>1, FiniteNodes, FS_Subset
    <3>2. e.index \notin routed
      BY <1>4 DEF Wanted
    <3>3. Cardinality(routed') = Cardinality(routed) + 1
      BY <1>4, <3>1, <3>2, FS_AddElement
    <3>4. isink \in Nat /\ Cardinality(routed) = isink - 1
      BY <2>0 DEF Complete, TypeOK
    <3> QED BY <1>2, <3>3, <3>4
  <2>2. ASSUME NEW n \in Traced' PROVE path_cost'[n] = 0 \/ Pending(n)'
    BY <1>2, <1>4, <1>6
  <2>3. ASSUME NEW m \in modified', NEW n \in Nodes, <<m, n>> \in edges'
        PROVE  Offered(n, path_cost[m] + StepCost(n))'
    <3> DEFINE c == path_cost[m] + StepCost(n)
    <3>1. Offered(n, c)
      BY <1>2, <2>0, <2>3 DEF Complete
    <3>2. (path_cost[m] + StepCost(n))' = c
      BY <1>2, SameCosts
    <3>3. ~Pending(n)
      BY <1>2 DEF Pending
    <3>4. CASE path_cost[n] <= c
      <4>1. path_cost'[n] <= (path_cost[m] + StepCost(n))'
        BY <1>2, <3>2, <3>4
      <4> QED BY <4>1 DEF Offered
    <3>5. CASE \E f \in heap : f.index = n /\ f.cost <= c
      <4>1. PICK f \in heap : f.index = n /\ f.cost <= c
        BY <3>5
      <4>2. CASE f = e
        BY <1>7, <4>1, <4>2 DEF Offered
      <4>3. CASE f # e
        <5>1. f \in heap' /\ f.cost <= (path_cost[m] + StepCost(n))'
          BY <1>4, <3>2, <4>1, <4>3
        <5> QED BY <4>1, <5>1 DEF Offered
      <4> QED BY <4>2, <4>3
    <3> HIDE DEF c
    <3> QED BY <3>1, <3>3, <3>4, <3>5 DEF Offered
  <2> QED BY <1>2, <1>4, <2>1, <2>2, <2>3 DEF Complete
<1> QED BY <1>8, <1>9, <1>10, <1>11, <1>12, <1>13, <1>14 DEF WaveInv
-----------------------------------------------------------------------------
(* Occupancies.  A tree is charged once for each of its nodes.             *)
LEMMA TreeUses ==
    ASSUME Shapes, TraceInv, NEW i \in Nets
    PROVE  /\ \A n : Uses(trace[i], n) = IF n \in OnTrace(i) THEN 1 ELSE 0
           /\ {trace[i][k] : k \in Charged(trace[i])} = OnTrace(i)
<1> DEFINE t == trace[i]
           C(n) == {k \in Charged(t) : t[k] = n}
<1>1. Len(t) \in Nat /\ DOMAIN t = 1 .. Len(t) /\ (t = <<>> <=> Len(t) = 0)
  BY NetFacts
<1>2. Tree(t, Source(i))
  BY DEF TraceInv
<1>3. OnTrace(i) = {t[k] : k \in DOMAIN t}
  BY DEF OnTrace
<1> HIDE DEF t
<1>4. ASSUME NEW n \in OnTrace(i) PROVE \E k \in DOMAIN t : C(n) = {k} /\ t[k] = n
  <2> DEFINE P == {k \in DOMAIN t : t[k] = n}
  <2>1. P # {} /\ P \subseteq Nat
    BY <1>1, <1>3, <1>4
  <2>2. PICK k \in P : \A l \in P : k <= l
    <3> HIDE DEF P
    <3> QED BY <2>1, LeastNatural
  <2>3. k \in DOMAIN t /\ t[k] = n /\ k \in Nat /\ t # <<>> /\ k >= 1
    BY <1>1, <2>1, <2>2
  <2>4. \A l \in DOMAIN t : t[l] = n => k <= l
    BY <2>2
  <2>5. k = 1 \/ t[k - 1] \notin SinkNodes
    <3> SUFFICES ASSUME k # 1, t[k - 1] \in SinkNodes PROVE FALSE
      OBVIOUS
    <3>1. PICK j \in 1 .. k - 1 : t[j] = t[k]
      BY <1>2, <2>3 DEF Tree
    <3>2. j \in DOMAIN t /\ ~(k <= j)
      BY <1>1, <2>3
    <3> QED BY <2>3, <2>4, <3>1, <3>2
  <2>6. k \in C(n)
    BY <2>3, <2>5 DEF Charged
  <2>7. ASSUME NEW l \in C(n) PROVE l = k
    <3>1. l \in DOMAIN t /\ t[l] = n /\ (l = 1 \/ t[l - 1] \notin SinkNodes)
      BY DEF Charged
    <3>2. k <= l
      BY <2>4, <3>1
    <3>3. SUFFICES ASSUME k # l PROVE FALSE
      OBVIOUS
    <3>4. l # 1 /\ k \in 1 .. l - 1
      BY <1>1, <2>3, <3>1, <3>2, <3>3
    <3>5. t[k] # t[l]
      BY <1>2, <2>3, <3>1, <3>4 DEF Tree
    <3> QED BY <2>3, <3>1, <3>5
  <2>8. C(n) = {k}
    <3> HIDE DEF C
    <3> QED BY <2>6, <2>7
  <2> QED BY <2>3, <2>8
<1>5. ASSUME NEW n PROVE Uses(t, n) = IF n \in OnTrace(i) THEN 1 ELSE 0
  <2>1. Uses(t, n) = Cardinality(C(n))
    BY DEF Uses
  <2>2. CASE n \in OnTrace(i)
    <3>1. PICK k \in DOMAIN t : C(n) = {k}
      BY <1>4, <2>2
    <3> HIDE DEF C
    <3> QED BY <2>1, <2>2, <3>1, FS_Singleton
  <2>3. CASE n \notin OnTrace(i)
    <3>1. C(n) = {}
      BY <1>3, <2>3 DEF Charged
    <3> HIDE DEF C
    <3> QED BY <2>1, <2>3, <3>1, FS_EmptySet
  <2> QED BY <2>2, <2>3
<1>6. {t[k] : k \in Charged(t)} = OnTrace(i)
  <2>1. {t[k] : k \in Charged(t)} \subseteq OnTrace(i)
    BY <1>3 DEF Charged
  <2>2. ASSUME NEW n \in OnTrace(i) PROVE n \in {t[k] : k \in Charged(t)}
    <3>1. PICK k \in DOMAIN t : C(n) = {k} /\ t[k] = n
      BY <1>4
    <3>2. k \in Charged(t)
      BY <3>1
    <3> QED BY <3>1, <3>2
  <2> QED BY <2>1, <2>2
<1> QED BY <1>5, <1>6 DEF t

Users(I, n) == {i \in I : n \in OnTrace(i)}

LEMMA UsersFacts ==
    ASSUME NEW I \in SUBSET Nets, NEW n
    PROVE  IsFiniteSet(Users(I, n)) /\ Cardinality(Users(I, n)) \in Nat
<1>1. Users(I, n) \subseteq Nets
  BY DEF Users
<1> QED BY <1>1, FiniteNodes, FS_Subset, FS_CardinalityType

LEMMA OneUserLess ==
    ASSUME NEW i \in Nets, NEW n
    PROVE  Cardinality(Users(Nets, n)) =
               Cardinality(Users(Nets \ {i}, n)) + IF n \in OnTrace(i) THEN 1 ELSE 0
<1>1. IsFiniteSet(Users(Nets, n)) /\ Cardinality(Users(Nets, n)) \in Nat
  BY UsersFacts
<1>2. Users(Nets \ {i}, n) = Users(Nets, n) \ {i}
  BY DEF Users
<1>3. i \in Users(Nets, n) <=> n \in OnTrace(i)
  BY DEF Users
<1> DEFINE U == Users(Nets, n)
<1> HIDE DEF U
<1>4. Cardinality(U \ {i}) = IF i \in U THEN Cardinality(U) - 1 ELSE Cardinality(U)
  BY <1>1, FS_RemoveElement DEF U
<1>5. Cardinality(U) \in Nat /\ Users(Nets \ {i}, n) = U \ {i} /\ (i \in U <=> n \in OnTrace(i))
  BY <1>1, <1>2, <1>3 DEF U
<1>6. Cardinality(U) = Cardinality(U \ {i}) + IF n \in OnTrace(i) THEN 1 ELSE 0
  BY <1>4, <1>5
<1> QED BY <1>5, <1>6 DEF U

LEMMA PresCostFacts ==
    ASSUME NEW o \in Nat, NEW fac \in Nat
    PROVE  PresCost(o, fac) \in Nat /\ PresCost(o, fac) >= 1
<1>1. CASE o < Capacity
  BY <1>1 DEF PresCost
<1>2. CASE ~(o < Capacity)
  <2>1. o + 1 - Capacity \in Nat
    BY <1>2 DEF Capacity
  <2>2. (o + 1 - Capacity) * fac \in Nat
    BY <2>1, ProductFacts
  <2> QED BY <1>2, <2>2 DEF PresCost
<1> QED BY <1>1, <1>2

(* What rip-up and charging do to a node.                                  *)
LEMMA UpdateFacts ==
    ASSUME TypeOK, Shapes, TraceInv, NEW i \in Nets, NEW a \in {1, -1}, UpdateOneCost(trace[i], a),
           a = -1 => \A n \in OnTrace(i) : occ[n] >= 1
    PROVE  /\ occ' \in [Nodes -> Nat]
           /\ \A n \in Nodes : occ'[n] = occ[n] + IF n \in OnTrace(i) THEN a ELSE 0
           /\ pres_cost' \in [Nodes -> Nat] /\ \A n \in Nodes : pres_cost'[n] >= 1
<1>1. occ \in [Nodes -> Nat] /\ pres_cost \in [Nodes -> Nat] /\ pres_fac \in Nat
  BY DEF TypeOK
<1> DEFINE now(n) == occ[n] + a * Uses(trace[i], n)
<1>2. ASSUME NEW n \in Nodes
      PROVE  now(n) = occ[n] + (IF n \in OnTrace(i) THEN a ELSE 0) /\ now(n) \in Nat
  <2>1. occ[n] \in Nat
    BY <1>1
  <2>2. CASE n \in OnTrace(i)
    <3>1. Uses(trace[i], n) = 1
      BY <2>2, TreeUses
    <3> QED BY <2>1, <2>2, <3>1
  <2>3. CASE n \notin OnTrace(i)
    <3>1. Uses(trace[i], n) = 0
      BY <2>3, TreeUses
    <3> QED BY <2>1, <2>3, <3>1
  <2> QED BY <2>2, <2>3
<1>3. /\ occ' = [n \in Nodes |-> now(n)]
      /\ pres_cost' = [n \in Nodes |-> IF n \in {trace[i][k] : k \in Charged(trace[i])}
                                       THEN PresCost(now(n), pres_fac) ELSE pres_cost[n]]
  BY DEF UpdateOneCost
<1> HIDE DEF now
<1>4. occ' \in [Nodes -> Nat] /\ \A n \in Nodes : occ'[n] = now(n)
  BY <1>2, <1>3
<1>5. ASSUME NEW n \in Nodes PROVE pres_cost'[n] \in Nat /\ pres_cost'[n] >= 1
  <2>1. PresCost(now(n), pres_fac) \in Nat /\ PresCost(now(n), pres_fac) >= 1
    BY <1>1, <1>2, PresCostFacts
  <2>2. pres_cost[n] \in Nat /\ pres_cost[n] >= 1
    BY <1>1 DEF Shapes
  <2> QED BY <1>3, <2>1, <2>2
<1>6. pres_cost' \in [Nodes -> Nat]
  BY <1>3, <1>5
<1> QED BY <1>2, <1>4, <1>5, <1>6

(* Places in the traces.                                                   *)
LEMMA PlacesFacts ==
    ASSUME Shapes
    PROVE  /\ IsFiniteSet(Places)
           /\ \A x \in Places : /\ x[1] \in Nets /\ x[1] \in Nat /\ x[2] \in DOMAIN trace[x[1]]
                                /\ x[2] \in Nat /\ x[2] <= Len(trace[x[1]]) /\ x = <<x[1], x[2]>>
                                /\ trace[x[1]][x[2]] \in Nodes
           /\ \A i \in Nets : \A k \in DOMAIN trace[i] : <<i, k>> \in Places
<1>1. \A i \in Nets : Len(trace[i]) \in Nat /\ DOMAIN trace[i] = 1 .. Len(trace[i])
                      /\ \A k \in DOMAIN trace[i] : trace[i][k] \in Nodes
  BY NetFacts
<1>2. \A i \in Nets : i \in Nat
  BY DEF Nets
<1> DEFINE row(i) == {i} \X DOMAIN trace[i]
           rows == {row(i) : i \in Nets}
           f == [i \in Nets |-> row(i)]
<1>3. ASSUME NEW i \in Nets PROVE IsFiniteSet(row(i))
  <2>1. IsFiniteSet({i})
    BY FS_Singleton
  <2>2. 1 \in Int /\ Len(trace[i]) \in Int
    BY <1>1
  <2>3. IsFiniteSet(1 .. Len(trace[i]))
    BY <2>2, FS_Interval
  <2> QED BY <1>1, <2>1, <2>3, FS_Product
<1> HIDE DEF row
<1>4. f \in [Nets -> rows] /\ \A y \in rows : \E i \in Nets : f[i] = y
  OBVIOUS
<1>5. \A y \in rows : IsFiniteSet(y)
  BY <1>3
<1> HIDE DEF rows, f
<1>6. f \in Surjection(Nets, rows)
  BY <1>4, Fun_IsSurj
<1>7. IsFiniteSet(rows)
  BY <1>6, FiniteNodes, FS_Surjection
<1>8. IsFiniteSet(UNION rows)
  BY <1>5, <1>7, FS_UNION
<1>9. Places = UNION rows
  BY DEF Places, rows, row
<1>10. ASSUME NEW x \in Places
       PROVE  /\ x[1] \in Nets /\ x[2] \in DOMAIN trace[x[1]] /\ x = <<x[1], x[2]>>
  BY DEF Places
<1>11. ASSUME NEW i \in Nets, NEW k \in DOMAIN trace[i] PROVE <<i, k>> \in Places
  BY DEF Places
<1>12. ASSUME NEW x \in Places
       PROVE  x[1] \in Nat /\ x[2] \in Nat /\ x[2] <= Len(trace[x[1]]) /\ trace[x[1]][x[2]] \in Nodes
  <2>1. x[1] \in Nets /\ x[2] \in DOMAIN trace[x[1]]
    BY <1>10
  <2>2. x[2] \in 1 .. Len(trace[x[1]]) /\ Len(trace[x[1]]) \in Nat
    BY <1>1, <2>1
  <2> QED BY <1>1, <1>2, <2>1, <2>2
<1> QED BY <1>8, <1>9, <1>10, <1>11, <1>12

LEMMA OnFacts ==
    ASSUME Shapes, NEW n
    PROVE  /\ On(n) \subseteq Places /\ IsFiniteSet(On(n))
           /\ \A i \in Nets : n \in OnTrace(i) <=> \E x \in On(n) : x[1] = i
<1>1. On(n) \subseteq Places /\ IsFiniteSet(On(n))
  <2>1. On(n) \subseteq Places
    BY DEF On
  <2> QED BY <2>1, PlacesFacts, FS_Subset
<1>2. ASSUME NEW i \in Nets, n \in OnTrace(i) PROVE \E x \in On(n) : x[1] = i
  <2>1. PICK k \in DOMAIN trace[i] : trace[i][k] = n
    BY <1>2 DEF OnTrace
  <2>2. <<i, k>> \in On(n)
    BY <2>1, PlacesFacts DEF On
  <2> QED BY <2>2
<1>3. ASSUME NEW i \in Nets, NEW x \in On(n), x[1] = i PROVE n \in OnTrace(i)
  <2>1. trace[i][x[2]] = n /\ x[2] \in DOMAIN trace[i]
    BY <1>3, PlacesFacts DEF On
  <2> QED BY <2>1 DEF OnTrace
<1> QED BY <1>1, <1>2, <1>3

LEMMA RecountFacts ==
    ASSUME Shapes, NEW n \in Nodes
    PROVE  /\ Recount[n] \in Nat /\ Recount[n] >= Cardinality(Users(Nets, n))
           /\ Recount[n] <= 1 => \A x, y \in On(n) : x[1] = y[1]
           /\ Recount[n] > 1 => Cardinality(Users(Nets, n)) > 1
<1> DEFINE P == On(n)
           first == {x \in P : \A y \in P : x[1] <= y[1]}
           U == Users(Nets, n)
<1>1. Recount[n] = IF first = {} THEN 0 ELSE 1 + Cardinality(P \ first)
  BY DEF Recount
<1>2. P \subseteq Places /\ IsFiniteSet(P) /\ \A i \in Nets : i \in U <=> \E x \in P : x[1] = i
  BY OnFacts DEF Users
<1>3. U \subseteq Nets /\ IsFiniteSet(U) /\ Cardinality(U) \in Nat
  BY UsersFacts DEF Users
<1>4. \A x \in P : x[1] \in Nat /\ x[1] \in Nets
  BY <1>2, PlacesFacts
<1> HIDE DEF P, U
<1>5. CASE P = {}
  <2>1. first = {}
    BY <1>5
  <2>2. U = {}
    BY <1>2, <1>3, <1>5
  <2>3. Cardinality(U) = 0
    BY <2>2, FS_EmptySet
  <2> QED BY <1>1, <1>5, <2>1, <2>3 DEF P, U
<1>6. CASE P # {}
  <2> DEFINE I == {x[1] : x \in P}
  <2>1. I # {} /\ I \subseteq Nat
    BY <1>4, <1>6
  <2>2. PICK m \in I : \A k \in I : m <= k
    <3> HIDE DEF I
    <3> QED BY <2>1, LeastNatural
  <2>3. first = {x \in P : x[1] = m} /\ first # {}
    <3>1. \A x \in P : x[1] \in I
      OBVIOUS
    <3>2. PICK y \in P : y[1] = m
      BY <2>2
    <3>3. ASSUME NEW x \in P, x[1] = m PROVE x \in first
      BY <2>2, <3>1, <3>3
    <3>4. ASSUME NEW x \in first PROVE x[1] = m
      <4>1. x[1] <= m /\ m <= x[1] /\ x[1] \in Nat /\ m \in Nat
        BY <1>4, <2>1, <2>2, <3>1, <3>2
      <4> QED BY <4>1
    <3> QED BY <3>2, <3>3, <3>4
  <2> DEFINE Q == P \ first
             f == [x \in Q |-> x[1]]
  <2>4. m \in U
    BY <1>2, <1>4, <2>2
  <2>5. f \in [Q -> U \ {m}] /\ \A y \in U \ {m} : \E x \in Q : f[x] = y
    <3>1. ASSUME NEW x \in Q PROVE x[1] \in U \ {m}
      BY <1>2, <1>4, <2>3
    <3>2. ASSUME NEW y \in U \ {m} PROVE \E x \in Q : x[1] = y
      BY <1>2, <1>3, <2>3
    <3> HIDE DEF Q
    <3> QED BY <3>1, <3>2
  <2>6. IsFiniteSet(Q) /\ Cardinality(Q) \in Nat
    BY <1>2, FS_Subset, FS_CardinalityType
  <2>7. Recount[n] = 1 + Cardinality(Q)
    BY <1>1, <2>3
  <2>8. Cardinality(U) = Cardinality(U \ {m}) + 1 /\ IsFiniteSet(U \ {m}) /\ Cardinality(U \ {m}) \in Nat
    <3>1. IsFiniteSet(U \ {m}) /\ Cardinality(U \ {m}) = Cardinality(U) - 1
      BY <1>3, <2>4, FS_RemoveElement
    <3> QED BY <1>3, <3>1, FS_CardinalityType
  <2>9. \A x \in P : x[1] = m \/ x \in Q
    BY <2>3
  <2> HIDE DEF Q, f, first
  <2>10. f \in Surjection(Q, U \ {m})
    BY <2>5, Fun_IsSurj
  <2>11. Cardinality(U \ {m}) <= Cardinality(Q)
    BY <2>6, <2>10, FS_Surjection
  <2>12. Recount[n] >= Cardinality(U) /\ Recount[n] \in Nat
    BY <2>6, <2>7, <2>8, <2>11
  <2>13. ASSUME Recount[n] <= 1 PROVE \A x, y \in P : x[1] = y[1]
    <3>1. Cardinality(Q) = 0
      BY <2>6, <2>7, <2>13
    <3>2. Q = {}
      BY <2>6, <3>1, FS_EmptySet
    <3> QED BY <2>9, <3>2
  <2>14. ASSUME Recount[n] > 1 PROVE Cardinality(U) > 1
    <3>1. Q # {}
      <4>1. Cardinality(Q) # 0
        BY <2>6, <2>7, <2>14
      <4> QED BY <4>1, FS_EmptySet
    <3>2. U \ {m} # {}
      BY <2>5, <3>1
    <3>3. Cardinality(U \ {m}) # 0
      BY <2>8, <3>2, FS_EmptySet
    <3> QED BY <2>8, <3>3
  <2> QED BY <2>12, <2>13, <2>14 DEF P, U
<1> QED BY <1>5, <1>6

(* The last of some places.                                                *)
LEMMA LastFacts ==
    ASSUME Shapes, NEW X, X \subseteq Places, X # {}
    PROVE  Last(X) \in X
<1>1. \A x \in X : /\ x[1] \in Nat /\ x[1] <= NumNets /\ x[2] \in Nat
                   /\ x[2] <= Len(trace[x[1]]) /\ Len(trace[x[1]]) \in Nat
  <2>1. \A x \in X : x[1] \in Nets /\ x[1] \in Nat /\ x[2] \in Nat /\ x[2] <= Len(trace[x[1]])
    BY PlacesFacts
  <2> QED BY <2>1, NetFacts DEF Nets
<1>2. NumNets \in Nat
  BY FiniteNodes
<1> DEFINE I == {NumNets - x[1] : x \in X}
<1>3. I # {} /\ I \subseteq Nat
  BY <1>1, <1>2
<1>4. PICK a \in I : \A b \in I : a <= b
  <2> HIDE DEF I
  <2> QED BY <1>3, LeastNatural
<1>5. PICK y \in X : a = NumNets - y[1]
  BY <1>4
<1>6. \A x \in X : x[1] <= y[1]
  <2> SUFFICES ASSUME NEW x \in X PROVE x[1] <= y[1]
    OBVIOUS
  <2>1. a <= NumNets - x[1]
    BY <1>4
  <2> QED BY <1>1, <1>2, <1>5, <2>1
<1> DEFINE i == y[1]
           J == {Len(trace[i]) - x[2] : x \in {z \in X : z[1] = i}}
<1> HIDE DEF i
<1>7. J # {} /\ J \subseteq Nat
  BY <1>1, <1>5 DEF i
<1>8. PICK c \in J : \A b \in J : c <= b
  <2> HIDE DEF J
  <2> QED BY <1>7, LeastNatural
<1>9. PICK z \in X : z[1] = i /\ c = Len(trace[i]) - z[2]
  BY <1>8
<1>10. ASSUME NEW x \in X PROVE Later(z, x)
  <2>0. x[1] <= i /\ x[1] \in Nat /\ i \in Nat
    BY <1>1, <1>6 DEF i
  <2>1. CASE x[1] = i
    <3>1. c <= Len(trace[i]) - x[2]
      BY <1>8, <2>1
    <3>2. Len(trace[i]) \in Nat /\ x[2] \in Nat /\ z[2] \in Nat
      BY <1>1, <1>9
    <3>3. z[2] >= x[2]
      BY <1>9, <3>1, <3>2
    <3> QED BY <1>9, <2>1, <3>3 DEF Later
  <2>2. CASE x[1] # i
    BY <1>9, <2>0, <2>2 DEF Later
  <2> QED BY <2>1, <2>2
<1>11. \E x \in X : \A w \in X : Later(x, w)
  BY <1>10
<1> QED BY <1>11 DEF Last
-----------------------------------------------------------------------------
(* The steps of the search.                                                *)
LEMMA SearchKeeps ==
    ASSUME IInv, InNet, InNet', verdict' = verdict, UNCHANGED <<occ, inet, itry>>,
           \A i \in Nets \ {inet} : trace'[i] = trace[i]
    PROVE  OccInv' /\ ConnectedInv' /\ AnnotatedInv'
<1> USE DEF IInv, SearchInv
<1>1. verdict = "none" /\ inet \in Nets
  BY InNetFacts DEF ControlInv, InNet
<1>2. \A i \in Nets \ {inet} : OnTrace(i)' = OnTrace(i)
  BY DEF OnTrace
<1>3. OccInv'
  <2>1. ChargedNets = Nets \ {inet} /\ ChargedNets' = Nets \ {inet}
    BY DEF ChargedNets
  <2>2. ASSUME NEW n \in Nodes PROVE occ'[n] >= Cardinality({i \in ChargedNets : n \in OnTrace(i)})'
    <3>1. occ[n] >= Cardinality({i \in ChargedNets : n \in OnTrace(i)})
      BY <1>1 DEF OccInv
    <3>2. {i \in ChargedNets' : n \in OnTrace(i)'} = {i \in ChargedNets : n \in OnTrace(i)}
      BY <1>2, <2>1
    <3> QED BY <3>1, <3>2
  <2> QED BY <2>2 DEF OccInv
<1>4. ConnectedInv'
  <2>1. ASSUME NEW i \in Nets, Finished(i)' PROVE Finished(i) /\ i # inet
    BY <1>1, <2>1 DEF Finished, InNet
  <2> QED BY <1>2, <2>1 DEF ConnectedInv
<1>5. AnnotatedInv'
  BY <1>1 DEF AnnotatedInv
<1> QED BY <1>3, <1>4, <1>5

LEMMA SameTrace ==
    ASSUME TraceInv, edges \subseteq edges', \A i \in Nets : trace'[i] = trace[i] \/ trace'[i] = <<>>
    PROVE  TraceInv'
<1>1. ASSUME NEW i \in Nets PROVE Tree(trace[i], Source(i))'
  <2>1. CASE trace'[i] = trace[i]
    BY <2>1 DEF TraceInv, Tree
  <2>2. CASE trace'[i] = <<>>
    BY <2>2 DEF Tree
  <2> QED BY <2>1, <2>2
<1> QED BY <1>1 DEF TraceInv

(* Nothing touched, when nothing is modified.                              *)
LEMMA Untouched ==
    ASSUME TypeOK, TouchedInv, modified = {}
    PROVE  \A n \in Nodes : path_cost[n] = HUGE
  BY DEF TouchedInv

LEMMA StartSourceStep == ASSUME IInv, StartSource PROVE IInv' /\ Complete'
<1> USE DEF IInv, SearchInv
<1>1. /\ pc = "source" /\ pc' = "segment" /\ verdict' = verdict /\ inet' = inet /\ itry' = itry
      /\ edges' = edges /\ sources' = sources /\ isrc' = isrc /\ occ' = occ /\ isink' = 1 /\ tptr' = 0
      /\ UNCHANGED costs /\ path_cost' = path_cost /\ prev_node' = prev_node /\ modified' = modified
      /\ pres_cost' = pres_cost /\ acc_cost' = acc_cost /\ routed' = routed /\ pres_fac' = pres_fac
      /\ driver' = driver /\ net_num' = net_num
      /\ trace' = [trace EXCEPT ![inet] = <<>>]
      /\ target_flag' = [n \in Nodes |-> IF n \notin Sinks(inet) THEN target_flag[n]
                                         ELSE IF n \in routed THEN 0 ELSE 1]
  BY DEF StartSource, result, loops, costs
<1>2. InNet /\ ~Searching /\ pc # "close" /\ pc # "add" /\ InNet' /\ Searching'
  BY <1>1 DEF InNet, Searching
<1>3. inet \in Nets /\ Root \in Nodes /\ Root \notin SinkNodes /\ Root' = Root
  BY <1>1, InNetFacts DEF Root
<1>4. sources[inet][isrc] = Root
  BY <1>1, <1>2, SourceIs
<1>5. heap' = heap \cup {e \in {Entry(Root, Cong(Root), NoNode)} : e.cost < path_cost[Root]}
  BY <1>4 DEF StartSource
<1>6. verdict = "none" /\ routed = {} /\ heap = {} /\ modified = {}
      /\ \A n \in Nodes : target_flag[n] = 0
  BY <1>1, <1>2 DEF ControlInv, SinksInv, TouchedInv
<1>7. \A n \in Nodes : path_cost[n] = HUGE
  BY <1>6, Untouched
<1>8. \/ (heap' = {} /\ Cong(Root) >= HUGE)
      \/ (heap' = {Entry(Root, Cong(Root), NoNode)} /\ Cong(Root) < HUGE)
  <2>1. Entry(Root, Cong(Root), NoNode).cost = Cong(Root)
    BY DEF Entry
  <2>2. Cong(Root) \in Nat /\ HUGE \in Nat
    BY <1>3, CostFacts
  <2> QED BY <1>3, <1>5, <1>6, <1>7, <2>1, <2>2
<1>9. /\ trace'[inet] = <<>> /\ \A i \in Nets \ {inet} : trace'[i] = trace[i]
      /\ trace' \in [Nets -> Seq(Nodes)]
  <2>1. trace \in [Nets -> Seq(Nodes)] /\ <<>> \in Seq(Nodes)
    BY EmptySeq DEF Shapes
  <2> QED BY <1>1, <1>3, <2>1
<1>10. Traced' = {}
  BY <1>1, <1>9 DEF Traced, OnTrace
<1>11. TypeOK'
  <2>1. target_flag' \in [Nodes -> 0 .. Capacity]
    BY <1>1 DEF TypeOK, Capacity
  <2>2. heap' \subseteq Entries
    <3>1. Cong(Root) \in Nat
      BY <1>3, CostFacts
    <3> QED BY <1>3, <1>8, <3>1 DEF Entries, Entry
  <2>3. \A i \in Nets : sources'[i] \in Seq(Nodes) /\ trace'[i] \in Seq(Nodes)
    BY <1>1, <1>9 DEF TypeOK
  <2> QED BY <1>1, <2>1, <2>2, <2>3 DEF TypeOK
<1>12. Shapes'
  BY <1>1, <1>9 DEF Shapes
<1>13. ControlInv'
  <2>1. Len(NetSinks[inet]) \in Nat
    BY <1>3, SinkFacts
  <2>2. isink' \in 1 .. Len(NetSinks[inet']) + 1
    BY <1>1, <2>1
  <2> QED BY <1>1, <1>2, <1>6, <2>2 DEF ControlInv
<1>14. TraceInv'
  BY <1>1, <1>9, SameTrace
<1>15. SinksInv'
  <2>1. Sinks(inet) \subseteq SinkNodes
    BY <1>3, SinkFacts
  <2>2. Wanted' = Sinks(inet)
    BY <1>1, <1>6 DEF Wanted
  <2>3. ASSUME NEW n \in Nodes PROVE target_flag'[n] = IF n \in Wanted' THEN 1 ELSE 0
    BY <1>1, <1>6, <2>2
  <2>4. routed' = Traced' \cap SinkNodes /\ routed' \subseteq Sinks(inet')
    BY <1>1, <1>6, <1>10
  <2> QED BY <1>1, <1>2, <2>3, <2>4 DEF SinksInv
<1>16. TouchedInv'
  BY <1>1, <1>2 DEF TouchedInv
<1>17. PathsInv'
  <2>1. ASSUME NEW e \in heap' PROVE Path(e.index, e.cost, e.prev_node)' /\ e.cost < HUGE
    <3>1. e = Entry(Root, Cong(Root), NoNode) /\ Cong(Root) < HUGE
      BY <1>8, <2>1
    <3>2. e.index = Root' /\ e.cost = Cong(Root) /\ e.prev_node = NoNode
      BY <1>3, <3>1 DEF Entry
    <3> QED BY <3>1, <3>2 DEF Path
  <2>2. modified' = {}
    BY <1>1, <1>6
  <2> QED BY <2>1, <2>2 DEF PathsInv
<1>18. SegmentInv'
  BY <1>1, <1>9 DEF SegmentInv
<1>19. Complete'
  <2>1. Cardinality(routed') = isink' - 1
    <3>1. routed' = {} /\ isink' = 1
      BY <1>1, <1>6
    <3>2. Cardinality({}) = 0
      BY FS_EmptySet
    <3> QED BY <3>1, <3>2
  <2>2. Rooted'
    <3>1. Cong(Root)' = Cong(Root)
      BY <1>1, <1>3, SameCosts
    <3>2. modified' = {}
      BY <1>1, <1>6
    <3>3. ASSUME NEW e \in heap' PROVE e.prev_node = NoNode /\ e.cost = Cong(Root)
      BY <1>8, <3>3 DEF Entry
    <3>4. \/ modified' = {} /\ heap' = {Entry(Root, Cong(Root), NoNode)'}
          \/ modified' = {} /\ heap' = {} /\ Cong(Root)' >= HUGE
      <4>1. Entry(Root, Cong(Root), NoNode)' = Entry(Root, Cong(Root), NoNode)
        BY <1>3, <3>1 DEF Entry
      <4> QED BY <1>8, <3>1, <3>2, <4>1
    <3> QED BY <3>1, <3>2, <3>3, <3>4 DEF Rooted
  <2> QED BY <1>1, <1>6, <1>10, <2>1, <2>2 DEF Complete
<1>20. OccInv' /\ ConnectedInv' /\ AnnotatedInv'
  BY <1>1, <1>2, <1>9, SearchKeeps
<1> QED BY <1>11, <1>12, <1>13, <1>14, <1>15, <1>16, <1>17, <1>18, <1>19, <1>20 DEF WaveInv

LEMMA ExpandSegmentStep == ASSUME IInv, ExpandSegment PROVE IInv' /\ (Complete => Complete')
<1> USE DEF IInv, SearchInv
<1> DEFINE t == trace[inet]
           Late == {k \in {j \in DOMAIN t : tptr > 0 /\ j >= tptr /\ path_cost[t[j]] > 0} : TRUE}
<1>1. /\ pc = "segment" /\ pc' = "first" /\ isink <= Len(NetSinks[inet])
      /\ verdict' = verdict /\ inet' = inet /\ itry' = itry
      /\ edges' = edges /\ sources' = sources /\ isrc' = isrc /\ occ' = occ /\ isink' = isink
      /\ UNCHANGED costs /\ path_cost' = path_cost /\ prev_node' = prev_node /\ modified' = modified
      /\ pres_cost' = pres_cost /\ acc_cost' = acc_cost /\ routed' = routed /\ pres_fac' = pres_fac
      /\ driver' = driver /\ net_num' = net_num /\ tptr' = tptr
      /\ trace' = trace /\ target_flag' = target_flag
      /\ heap' = heap \cup {Entry(t[k], 0, NoNode) : k \in Late}
  BY DEF ExpandSegment, result, loops, costs
<1>2. InNet /\ Searching /\ pc # "close" /\ pc # "add" /\ InNet' /\ Searching' /\ pc # "source"
  BY <1>1 DEF InNet, Searching
<1>3. /\ inet \in Nets /\ Root \in Nodes /\ Root' = Root /\ Traced' = Traced /\ Wanted' = Wanted
      /\ Last1 \in Nat /\ DOMAIN t = 1 .. Last1 /\ (t = <<>> <=> Last1 = 0) /\ Traced \subseteq Nodes
      /\ \A k \in DOMAIN t : t[k] \in Traced
  BY <1>1, InNetFacts DEF Root, Traced, OnTrace, Wanted
<1>4. ASSUME NEW f \in heap', f \notin heap
      PROVE  /\ f.index \in Traced /\ f.cost = 0 /\ f.prev_node = NoNode /\ t # <<>>
             /\ f \in Entries
  <2>1. PICK k \in DOMAIN t : f = Entry(t[k], 0, NoNode)
    BY <1>1, <1>4
  <2>2. t # <<>>
    BY <1>3
  <2> QED BY <1>3, <2>1, <2>2 DEF Entry, Entries
<1>5. heap \subseteq heap'
  BY <1>1
<1>6. ASSUME NEW n, Pending(n) PROVE path_cost[n] = 0 \/ Entry(n, 0, NoNode) \in heap'
  <2>1. PICK k \in DOMAIN t : tptr <= k /\ t[k] = n
    BY <1>6 DEF Pending
  <2>2. tptr \in 1 .. Last1
    BY <1>2, <1>3, <2>1 DEF SegmentInv
  <2>3. n \in Nodes /\ path_cost[n] \in Nat
    BY <1>3, <2>1, CostFacts
  <2>4. path_cost[n] > 0 => k \in Late
    BY <1>3, <2>1, <2>2
  <2>5. k \in Late => Entry(n, 0, NoNode) \in heap'
    BY <1>1, <2>1
  <2> QED BY <2>3, <2>4, <2>5
<1> HIDE DEF Late
<1>7. TypeOK'
  <2>1. heap' \subseteq Entries
    BY <1>4 DEF TypeOK
  <2> QED BY <1>1, <2>1 DEF TypeOK
<1>8. Shapes'
  BY <1>1 DEF Shapes
<1>9. ControlInv'
  BY <1>1, <1>2 DEF ControlInv
<1>10. TraceInv'
  BY <1>1, SameTrace
<1>11. SinksInv' /\ TouchedInv' /\ SegmentInv'
  BY <1>1, <1>2, <1>3 DEF SinksInv, TouchedInv, SegmentInv, Last1
<1>12. PathsInv'
  <2>1. ASSUME NEW n, NEW c, NEW p, Path(n, c, p)
        PROVE  IF p = NoNode THEN n \in Traced' \cup {Root'}
               ELSE <<p, n>> \in edges' /\ p \in modified' /\ path_cost'[p] + StepCost(n)' <= c
    BY <1>1, <1>3, <2>1, SameCosts DEF Path
  <2>2. ASSUME NEW n \in modified' PROVE Path(n, path_cost[n], prev_node[n])'
    <3>1. Path(n, path_cost[n], prev_node[n])
      BY <1>1, <1>2 DEF PathsInv
    <3> QED BY <1>1, <2>1, <3>1 DEF Path
  <2>3. ASSUME NEW f \in heap' PROVE Path(f.index, f.cost, f.prev_node)' /\ f.cost < HUGE
    <3>1. CASE f \in heap
      <4>1. Path(f.index, f.cost, f.prev_node) /\ f.cost < HUGE
        BY <1>2, <3>1 DEF PathsInv
      <4> QED BY <2>1, <4>1 DEF Path
    <3>2. CASE f \notin heap
      <4>1. f.index \in Traced' /\ f.cost = 0 /\ f.prev_node = NoNode
        BY <1>3, <1>4, <3>2
      <4> QED BY <4>1, CostsAssumption DEF Path
    <3> QED BY <3>1, <3>2
  <2>4. modified' \cap Wanted' = {}
    BY <1>1, <1>2, <1>3 DEF PathsInv
  <2> QED BY <2>2, <2>3, <2>4 DEF PathsInv
<1>13. ASSUME Complete PROVE Complete'
  <2>1. ASSUME trace'[inet] = <<>> PROVE Rooted'
    <3>1. heap' = heap
      BY <1>1, <1>4, <1>5, <2>1
    <3>2. Rooted
      BY <1>1, <1>13, <2>1 DEF Complete
    <3>3. Cong(Root)' = Cong(Root)
      BY <1>1, <1>3, SameCosts
    <3> QED BY <1>1, <1>3, <3>1, <3>2, <3>3 DEF Rooted, Entry
  <2>2. ASSUME NEW n \in Traced' PROVE path_cost'[n] = 0 \/ Entry(n, 0, NoNode) \in heap'
    <3>1. path_cost[n] = 0 \/ Entry(n, 0, NoNode) \in heap \/ Pending(n)
      BY <1>3, <1>13 DEF Complete
    <3> QED BY <1>1, <1>5, <1>6, <3>1
  <2>3. ASSUME NEW m \in modified', NEW n \in Nodes, <<m, n>> \in edges'
        PROVE  Offered(n, path_cost[m] + StepCost(n))'
    <3> DEFINE c == path_cost[m] + StepCost(n)
    <3>1. Offered(n, c)
      BY <1>1, <1>13, <2>3 DEF Complete
    <3>2. (path_cost[m] + StepCost(n))' = c
      BY <1>1, SameCosts
    <3>3. c \in Nat
      <4>1. m \in Nodes
        BY <1>7, <2>3 DEF TypeOK
      <4> QED BY <4>1, CostFacts
    <3> HIDE DEF c
    <3>4. CASE path_cost[n] <= c
      BY <1>1, <3>2, <3>4 DEF Offered
    <3>5. CASE \E f \in heap : f.index = n /\ f.cost <= c
      BY <1>5, <3>2, <3>5 DEF Offered
    <3>6. CASE Pending(n)
      <4>1. path_cost'[n] = 0 \/ Entry(n, 0, NoNode) \in heap'
        BY <1>1, <1>6, <3>6
      <4>2. Entry(n, 0, NoNode).index = n /\ Entry(n, 0, NoNode).cost = 0
        BY DEF Entry
      <4> QED BY <3>2, <3>3, <4>1, <4>2 DEF Offered
    <3> QED BY <3>1, <3>4, <3>5, <3>6 DEF Offered
  <2>4. Cardinality(routed') = isink' - 1
    BY <1>1, <1>13 DEF Complete
  <2> QED BY <1>1, <2>1, <2>2, <2>3, <2>4 DEF Complete
<1>14. ASSUME Hopeless PROVE Hopeless'
  <2>1. PICK d \in [Nodes -> Nat] : Potential(d)
    BY <1>14 DEF Hopeless
  <2>2. ASSUME NEW f \in heap' PROVE d[f.index] <= f.cost
    <3>1. CASE f \in heap
      BY <2>1, <3>1 DEF Potential
    <3>2. CASE f \notin heap
      <4>1. f.index \in Traced /\ f.cost = 0
        BY <1>4, <3>2
      <4> QED BY <2>1, <4>1 DEF Potential
    <3> QED BY <3>1, <3>2
  <2>3. \A m, n \in Nodes : <<m, n>> \in edges' => d[n] <= d[m] + StepCost(n)'
    BY <1>1, <2>1, SameCosts DEF Potential
  <2>4. trace'[inet] = <<>> => d[Root'] <= Cong(Root)'
    BY <1>1, <1>3, <2>1, SameCosts DEF Potential
  <2>5. Potential(d)'
    BY <1>1, <1>3, <2>1, <2>2, <2>3, <2>4 DEF Potential
  <2> QED BY <2>5 DEF Hopeless
<1>15. WaveInv'
  BY <1>2, <1>13, <1>14 DEF WaveInv
<1>16. OccInv' /\ ConnectedInv' /\ AnnotatedInv'
  BY <1>1, <1>2, SearchKeeps
<1> QED BY <1>7, <1>8, <1>9, <1>10, <1>11, <1>12, <1>13, <1>15, <1>16

LEMMA AllSinksTriedStep == ASSUME IInv, AllSinksTried PROVE IInv'
<1> USE DEF IInv, SearchInv
<1>1. /\ pc = "segment" /\ pc' = "close"
      /\ verdict' = verdict /\ inet' = inet /\ itry' = itry
      /\ edges' = edges /\ sources' = sources /\ isrc' = isrc /\ occ' = occ /\ isink' = isink
      /\ UNCHANGED costs /\ path_cost' = path_cost /\ prev_node' = prev_node /\ modified' = modified
      /\ pres_cost' = pres_cost /\ acc_cost' = acc_cost /\ routed' = routed /\ pres_fac' = pres_fac
      /\ driver' = driver /\ net_num' = net_num /\ tptr' = tptr
      /\ trace' = trace /\ target_flag' = target_flag /\ heap' = heap
  BY DEF AllSinksTried, result, loops, costs, search
<1>2. InNet /\ Searching /\ pc # "close" /\ pc # "add" /\ InNet' /\ ~Searching' /\ pc # "source"
  BY <1>1 DEF InNet, Searching
<1>3. Root' = Root /\ Traced' = Traced /\ Wanted' = Wanted
  BY <1>1 DEF Root, Traced, OnTrace, Wanted
<1>4. TypeOK'
  BY <1>1 DEF TypeOK
<1>5. Shapes'
  BY <1>1 DEF Shapes
<1>6. ControlInv'
  BY <1>1, <1>2 DEF ControlInv
<1>7. TraceInv'
  BY <1>1, SameTrace
<1>8. SinksInv'
  BY <1>1, <1>2, <1>3 DEF SinksInv
<1>9. TouchedInv' /\ SegmentInv' /\ WaveInv'
  BY <1>1, <1>2 DEF TouchedInv, SegmentInv, WaveInv
<1>10. PathsInv'
  <2>1. ASSUME NEW n, NEW c, NEW p, Path(n, c, p)
        PROVE  IF p = NoNode THEN n \in Traced' \cup {Root'}
               ELSE <<p, n>> \in edges' /\ p \in modified' /\ path_cost'[p] + StepCost(n)' <= c
    BY <1>1, <1>3, <2>1, SameCosts DEF Path
  <2>2. ASSUME NEW n \in modified' PROVE Path(n, path_cost[n], prev_node[n])'
    <3>1. Path(n, path_cost[n], prev_node[n])
      BY <1>1, <1>2 DEF PathsInv
    <3> QED BY <1>1, <2>1, <3>1 DEF Path
  <2>3. ASSUME NEW f \in heap' PROVE Path(f.index, f.cost, f.prev_node)' /\ f.cost < HUGE
    <3>1. Path(f.index, f.cost, f.prev_node) /\ f.cost < HUGE
      BY <1>1, <1>2 DEF PathsInv
    <3> QED BY <2>1, <3>1 DEF Path
  <2>4. modified' \cap Wanted' = {}
    BY <1>1, <1>2, <1>3 DEF PathsInv
  <2> QED BY <2>2, <2>3, <2>4 DEF PathsInv
<1>11. OccInv' /\ ConnectedInv' /\ AnnotatedInv'
  BY <1>1, <1>2, SearchKeeps
<1> QED BY <1>4, <1>5, <1>6, <1>7, <1>8, <1>9, <1>10, <1>11

-----------------------------------------------------------------------------
(* The wave: e is taken off the heap, and if it is the cheapest path to    *)
(* its node, that is recorded and the nodes that follow are offered it.    *)
Better(e) == path_cost[e.index] > e.cost

Popped(e) ==
    /\ e \in heap /\ e.index \in Nodes /\ e.cost \in Nat /\ e.prev_node \in Nodes \cup {NoNode}
    /\ target_flag[e.index] = 0
    /\ path_cost' \in [Nodes -> Nat] /\ prev_node' \in [Nodes -> Nodes \cup {NoNode}]
    /\ \A n \in Nodes : path_cost'[n] <= path_cost[n]
    /\ \A n \in Nodes : n # e.index \/ ~Better(e) =>
           path_cost'[n] = path_cost[n] /\ prev_node'[n] = prev_node[n]
    /\ Better(e) => path_cost'[e.index] = e.cost /\ prev_node'[e.index] = e.prev_node
    /\ path_cost'[e.index] <= e.cost
    /\ modified' = modified \cup (IF Better(e) THEN {e.index} ELSE {})
    /\ \A f \in heap : f # e => f \in heap'
    /\ \A f \in heap' : f \notin heap =>
           /\ Better(e) /\ f \in Entries /\ <<e.index, f.index>> \in edges
           /\ f.cost = e.cost + StepCost(f.index) /\ f.prev_node = e.index
           /\ f.cost < path_cost'[f.index]
    /\ \A n \in Nodes : Better(e) /\ <<e.index, n>> \in edges =>
           LET c == e.cost + StepCost(n)
           IN  path_cost'[n] <= c \/ \E f \in heap' : f.index = n /\ f.cost <= c

LEMMA Pops ==
    ASSUME SearchInv, Wave
    PROVE  \E e : Popped(e)
<1> USE DEF SearchInv
<1>1. PICK e \in Cheapest :
        /\ target_flag[e.index] = 0
        /\ IF path_cost[e.index] > e.cost
           THEN /\ path_cost' = [path_cost EXCEPT ![e.index] = e.cost]
                /\ prev_node' = [prev_node EXCEPT ![e.index] = e.prev_node]
                /\ modified' = IF path_cost[e.index] = HUGE THEN modified \cup {e.index}
                                                            ELSE modified
                /\ heap' = (heap \ {e}) \cup Neighbours(e, path_cost')
           ELSE /\ heap' = heap \ {e}
                /\ UNCHANGED <<path_cost, prev_node, modified>>
  BY DEF Wave
<1>2. e \in heap /\ e.index \in Nodes /\ e.cost \in Nat /\ e.prev_node \in Nodes \cup {NoNode}
  BY <1>1, HeapElements DEF Cheapest
<1>3. path_cost \in [Nodes -> Nat] /\ prev_node \in [Nodes -> Nodes \cup {NoNode}]
  BY DEF TypeOK
<1>4. CASE Better(e)
  <2>1. path_cost' = [path_cost EXCEPT ![e.index] = e.cost]
        /\ prev_node' = [prev_node EXCEPT ![e.index] = e.prev_node]
        /\ heap' = (heap \ {e}) \cup Neighbours(e, path_cost')
    BY <1>1, <1>4 DEF Better
  <2>2. modified' = modified \cup {e.index}
    BY <1>1, <1>2, <1>4 DEF Better, TouchedInv
  <2>3. path_cost' \in [Nodes -> Nat] /\ prev_node' \in [Nodes -> Nodes \cup {NoNode}]
    BY <1>2, <1>3, <2>1
  <2>4. /\ path_cost'[e.index] = e.cost /\ prev_node'[e.index] = e.prev_node
        /\ \A n \in Nodes : n # e.index => path_cost'[n] = path_cost[n] /\ prev_node'[n] = prev_node[n]
    BY <1>2, <1>3, <2>1
  <2>5. \A n \in Nodes : path_cost'[n] <= path_cost[n]
    <3> TAKE n \in Nodes
    <3>1. path_cost[n] \in Nat
      BY <1>3
    <3>2. CASE n = e.index
      BY <1>2, <1>4, <2>4, <3>1, <3>2 DEF Better
    <3>3. CASE n # e.index
      BY <2>4, <3>1, <3>3
    <3> QED BY <3>2, <3>3
  <2>6. ASSUME NEW n \in Nodes
        PROVE  /\ Entry(n, e.cost + StepCost(n), e.index).index = n
               /\ Entry(n, e.cost + StepCost(n), e.index).cost = e.cost + StepCost(n)
               /\ Entry(n, e.cost + StepCost(n), e.index).prev_node = e.index
               /\ Entry(n, e.cost + StepCost(n), e.index) \in Entries
               /\ e.cost + StepCost(n) \in Nat
    <3>1. e.cost + StepCost(n) \in Nat
      BY <1>2, CostFacts
    <3> QED BY <1>2, <3>1 DEF Entry, Entries
  <2>7. ASSUME NEW f \in heap', f \notin heap
        PROVE  /\ f \in Entries /\ <<e.index, f.index>> \in edges
               /\ f.cost = e.cost + StepCost(f.index) /\ f.prev_node = e.index
               /\ f.cost < path_cost'[f.index]
    <3>1. PICK n \in Nodes : /\ <<e.index, n>> \in edges /\ f = Entry(n, e.cost + StepCost(n), e.index)
                             /\ f.cost < path_cost'[f.index]
      BY <2>1, <2>7 DEF Neighbours, StepCost
    <3> QED BY <2>6, <3>1
  <2>8. ASSUME NEW n \in Nodes, <<e.index, n>> \in edges
        PROVE  LET c == e.cost + StepCost(n)
               IN  path_cost'[n] <= c \/ \E f \in heap' : f.index = n /\ f.cost <= c
    <3> DEFINE c == e.cost + StepCost(n)
               f == Entry(n, c, e.index)
    <3>1. f.index = n /\ f.cost = c /\ c \in Nat
      BY <2>6
    <3>2. c < path_cost'[n] => f \in heap'
      <4>1. SUFFICES ASSUME c < path_cost'[n] PROVE f \in Neighbours(e, path_cost')
        BY <2>1
      <4>2. f.cost < path_cost'[f.index]
        BY <3>1, <4>1
      <4> QED BY <2>8, <4>2 DEF Neighbours, StepCost
    <3>3. path_cost'[n] \in Nat
      BY <2>3
    <3> HIDE DEF c, f
    <3>4. path_cost'[n] <= c \/ \E g \in heap' : g.index = n /\ g.cost <= c
      <4>1. c < path_cost'[n] \/ path_cost'[n] <= c
        BY <3>1, <3>3
      <4>2. f.cost <= c
        BY <3>1
      <4> QED BY <3>1, <3>2, <4>1, <4>2
    <3> QED BY <3>4 DEF c
  <2>9. path_cost'[e.index] <= e.cost
    BY <1>2, <2>4
  <2>10. \A f \in heap : f # e => f \in heap'
    BY <2>1
  <2>11. Popped(e)
    BY <1>1, <1>2, <1>4, <2>2, <2>3, <2>4, <2>5, <2>7, <2>8, <2>9, <2>10 DEF Popped
  <2> QED BY <2>11
<1>5. CASE ~Better(e)
  <2>1. heap' = heap \ {e} /\ path_cost' = path_cost /\ prev_node' = prev_node /\ modified' = modified
    BY <1>1, <1>5 DEF Better
  <2>2. path_cost[e.index] \in Nat /\ \A n \in Nodes : path_cost[n] <= path_cost[n]
    BY <1>2, <1>3
  <2>3. path_cost'[e.index] <= e.cost
    BY <1>2, <1>5, <2>1, <2>2 DEF Better
  <2>4. Popped(e)
    BY <1>1, <1>2, <1>3, <1>5, <2>1, <2>2, <2>3 DEF Popped
  <2> QED BY <2>4
<1> QED BY <1>4, <1>5

LEMMA WavePaths ==
    ASSUME SearchInv, Searching, NEW e, Popped(e), UNCHANGED <<edges, costs, trace, inet, routed>>
    PROVE  PathsInv'
<1> USE DEF SearchInv
<1>1. edges' = edges /\ UNCHANGED costs /\ trace' = trace /\ inet' = inet /\ routed' = routed
  OBVIOUS
<1>2. Root' = Root /\ Traced' = Traced /\ Wanted' = Wanted
  BY <1>1 DEF Root, Traced, OnTrace, Wanted
<1>3. /\ e \in heap /\ e.index \in Nodes /\ e.cost \in Nat /\ target_flag[e.index] = 0
      /\ path_cost' \in [Nodes -> Nat] /\ \A n \in Nodes : path_cost'[n] <= path_cost[n]
      /\ modified' = modified \cup (IF Better(e) THEN {e.index} ELSE {})
  BY DEF Popped
<1>4. e.index \notin Wanted
  BY <1>3 DEF SinksInv
<1>5. ASSUME NEW n \in Nodes, NEW c \in Nat, NEW p, Path(n, c, p)
      PROVE  IF p = NoNode THEN n \in Traced' \cup {Root'}
             ELSE <<p, n>> \in edges' /\ p \in modified' /\ path_cost'[p] + StepCost(n)' <= c
  <2>1. CASE p = NoNode
    BY <1>2, <1>5, <2>1 DEF Path
  <2>2. CASE p # NoNode
    <3>1. <<p, n>> \in edges /\ p \in modified /\ path_cost[p] + StepCost(n) <= c
      BY <1>5, <2>2 DEF Path
    <3>2. p \in Nodes /\ path_cost[p] \in Nat /\ path_cost'[p] \in Nat /\ path_cost'[p] <= path_cost[p]
          /\ StepCost(n) \in Nat /\ StepCost(n)' = StepCost(n)
      BY <1>1, <1>3, <3>1, EdgeFacts, CostFacts, SameCosts
    <3>3. path_cost'[p] + StepCost(n) <= c
      BY <3>1, <3>2
    <3> QED BY <1>1, <1>3, <2>2, <3>1, <3>2, <3>3
  <2> QED BY <2>1, <2>2
<1>6. ASSUME NEW f \in heap PROVE Path(f.index, f.cost, f.prev_node)' /\ f.cost < HUGE
  <2>1. Path(f.index, f.cost, f.prev_node) /\ f.cost < HUGE /\ f.index \in Nodes /\ f.cost \in Nat
    BY HeapElements DEF PathsInv
  <2> QED BY <1>5, <2>1 DEF Path
<1>7. ASSUME NEW n \in modified' PROVE Path(n, path_cost[n], prev_node[n])'
  <2>1. CASE n = e.index /\ Better(e)
    <3>1. path_cost'[n] = e.cost /\ prev_node'[n] = e.prev_node
      BY <2>1 DEF Popped
    <3>2. Path(e.index, e.cost, e.prev_node)'
      BY <1>3, <1>6
    <3> QED BY <2>1, <3>1, <3>2 DEF Path
  <2>2. CASE ~(n = e.index /\ Better(e))
    <3>1. n \in modified /\ n \in Nodes
      BY <1>3, <1>7, <2>2 DEF TypeOK
    <3>2. path_cost'[n] = path_cost[n] /\ prev_node'[n] = prev_node[n] /\ path_cost[n] \in Nat
      BY <2>2, <3>1, CostFacts DEF Popped
    <3>3. Path(n, path_cost[n], prev_node[n])
      BY <3>1 DEF PathsInv
    <3> QED BY <1>5, <3>1, <3>2, <3>3 DEF Path
  <2> QED BY <2>1, <2>2
<1>8. ASSUME NEW f \in heap', f \notin heap PROVE Path(f.index, f.cost, f.prev_node)' /\ f.cost < HUGE
  <2>1. /\ Better(e) /\ f \in Entries /\ <<e.index, f.index>> \in edges
        /\ f.cost = e.cost + StepCost(f.index) /\ f.prev_node = e.index
        /\ f.cost < path_cost'[f.index]
    BY <1>8 DEF Popped
  <2>2. e.index \in modified' /\ path_cost'[e.index] = e.cost /\ e.index # NoNode
    BY <1>3, <2>1, FiniteNodes DEF Popped
  <2>3. f.index \in Nodes /\ f.cost \in Nat
    BY <2>1 DEF Entries
  <2>4. StepCost(f.index)' = StepCost(f.index) /\ path_cost'[f.index] \in Nat
        /\ path_cost'[f.index] <= path_cost[f.index] /\ path_cost[f.index] <= HUGE
        /\ path_cost[f.index] \in Nat /\ HUGE \in Nat
    BY <1>1, <1>3, <2>3, CostFacts, SameCosts
  <2>5. f.cost < HUGE
    BY <2>1, <2>3, <2>4
  <2>6. path_cost'[e.index] + StepCost(f.index)' <= f.cost
    BY <2>1, <2>2, <2>3, <2>4
  <2> QED BY <1>1, <2>1, <2>2, <2>5, <2>6 DEF Path
<1>9. modified' \cap Wanted' = {}
  BY <1>2, <1>3, <1>4 DEF PathsInv
<1> QED BY <1>6, <1>7, <1>8, <1>9 DEF PathsInv

LEMMA WaveRooted ==
    ASSUME SearchInv, Rooted, pc \in {"first", "wave"}, NEW e, Popped(e),
           UNCHANGED <<costs, inet>>
    PROVE  Rooted'
<1> USE DEF SearchInv
<1>1. Root \in Nodes /\ Root' = Root /\ Cong(Root)' = Cong(Root) /\ Cong(Root) \in Nat
  <2>1. Root \in Nodes /\ Root' = Root
    BY InNetFacts DEF Root
  <2> QED BY <2>1, CostFacts, SameCosts
<1>2. e \in heap /\ e.index \in Nodes /\ e.cost \in Nat /\ e.cost < HUGE
  BY DEF Popped, PathsInv, Searching
<1>3. e.cost >= Cong(Root)
  BY <1>1, <1>2 DEF Rooted
<1>4. ASSUME NEW f \in heap'
      PROVE  /\ f.prev_node = NoNode => f.cost = Cong(Root)
             /\ f.prev_node # NoNode => f.cost > Cong(Root)
  <2>1. CASE f \in heap
    BY <2>1 DEF Rooted
  <2>2. CASE f \notin heap
    <3>1. f \in Entries /\ f.cost = e.cost + StepCost(f.index) /\ f.prev_node = e.index
      BY <2>2 DEF Popped
    <3>2. f.index \in Nodes /\ f.prev_node # NoNode
      BY <1>2, <3>1, FiniteNodes DEF Entries
    <3>3. StepCost(f.index) \in Nat /\ StepCost(f.index) >= 1
      BY <3>2, CostFacts
    <3> QED BY <1>1, <1>2, <1>3, <3>1, <3>2, <3>3
  <2> QED BY <2>1, <2>2
<1>5. ASSUME NEW n \in modified' PROVE path_cost'[n] >= Cong(Root)
  <2>1. CASE n = e.index /\ Better(e)
    BY <1>3, <2>1 DEF Popped
  <2>2. CASE ~(n = e.index /\ Better(e))
    <3>1. n \in modified /\ n \in Nodes
      BY <2>2 DEF Popped, TypeOK
    <3> QED BY <2>2, <3>1 DEF Rooted, Popped
  <2> QED BY <2>1, <2>2
<1>6. path_cost'[Root] = Cong(Root) /\ prev_node'[Root] = NoNode
  <2>1. CASE path_cost[Root] = Cong(Root) /\ prev_node[Root] = NoNode
    <3>1. ~(Root = e.index /\ Better(e))
      BY <1>1, <1>2, <1>3, <2>1 DEF Better
    <3> QED BY <1>1, <2>1, <3>1 DEF Popped
  <2>2. CASE modified = {} /\ heap = {Entry(Root, Cong(Root), NoNode)}
    <3>1. e.index = Root /\ e.cost = Cong(Root) /\ e.prev_node = NoNode
      BY <1>2, <2>2 DEF Entry
    <3>2. path_cost[Root] = HUGE
      BY <1>1, <2>2, Untouched
    <3>3. Better(e)
      BY <1>2, <3>1, <3>2, CostsAssumption DEF Better
    <3> QED BY <3>1, <3>3 DEF Popped
  <2> QED BY <1>2, <2>1, <2>2 DEF Rooted
<1> QED BY <1>1, <1>4, <1>5, <1>6 DEF Rooted

LEMMA WaveComplete ==
    ASSUME SearchInv, Complete, pc \in {"first", "wave"}, pc' = "wave", NEW e, Popped(e),
           UNCHANGED <<edges, costs, trace, inet, routed, isink>>
    PROVE  Complete'
<1> USE DEF SearchInv
<1>1. edges' = edges /\ UNCHANGED costs /\ trace' = trace /\ inet' = inet /\ routed' = routed
      /\ isink' = isink /\ Traced' = Traced
  BY DEF Traced, OnTrace
<1>2. /\ e \in heap /\ e.index \in Nodes /\ e.cost \in Nat
      /\ path_cost' \in [Nodes -> Nat] /\ \A n \in Nodes : path_cost'[n] <= path_cost[n]
      /\ path_cost'[e.index] <= e.cost
      /\ modified' = modified \cup (IF Better(e) THEN {e.index} ELSE {})
      /\ \A f \in heap : f # e => f \in heap'
  BY DEF Popped
<1>3. \A n : ~Pending(n)
  BY DEF Pending
<1>4. ASSUME trace'[inet'] = <<>> PROVE Rooted'
  <2>1. Rooted
    BY <1>1, <1>4 DEF Complete
  <2>2. UNCHANGED <<costs, inet>>
    BY <1>1
  <2> QED BY <2>1, <2>2, WaveRooted
<1>5. ASSUME NEW n \in Traced' PROVE path_cost'[n] = 0 \/ Entry(n, 0, NoNode) \in heap'
  <2>1. n \in Nodes /\ path_cost[n] \in Nat /\ path_cost'[n] \in Nat /\ path_cost'[n] <= path_cost[n]
    BY <1>1, <1>2, <1>5, InNetFacts, CostFacts
  <2>2. CASE path_cost[n] = 0
    BY <2>1, <2>2
  <2>3. CASE Entry(n, 0, NoNode) \in heap /\ Entry(n, 0, NoNode) # e
    BY <1>2, <2>3
  <2>4. CASE Entry(n, 0, NoNode) = e
    <3>1. e.index = n /\ e.cost = 0
      BY <2>4 DEF Entry
    <3> QED BY <1>2, <2>1, <3>1
  <2> QED BY <1>1, <1>3, <1>5, <2>2, <2>3, <2>4 DEF Complete
<1>6. ASSUME NEW n \in Nodes, NEW c \in Nat, Offered(n, c)
      PROVE  path_cost'[n] <= c \/ \E f \in heap' : f.index = n /\ f.cost <= c
  <2>1. path_cost[n] \in Nat /\ path_cost'[n] \in Nat /\ path_cost'[n] <= path_cost[n]
    BY <1>2, CostFacts
  <2>2. CASE path_cost[n] <= c
    BY <2>1, <2>2
  <2>3. CASE \E f \in heap : f.index = n /\ f.cost <= c
    <3>1. PICK f \in heap : f.index = n /\ f.cost <= c
      BY <2>3
    <3>2. CASE f = e
      BY <1>2, <2>1, <3>1, <3>2
    <3>3. CASE f # e
      BY <1>2, <3>1, <3>3
    <3> QED BY <3>2, <3>3
  <2> QED BY <1>3, <1>6, <2>2, <2>3 DEF Offered
<1>7. ASSUME NEW m \in modified', NEW n \in Nodes, <<m, n>> \in edges'
      PROVE  Offered(n, path_cost[m] + StepCost(n))'
  <2>1. m \in Nodes /\ path_cost[m] \in Nat /\ StepCost(n) \in Nat /\ StepCost(n)' = StepCost(n)
    BY <1>1, <1>7, EdgeFacts, CostFacts, SameCosts
  <2>2. CASE m = e.index /\ Better(e)
    <3> DEFINE c == e.cost + StepCost(n)
    <3>1. path_cost'[n] <= c \/ \E f \in heap' : f.index = n /\ f.cost <= c
      BY <1>1, <1>7, <2>2 DEF Popped
    <3>2. (path_cost[m] + StepCost(n))' = c
      BY <2>1, <2>2 DEF Popped
    <3> HIDE DEF c
    <3> QED BY <3>1, <3>2 DEF Offered
  <2>3. CASE ~(m = e.index /\ Better(e))
    <3> DEFINE c == path_cost[m] + StepCost(n)
    <3>1. m \in modified /\ path_cost'[m] = path_cost[m]
      BY <1>2, <1>7, <2>1, <2>3 DEF Popped
    <3>2. Offered(n, c) /\ c \in Nat
      BY <1>1, <1>7, <2>1, <3>1 DEF Complete
    <3>3. (path_cost[m] + StepCost(n))' = c
      BY <2>1, <3>1
    <3> HIDE DEF c
    <3>4. path_cost'[n] <= c \/ \E f \in heap' : f.index = n /\ f.cost <= c
      BY <1>6, <3>2
    <3> QED BY <3>3, <3>4 DEF Offered
  <2> QED BY <2>2, <2>3
<1>8. Cardinality(routed') = isink' - 1
  BY <1>1 DEF Complete
<1> QED BY <1>1, <1>4, <1>5, <1>7, <1>8 DEF Complete

LEMMA WaveHopeless ==
    ASSUME SearchInv, Hopeless, NEW e, Popped(e), UNCHANGED <<edges, costs, trace, inet, routed>>
    PROVE  Hopeless'
<1> USE DEF SearchInv
<1>1. edges' = edges /\ UNCHANGED costs /\ trace' = trace /\ inet' = inet /\ routed' = routed
      /\ Traced' = Traced /\ Root' = Root /\ Wanted' = Wanted
  BY DEF Traced, OnTrace, Root, Wanted
<1>2. PICK d \in [Nodes -> Nat] : Potential(d)
  BY DEF Hopeless
<1>3. e \in heap /\ e.index \in Nodes /\ e.cost \in Nat /\ d[e.index] <= e.cost /\ d[e.index] \in Nat
  BY <1>2 DEF Popped, Potential
<1>4. ASSUME NEW f \in heap' PROVE d[f.index] <= f.cost
  <2>1. CASE f \in heap
    BY <1>2, <2>1 DEF Potential
  <2>2. CASE f \notin heap
    <3>1. f \in Entries /\ <<e.index, f.index>> \in edges /\ f.cost = e.cost + StepCost(f.index)
      BY <2>2 DEF Popped
    <3>2. f.index \in Nodes /\ StepCost(f.index) \in Nat /\ d[f.index] \in Nat
      BY <1>2, <3>1, EdgeFacts, CostFacts
    <3>3. d[f.index] <= d[e.index] + StepCost(f.index)
      BY <1>2, <1>3, <3>1, <3>2 DEF Potential
    <3> QED BY <1>3, <3>1, <3>2, <3>3
  <2> QED BY <2>1, <2>2
<1>5. ASSUME NEW n \in Nodes PROVE d[n] <= path_cost'[n]
  <2>1. CASE n = e.index /\ Better(e)
    BY <1>3, <2>1 DEF Popped
  <2>2. CASE ~(n = e.index /\ Better(e))
    BY <1>2, <2>2 DEF Popped, Potential
  <2> QED BY <2>1, <2>2
<1>6. \A m, n \in Nodes : <<m, n>> \in edges' => d[n] <= d[m] + StepCost(n)'
  BY <1>1, <1>2, SameCosts DEF Potential
<1>7. trace'[inet'] = <<>> => d[Root'] <= Cong(Root)'
  BY <1>1, <1>2, SameCosts DEF Potential
<1>8. Potential(d)'
  BY <1>1, <1>2, <1>4, <1>5, <1>6, <1>7 DEF Potential
<1> QED BY <1>8 DEF Hopeless

LEMMA WaveStep == ASSUME IInv, Wave PROVE IInv' /\ (Complete => Complete')
<1> USE DEF IInv, SearchInv
<1>1. /\ pc \in {"first", "wave"} /\ pc' = "wave"
      /\ verdict' = verdict /\ inet' = inet /\ itry' = itry
      /\ edges' = edges /\ sources' = sources /\ isrc' = isrc /\ occ' = occ /\ isink' = isink
      /\ UNCHANGED costs /\ pres_cost' = pres_cost /\ acc_cost' = acc_cost /\ routed' = routed
      /\ pres_fac' = pres_fac /\ driver' = driver /\ net_num' = net_num /\ tptr' = tptr
      /\ trace' = trace /\ target_flag' = target_flag
  BY DEF Wave, result, loops, costs
<1>2. InNet /\ Searching /\ pc # "close" /\ pc # "add" /\ InNet' /\ Searching' /\ pc # "source"
  BY <1>1 DEF InNet, Searching
<1>3. Root' = Root /\ Traced' = Traced /\ Wanted' = Wanted
  BY <1>1 DEF Root, Traced, OnTrace, Wanted
<1>4. PICK e : Popped(e)
  BY Pops
<1>5. e \in heap /\ e.index \in Nodes /\ e.cost \in Nat /\ e.cost < HUGE
      /\ path_cost' \in [Nodes -> Nat] /\ prev_node' \in [Nodes -> Nodes \cup {NoNode}]
      /\ \A n \in Nodes : path_cost'[n] <= path_cost[n]
      /\ modified' = modified \cup (IF Better(e) THEN {e.index} ELSE {})
  BY <1>2, <1>4 DEF Popped, PathsInv
<1>6. TypeOK'
  <2>1. heap' \subseteq Entries
    <3>1. \A f \in heap' : f \notin heap => f \in Entries
      BY <1>4 DEF Popped
    <3> QED BY <3>1 DEF TypeOK
  <2>2. modified' \subseteq Nodes
    BY <1>5 DEF TypeOK
  <2> QED BY <1>1, <1>5, <2>1, <2>2 DEF TypeOK
<1>7. Shapes'
  <2>1. ASSUME NEW n \in Nodes PROVE path_cost'[n] <= HUGE
    <3>1. path_cost'[n] \in Nat /\ path_cost[n] \in Nat /\ HUGE \in Nat /\ path_cost[n] <= HUGE
      BY <1>5, CostFacts
    <3> QED BY <1>5, <3>1
  <2> QED BY <1>1, <2>1 DEF Shapes
<1>8. ControlInv'
  BY <1>1, <1>2 DEF ControlInv
<1>9. TraceInv'
  BY <1>1, SameTrace
<1>10. SinksInv' /\ SegmentInv'
  BY <1>1, <1>2, <1>3 DEF SinksInv, SegmentInv, Last1
<1>11. TouchedInv'
  <2>1. ASSUME NEW n \in Nodes PROVE path_cost'[n] # HUGE <=> n \in modified'
    <3>1. CASE n = e.index /\ Better(e)
      <4>1. path_cost'[n] = e.cost
        BY <1>4, <3>1 DEF Popped
      <4> QED BY <1>5, <3>1, <4>1, CostsAssumption
    <3>2. CASE ~(n = e.index /\ Better(e))
      <4>1. path_cost'[n] = path_cost[n]
        BY <1>4, <3>2 DEF Popped
      <4> QED BY <1>5, <3>2, <4>1 DEF TouchedInv
    <3> QED BY <3>1, <3>2
  <2> QED BY <1>2, <2>1 DEF TouchedInv
<1>12. UNCHANGED <<edges, costs, trace, inet, routed, isink>>
  BY <1>1
<1>13. PathsInv'
  <2>1. UNCHANGED <<edges, costs, trace, inet, routed>>
    BY <1>12
  <2> QED BY <1>2, <1>4, <2>1, WavePaths
<1>16. Complete => Complete'
  BY <1>1, <1>4, <1>12, WaveComplete
<1>14. WaveInv'
  <2>1. CASE Complete
    BY <1>16, <2>1 DEF WaveInv
  <2>2. CASE Hopeless
    <3>1. UNCHANGED <<edges, costs, trace, inet, routed>>
      BY <1>12
    <3> QED BY <1>2, <1>4, <2>2, <3>1, WaveHopeless DEF WaveInv
  <2> QED BY <1>2, <2>1, <2>2 DEF WaveInv
<1>15. OccInv' /\ ConnectedInv' /\ AnnotatedInv'
  BY <1>1, <1>2, SearchKeeps
<1> QED BY <1>6, <1>7, <1>8, <1>9, <1>10, <1>11, <1>13, <1>14, <1>15, <1>16

LEMMA ConnectStep == ASSUME IInv, Connect PROVE IInv' /\ Complete'
<1> USE DEF IInv, SearchInv
<1>1. PICK e, q, L : Joining(e, q, L)
  BY Joins
<1>2. /\ pc \in {"first", "wave"} /\ pc' = "segment"
      /\ verdict' = verdict /\ inet' = inet /\ itry' = itry
      /\ edges' = edges /\ sources' = sources /\ isrc' = isrc /\ occ' = occ /\ isink' = isink + 1
      /\ UNCHANGED costs /\ path_cost' = path_cost /\ prev_node' = prev_node /\ modified' = modified
      /\ pres_cost' = pres_cost /\ acc_cost' = acc_cost
      /\ pres_fac' = pres_fac /\ driver' = driver /\ net_num' = net_num
  BY DEF Connect, result, loops, costs
<1>3. InNet /\ Searching /\ InNet'
  BY <1>2 DEF InNet, Searching
<1>4. TypeOK'
  <2>1. trace' \in [Nets -> Seq(Nodes)] /\ heap' = heap \ {e} /\ e.index \in SinkNodes
        /\ e.index \in Nodes /\ Last1 \in Nat
        /\ routed' = routed \cup {e.index}
        /\ target_flag' = [target_flag EXCEPT ![e.index] = 0]
        /\ tptr' = IF Last1 = 0 THEN 1 ELSE Last1 + 2
    BY <1>1, InNetFacts DEF Joining
  <2>2. target_flag' \in [Nodes -> 0 .. Capacity]
    BY <2>1 DEF TypeOK, Capacity
  <2>3. tptr' \in Nat /\ isink' \in Nat
    BY <1>2, <2>1 DEF TypeOK
  <2>4. heap' \subseteq Entries /\ routed' \subseteq SinkNodes
    BY <2>1 DEF TypeOK
  <2>5. \A i \in Nets : sources'[i] \in Seq(Nodes) /\ trace'[i] \in Seq(Nodes)
    BY <1>2, <2>1 DEF TypeOK
  <2> QED BY <1>2, <2>2, <2>3, <2>4, <2>5 DEF TypeOK
<1>5. SearchInv' /\ Complete'
  BY <1>4, ConnectSearch
<1>6. \A i \in Nets \ {inet} : trace'[i] = trace[i]
  BY <1>1 DEF Joining
<1>7. OccInv' /\ ConnectedInv' /\ AnnotatedInv'
  BY <1>2, <1>3, <1>6, SearchKeeps
<1> QED BY <1>5, <1>7

-----------------------------------------------------------------------------
(* The heap ran empty: the costs of the paths found are a potential.       *)
LEMMA EmptyHeap ==
    ASSUME SearchInv, pc \in {"first", "wave"}, heap = {}
    PROVE  Hopeless
<1> USE DEF SearchInv
<1>1. Searching /\ pc # "close" /\ path_cost \in [Nodes -> Nat] /\ Root \in Nodes /\ Traced \subseteq Nodes
  BY InNetFacts DEF Searching, TypeOK
<1>2. CASE Complete
  <2>1. \A n \in Traced : path_cost[n] = 0
    BY <1>2 DEF Complete, Pending
  <2>2. trace[inet] = <<>> => path_cost[Root] <= Cong(Root)
    <3>1. path_cost[Root] \in Nat /\ path_cost[Root] <= HUGE /\ HUGE \in Nat /\ Cong(Root) \in Nat
      BY <1>1, CostFacts
    <3>2. Rooted => path_cost[Root] = Cong(Root) \/ Cong(Root) >= HUGE
      BY DEF Rooted
    <3> QED BY <1>2, <3>1, <3>2 DEF Complete
  <2>3. ASSUME NEW m \in Nodes, NEW n \in Nodes, <<m, n>> \in edges
        PROVE  path_cost[n] <= path_cost[m] + StepCost(n)
    <3>1. /\ path_cost[n] \in Nat /\ path_cost[n] <= HUGE /\ HUGE \in Nat /\ path_cost[m] \in Nat
          /\ StepCost(n) \in Nat
      BY CostFacts
    <3>2. CASE m \in modified
      <4>1. Offered(n, path_cost[m] + StepCost(n))
        BY <1>2, <2>3, <3>2 DEF Complete
      <4> QED BY <4>1 DEF Offered, Pending
    <3>3. CASE m \notin modified
      <4>1. path_cost[m] = HUGE
        BY <3>3 DEF TouchedInv
      <4> QED BY <3>1, <4>1
    <3> QED BY <3>2, <3>3
  <2>4. \A n \in Nodes : path_cost[n] <= path_cost[n]
    BY <1>1
  <2>5. ASSUME NEW n \in Wanted PROVE path_cost[n] >= HUGE
    <3>1. n \in Nodes /\ n \notin modified
      BY <1>1, <2>5, InNetFacts, SinkFacts, FiniteNodes DEF Wanted, PathsInv
    <3>2. path_cost[n] = HUGE
      BY <3>1 DEF TouchedInv
    <3> QED BY <3>2, CostsAssumption
  <2>6. Potential(path_cost)
    BY <2>1, <2>2, <2>3, <2>4, <2>5 DEF Potential
  <2> QED BY <1>1, <2>6 DEF Hopeless
<1> QED BY <1>1, <1>2 DEF WaveInv

LEMMA ResetFacts ==
    ASSUME TypeOK, TouchedInv, ResetPathCosts
    PROVE  path_cost' \in [Nodes -> Nat] /\ modified' = {} /\ \A n \in Nodes : path_cost'[n] = HUGE
<1>1. path_cost' = [n \in Nodes |-> IF n \in modified THEN HUGE ELSE path_cost[n]] /\ modified' = {}
  BY DEF ResetPathCosts
<1>2. \A n \in Nodes : path_cost[n] \in Nat /\ HUGE \in Nat
  BY CostsAssumption DEF TypeOK
<1>3. path_cost' \in [Nodes -> Nat]
  BY <1>1, <1>2
<1>4. \A n \in Nodes : path_cost'[n] = HUGE
  BY <1>1 DEF TouchedInv
<1> QED BY <1>1, <1>3, <1>4

LEMMA ExhaustedStep == ASSUME IInv, Exhausted PROVE IInv'
<1> USE DEF IInv, SearchInv
<1>1. /\ pc \in {"first", "wave"} /\ heap = {} /\ ResetPathCosts
      /\ \/ pc' = "close" /\ isink' = isink
         \/ pc' = "segment" /\ isink' = isink + 1
      /\ verdict' = verdict /\ inet' = inet /\ itry' = itry
      /\ edges' = edges /\ sources' = sources /\ isrc' = isrc /\ occ' = occ
      /\ UNCHANGED costs /\ prev_node' = prev_node
      /\ pres_cost' = pres_cost /\ acc_cost' = acc_cost /\ routed' = routed /\ pres_fac' = pres_fac
      /\ driver' = driver /\ net_num' = net_num /\ tptr' = tptr
      /\ trace' = trace /\ target_flag' = target_flag /\ heap' = heap
  BY DEF Exhausted, result, loops, costs
<1>2. InNet /\ Searching /\ pc # "close" /\ pc # "add" /\ pc # "source" /\ InNet'
      /\ pc' # "add" /\ pc' # "source" /\ (Searching' <=> pc' = "segment")
  BY <1>1 DEF InNet, Searching
<1>3. Root' = Root /\ Traced' = Traced /\ Wanted' = Wanted
  BY <1>1 DEF Root, Traced, OnTrace, Wanted
<1>4. path_cost' \in [Nodes -> Nat] /\ modified' = {} /\ \A n \in Nodes : path_cost'[n] = HUGE
  BY <1>1, ResetFacts
<1>5. TypeOK'
  <2>1. isink' \in Nat
    BY <1>1 DEF TypeOK
  <2> QED BY <1>1, <1>4, <2>1 DEF TypeOK
<1>6. Shapes'
  <2>1. \A n \in Nodes : path_cost'[n] <= HUGE
    BY <1>4, CostsAssumption
  <2> QED BY <1>1, <2>1 DEF Shapes
<1>7. ControlInv'
  <2>1. isink \in Nat /\ isink \in 1 .. Len(NetSinks[inet]) + 1 /\ isink <= Len(NetSinks[inet])
    BY <1>1, <1>2 DEF ControlInv, TypeOK
  <2>2. Len(NetSinks[inet]) \in Nat
    BY SinkFacts DEF TypeOK
  <2>3. pc' = "segment" => isink' \in 1 .. Len(NetSinks[inet]) + 1
    BY <1>1, <2>1, <2>2
  <2>4. pc' = "segment" => pc' \notin {"first", "wave"}
    OBVIOUS
  <2> QED BY <1>1, <1>2, <2>3, <2>4 DEF ControlInv
<1>8. TraceInv'
  BY <1>1, SameTrace
<1>9. SinksInv' /\ TouchedInv' /\ SegmentInv'
  BY <1>1, <1>2, <1>3, <1>4 DEF SinksInv, TouchedInv, SegmentInv, Last1
<1>10. PathsInv'
  BY <1>1, <1>4 DEF PathsInv
<1>11. WaveInv'
  <2>1. PICK d \in [Nodes -> Nat] : Potential(d)
    BY <1>1, EmptyHeap DEF Hopeless
  <2>2. ASSUME NEW n \in Nodes PROVE d[n] <= path_cost'[n]
    <3>1. d[n] \in Nat /\ d[n] <= path_cost[n] /\ path_cost[n] \in Nat /\ path_cost[n] <= HUGE /\ HUGE \in Nat
      BY <2>1, CostFacts DEF Potential
    <3> QED BY <1>4, <3>1
  <2>3. \A m, n \in Nodes : <<m, n>> \in edges' => d[n] <= d[m] + StepCost(n)'
    BY <1>1, <2>1, SameCosts DEF Potential
  <2>4. trace'[inet'] = <<>> => d[Root'] <= Cong(Root)'
    BY <1>1, <1>3, <2>1, SameCosts DEF Potential
  <2>5. Potential(d)'
    BY <1>1, <1>3, <2>1, <2>2, <2>3, <2>4 DEF Potential
  <2> QED BY <2>5 DEF WaveInv, Hopeless
<1>12. OccInv' /\ ConnectedInv' /\ AnnotatedInv'
  BY <1>1, <1>2, SearchKeeps
<1> QED BY <1>5, <1>6, <1>7, <1>8, <1>9, <1>10, <1>11, <1>12

(* A net has one source, its virtual one if it has several.                *)
LEMMA CloseSourceCases ==
    ASSUME SearchInv, CloseSource
    PROVE  \/ Wanted = {} /\ pc' = "add" /\ verdict' = verdict
           \/ Wanted # {} /\ pc' = "done" /\ verdict' = "disconnected"
<1> USE DEF SearchInv
<1>1. pc = "close" /\ InNet /\ pc # "add"
  BY DEF CloseSource, InNet
<1>2. sources[inet] = <<Root>> /\ isrc = 1
  BY <1>1, SourceIs
<1>3. ~(isrc < Len(sources[inet]))
  BY <1>2
<1>4. Sinks(inet) \subseteq routed <=> Wanted = {}
  BY DEF Wanted
<1>5. IF Sinks(inet) \subseteq routed   THEN pc' = "add"    /\ UNCHANGED verdict
      ELSE IF isrc < Len(sources[inet]) THEN pc' = "source" /\ UNCHANGED verdict
      ELSE pc' = "done" /\ verdict' = "disconnected"
  BY DEF CloseSource
<1> QED BY <1>3, <1>4, <1>5

LEMMA CloseSourceStep == ASSUME IInv, CloseSource PROVE IInv'
<1> USE DEF IInv, SearchInv
<1>1. /\ pc = "close" /\ heap' = {} /\ ResetPathCosts /\ isrc' = isrc + 1
      /\ inet' = inet /\ itry' = itry
      /\ edges' = edges /\ sources' = sources /\ occ' = occ /\ isink' = isink
      /\ UNCHANGED costs /\ prev_node' = prev_node
      /\ pres_cost' = pres_cost /\ acc_cost' = acc_cost /\ routed' = routed /\ pres_fac' = pres_fac
      /\ driver' = driver /\ net_num' = net_num /\ tptr' = tptr
      /\ trace' = trace /\ target_flag' = target_flag
  BY DEF CloseSource, loops, costs
<1>2. InNet /\ ~Searching /\ pc # "source" /\ pc # "load"
  BY <1>1 DEF InNet, Searching
<1>3. Root' = Root /\ Traced' = Traced /\ Wanted' = Wanted
  BY <1>1 DEF Root, Traced, OnTrace, Wanted
<1>4. path_cost' \in [Nodes -> Nat] /\ modified' = {} /\ \A n \in Nodes : path_cost'[n] = HUGE
  BY <1>1, ResetFacts
<1>5. \/ Wanted = {} /\ pc' = "add" /\ verdict' = verdict
      \/ Wanted # {} /\ pc' = "done" /\ verdict' = "disconnected"
  BY CloseSourceCases
<1>6. ~Searching' /\ pc' # "close" /\ pc' # "source" /\ pc' # "load" /\ pc' \notin {"check", "annotate"}
  BY <1>5 DEF Searching
<1>7. verdict = "none"
  BY <1>1 DEF ControlInv
<1>8. TypeOK'
  <2>1. isrc' \in Nat
    BY <1>1 DEF TypeOK
  <2>2. verdict' \in {"none", "routed", "disconnected", "congested"}
    BY <1>5 DEF TypeOK
  <2>3. pc' \in {"add", "done"}
    BY <1>5
  <2> QED BY <1>1, <1>4, <2>1, <2>2, <2>3 DEF TypeOK
<1>9. Shapes'
  <2>1. \A n \in Nodes : path_cost'[n] <= HUGE
    BY <1>4, CostsAssumption
  <2> QED BY <1>1, <1>2, <2>1 DEF Shapes
<1>10. ControlInv'
  BY <1>5, <1>6, <1>7 DEF ControlInv, InNet
<1>11. TraceInv'
  BY <1>1, SameTrace
<1>12. SinksInv'
  <2>1. \A n \in Nodes : target_flag[n] = IF n \in Wanted THEN 1 ELSE 0
    BY <1>1 DEF SinksInv
  <2>2. routed' = Traced' \cap SinkNodes /\ routed' \subseteq Sinks(inet')
    BY <1>1, <1>2, <1>3 DEF SinksInv
  <2> QED BY <1>1, <1>3, <1>5, <1>6, <1>7, <2>1, <2>2 DEF SinksInv
<1>13. TouchedInv' /\ SegmentInv' /\ WaveInv' /\ PathsInv'
  BY <1>1, <1>4, <1>6 DEF TouchedInv, SegmentInv, WaveInv, PathsInv
<1>14. OccInv' /\ ConnectedInv' /\ AnnotatedInv'
  <2>1. CASE pc' = "add"
    <3>1. InNet' /\ verdict' = verdict
      BY <1>5, <2>1 DEF InNet
    <3> QED BY <1>1, <1>2, <3>1, SearchKeeps
  <2>2. CASE pc' = "done"
    <3>1. verdict' = "disconnected" /\ ~InNet' /\ pc' # "rip"
      BY <1>5, <2>2 DEF InNet
    <3> QED BY <1>6, <2>2, <3>1 DEF OccInv, ConnectedInv, Finished, AnnotatedInv
  <2> QED BY <1>5, <2>1, <2>2
<1> QED BY <1>8, <1>9, <1>10, <1>11, <1>12, <1>13, <1>14

-----------------------------------------------------------------------------
(* The other steps.                                                        *)
LEMMA InitIInv == Init => IInv
<1> SUFFICES ASSUME Init PROVE IInv
  OBVIOUS
<1>1. /\ edges \in Graphs /\ sources = NetSources
      /\ pres_cost = [n \in Nodes |-> 1] /\ acc_cost = [n \in Nodes |-> 1]
      /\ path_cost = [n \in Nodes |-> HUGE] /\ prev_node = [n \in Nodes |-> NoNode]
      /\ target_flag = [n \in Nodes |-> 0]
      /\ modified = {} /\ heap = {} /\ tptr = 0 /\ routed = {}
      /\ trace = [i \in Nets |-> <<>>]
      /\ inet = 1 /\ isrc = 1 /\ isink = 1 /\ itry = 1 /\ pres_fac = FirstPresFac
      /\ driver = [n \in Nodes |-> NoNode] /\ net_num = [n \in Nodes |-> 0]
      /\ verdict = "none" /\ pc = "load"
  BY DEF Init
<1>2. HUGE \in Nat /\ HUGE # 0 /\ FirstPresFac \in Nat
  BY CostsAssumption
<1>3. edges \subseteq (Nodes \ SinkNodes) \X RrNodes /\ RrNodes \subseteq Nodes
  <2>1. edges \subseteq (RrNodes \ SinkNodes) \X RrNodes /\ RrNodes \subseteq Nodes
    BY <1>1, RouterAssumption DEF Nodes
  <2> QED BY <2>1
<1>4. occ \in [Nodes -> Nat]
  <2>1. PICK garbage \in GarbageOcc : occ = [n \in Nodes |-> IF n \in RrNodes THEN 0 ELSE garbage]
    BY DEF Init
  <2> QED BY <2>1, RouterAssumption
<1>5. ASSUME NEW i \in Nets PROVE sources[i] \in Seq(Nodes) /\ trace[i] \in Seq(Nodes)
  <2>1. NetSources[i] \in Seq(RrNodes \ SinkNodes)
    BY TerminalsAssumption
  <2>2. RrNodes \ SinkNodes \subseteq Nodes
    BY <1>3
  <2>3. Seq(RrNodes \ SinkNodes) \subseteq Seq(Nodes)
    <3> DEFINE A == RrNodes \ SinkNodes
    <3> HIDE DEF A
    <3>1. A \subseteq Nodes
      BY <2>2 DEF A
    <3>2. Seq(A) \subseteq Seq(Nodes)
      <4> SUFFICES ASSUME NEW s \in Seq(A) PROVE s \in Seq(Nodes)
        OBVIOUS
      <4>1. PICK n \in Nat : s \in [1 .. n -> A]
        BY SeqDef
      <4>2. s \in [1 .. n -> Nodes]
        BY <3>1, <4>1
      <4> QED BY <4>2, SeqDef
    <3> QED BY <3>2 DEF A
  <2> QED BY <1>1, <2>1, <2>3, EmptySeq
<1>6. inet \in Nets /\ itry \in 1 .. MaxIterations
  BY <1>1, RouterAssumption DEF Nets
<1>7. TypeOK
  <2>1. edges \subseteq Nodes \X Nodes
    BY <1>3
  <2>2. path_cost \in [Nodes -> Nat] /\ target_flag \in [Nodes -> 0 .. Capacity]
    BY <1>1, <1>2 DEF Capacity
  <2>3. pres_cost \in [Nodes -> Nat] /\ acc_cost \in [Nodes -> Nat] /\ net_num \in [Nodes -> Nets \cup {0}]
    BY <1>1
  <2> QED BY <1>1, <1>2, <1>4, <1>5, <1>6, <2>1, <2>2, <2>3 DEF TypeOK
<1>8. Shapes
  <2>1. trace \in [Nets -> Seq(Nodes)]
    <3>1. <<>> \in Seq(Nodes)
      BY EmptySeq
    <3> QED BY <1>1, <3>1
  <2>2. \A n \in Nodes : pres_cost[n] >= 1 /\ acc_cost[n] >= 1 /\ path_cost[n] <= HUGE
    BY <1>1, <1>2
  <2> QED BY <1>1, <1>3, <2>1, <2>2 DEF Shapes
<1>9. ~InNet /\ ~Searching
  BY <1>1 DEF InNet, Searching
<1>10. ControlInv /\ TraceInv /\ SinksInv /\ TouchedInv /\ PathsInv /\ SegmentInv /\ WaveInv
  <2>1. TraceInv
    BY <1>1 DEF TraceInv, Tree
  <2>2. TouchedInv
    BY <1>1 DEF TouchedInv
  <2> QED BY <1>1, <1>9, <2>1, <2>2 DEF ControlInv, SinksInv, PathsInv, SegmentInv, WaveInv
<1>11. OccInv
  <2>1. \A i \in Nets : OnTrace(i) = {}
    BY <1>1 DEF OnTrace
  <2>2. ASSUME NEW n \in Nodes PROVE occ[n] >= Cardinality({i \in ChargedNets : n \in OnTrace(i)})
    <3>1. {i \in ChargedNets : n \in OnTrace(i)} = {}
      BY <1>9, <2>1 DEF ChargedNets
    <3>2. occ[n] \in Nat
      BY <1>4
    <3> QED BY <3>1, <3>2, FS_EmptySet
  <2> QED BY <2>2 DEF OccInv
<1>12. ConnectedInv /\ AnnotatedInv
  BY <1>1, <1>9 DEF ConnectedInv, Finished, AnnotatedInv
<1> QED BY <1>7, <1>8, <1>10, <1>11, <1>12 DEF IInv, SearchInv

(* What a step outside a net's search has to keep.                         *)
LEMMA OutsideKeeps ==
    ASSUME SearchInv, TypeOK', Shapes', ControlInv', SinksInv', ~Searching, pc # "close",
           ~Searching', pc' # "close", edges \subseteq edges',
           UNCHANGED <<path_cost, modified, heap, trace>>
    PROVE  SearchInv'
<1> USE DEF SearchInv
<1>1. TraceInv'
  BY SameTrace
<1>2. TouchedInv' /\ PathsInv' /\ SegmentInv' /\ WaveInv'
  BY DEF TouchedInv, PathsInv, SegmentInv, WaveInv
<1> QED BY <1>1, <1>2

LEMMA VirtualEdgesAre == VirtualEdges \subseteq (Nodes \ SinkNodes) \X RrNodes
<1>1. ASSUME NEW i \in Nets, NEW k \in DOMAIN NetSources[i]
      PROVE  VirtualSource[i] \in Nodes \ SinkNodes /\ NetSources[i][k] \in RrNodes
  <2>1. VirtualSource[i] \in Nodes \ SinkNodes
    BY RouterAssumption DEF Nodes
  <2>2. NetSources[i] \in Seq(RrNodes \ SinkNodes)
    BY TerminalsAssumption
  <2> QED BY <2>1, <2>2, ElementOfSeq, LenProperties
<1>2. MultiSource \subseteq Nets
  BY DEF MultiSource
<1> QED BY <1>1, <1>2 DEF VirtualEdges

LEMMA AddVirtualSourcesStep == ASSUME IInv, AddVirtualSources PROVE IInv'
<1> USE DEF IInv, SearchInv
<1>1. /\ pc = "load" /\ pc' = "rip"
      /\ edges' = edges \cup VirtualEdges
      /\ sources' = [i \in Nets |-> IF i \in MultiSource THEN <<VirtualSource[i]>> ELSE NetSources[i]]
      /\ verdict' = verdict /\ inet' = inet /\ itry' = itry /\ isrc' = isrc /\ occ' = occ
      /\ isink' = isink /\ UNCHANGED costs /\ path_cost' = path_cost /\ prev_node' = prev_node
      /\ modified' = modified /\ pres_cost' = pres_cost /\ acc_cost' = acc_cost /\ routed' = routed
      /\ pres_fac' = pres_fac /\ driver' = driver /\ net_num' = net_num /\ tptr' = tptr
      /\ trace' = trace /\ target_flag' = target_flag /\ heap' = heap
  BY DEF AddVirtualSources, VirtualEdges, result, loops, costs, search
<1>2. ~Searching /\ ~InNet /\ pc # "close" /\ ~Searching' /\ ~InNet'
  BY <1>1 DEF Searching, InNet
<1>3. VirtualEdges \subseteq (Nodes \ SinkNodes) \X RrNodes
  BY VirtualEdgesAre
<1>4. ASSUME NEW i \in Nets PROVE sources'[i] = <<Source(i)>> /\ sources'[i] \in Seq(Nodes)
  <2>1. sources'[i] = <<Source(i)>>
    <3>1. CASE i \in MultiSource
      BY <1>1, <3>1 DEF Source
    <3>2. CASE i \notin MultiSource
      <4>1. Len(NetSources[i]) = 1 /\ NetSources[i] \in Seq(RrNodes \ SinkNodes)
        BY <3>2, TerminalsAssumption DEF MultiSource
      <4>2. NetSources[i] = <<NetSources[i][1]>>
        BY <4>1
      <4> QED BY <1>1, <3>2, <4>2 DEF Source
    <3> QED BY <3>1, <3>2
  <2>2. Source(i) \in Nodes
    BY SourceFacts
  <2> QED BY <2>1, <2>2
<1>5. TypeOK'
  <2>1. edges' \subseteq Nodes \X Nodes
    BY <1>1, <1>3, FiniteNodes DEF TypeOK
  <2> QED BY <1>1, <1>4, <2>1 DEF TypeOK
<1>6. Shapes'
  <2>1. edges' \subseteq (Nodes \ SinkNodes) \X RrNodes /\ VirtualEdges \subseteq edges'
    BY <1>1, <1>3 DEF Shapes
  <2>2. VirtualEdges' = VirtualEdges
    BY DEF VirtualEdges
  <2> QED BY <1>1, <1>4, <2>1, <2>2 DEF Shapes
<1>7. ControlInv'
  BY <1>1, <1>2 DEF ControlInv
<1>8. SinksInv'
  BY <1>1, <1>2 DEF SinksInv, Wanted, Traced, OnTrace
<1>9. SearchInv'
  <2>1. pc' # "close" /\ edges \subseteq edges'
    BY <1>1
  <2> QED BY <1>1, <1>2, <1>5, <1>6, <1>7, <1>8, <2>1, OutsideKeeps
<1>10. OccInv'
  BY <1>1, <1>2 DEF OccInv, ChargedNets, OnTrace
<1>11. ConnectedInv'
  <2>1. ASSUME NEW i \in Nets PROVE ~Finished(i)'
    <3>1. inet' = 1 /\ itry' = 1 /\ verdict' = "none" /\ ~(i < 1)
      BY <1>1 DEF ControlInv, Nets
    <3> QED BY <1>1, <3>1 DEF Finished
  <2> QED BY <2>1 DEF ConnectedInv
<1>12. AnnotatedInv'
  BY <1>1 DEF AnnotatedInv, ControlInv
<1> QED BY <1>9, <1>10, <1>11, <1>12

LEMMA RipUpStep == ASSUME IInv, RipUp PROVE IInv'
<1> USE DEF IInv, SearchInv
<1>1. /\ pc = "rip" /\ pc' = "source" /\ UpdateOneCost(trace[inet], -1) /\ routed' = {} /\ isrc' = 1
      /\ edges' = edges /\ sources' = sources
      /\ verdict' = verdict /\ inet' = inet /\ itry' = itry
      /\ isink' = isink /\ path_cost' = path_cost /\ prev_node' = prev_node
      /\ modified' = modified /\ acc_cost' = acc_cost
      /\ pres_fac' = pres_fac /\ driver' = driver /\ net_num' = net_num /\ tptr' = tptr
      /\ trace' = trace /\ target_flag' = target_flag /\ heap' = heap
  BY DEF RipUp, result, loops, search
<1>2. ~Searching /\ ~InNet /\ pc # "close" /\ ~Searching' /\ InNet' /\ pc' # "close" /\ pc' # "add"
  BY <1>1 DEF Searching, InNet
<1>3. inet \in Nets /\ verdict = "none"
  BY <1>1 DEF TypeOK, ControlInv
<1>4. ASSUME NEW n \in Nodes
      PROVE  /\ occ[n] \in Nat /\ occ[n] >= Cardinality(Users(Nets, n))
             /\ Cardinality(Users(Nets, n)) =
                    Cardinality(Users(Nets \ {inet}, n)) + IF n \in OnTrace(inet) THEN 1 ELSE 0
             /\ Cardinality(Users(Nets \ {inet}, n)) \in Nat
  <2>1. occ[n] \in Nat
    BY DEF TypeOK
  <2>2. occ[n] >= Cardinality(Users(Nets, n))
    BY <1>2, <1>3 DEF OccInv, ChargedNets, Users
  <2>3. Nets \ {inet} \in SUBSET Nets
    OBVIOUS
  <2> QED BY <1>3, <2>1, <2>2, <2>3, OneUserLess, UsersFacts
<1>5. \A n \in OnTrace(inet) : occ[n] >= 1
  <2> TAKE n \in OnTrace(inet)
  <2>1. n \in Nodes
    BY InNetFacts DEF Traced
  <2> QED BY <1>4, <2>1
<1>6. /\ occ' \in [Nodes -> Nat]
      /\ \A n \in Nodes : occ'[n] = occ[n] + IF n \in OnTrace(inet) THEN -1 ELSE 0
      /\ pres_cost' \in [Nodes -> Nat] /\ \A n \in Nodes : pres_cost'[n] >= 1
  <2>1. -1 \in {1, -1} /\ UpdateOneCost(trace[inet], -1)
    BY <1>1
  <2> DEFINE a == -1
  <2>2. a \in {1, -1} /\ UpdateOneCost(trace[inet], a)
    BY <2>1
  <2>3. a = -1 => \A n \in OnTrace(inet) : occ[n] >= 1
    BY <1>5
  <2> HIDE DEF a
  <2>4. /\ occ' \in [Nodes -> Nat]
        /\ \A n \in Nodes : occ'[n] = occ[n] + IF n \in OnTrace(inet) THEN a ELSE 0
        /\ pres_cost' \in [Nodes -> Nat] /\ \A n \in Nodes : pres_cost'[n] >= 1
    BY <1>3, <2>2, <2>3, UpdateFacts
  <2> QED BY <2>4 DEF a
<1>7. TypeOK'
  BY <1>1, <1>6 DEF TypeOK
<1>8. Shapes'
  BY <1>1, <1>6 DEF Shapes
<1>9. ControlInv'
  BY <1>1, <1>2 DEF ControlInv
<1>10. SinksInv'
  BY <1>1, <1>2, <1>3 DEF SinksInv
<1>11. SearchInv'
  BY <1>1, <1>2, <1>7, <1>8, <1>9, <1>10, OutsideKeeps
<1>12. OccInv'
  <2>1. ASSUME NEW n \in Nodes PROVE occ'[n] >= Cardinality(Users(Nets \ {inet}, n))
    BY <1>4, <1>6
  <2>2. ASSUME NEW n \in Nodes
        PROVE  {i \in ChargedNets : n \in OnTrace(i)}' = Users(Nets \ {inet}, n)
    BY <1>1, <1>2 DEF ChargedNets, Users, OnTrace
  <2> QED BY <2>1, <2>2 DEF OccInv
<1>13. ConnectedInv'
  BY <1>1, <1>2 DEF ConnectedInv, Finished, OnTrace
<1>14. AnnotatedInv'
  BY <1>1, <1>3 DEF AnnotatedInv
<1> QED BY <1>11, <1>12, <1>13, <1>14

LEMMA AddNetStep == ASSUME IInv, AddNet PROVE IInv'
<1> USE DEF IInv, SearchInv
<1>1. /\ pc = "add" /\ UpdateOneCost(trace[inet], 1)
      /\ \/ inet < NumNets /\ pc' = "rip" /\ inet' = inet + 1
         \/ ~(inet < NumNets) /\ pc' = "check" /\ inet' = 1
      /\ edges' = edges /\ sources' = sources /\ isrc' = isrc /\ routed' = routed
      /\ verdict' = verdict /\ itry' = itry
      /\ isink' = isink /\ path_cost' = path_cost /\ prev_node' = prev_node
      /\ modified' = modified /\ acc_cost' = acc_cost
      /\ pres_fac' = pres_fac /\ driver' = driver /\ net_num' = net_num /\ tptr' = tptr
      /\ trace' = trace /\ target_flag' = target_flag /\ heap' = heap
  BY DEF AddNet, result, search
<1>2. ~Searching /\ InNet /\ pc # "close" /\ ~Searching' /\ ~InNet' /\ pc' # "close" /\ pc' # "load"
  BY <1>1 DEF Searching, InNet
<1>3. inet \in Nets /\ verdict = "none" /\ inet \in Nat /\ NumNets \in Nat /\ inet <= NumNets
  BY <1>1, FiniteNodes DEF TypeOK, ControlInv, Nets
<1>4. inet' \in Nets
  BY <1>1, <1>3 DEF Nets
<1>5. /\ occ' \in [Nodes -> Nat]
      /\ \A n \in Nodes : occ'[n] = occ[n] + IF n \in OnTrace(inet) THEN 1 ELSE 0
      /\ pres_cost' \in [Nodes -> Nat] /\ \A n \in Nodes : pres_cost'[n] >= 1
  <2> DEFINE a == 1
  <2>1. a \in {1, -1} /\ UpdateOneCost(trace[inet], a) /\ a # -1
    BY <1>1
  <2> HIDE DEF a
  <2>2. a = -1 => \A n \in OnTrace(inet) : occ[n] >= 1
    BY <2>1
  <2>3. /\ occ' \in [Nodes -> Nat]
        /\ \A n \in Nodes : occ'[n] = occ[n] + IF n \in OnTrace(inet) THEN a ELSE 0
        /\ pres_cost' \in [Nodes -> Nat] /\ \A n \in Nodes : pres_cost'[n] >= 1
    BY <1>3, <2>1, <2>2, UpdateFacts
  <2> QED BY <2>3 DEF a
<1>6. TypeOK'
  <2>1. pc' \in {"rip", "check"}
    BY <1>1
  <2> QED BY <1>1, <1>4, <1>5, <2>1 DEF TypeOK
<1>7. Shapes'
  BY <1>1, <1>5 DEF Shapes
<1>8. ControlInv'
  BY <1>1, <1>2, <1>3 DEF ControlInv
<1>9. SinksInv'
  BY <1>1, <1>2, <1>3 DEF SinksInv
<1>10. SearchInv'
  BY <1>1, <1>2, <1>6, <1>7, <1>8, <1>9, OutsideKeeps
<1>11. OccInv'
  <2>1. ASSUME NEW n \in Nodes PROVE occ'[n] >= Cardinality(Users(Nets, n))
    <3>1. occ[n] \in Nat
      BY DEF TypeOK
    <3>2. occ[n] >= Cardinality(Users(Nets \ {inet}, n))
      BY <1>2, <1>3 DEF OccInv, ChargedNets, Users
    <3>3. Nets \ {inet} \in SUBSET Nets
      OBVIOUS
    <3>4. Cardinality(Users(Nets \ {inet}, n)) \in Nat
      BY <3>3, UsersFacts
    <3> QED BY <1>3, <1>5, <3>1, <3>2, <3>4, OneUserLess
  <2>2. ASSUME NEW n \in Nodes PROVE {i \in ChargedNets : n \in OnTrace(i)}' = Users(Nets, n)
    BY <1>1, <1>2 DEF ChargedNets, Users, OnTrace
  <2> QED BY <2>1, <2>2 DEF OccInv
<1>12. ConnectedInv'
  <2>1. Sinks(inet) \subseteq OnTrace(inet)
    BY <1>1, <1>2 DEF SinksInv, Wanted, Traced
  <2>2. ASSUME NEW i \in Nets, Finished(i)' PROVE Sinks(i) \subseteq OnTrace(i)
    <3>1. CASE i = inet
      BY <2>1, <3>1
    <3>2. CASE i # inet
      <4>1. itry > 1 \/ i < inet
        BY <1>1, <1>2, <1>3, <2>2, <3>2 DEF Finished, Nets
      <4> QED BY <1>2, <3>2, <4>1 DEF Finished, ConnectedInv
    <3> QED BY <3>1, <3>2
  <2> QED BY <1>1, <2>2 DEF ConnectedInv, OnTrace
<1>13. AnnotatedInv'
  BY <1>1, <1>3 DEF AnnotatedInv
<1> QED BY <1>10, <1>11, <1>12, <1>13

LEMMA RecountIsOccupancy ==
    ASSUME Shapes, occ' = Recount
    PROVE  occ' \in [Nodes -> Nat] /\ \A n \in Nodes : occ'[n] >= Cardinality(Users(Nets, n))
<1>1. \A n \in Nodes : Recount[n] \in Nat /\ Recount[n] >= Cardinality(Users(Nets, n))
  BY RecountFacts
<1>2. Recount = [n \in Nodes |-> Recount[n]]
  BY DEF Recount
<1> QED BY <1>1, <1>2

LEMMA CheckPassesStep == ASSUME IInv, CheckPasses PROVE IInv'
<1> USE DEF IInv, SearchInv
<1>1. /\ pc = "check" /\ pc' = "annotate" /\ verdict' = "routed" /\ Feasible(Recount) /\ occ' = Recount
      /\ edges' = edges /\ sources' = sources /\ isrc' = isrc /\ routed' = routed
      /\ inet' = inet /\ itry' = itry /\ UNCHANGED costs /\ pres_cost' = pres_cost
      /\ isink' = isink /\ path_cost' = path_cost /\ prev_node' = prev_node
      /\ modified' = modified /\ acc_cost' = acc_cost
      /\ pres_fac' = pres_fac /\ driver' = driver /\ net_num' = net_num /\ tptr' = tptr
      /\ trace' = trace /\ target_flag' = target_flag /\ heap' = heap
  BY DEF CheckPasses, result, search, costs, loops
<1>2. ~Searching /\ ~InNet /\ pc # "close" /\ ~Searching' /\ ~InNet' /\ pc' # "close" /\ pc' # "load"
  BY <1>1 DEF Searching, InNet
<1>3. verdict = "none"
  BY <1>1 DEF ControlInv
<1>4. occ' \in [Nodes -> Nat] /\ \A n \in Nodes : occ'[n] >= Cardinality(Users(Nets, n))
  BY <1>1, RecountIsOccupancy
<1>5. TypeOK'
  BY <1>1, <1>4 DEF TypeOK
<1>6. Shapes'
  BY <1>1, <1>2 DEF Shapes
<1>7. ControlInv'
  BY <1>1, <1>2 DEF ControlInv
<1>8. SinksInv'
  BY <1>1, <1>2, <1>3 DEF SinksInv
<1>9. SearchInv'
  BY <1>1, <1>2, <1>5, <1>6, <1>7, <1>8, OutsideKeeps
<1>10. OccInv'
  <2>1. ASSUME NEW n \in Nodes PROVE {i \in ChargedNets : n \in OnTrace(i)}' = Users(Nets, n)
    BY <1>1, <1>2 DEF ChargedNets, Users, OnTrace
  <2> QED BY <1>4, <2>1 DEF OccInv
<1>11. ConnectedInv'
  BY <1>1 DEF ConnectedInv, Finished, OnTrace
<1>12. AnnotatedInv'
  <2>1. Recount' = Recount
    BY <1>1 DEF Recount, On, Places
  <2> QED BY <1>1, <2>1 DEF AnnotatedInv, Feasible
<1> QED BY <1>9, <1>10, <1>11, <1>12

LEMMA CheckFailsStep == ASSUME IInv, CheckFails PROVE IInv'
<1> USE DEF IInv, SearchInv
<1> DEFINE raised == IF itry = 1 THEN InitialPresFac ELSE pres_fac * PresFacMult
           fac    == IF raised < MaxPresFac THEN raised ELSE MaxPresFac
<1>1. /\ pc = "check" /\ occ' = Recount
      /\ edges' = edges /\ sources' = sources /\ isrc' = isrc /\ routed' = routed /\ inet' = inet
      /\ isink' = isink /\ path_cost' = path_cost /\ prev_node' = prev_node
      /\ modified' = modified /\ pres_fac' = fac /\ driver' = driver /\ net_num' = net_num /\ tptr' = tptr
      /\ trace' = trace /\ target_flag' = target_flag /\ heap' = heap
      /\ acc_cost' = [n \in Nodes |-> IF occ'[n] > Capacity
                                      THEN acc_cost[n] + (occ'[n] - Capacity) * AccFac
                                      ELSE acc_cost[n]]
      /\ pres_cost' = [n \in Nodes |-> IF occ'[n] >= Capacity THEN PresCost(occ'[n], fac)
                                                              ELSE pres_cost[n]]
      /\ \/ itry < MaxIterations /\ pc' = "rip" /\ itry' = itry + 1 /\ verdict' = verdict
         \/ pc' = "done" /\ verdict' = "congested" /\ itry' = itry
  BY DEF CheckFails, search
<1>2. ~Searching /\ ~InNet /\ pc # "close" /\ ~Searching' /\ ~InNet' /\ pc' # "close" /\ pc' # "load"
  BY <1>1 DEF Searching, InNet
<1>3. verdict = "none"
  BY <1>1 DEF ControlInv
<1>4. occ' \in [Nodes -> Nat] /\ \A n \in Nodes : occ'[n] >= Cardinality(Users(Nets, n))
  BY <1>1, RecountIsOccupancy
<1>5. fac \in Nat
  <2>1. pres_fac \in Nat /\ PresFacMult \in Nat /\ InitialPresFac \in Nat /\ MaxPresFac \in Nat
    BY CostsAssumption DEF TypeOK
  <2>2. pres_fac * PresFacMult \in Nat
    BY <2>1, ProductFacts
  <2> QED BY <2>1, <2>2
<1> HIDE DEF fac
<1>6. ASSUME NEW n \in Nodes
      PROVE  acc_cost'[n] \in Nat /\ acc_cost'[n] >= 1 /\ pres_cost'[n] \in Nat /\ pres_cost'[n] >= 1
  <2>1. occ'[n] \in Nat /\ acc_cost[n] \in Nat /\ acc_cost[n] >= 1 /\ pres_cost[n] \in Nat /\ pres_cost[n] >= 1
        /\ AccFac \in Nat
    BY <1>4, CostsAssumption DEF TypeOK, Shapes
  <2>2. occ'[n] > Capacity => (occ'[n] - Capacity) * AccFac \in Nat
    <3>1. occ'[n] > Capacity => occ'[n] - Capacity \in Nat
      BY <2>1 DEF Capacity
    <3> QED BY <2>1, <3>1, ProductFacts
  <2>3. PresCost(occ'[n], fac) \in Nat /\ PresCost(occ'[n], fac) >= 1
    BY <1>5, <2>1, PresCostFacts
  <2> QED BY <1>1, <2>1, <2>2, <2>3
<1>7. acc_cost' \in [Nodes -> Nat] /\ pres_cost' \in [Nodes -> Nat]
  BY <1>1, <1>6
<1>8. TypeOK'
  <2>1. itry' \in 1 .. MaxIterations
    BY <1>1, RouterAssumption DEF TypeOK
  <2>2. pc' \in {"rip", "done"} /\ verdict' \in {"none", "congested"}
    BY <1>1, <1>3
  <2> QED BY <1>1, <1>4, <1>5, <1>7, <2>1, <2>2 DEF TypeOK
<1>9. Shapes'
  BY <1>1, <1>2, <1>6 DEF Shapes
<1>10. ControlInv'
  BY <1>1, <1>2, <1>3 DEF ControlInv
<1>11. SinksInv'
  BY <1>1, <1>2, <1>3 DEF SinksInv
<1>12. SearchInv'
  BY <1>1, <1>2, <1>8, <1>9, <1>10, <1>11, OutsideKeeps
<1>13. OccInv'
  <2>1. ASSUME NEW n \in Nodes PROVE {i \in ChargedNets : n \in OnTrace(i)}' = Users(Nets, n)
    BY <1>1, <1>2 DEF ChargedNets, Users, OnTrace
  <2> QED BY <1>4, <2>1 DEF OccInv
<1>14. ConnectedInv'
  BY <1>1 DEF ConnectedInv, Finished, OnTrace
<1>15. AnnotatedInv'
  BY <1>1, <1>3 DEF AnnotatedInv
<1> QED BY <1>12, <1>13, <1>14, <1>15

LEMMA SamePlaces ==
    ASSUME trace' = trace
    PROVE  Recount' = Recount /\ \A n : On(n)' = On(n) /\ DriverPlaces(n)' = DriverPlaces(n)
<1>1. Places' = Places
  BY DEF Places
<1>2. ASSUME NEW n PROVE On(n)' = On(n)
  BY <1>1 DEF On
<1>3. ASSUME NEW n PROVE DriverPlaces(n)' = DriverPlaces(n)
  BY <1>1 DEF DriverPlaces
<1>4. Recount' = Recount
  BY <1>1 DEF Recount, On
<1> QED BY <1>2, <1>3, <1>4

LEMMA BackannotateStep == ASSUME IInv, Backannotate PROVE IInv'
<1> USE DEF IInv, SearchInv
<1>1. /\ pc = "annotate" /\ pc' = "done"
      /\ net_num' = [n \in Nodes |-> IF On(n) = {} THEN 0 ELSE Last(On(n))[1]]
      /\ driver' = [n \in Nodes |-> IF DriverPlaces(n) = {} THEN NoNode
                                    ELSE LET x == Last(DriverPlaces(n)) IN trace[x[1]][x[2]]]
      /\ edges' = edges /\ sources' = sources /\ isrc' = isrc /\ routed' = routed
      /\ inet' = inet /\ itry' = itry /\ UNCHANGED costs /\ pres_cost' = pres_cost /\ verdict' = verdict
      /\ isink' = isink /\ path_cost' = path_cost /\ prev_node' = prev_node
      /\ modified' = modified /\ acc_cost' = acc_cost /\ occ' = occ
      /\ pres_fac' = pres_fac /\ tptr' = tptr
      /\ trace' = trace /\ target_flag' = target_flag /\ heap' = heap
  BY DEF Backannotate, DriverPlaces, search, costs, loops
<1>2. ~Searching /\ ~InNet /\ pc # "close" /\ ~Searching' /\ ~InNet' /\ pc' # "close" /\ pc' # "load"
  BY <1>1 DEF Searching, InNet
<1>3. verdict = "routed"
  BY <1>1 DEF ControlInv
<1>4. ASSUME NEW n \in Nodes
      PROVE  /\ (IF On(n) = {} THEN 0 ELSE Last(On(n))[1]) \in Nets \cup {0}
             /\ (IF DriverPlaces(n) = {} THEN NoNode
                 ELSE trace[Last(DriverPlaces(n))[1]][Last(DriverPlaces(n))[2]]) \in Nodes \cup {NoNode}
  <2>1. On(n) # {} => Last(On(n))[1] \in Nets
    <3>1. On(n) \subseteq Places
      BY DEF On
    <3> QED BY <3>1, LastFacts, PlacesFacts
  <2>2. DriverPlaces(n) # {} =>
            trace[Last(DriverPlaces(n))[1]][Last(DriverPlaces(n))[2]] \in Nodes
    <3>1. DriverPlaces(n) \subseteq Places
      BY DEF DriverPlaces
    <3> QED BY <3>1, LastFacts, PlacesFacts
  <2> QED BY <2>1, <2>2
<1>5. TypeOK'
  <2>1. net_num' \in [Nodes -> Nets \cup {0}]
    BY <1>1, <1>4
  <2>2. driver' \in [Nodes -> Nodes \cup {NoNode}]
    BY <1>1, <1>4
  <2> QED BY <1>1, <2>1, <2>2 DEF TypeOK
<1>6. Shapes'
  BY <1>1, <1>2 DEF Shapes
<1>7. ControlInv'
  BY <1>1, <1>2, <1>3 DEF ControlInv
<1>8. SinksInv'
  BY <1>1, <1>2, <1>3 DEF SinksInv
<1>9. SearchInv'
  BY <1>1, <1>2, <1>5, <1>6, <1>7, <1>8, OutsideKeeps
<1>10. OccInv'
  BY <1>1, <1>2 DEF OccInv, ChargedNets, OnTrace
<1>11. ConnectedInv'
  BY <1>1, <1>3 DEF ConnectedInv, Finished, OnTrace
<1>12. AnnotatedInv'
  <2>1. Recount' = Recount /\ \A n : On(n)' = On(n) /\ DriverPlaces(n)' = DriverPlaces(n)
    BY <1>1, SamePlaces
  <2>2. Feasible(Recount)'
    BY <1>3, <2>1 DEF AnnotatedInv, Feasible
  <2>3. ASSUME NEW n \in Nodes
        PROVE  /\ net_num'[n] = IF On(n)' = {} THEN 0 ELSE Last(On(n)')[1]
               /\ driver'[n] = IF DriverPlaces(n)' = {} THEN NoNode
                               ELSE trace'[Last(DriverPlaces(n)')[1]][Last(DriverPlaces(n)')[2]]
    BY <1>1, <2>1
  <2> QED BY <2>2, <2>3 DEF AnnotatedInv, Last, Later
<1> QED BY <1>9, <1>10, <1>11, <1>12

LEMMA StutterStep == ASSUME IInv, UNCHANGED vars PROVE IInv'
<1> SUFFICES ASSUME vars' = vars PROVE IInv'
  OBVIOUS
<1>1. /\ edges' = edges /\ sources' = sources /\ isrc' = isrc /\ routed' = routed /\ pc' = pc
      /\ inet' = inet /\ itry' = itry /\ pres_cost' = pres_cost /\ verdict' = verdict
      /\ isink' = isink /\ path_cost' = path_cost /\ prev_node' = prev_node
      /\ modified' = modified /\ acc_cost' = acc_cost /\ occ' = occ /\ UNCHANGED costs
      /\ pres_fac' = pres_fac /\ tptr' = tptr /\ driver' = driver /\ net_num' = net_num
      /\ trace' = trace /\ target_flag' = target_flag /\ heap' = heap
  BY DEF vars, search, costs, loops, result
<1>2. TypeOK' /\ Shapes' /\ ControlInv' /\ SinksInv' /\ TouchedInv'
  <2> USE DEF IInv, SearchInv
  <2>1. VirtualEdges' = VirtualEdges /\ Wanted' = Wanted /\ Traced' = Traced
        /\ Searching' = Searching /\ InNet' = InNet
    BY <1>1 DEF VirtualEdges, Wanted, Traced, OnTrace, Searching, InNet
  <2>2. TypeOK'
    BY <1>1 DEF TypeOK
  <2>3. Shapes'
    BY <1>1, <2>1 DEF Shapes
  <2>4. ControlInv'
    BY <1>1, <2>1 DEF ControlInv
  <2>5. SinksInv'
    BY <1>1, <2>1 DEF SinksInv
  <2>6. TouchedInv'
    BY <1>1, <2>1 DEF TouchedInv
  <2> QED BY <2>2, <2>3, <2>4, <2>5, <2>6
<1>3. TraceInv'
  BY <1>1, SameTrace DEF IInv, SearchInv
<1>4. PathsInv' /\ SegmentInv'
  BY <1>1 DEF IInv, SearchInv, PathsInv, SegmentInv, Path, Searching, Wanted, Traced, OnTrace, Root,
              StepCost, Cong, Last1
<1>5. WaveInv'
  <2>1. WaveInv
    BY DEF IInv, SearchInv
  <2>2. Complete' <=> Complete
    BY <1>1 DEF Complete, Rooted, Offered, Pending, Traced, OnTrace, Root, StepCost, Cong, Entry
  <2>3. \A d : Potential(d)' <=> Potential(d)
    BY <1>1 DEF Potential, Traced, OnTrace, Root, StepCost, Cong, Wanted
  <2>4. Hopeless' <=> Hopeless
    BY <2>3 DEF Hopeless
  <2> QED BY <1>1, <2>1, <2>2, <2>4 DEF WaveInv, Searching
<1>6. OccInv' /\ ConnectedInv'
  BY <1>1 DEF IInv, OccInv, ConnectedInv, Finished, ChargedNets, InNet, OnTrace
<1>7. AnnotatedInv'
  <2>1. Recount' = Recount /\ \A n : On(n)' = On(n) /\ DriverPlaces(n)' = DriverPlaces(n)
    BY <1>1, SamePlaces
  <2> QED BY <1>1, <2>1 DEF IInv, AnnotatedInv, Feasible, Last, Later
<1> QED BY <1>2, <1>3, <1>4, <1>5, <1>6, <1>7 DEF IInv, SearchInv

(* The search, the traces, the occupancies and what is written back are    *)
(* always consistent with each other.                                      *)
THEOREM PbRouterInvariant == Spec => []IInv
<1>1. ASSUME IInv, [Next]_vars PROVE IInv'
  BY <1>1, AddVirtualSourcesStep, RipUpStep, StartSourceStep, ExpandSegmentStep, AllSinksTriedStep,
     WaveStep, ConnectStep, ExhaustedStep, CloseSourceStep, AddNetStep, CheckPassesStep,
     CheckFailsStep, BackannotateStep, StutterStep DEF Next, Done
<1> QED BY <1>1, InitIInv, PTL DEF Spec

-----------------------------------------------------------------------------
(* The next connection is the cheapest.                                    *)
LEMMA WalkFacts ==
    ASSUME SearchInv, pc \in {"first", "wave"}
    PROVE  /\ Starts = IF trace[inet] = <<>> THEN {<<Root, Cong(Root)>>}
                       ELSE {<<n, 0>> : n \in Traced}
           /\ Walk \in [Nat -> SUBSET (Nodes \X Nat)] /\ Walk[0] = Starts
           /\ \A k \in Nat : Walk[k + 1] = UNION {Moves(w) : w \in Walk[k]}
<1> USE DEF SearchInv
<1> DEFINE P == Nodes \X Nat
           S == SUBSET P
<1>1. InNet /\ pc # "add" /\ Root \in Nodes /\ Traced \subseteq Nodes
  BY InNetFacts DEF InNet
<1>2. sources[inet][isrc] = Root
  BY <1>1, SourceIs
<1>3. Starts = IF trace[inet] = <<>> THEN {<<Root, Cong(Root)>>} ELSE {<<n, 0>> : n \in Traced}
  <2>1. {<<trace[inet][j], 0>> : j \in DOMAIN trace[inet]} = {<<n, 0>> : n \in Traced}
    BY DEF Traced, OnTrace
  <2> QED BY <1>2, <2>1 DEF Starts
<1>4. Starts \in S
  <2>1. Cong(Root) \in Nat
    BY <1>1, CostFacts
  <2>2. <<Root, Cong(Root)>> \in P /\ \A n \in Traced : <<n, 0>> \in P
    BY <1>1, <2>1
  <2> QED BY <1>3, <2>2
<1>5. ASSUME NEW w \in P PROVE Moves(w) \subseteq P
  <2>1. w[2] \in Nat /\ \A n \in Nodes : StepCost(n) \in Nat
    BY CostFacts
  <2>2. \A n \in Nodes : w[2] + StepCost(n) \in Nat
    BY <2>1
  <2>3. ASSUME NEW x \in Moves(w) PROVE x \in P
    <3>1. x = w \/ \E n \in Nodes : x = <<n, w[2] + StepCost(n)>>
      BY <2>3 DEF Moves
    <3> QED BY <2>2, <3>1
  <2> QED BY <2>3
<1>6. Widen \in [S -> S] /\ \A W \in S : Widen[W] = UNION {Moves(w) : w \in W}
  BY <1>5 DEF Widen
<1>7. Iterates(Walk, Starts, Widen)
  BY DEF Walk, Iterates
<1> HIDE DEF S
<1>8. Walk \in [Nat -> S] /\ Walk[0] = Starts /\ \A k \in Nat : Walk[k + 1] = Widen[Walk[k]]
  BY <1>4, <1>6, <1>7, Iteration
<1>9. \A k \in Nat : Walk[k + 1] = UNION {Moves(w) : w \in Walk[k]}
  BY <1>6, <1>8
<1> QED BY <1>3, <1>8, <1>9 DEF S

LEMMA StayOnWalk ==
    ASSUME SearchInv, pc \in {"first", "wave"}, NEW m \in Nat, NEW n \in Nat, m <= n
    PROVE  Walk[m] \subseteq Walk[n]
<1>1. /\ Walk \in [Nat -> SUBSET (Nodes \X Nat)]
      /\ \A k \in Nat : Walk[k + 1] = UNION {Moves(w) : w \in Walk[k]}
  BY WalkFacts
<1>2. ASSUME NEW k \in Nat PROVE Walk[k] \subseteq Walk[k + 1]
  BY <1>1 DEF Moves
<1> DEFINE Good == {d \in Nat : Walk[m] \subseteq Walk[m + d]}
<1>3. 0 \in Good
  <2>1. m + 0 = m
    OBVIOUS
  <2> QED BY <2>1
<1>4. ASSUME NEW d \in Nat, d \in Good PROVE d + 1 \in Good
  <2>1. m + d \in Nat /\ (m + d) + 1 = m + (d + 1)
    OBVIOUS
  <2>2. Walk[m] \subseteq Walk[m + d] /\ Walk[m + d] \subseteq Walk[(m + d) + 1]
    BY <1>2, <1>4, <2>1
  <2> QED BY <2>1, <2>2
<1>5. Nat \subseteq Good
  <2> HIDE DEF Good
  <2> QED BY <1>3, <1>4, NaturalsFromZero
<1>6. n - m \in Nat /\ m + (n - m) = n
  OBVIOUS
<1> QED BY <1>5, <1>6

(* No walk to a wanted sink is cheaper than the head of the heap.          *)
LEMMA NoCheaperWalk ==
    ASSUME SearchInv, Complete, pc \in {"first", "wave"},
           NEW e \in Cheapest, target_flag[e.index] > 0,
           NEW k \in Nat, NEW w \in Walk[k]
    PROVE  w \in Nodes \X Nat /\ (e.cost <= w[2] \/ path_cost[w[1]] <= w[2])
<1> USE DEF SearchInv
<1>1. /\ e \in heap /\ e.cost \in Nat /\ e.cost < HUGE
      /\ \A n \in Traced : path_cost[n] = 0
      /\ trace[inet] = <<>> => path_cost[Root] = Cong(Root)
  BY NextSink
<1>2. /\ Starts = IF trace[inet] = <<>> THEN {<<Root, Cong(Root)>>} ELSE {<<n, 0>> : n \in Traced}
      /\ Walk \in [Nat -> SUBSET (Nodes \X Nat)] /\ Walk[0] = Starts
      /\ \A l \in Nat : Walk[l + 1] = UNION {Moves(x) : x \in Walk[l]}
  BY WalkFacts
<1> DEFINE Bound(x) == e.cost <= x[2] \/ path_cost[x[1]] <= x[2]
           Good == {l \in Nat : \A x \in Walk[l] : Bound(x)}
<1>3. 0 \in Good
  <2>1. ASSUME NEW x \in Starts PROVE path_cost[x[1]] <= x[2]
    <3>1. CASE trace[inet] = <<>>
      <4>1. x[1] = Root /\ x[2] = Cong(Root)
        BY <1>2, <3>1
      <4>2. Cong(Root) \in Nat
        BY InNetFacts, CostFacts
      <4> QED BY <1>1, <3>1, <4>1, <4>2
    <3>2. CASE trace[inet] # <<>>
      BY <1>1, <1>2, <3>2
    <3> QED BY <3>1, <3>2
  <2> QED BY <1>2, <2>1
<1>4. ASSUME NEW l \in Nat, l \in Good PROVE l + 1 \in Good
  <2>1. ASSUME NEW x \in Walk[l], NEW n \in Nodes, <<x[1], n>> \in edges
        PROVE  Bound(<<n, x[2] + StepCost(n)>>)
    <3> DEFINE m == x[1]
               c == x[2] + StepCost(n)
    <3>1. m \in Nodes /\ x[2] \in Nat /\ path_cost[m] \in Nat /\ StepCost(n) \in Nat /\ path_cost[n] \in Nat
          /\ HUGE \in Nat
      BY <1>2, CostFacts
    <3>2. CASE e.cost <= x[2]
      BY <1>1, <3>1, <3>2
    <3>3. CASE path_cost[m] <= x[2] /\ ~(e.cost <= x[2])
      <4>1. path_cost[m] # HUGE
        BY <1>1, <3>1, <3>3
      <4>2. m \in modified
        BY <3>1, <4>1 DEF TouchedInv
      <4>3. Offered(n, path_cost[m] + StepCost(n))
        BY <2>1, <4>2 DEF Complete
      <4>4. path_cost[n] <= path_cost[m] + StepCost(n) \/ e.cost <= path_cost[m] + StepCost(n)
        <5>1. ASSUME NEW f \in heap, f.cost <= path_cost[m] + StepCost(n)
              PROVE  e.cost <= path_cost[m] + StepCost(n)
          <6>1. e.cost <= f.cost /\ f.cost \in Nat
            BY HeapElements DEF Cheapest
          <6> QED BY <1>1, <3>1, <5>1, <6>1
        <5> QED BY <4>3, <5>1 DEF Offered, Pending
      <4>5. path_cost[n] <= c \/ e.cost <= c
        BY <1>1, <3>1, <3>3, <4>4
      <4> QED BY <4>5
    <3> QED BY <1>4, <3>2, <3>3
  <2>2. ASSUME NEW y \in Walk[l + 1] PROVE Bound(y)
    <3>1. PICK x \in Walk[l] : y \in Moves(x)
      BY <1>2, <2>2
    <3>2. Bound(x)
      BY <1>4
    <3> HIDE DEF Bound
    <3> QED BY <2>1, <3>1, <3>2 DEF Moves
  <2> QED BY <2>2
<1>5. Nat \subseteq Good
  <2> HIDE DEF Good
  <2> QED BY <1>3, <1>4, NaturalsFromZero
<1> QED BY <1>2, <1>5

(* The way back is a walk that costs no more than the element.             *)
LEMMA WalkOfTraceback ==
    ASSUME SearchInv, Complete, pc \in {"first", "wave"},
           NEW e \in Cheapest, target_flag[e.index] > 0
    PROVE  \E c \in Nat : c <= e.cost /\ <<e.index, c>> \in Walks
<1> USE DEF SearchInv
<1>1. /\ e \in heap /\ e.index \in Nodes /\ e.index \notin modified /\ e.prev_node # NoNode
      /\ <<e.prev_node, e.index>> \in edges /\ e.cost \in Nat
      /\ path_cost[e.prev_node] + StepCost(e.index) <= e.cost
      /\ trace[inet] = <<>> => path_cost[Root] = Cong(Root)
  BY NextSink
<1>2. Searching /\ modified \subseteq Nodes
  BY DEF Searching, TypeOK
<1>3. PICK L \in Nat : IsTraceback(BackTrace(e), L, e)
  BY <1>1, <1>2, Traceback
<1> DEFINE q == BackTrace(e)
<1>4. /\ L \in Nat /\ L >= 2 /\ L <= Cardinality(Nodes) /\ q \in [1 .. L -> Nodes]
      /\ q[L] = e.index /\ q[L - 1] = e.prev_node
      /\ \A k \in 1 .. L - 1 : q[k] \in modified /\ prev_node[q[k]] = IF k = 1 THEN NoNode ELSE q[k - 1]
  BY <1>3 DEF IsTraceback
<1> HIDE DEF q
<1>5. /\ Starts = IF trace[inet] = <<>> THEN {<<Root, Cong(Root)>>} ELSE {<<n, 0>> : n \in Traced}
      /\ Walk \in [Nat -> SUBSET (Nodes \X Nat)] /\ Walk[0] = Starts
      /\ \A k \in Nat : Walk[k + 1] = UNION {Moves(w) : w \in Walk[k]}
  BY WalkFacts
<1> DEFINE Reached(k) == \E c \in Nat : c <= path_cost[q[k + 1]] /\ <<q[k + 1], c>> \in Walk[k]
           Good == {k \in Nat : k + 1 <= L - 1 => Reached(k)}
<1>6. Reached(0)
  <2>1. 1 \in 1 .. L - 1 /\ 0 + 1 = 1
    BY <1>4
  <2>2. q[1] \in modified /\ prev_node[q[1]] = NoNode /\ q[1] \in Nodes
    BY <1>2, <1>4, <2>1
  <2>3. q[1] \in Traced \cup {Root}
    BY <1>2, <2>2, StartOfPath
  <2>4. path_cost[q[1]] \in Nat /\ Cong(Root) \in Nat
    BY <2>2, CostFacts, InNetFacts
  <2>5. CASE trace[inet] = <<>>
    <3>1. Traced = {}
      BY <2>5 DEF Traced, OnTrace
    <3>2. q[1] = Root /\ <<q[1], Cong(Root)>> \in Walk[0] /\ Cong(Root) <= path_cost[q[1]]
      BY <1>1, <1>5, <2>3, <2>4, <2>5, <3>1
    <3> QED BY <2>1, <2>4, <3>2
  <2>6. CASE trace[inet] # <<>>
    <3>1. q[1] \in Traced
      BY <2>3, <2>6, RootIsTraced
    <3>2. <<q[1], 0>> \in Walk[0] /\ 0 <= path_cost[q[1]]
      BY <1>5, <2>4, <2>6, <3>1
    <3> QED BY <2>1, <3>2
  <2> QED BY <2>5, <2>6
<1>7. ASSUME NEW k \in Nat, NEW m \in Nodes, NEW n \in Nodes, <<m, n>> \in edges,
             NEW c \in Nat, <<m, c>> \in Walk[k]
      PROVE  <<n, c + StepCost(n)>> \in Walk[k + 1] /\ c + StepCost(n) \in Nat /\ StepCost(n) \in Nat
  <2>1. <<n, c + StepCost(n)>> \in Moves(<<m, c>>)
    BY <1>7 DEF Moves
  <2>2. StepCost(n) \in Nat
    BY CostFacts
  <2> QED BY <1>5, <1>7, <2>1, <2>2
<1>8. ASSUME NEW k \in Nat, k \in Good PROVE k + 1 \in Good
  <2> SUFFICES ASSUME k + 1 + 1 <= L - 1 PROVE Reached(k + 1)
    OBVIOUS
  <2>1. k + 1 \in 1 .. L - 1 /\ k + 2 \in 1 .. L - 1 /\ k + 2 # 1 /\ k + 2 - 1 = k + 1 /\ k + 1 + 1 = k + 2
        /\ k + 1 \in 1 .. L /\ k + 2 \in 1 .. L /\ k + 1 <= L - 1
    BY <1>4
  <2>2. PICK c \in Nat : c <= path_cost[q[k + 1]] /\ <<q[k + 1], c>> \in Walk[k]
    BY <1>8, <2>1
  <2> DEFINE m == q[k + 1]
             n == q[k + 2]
  <2>3. m \in Nodes /\ n \in Nodes /\ n \in modified /\ prev_node[n] = m /\ m # NoNode
    BY <1>4, <2>1, FiniteNodes
  <2>4. Path(n, path_cost[n], m)
    BY <1>2, <2>3 DEF PathsInv
  <2>5. <<m, n>> \in edges /\ path_cost[m] + StepCost(n) <= path_cost[n]
    BY <2>3, <2>4 DEF Path
  <2> HIDE DEF m, n
  <2>6. <<n, c + StepCost(n)>> \in Walk[k + 1] /\ c + StepCost(n) \in Nat /\ StepCost(n) \in Nat
    BY <1>7, <2>2, <2>3, <2>5 DEF m
  <2>7. path_cost[m] \in Nat /\ path_cost[n] \in Nat /\ c <= path_cost[m]
    BY <2>2, <2>3, CostFacts DEF m
  <2>8. c + StepCost(n) <= path_cost[n]
    BY <2>5, <2>6, <2>7
  <2>9. q[k + 1 + 1] = n
    BY <2>1 DEF n
  <2> HIDE DEF Good
  <2> QED BY <2>6, <2>8, <2>9
<1>9. Nat \subseteq Good
  <2> HIDE DEF Good
  <2>1. 0 \in Good
    BY <1>6 DEF Good
  <2> QED BY <1>8, <2>1, NaturalsFromZero
<1>10. L - 2 \in Nat /\ (L - 2) + 1 = L - 1 /\ (L - 2) + 1 <= L - 1 /\ L - 1 \in Nat
  BY <1>4
<1>11. PICK c \in Nat : c <= path_cost[e.prev_node] /\ <<e.prev_node, c>> \in Walk[L - 2]
  <2>1. Reached(L - 2)
    <3> HIDE DEF Reached
    <3> QED BY <1>9, <1>10
  <2> QED BY <1>4, <1>10, <2>1
<1>12. e.prev_node \in Nodes /\ path_cost[e.prev_node] \in Nat
  BY <1>1, EdgeFacts, CostFacts
<1>13. <<e.index, c + StepCost(e.index)>> \in Walk[L - 1] /\ c + StepCost(e.index) \in Nat
       /\ StepCost(e.index) \in Nat
  BY <1>1, <1>7, <1>10, <1>11, <1>12
<1>14. c + StepCost(e.index) <= e.cost
  BY <1>1, <1>11, <1>12, <1>13
<1>15. Walk[L - 1] \subseteq Walks
  <2>1. Cardinality(Nodes) \in Nat /\ L - 1 <= Cardinality(Nodes)
    BY <1>4, FiniteNodes
  <2> QED BY <1>10, <2>1, StayOnWalk DEF Walks
<1> QED BY <1>13, <1>14, <1>15

LEMMA PathsAreBack == SearchInv => PathsLeadBack
<1> SUFFICES ASSUME SearchInv, NEW n \in modified
             PROVE  /\ path_cost[n] < HUGE
                    /\ IF prev_node[n] = NoNode
                       THEN n = sources[inet][isrc] \/ \E k \in DOMAIN trace[inet] : trace[inet][k] = n
                       ELSE /\ prev_node[n] \in modified
                            /\ path_cost[prev_node[n]] < path_cost[n]
                            /\ <<prev_node[n], n>> \in edges
  BY DEF PathsLeadBack
<1> USE DEF SearchInv
<1>1. Searching \/ pc = "close"
  BY DEF TouchedInv
<1>2. n \in Nodes /\ path_cost[n] \in Nat /\ path_cost[n] # HUGE /\ path_cost[n] <= HUGE /\ HUGE \in Nat
  <2>1. n \in Nodes
    BY DEF TypeOK
  <2> QED BY <2>1, CostFacts DEF TouchedInv
<1>3. Path(n, path_cost[n], prev_node[n])
  BY <1>1 DEF PathsInv
<1>4. CASE prev_node[n] = NoNode
  <2>1. n \in Traced \cup {Root}
    BY <1>3, <1>4 DEF Path
  <2>2. InNet /\ pc # "add"
    BY <1>1 DEF InNet, Searching
  <2>3. sources[inet][isrc] = Root
    BY <2>2, SourceIs
  <2> QED BY <1>2, <1>4, <2>1, <2>3 DEF Traced, OnTrace
<1>5. CASE prev_node[n] # NoNode
  <2>1. <<prev_node[n], n>> \in edges /\ prev_node[n] \in modified
        /\ path_cost[prev_node[n]] + StepCost(n) <= path_cost[n]
    BY <1>3, <1>5 DEF Path
  <2>2. path_cost[prev_node[n]] \in Nat /\ StepCost(n) \in Nat /\ StepCost(n) >= 1
    BY <1>2, <2>1, EdgeFacts, CostFacts
  <2> QED BY <1>2, <1>5, <2>1, <2>2
<1> QED BY <1>4, <1>5

(* The router connects the cheapest wanted sink next, along a cheapest     *)
(* path from all the wiring the net has.                                   *)
THEOREM CheapestNext == Spec => []NextConnectionIsCheapest
<1>1. IInv => NextConnectionIsCheapest
  <2> SUFFICES ASSUME IInv PROVE NextConnectionIsCheapest
    OBVIOUS
  <2> USE DEF IInv
  <2>1. TypeOK /\ PathsLeadBack
    BY PathsAreBack DEF SearchInv
  <2>2. ASSUME pc \in {"first", "wave"}, NEW e \in Cheapest, target_flag[e.index] > 0
        PROVE  /\ <<e.index, e.cost>> \in Walks
               /\ \A w \in Walks : target_flag[w[1]] > 0 => e.cost <= w[2]
    <3>1. Searching /\ e \in heap
      BY <2>2 DEF Searching, Cheapest
    <3>2. Complete
      <4>1. CASE Hopeless
        <5>1. target_flag[e.index] = 0
          BY <3>1, <4>1, NoTargetLeft
        <5> QED BY <2>2, <5>1
      <4> QED BY <3>1, <4>1 DEF SearchInv, WaveInv
    <3>3. e.cost \in Nat /\ e.cost < HUGE /\ e.index \in Nodes
      BY <2>2, <3>2, NextSink
    <3>4. ASSUME NEW w \in Walks, target_flag[w[1]] > 0 PROVE e.cost <= w[2]
      <4>1. Cardinality(Nodes) \in Nat
        BY FiniteNodes
      <4>2. w \in Nodes \X Nat /\ (e.cost <= w[2] \/ path_cost[w[1]] <= w[2])
        BY <2>2, <3>2, <3>4, <4>1, NoCheaperWalk DEF Walks
      <4>3. w[1] \in Wanted
        BY <3>4, <4>2, TargetIsWanted DEF SearchInv
      <4>4. path_cost[w[1]] = HUGE
        BY <3>1, <4>2, <4>3 DEF SearchInv, PathsInv, TouchedInv
      <4>5. HUGE \in Nat /\ w[2] \in Nat
        BY <4>2, CostsAssumption
      <4> QED BY <3>3, <4>2, <4>4, <4>5
    <3>5. PICK c \in Nat : c <= e.cost /\ <<e.index, c>> \in Walks
      BY <2>2, <3>2, WalkOfTraceback
    <3>6. e.cost <= c
      BY <2>2, <3>4, <3>5
    <3>7. c = e.cost
      BY <3>3, <3>5, <3>6
    <3> QED BY <3>4, <3>5, <3>7
  <2> QED BY <2>1, <2>2 DEF NextConnectionIsCheapest
<1> QED BY <1>1, PbRouterInvariant, PTL

-----------------------------------------------------------------------------
(* The drivers written back lead to the source.  Where a node enters the   *)
(* trace of its net:                                                       *)
First(i, n) == CHOOSE k \in DOMAIN trace[i] : /\ trace[i][k] = n
                                              /\ \A j \in DOMAIN trace[i] : trace[i][j] = n => k <= j

LEMMA FirstFacts ==
    ASSUME SearchInv, NEW i \in Nets, NEW n \in OnTrace(i)
    PROVE  /\ First(i, n) \in DOMAIN trace[i] /\ First(i, n) \in Nat /\ First(i, n) >= 1
           /\ First(i, n) <= Len(trace[i])
           /\ trace[i][First(i, n)] = n
           /\ \A j \in DOMAIN trace[i] : trace[i][j] = n => First(i, n) <= j
           /\ First(i, n) = 1 <=> n = Source(i)
           /\ First(i, n) # 1 => trace[i][First(i, n) - 1] \notin SinkNodes
           /\ \A j \in DOMAIN trace[i] :
                  trace[i][j] = n /\ j # 1 /\ trace[i][j - 1] \notin SinkNodes => j = First(i, n)
<1> USE DEF SearchInv
<1> DEFINE t == trace[i]
           k == First(i, n)
<1>1. Len(t) \in Nat /\ DOMAIN t = 1 .. Len(t) /\ (t = <<>> <=> Len(t) = 0)
  BY NetFacts
<1>2. Tree(t, Source(i))
  BY DEF TraceInv
<1>3. OnTrace(i) = {t[j] : j \in DOMAIN t}
  BY DEF OnTrace
<1>4. k = CHOOSE l \in DOMAIN t : t[l] = n /\ \A j \in DOMAIN t : t[j] = n => l <= j
  BY DEF First
<1> HIDE DEF t, k
<1> DEFINE P == {l \in DOMAIN t : t[l] = n}
<1>5. P # {} /\ P \subseteq Nat
  BY <1>1, <1>3
<1>6. PICK p \in P : \A l \in P : p <= l
  <2> HIDE DEF P
  <2> QED BY <1>5, LeastNatural
<1>7. k \in DOMAIN t /\ t[k] = n /\ \A j \in DOMAIN t : t[j] = n => k <= j
  <2>1. \E l \in DOMAIN t : t[l] = n /\ \A j \in DOMAIN t : t[j] = n => l <= j
    BY <1>6
  <2> QED BY <1>4, <2>1
<1>8. k \in Nat /\ k >= 1 /\ t # <<>> /\ 1 \in DOMAIN t /\ k <= Len(t)
  BY <1>1, <1>7
<1>9. k = 1 <=> n = Source(i)
  <2>1. t[1] = Source(i)
    BY <1>2, <1>8 DEF Tree
  <2>2. n = Source(i) => k <= 1
    BY <1>7, <1>8, <2>1
  <2> QED BY <1>7, <1>8, <2>1, <2>2
<1>10. k # 1 => t[k - 1] \notin SinkNodes
  <2> SUFFICES ASSUME k # 1, t[k - 1] \in SinkNodes PROVE FALSE
    OBVIOUS
  <2>1. PICK j \in 1 .. k - 1 : t[j] = t[k]
    BY <1>2, <1>7, <1>8 DEF Tree
  <2>2. j \in DOMAIN t /\ ~(k <= j)
    BY <1>1, <1>7, <1>8
  <2> QED BY <1>7, <2>1, <2>2
<1>11. ASSUME NEW j \in DOMAIN t, t[j] = n, j # 1, t[j - 1] \notin SinkNodes PROVE j = k
  <2> SUFFICES ASSUME j # k PROVE FALSE
    OBVIOUS
  <2>1. k <= j /\ j \in Nat
    BY <1>1, <1>7, <1>11
  <2>2. k \in 1 .. j - 1
    BY <1>8, <2>1
  <2>3. t[k] # t[j]
    BY <1>2, <1>8, <1>11, <2>2 DEF Tree
  <2> QED BY <1>7, <1>11, <2>3
<1> QED BY <1>7, <1>8, <1>9, <1>10, <1>11 DEF t, k

LEMMA FollowFacts ==
    ASSUME IInv, pc = "done", verdict = "routed", NEW i \in Nets, NEW n \in OnTrace(i)
    PROVE  /\ n \in Nodes /\ net_num[n] = i /\ Follow[n] \in OnTrace(i)
           /\ n = Source(i) => Follow[n] = n
           /\ n # Source(i) => First(i, Follow[n]) < First(i, n)
<1> USE DEF IInv, SearchInv
<1> DEFINE k == First(i, n)
<1>1. /\ k \in DOMAIN trace[i] /\ k \in Nat /\ k >= 1 /\ k <= Len(trace[i]) /\ trace[i][k] = n
      /\ k = 1 <=> n = Source(i)
      /\ k # 1 => trace[i][k - 1] \notin SinkNodes
      /\ \A j \in DOMAIN trace[i] : trace[i][j] = n /\ j # 1 /\ trace[i][j - 1] \notin SinkNodes => j = k
  BY FirstFacts
<1> HIDE DEF k
<1>2. n \in Nodes /\ DOMAIN trace[i] = 1 .. Len(trace[i]) /\ Len(trace[i]) \in Nat
      /\ \A j \in DOMAIN trace[i] : trace[i][j] \in Nodes
  BY <1>1, NetFacts
<1>3. /\ net_num[n] = IF On(n) = {} THEN 0 ELSE Last(On(n))[1]
      /\ driver[n] = IF DriverPlaces(n) = {} THEN NoNode
                     ELSE trace[Last(DriverPlaces(n))[1]][Last(DriverPlaces(n))[2]]
      /\ Recount[n] <= 1
  BY <1>2 DEF AnnotatedInv, Feasible, Capacity
<1>4. <<i, k>> \in On(n) /\ On(n) \subseteq Places
  BY <1>1, PlacesFacts DEF On
<1>5. \A x \in On(n) : x[1] = i
  <2>1. \A x, y \in On(n) : x[1] = y[1]
    BY <1>2, <1>3, RecountFacts
  <2> QED BY <1>4, <2>1
<1>6. net_num[n] = i
  <2>1. On(n) # {}
    BY <1>4
  <2>2. Last(On(n)) \in On(n)
    BY <1>4, <2>1, LastFacts
  <2> QED BY <1>3, <1>5, <2>1, <2>2
<1>7. ASSUME NEW x \in DriverPlaces(n) PROVE x = <<i, k - 1>> /\ k # 1
  <2>1. x \in Places /\ trace[x[1]][x[2]] \notin SinkNodes /\ x[2] < Len(trace[x[1]])
        /\ trace[x[1]][x[2] + 1] = n
    BY <1>7 DEF DriverPlaces
  <2>2. x[1] \in Nets /\ x[2] \in DOMAIN trace[x[1]] /\ x[2] \in Nat /\ x = <<x[1], x[2]>>
    BY <2>1, PlacesFacts
  <2>3. x[2] + 1 \in DOMAIN trace[x[1]] /\ x[2] >= 1
    BY <2>1, <2>2, NetFacts
  <2>4. <<x[1], x[2] + 1>> \in On(n)
    BY <2>1, <2>2, <2>3, PlacesFacts DEF On
  <2>5. x[1] = i
    BY <1>5, <2>4
  <2>6. x[2] + 1 # 1 /\ (x[2] + 1) - 1 = x[2]
    BY <2>2, <2>3
  <2>7. x[2] + 1 = k
    BY <1>1, <2>1, <2>3, <2>5, <2>6
  <2>8. x[2] = k - 1
    BY <1>1, <2>2, <2>7
  <2> QED BY <2>2, <2>3, <2>5, <2>7, <2>8
<1>8. Follow[n] = IF driver[n] = NoNode THEN n ELSE driver[n]
  BY <1>2 DEF Follow
<1>9. CASE n = Source(i)
  <2>1. DriverPlaces(n) = {}
    BY <1>1, <1>7, <1>9
  <2> QED BY <1>2, <1>3, <1>6, <1>8, <1>9, <2>1
<1>10. CASE n # Source(i)
  <2>1. k - 1 \in DOMAIN trace[i] /\ k - 1 < Len(trace[i]) /\ (k - 1) + 1 = k
    BY <1>1, <1>2, <1>10
  <2>2. <<i, k - 1>> \in DriverPlaces(n)
    BY <1>1, <1>10, <2>1, PlacesFacts DEF DriverPlaces
  <2>3. DriverPlaces(n) \subseteq Places /\ DriverPlaces(n) # {}
    BY <2>2 DEF DriverPlaces
  <2>4. Last(DriverPlaces(n)) = <<i, k - 1>>
    BY <1>7, <2>3, LastFacts
  <2>5. driver[n] = trace[i][k - 1] /\ trace[i][k - 1] \in Nodes
    BY <1>2, <1>3, <2>1, <2>3, <2>4
  <2>6. Follow[n] = trace[i][k - 1]
    BY <1>8, <2>5, FiniteNodes
  <2>7. Follow[n] \in OnTrace(i)
    BY <2>1, <2>6 DEF OnTrace
  <2>8. First(i, Follow[n]) <= k - 1 /\ First(i, Follow[n]) \in Nat
    BY <2>1, <2>6, <2>7, FirstFacts
  <2>9. First(i, Follow[n]) < k
    BY <1>1, <2>8
  <2> QED BY <1>2, <1>6, <1>10, <2>7, <2>9 DEF k
<1> QED BY <1>9, <1>10

(* Positions fall on the way, so it ends within Cardinality(Nodes) steps.  *)
LEMMA DriversReachSource ==
    ASSUME IInv, pc = "done", verdict = "routed", NEW i \in Nets, NEW s \in OnTrace(i)
    PROVE  /\ DriversFrom(s)[Cardinality(Nodes)] = Source(i)
           /\ \A k \in Nat : DriversFrom(s)[k] \in OnTrace(i)
<1> DEFINE up == DriversFrom(s)
           N == Cardinality(Nodes)
           T == OnTrace(i)
<1>1. N \in Nat /\ IsFiniteSet(Nodes)
  BY FiniteNodes
<1>2. \A n \in T : n \in Nodes /\ Follow[n] \in T /\ First(i, n) \in Nat
  BY FollowFacts, FirstFacts DEF IInv
<1>3. Follow \in [Nodes -> Nodes]
  BY DEF Follow, IInv, SearchInv, TypeOK
<1>4. Iterates(up, s, Follow)
  BY DEF DriversFrom, Iterates
<1> HIDE DEF up
<1>5. s \in Nodes
  BY <1>2
<1>6. up \in [Nat -> Nodes] /\ up[0] = s /\ \A k \in Nat : up[k + 1] = Follow[up[k]]
  BY <1>3, <1>4, <1>5, Iteration
<1> DEFINE Good == {k \in Nat : up[k] \in T}
<1>7. \A k \in Nat : up[k] \in T
  <2>1. 0 \in Good
    BY <1>6
  <2>2. \A k \in Nat : k \in Good => k + 1 \in Good
    BY <1>2, <1>6
  <2>3. Nat \subseteq Good
    <3> HIDE DEF Good
    <3> QED BY <2>1, <2>2, NaturalsFromZero
  <2> QED BY <2>3
<1>8. ASSUME NEW k \in Nat
      PROVE  /\ up[k] = Source(i) => up[k + 1] = Source(i)
             /\ up[k] # Source(i) => First(i, up[k + 1]) < First(i, up[k])
  <2>1. up[k] \in T
    BY <1>7
  <2>2. /\ up[k] = Source(i) => Follow[up[k]] = up[k]
        /\ up[k] # Source(i) => First(i, Follow[up[k]]) < First(i, up[k])
    BY <2>1, FollowFacts
  <2> QED BY <1>6, <2>2
<1> DEFINE Down(j) == {k \in Nat : j < k /\ up[k] # Source(i) =>
                                       up[j] # Source(i) /\ First(i, up[k]) < First(i, up[j])}
<1>9. ASSUME NEW j \in Nat PROVE Nat \subseteq Down(j)
  <2>1. 0 \in Down(j)
    OBVIOUS
  <2>2. ASSUME NEW k \in Nat, k \in Down(j) PROVE k + 1 \in Down(j)
    <3> SUFFICES ASSUME j < k + 1, up[k + 1] # Source(i)
                 PROVE  up[j] # Source(i) /\ First(i, up[k + 1]) < First(i, up[j])
      OBVIOUS
    <3>1. up[k] # Source(i) /\ First(i, up[k + 1]) < First(i, up[k])
      BY <1>8
    <3>2. CASE j = k
      BY <3>1, <3>2
    <3>3. CASE j < k
      <4>1. up[j] # Source(i) /\ First(i, up[k]) < First(i, up[j])
        BY <2>2, <3>1, <3>3
      <4>2. First(i, up[k + 1]) \in Nat /\ First(i, up[k]) \in Nat /\ First(i, up[j]) \in Nat
        BY <1>2, <1>7
      <4> QED BY <3>1, <4>1, <4>2
    <3> QED BY <3>2, <3>3
  <2> HIDE DEF Down
  <2> QED BY <2>1, <2>2, NaturalsFromZero
<1>10. \A j, k \in Nat : j < k /\ up[k] # Source(i) =>
                             up[j] # Source(i) /\ First(i, up[k]) < First(i, up[j])
  BY <1>9
<1>11. up[N] = Source(i)
  <2> SUFFICES ASSUME up[N] # Source(i) PROVE FALSE
    OBVIOUS
  <2> DEFINE f == [k \in 0 .. N |-> up[k]]
  <2>1. f \in [0 .. N -> Nodes]
    BY <1>6
  <2>2. IsFiniteSet(0 .. N) /\ Cardinality(0 .. N) = N + 1
    BY <1>1, FS_Interval
  <2>3. N < Cardinality(0 .. N)
    BY <1>1, <2>2
  <2> HIDE DEF f
  <2>4. PICK x \in 0 .. N, y \in 0 .. N : x # y /\ f[x] = f[y]
    BY <1>1, <2>1, <2>2, <2>3, FS_PigeonHole
  <2>5. up[x] = up[y] /\ x \in Nat /\ y \in Nat /\ x <= N /\ y <= N
    BY <1>1, <2>4 DEF f
  <2>6. ASSUME NEW j \in Nat, NEW k \in Nat, j < k, k <= N PROVE up[j] # up[k]
    <3>1. up[k] # Source(i)
      <4>1. k = N \/ k < N
        BY <1>1, <2>6
      <4> QED BY <1>1, <1>10, <4>1
    <3>2. First(i, up[k]) < First(i, up[j])
      BY <1>10, <2>6, <3>1
    <3>3. First(i, up[k]) \in Nat
      BY <1>2, <1>7
    <3> QED BY <3>2, <3>3
  <2>7. x < y \/ y < x
    BY <2>4, <2>5
  <2> QED BY <2>5, <2>6, <2>7
<1> QED BY <1>7, <1>11 DEF up

(* After backannotation the drivers lead from every sink of a net back to  *)
(* its source over nodes that carry the net's number.                      *)
THEOREM Drivers == Spec => []DriversLeadToSource
<1>1. IInv => DriversLeadToSource
  <2> SUFFICES ASSUME IInv, pc = "done", verdict = "routed",
                      NEW i \in Nets, NEW s \in SinkNodes, s \in Sinks(i)
               PROVE  /\ DriversFrom(s)[Cardinality(Nodes)] = Source(i)
                      /\ \A k \in 0 .. Cardinality(Nodes) : net_num[DriversFrom(s)[k]] = i
    BY DEF DriversLeadToSource
  <2>1. s \in OnTrace(i)
    BY DEF IInv, ConnectedInv, Finished
  <2>2. /\ DriversFrom(s)[Cardinality(Nodes)] = Source(i)
        /\ \A k \in Nat : DriversFrom(s)[k] \in OnTrace(i)
    BY <2>1, DriversReachSource
  <2>3. \A k \in 0 .. Cardinality(Nodes) : k \in Nat
    BY FiniteNodes
  <2> QED BY <2>2, <2>3, FollowFacts
<1> QED BY <1>1, PbRouterInvariant, PTL

-----------------------------------------------------------------------------
(* The router is a negotiated-congestion router.  What the edges W reach   *)
(* from r:                                                                 *)
LEMMA WithinFacts ==
    ASSUME NEW W, NEW r \in Nodes
    PROVE  /\ Negotiated!Within(W, r) \in [Nat -> SUBSET Nodes]
           /\ Negotiated!Within(W, r)[0] = {r}
           /\ \A k \in Nat : Negotiated!Within(W, r)[k + 1] =
                  Negotiated!Within(W, r)[k] \cup
                  {n \in Nodes : \E m \in Negotiated!Within(W, r)[k] : <<m, n>> \in W}
<1> DEFINE near == Negotiated!Within(W, r)
           S == SUBSET Nodes
<1>1. Iterates(near, {r}, Negotiated!Grow(W))
  BY DEF Negotiated!Within, Iterates
<1>2. Negotiated!Grow(W) \in [S -> S]
      /\ \A X \in S : Negotiated!Grow(W)[X] = X \cup {n \in Nodes : \E m \in X : <<m, n>> \in W}
  BY DEF Negotiated!Grow
<1>3. {r} \in S
  OBVIOUS
<1> HIDE DEF near, S
<1>4. /\ near \in [Nat -> S] /\ near[0] = {r}
      /\ \A k \in Nat : near[k + 1] = Negotiated!Grow(W)[near[k]]
  BY <1>1, <1>2, <1>3, Iteration
<1>5. \A k \in Nat : near[k + 1] = near[k] \cup {n \in Nodes : \E m \in near[k] : <<m, n>> \in W}
  BY <1>2, <1>4
<1> QED BY <1>4, <1>5 DEF near, S

LEMMA CardinalityThere == ASSUME NEW S PROVE Negotiated!Cardinality(S) = Cardinality(S)
  BY DEF Negotiated!Cardinality, Cardinality

(* It is closed, for it grows at each step until it is, and there are only *)
(* Cardinality(Nodes) nodes.                                               *)
LEMMA ReachIsClosed ==
    ASSUME NEW W, NEW r \in Nodes
    PROVE  /\ Negotiated!Reach(W, r) \subseteq Nodes /\ r \in Negotiated!Reach(W, r)
           /\ \A m \in Negotiated!Reach(W, r), n \in Nodes :
                  <<m, n>> \in W => n \in Negotiated!Reach(W, r)
<1> DEFINE near == Negotiated!Within(W, r)
           N == Cardinality(Nodes)
<1>1. N \in Nat /\ IsFiniteSet(Nodes)
  BY FiniteNodes
<1> HIDE DEF near
<1>2. /\ near \in [Nat -> SUBSET Nodes] /\ near[0] = {r}
      /\ \A k \in Nat : near[k + 1] = near[k] \cup {n \in Nodes : \E m \in near[k] : <<m, n>> \in W}
  BY WithinFacts DEF near
<1>3. \A k \in Nat : near[k] \subseteq Nodes /\ IsFiniteSet(near[k]) /\ Cardinality(near[k]) \in Nat
                     /\ Cardinality(near[k]) <= N
  BY <1>1, <1>2, FS_Subset, FS_CardinalityType
<1> DEFINE Good == {k \in Nat : near[k + 1] = near[k] \/ Cardinality(near[k]) >= k + 1}
           Has == {k \in Nat : r \in near[k]}
<1>4. 0 \in Good
  <2>1. Cardinality({r}) = 1
    BY FS_Singleton
  <2>2. Cardinality(near[0]) = 1
    BY <1>2, <2>1
  <2> QED BY <2>2
<1>5. ASSUME NEW k \in Nat, k \in Good PROVE k + 1 \in Good
  <2>1. CASE near[k + 1] = near[k]
    <3> DEFINE wider(X) == X \cup {n \in Nodes : \E m \in X : <<m, n>> \in W}
    <3>0. \A l \in Nat : near[l + 1] = wider(near[l])
      BY <1>2
    <3> HIDE DEF wider
    <3>1. near[k + 1] = wider(near[k]) /\ near[(k + 1) + 1] = wider(near[k + 1])
      BY <3>0
    <3>2. near[(k + 1) + 1] = near[k + 1]
      BY <2>1, <3>1
    <3> QED BY <3>2
  <2>2. CASE near[k + 1] # near[k]
    <3>1. Cardinality(near[k]) >= k + 1
      BY <1>5, <2>2
    <3>2. PICK n \in near[k + 1] : n \notin near[k]
      BY <1>2, <2>2
    <3>3. near[k] \cup {n} \subseteq near[k + 1]
      BY <1>2, <3>2
    <3> DEFINE A == near[k]
    <3>4. IsFiniteSet(A) /\ n \notin A /\ Cardinality(A) \in Nat
      BY <1>3, <3>2
    <3>5. Cardinality(near[k + 1]) \in Nat /\ IsFiniteSet(near[k + 1])
      BY <1>3
    <3> HIDE DEF A
    <3>6. Cardinality(A \cup {n}) = Cardinality(A) + 1
      BY <3>4, FS_AddElement
    <3>7. A \cup {n} \subseteq near[k + 1]
      BY <3>3 DEF A
    <3>8. Cardinality(A \cup {n}) <= Cardinality(near[k + 1])
      BY <3>5, <3>7, FS_Subset
    <3>9. Cardinality(A) >= k + 1
      BY <3>1 DEF A
    <3>10. Cardinality(near[k + 1]) >= (k + 1) + 1
      BY <3>4, <3>5, <3>6, <3>8, <3>9
    <3> QED BY <3>10
  <2> QED BY <2>1, <2>2
<1>6. Nat \subseteq Good
  <2> HIDE DEF Good
  <2> QED BY <1>4, <1>5, NaturalsFromZero
<1>7. near[N + 1] = near[N]
  <2>1. Cardinality(near[N]) <= N /\ Cardinality(near[N]) \in Nat
    BY <1>1, <1>3
  <2>2. N \in Good
    BY <1>1, <1>6
  <2> QED BY <1>1, <2>1, <2>2
<1>8. r \in near[N]
  <2>1. 0 \in Has
    BY <1>2
  <2>2. \A k \in Nat : k \in Has => k + 1 \in Has
    BY <1>2
  <2>3. Nat \subseteq Has
    <3> HIDE DEF Has
    <3> QED BY <2>1, <2>2, NaturalsFromZero
  <2> QED BY <1>1, <2>3
<1>9. \A m \in near[N], n \in Nodes : <<m, n>> \in W => n \in near[N]
  BY <1>1, <1>2, <1>7
<1> QED BY <1>1, <1>3, <1>8, <1>9, CardinalityThere DEF Negotiated!Reach, near

LEMMA ReachIsLeast ==
    ASSUME NEW W, NEW r \in Nodes, NEW R, r \in R,
           \A m \in R, n \in Nodes : <<m, n>> \in W => n \in R
    PROVE  Negotiated!Reach(W, r) \subseteq R
<1> DEFINE near == Negotiated!Within(W, r)
<1> HIDE DEF near
<1>1. /\ near \in [Nat -> SUBSET Nodes] /\ near[0] = {r}
      /\ \A k \in Nat : near[k + 1] = near[k] \cup {n \in Nodes : \E m \in near[k] : <<m, n>> \in W}
  BY WithinFacts DEF near
<1> DEFINE Good == {k \in Nat : near[k] \subseteq R}
<1>2. 0 \in Good
  BY <1>1
<1>3. ASSUME NEW k \in Nat, k \in Good PROVE k + 1 \in Good
  <2>1. ASSUME NEW n \in near[k + 1] PROVE n \in R
    <3>1. n \in near[k] \/ (n \in Nodes /\ \E m \in near[k] : <<m, n>> \in W)
      BY <1>1, <2>1
    <3> QED BY <1>3, <3>1
  <2> QED BY <2>1
<1>4. Nat \subseteq Good
  <2> HIDE DEF Good
  <2> QED BY <1>2, <1>3, NaturalsFromZero
<1> QED BY <1>4, FiniteNodes, CardinalityThere DEF Negotiated!Reach, near

(* The wires of a trace that is a tree.                                    *)
WiresOf(t) == {<<t[k], t[k + 1]>> : k \in {j \in DOMAIN t : j < Len(t) /\ t[j] \notin SinkNodes}}
NodesOf(t) == {t[k] : k \in DOMAIN t}

IsTrace(t, r) ==
    t # <<>> =>
        /\ t[1] = r /\ t[Len(t)] \in SinkNodes
        /\ \A k \in DOMAIN t \ {1} :
               IF t[k - 1] \in SinkNodes THEN \E j \in 1 .. k - 1 : t[j] = t[k]
               ELSE \A j \in 1 .. k - 1 : t[j] # t[k]

LEMMA WiresAreTree ==
    ASSUME NEW t \in Seq(Nodes), NEW r \in Nodes \ SinkNodes, IsTrace(t, r)
    PROVE  /\ Negotiated!IsTree(WiresOf(t), r)
           /\ Negotiated!Covered(WiresOf(t), r) = NodesOf(t)
           /\ Negotiated!Heads(WiresOf(t)) = NodesOf(t) \ {r}
<1> DEFINE W == WiresOf(t)
           H == Negotiated!Heads(W)
           T == NodesOf(t)
<1>1. Len(t) \in Nat /\ DOMAIN t = 1 .. Len(t) /\ (t = <<>> <=> Len(t) = 0)
      /\ \A k \in DOMAIN t : t[k] \in Nodes
  BY LenProperties, EmptySeq, ElementOfSeq
<1>2. ASSUME NEW e \in W PROVE \E k \in DOMAIN t \ {1} : e = <<t[k - 1], t[k]>> /\ t[k - 1] \notin SinkNodes
  <2>1. PICK j \in DOMAIN t : j < Len(t) /\ t[j] \notin SinkNodes /\ e = <<t[j], t[j + 1]>>
    BY <1>2 DEF WiresOf
  <2>2. j + 1 \in DOMAIN t \ {1} /\ (j + 1) - 1 = j
    BY <1>1, <2>1
  <2> QED BY <2>1, <2>2
<1>3. ASSUME NEW k \in DOMAIN t \ {1}, t[k - 1] \notin SinkNodes PROVE <<t[k - 1], t[k]>> \in W
  <2>1. k - 1 \in DOMAIN t /\ k - 1 < Len(t) /\ (k - 1) + 1 = k
    BY <1>1
  <2> QED BY <1>3, <2>1 DEF WiresOf
<1>4. H = {e[2] : e \in W}
  BY DEF Negotiated!Heads
<1>5. T = {t[k] : k \in DOMAIN t}
  BY DEF NodesOf
<1> HIDE DEF W, H, T
<1>6. ASSUME NEW k \in DOMAIN t \ {1}
      PROVE  /\ k \in Nat /\ k >= 2 /\ k - 1 \in DOMAIN t /\ 1 \in 1 .. k - 1 /\ t # <<>>
             /\ t[k - 1] \in SinkNodes => \E j \in 1 .. k - 1 : t[j] = t[k]
             /\ t[k - 1] \notin SinkNodes => \A j \in 1 .. k - 1 : t[j] # t[k]
  <2>1. k \in Nat /\ k >= 2 /\ k - 1 \in DOMAIN t /\ 1 \in 1 .. k - 1 /\ t # <<>>
    BY <1>1
  <2> QED BY <2>1 DEF IsTrace
<1>7. \A e, f \in W : e[2] = f[2] => e = f
  <2> SUFFICES ASSUME NEW e \in W, NEW f \in W, e[2] = f[2] PROVE e = f
    OBVIOUS
  <2>1. PICK k \in DOMAIN t \ {1} : e = <<t[k - 1], t[k]>> /\ t[k - 1] \notin SinkNodes
    BY <1>2
  <2>2. PICK l \in DOMAIN t \ {1} : f = <<t[l - 1], t[l]>> /\ t[l - 1] \notin SinkNodes
    BY <1>2
  <2>3. k \in Nat /\ l \in Nat /\ k >= 1 /\ l >= 1
    BY <1>6
  <2>4. t[k] = t[l]
    BY <2>1, <2>2
  <2>5. ~(k < l)
    <3> SUFFICES ASSUME k < l PROVE FALSE
      OBVIOUS
    <3>1. k \in 1 .. l - 1
      BY <2>3
    <3> QED BY <1>6, <2>2, <2>4, <3>1
  <2>6. ~(l < k)
    <3> SUFFICES ASSUME l < k PROVE FALSE
      OBVIOUS
    <3>1. l \in 1 .. k - 1
      BY <2>3
    <3> QED BY <1>6, <2>1, <2>4, <3>1
  <2> QED BY <2>1, <2>2, <2>3, <2>5, <2>6
<1>8. r \notin H
  <2> SUFFICES ASSUME NEW e \in W, e[2] = r PROVE FALSE
    BY <1>4
  <2>1. PICK k \in DOMAIN t \ {1} : e = <<t[k - 1], t[k]>> /\ t[k - 1] \notin SinkNodes
    BY <1>2
  <2>2. t[1] = r /\ 1 \in 1 .. k - 1 /\ t[1] # t[k]
    BY <1>6, <2>1 DEF IsTrace
  <2> QED BY <2>1, <2>2
<1>9. H \subseteq T
  BY <1>2, <1>4, <1>5
<1> DEFINE Good == {k \in Nat : \A l \in DOMAIN t : l <= k => t[l] = r \/ t[l] \in H}
<1>10. \A k \in DOMAIN t : t[k] = r \/ t[k] \in H
  <2>1. 0 \in Good
    BY <1>1
  <2>2. ASSUME NEW k \in Nat, k \in Good PROVE k + 1 \in Good
    <3> SUFFICES ASSUME k + 1 \in DOMAIN t PROVE t[k + 1] = r \/ t[k + 1] \in H
      BY <1>1, <2>2
    <3>1. CASE k = 0
      <4>1. t # <<>>
        BY <1>1
      <4> QED BY <3>1, <4>1 DEF IsTrace
    <3>2. CASE k # 0
      <4>1. k + 1 \in DOMAIN t \ {1} /\ (k + 1) - 1 = k
        BY <1>1, <3>2
      <4>2. CASE t[k] \in SinkNodes
        <5>1. PICK j \in 1 .. k : t[j] = t[k + 1]
          BY <1>6, <4>1, <4>2
        <5>2. j \in DOMAIN t /\ j <= k
          BY <1>1, <5>1
        <5> QED BY <2>2, <5>1, <5>2
      <4>3. CASE t[k] \notin SinkNodes
        <5>1. <<t[k], t[k + 1]>> \in W
          BY <1>3, <4>1, <4>3
        <5>2. <<t[k], t[k + 1]>>[2] = t[k + 1]
          OBVIOUS
        <5> QED BY <1>4, <5>1, <5>2
      <4> QED BY <4>2, <4>3
    <3> QED BY <3>1, <3>2
  <2>3. Nat \subseteq Good
    <3> HIDE DEF Good
    <3> QED BY <2>1, <2>2, NaturalsFromZero
  <2>4. \A k \in DOMAIN t : k \in Nat /\ k <= k
    BY <1>1
  <2> QED BY <2>3, <2>4
<1>11. H = T \ {r}
  BY <1>5, <1>8, <1>9, <1>10
<1>12. Negotiated!Covered(W, r) = T
  <2>1. Negotiated!Covered(W, r) = IF W = {} THEN {} ELSE {r} \cup H
    BY DEF Negotiated!Covered, H
  <2>2. CASE t = <<>>
    <3>1. DOMAIN t = {}
      BY <1>1, <2>2
    <3> QED BY <1>2, <1>5, <2>1, <3>1
  <2>3. CASE t # <<>>
    <3>1. 1 \in DOMAIN t /\ t[1] = r /\ Len(t) \in DOMAIN t /\ t[Len(t)] \in SinkNodes
      BY <1>1, <2>3 DEF IsTrace
    <3>2. Len(t) # 1
      BY <3>1
    <3>3. 2 \in DOMAIN t \ {1} /\ 2 - 1 = 1 /\ t[1] \notin SinkNodes
      BY <1>1, <3>1, <3>2
    <3>4. W # {}
      BY <1>3, <3>3
    <3>5. r \in T
      BY <1>5, <3>1
    <3> QED BY <1>11, <2>1, <3>4, <3>5
  <2> QED BY <2>2, <2>3
<1> DEFINE R == Negotiated!Reach(W, r)
<1>13. r \in R /\ \A m \in R, n \in Nodes : <<m, n>> \in W => n \in R
  BY ReachIsClosed
<1> HIDE DEF R
<1> DEFINE Near == {k \in Nat : \A l \in DOMAIN t : l <= k => t[l] \in R}
<1>14. \A k \in DOMAIN t : t[k] \in R
  <2>1. 0 \in Near
    BY <1>1
  <2>2. ASSUME NEW k \in Nat, k \in Near PROVE k + 1 \in Near
    <3> SUFFICES ASSUME k + 1 \in DOMAIN t PROVE t[k + 1] \in R
      BY <1>1, <2>2
    <3>1. CASE k = 0
      <4>1. t # <<>>
        BY <1>1
      <4>2. t[1] = r
        BY <4>1 DEF IsTrace
      <4> QED BY <1>13, <3>1, <4>2
    <3>2. CASE k # 0
      <4>1. k + 1 \in DOMAIN t \ {1} /\ (k + 1) - 1 = k /\ k \in DOMAIN t
        BY <1>1, <3>2
      <4>2. CASE t[k] \in SinkNodes
        <5>1. PICK j \in 1 .. k : t[j] = t[k + 1]
          BY <1>6, <4>1, <4>2
        <5>2. j \in DOMAIN t /\ j <= k
          BY <1>1, <5>1
        <5> QED BY <2>2, <5>1, <5>2
      <4>3. CASE t[k] \notin SinkNodes
        <5>1. <<t[k], t[k + 1]>> \in W
          BY <1>3, <4>1, <4>3
        <5>2. t[k] \in R /\ t[k + 1] \in Nodes
          BY <1>1, <2>2, <4>1
        <5> QED BY <1>13, <5>1, <5>2
      <4> QED BY <4>2, <4>3
    <3> QED BY <3>1, <3>2
  <2>3. Nat \subseteq Near
    <3> HIDE DEF Near
    <3> QED BY <2>1, <2>2, NaturalsFromZero
  <2>4. \A k \in DOMAIN t : k \in Nat /\ k <= k
    BY <1>1
  <2> QED BY <2>3, <2>4
<1>15. H \subseteq R
  BY <1>5, <1>9, <1>14
<1>16. Negotiated!IsTree(W, r)
  BY <1>7, <1>8, <1>15 DEF Negotiated!IsTree, H, R
<1> QED BY <1>11, <1>12, <1>16 DEF W, H, T

-----------------------------------------------------------------------------
LEMMA FullGraphIs ==
    /\ FullGraph = edges \cup VirtualEdges
    /\ SearchInv /\ pc # "load" => FullGraph = edges
<1>1. FullGraph = edges \cup VirtualEdges
  BY DEF FullGraph, VirtualEdges
<1>2. SearchInv /\ pc # "load" => VirtualEdges \subseteq edges
  BY DEF SearchInv, Shapes
<1> QED BY <1>1, <1>2

LEMMA TracesAre == TraceInv => \A i \in Nets : IsTrace(trace[i], Source(i))
<1> SUFFICES ASSUME TraceInv, NEW i \in Nets PROVE IsTrace(trace[i], Source(i))
  OBVIOUS
<1>1. Tree(trace[i], Source(i))
  BY DEF TraceInv
<1> QED BY <1>1 DEF Tree, IsTrace

LEMMA WiresAre ==
    ASSUME SearchInv, NEW i \in Nets
    PROVE  /\ Wires(i) = WiresOf(trace[i]) /\ OnTrace(i) = NodesOf(trace[i])
           /\ Negotiated!Covered(Wires(i), Source(i)) = OnTrace(i)
           /\ Negotiated!Heads(Wires(i)) = OnTrace(i) \ {Source(i)}
<1>1. Wires(i) = WiresOf(trace[i]) /\ OnTrace(i) = NodesOf(trace[i])
  BY DEF Wires, WiresOf, OnTrace, NodesOf
<1>2. trace[i] \in Seq(Nodes) /\ Source(i) \in Nodes \ SinkNodes /\ IsTrace(trace[i], Source(i))
  BY NetFacts, SourceFacts, TracesAre DEF SearchInv
<1> QED BY <1>1, <1>2, WiresAreTree

LEMMA LoadIs ==
    ASSUME SearchInv, NEW n
    PROVE  Negotiated!Load(n) = Cardinality(Users(Nets, n))
<1> DEFINE on(i) == n \in Negotiated!Covered([j \in Nets |-> Wires(j)][i], [j \in Nets |-> Source(j)][i])
<1>1. Negotiated!Load(n) = Cardinality({i \in Nets : on(i)})
  BY CardinalityThere DEF Negotiated!Load
<1>2. \A i \in Nets : on(i) <=> n \in OnTrace(i)
  BY WiresAre
<1> HIDE DEF on
<1>3. {i \in Nets : on(i)} = Users(Nets, n)
  BY <1>2 DEF Users
<1> QED BY <1>1, <1>3

LEMMA SameWires ==
    ASSUME NEW i \in Nets, trace'[i] = trace[i]
    PROVE  Wires(i)' = Wires(i)
  BY DEF Wires

LEMMA Stutters ==
    ASSUME FullGraph' = FullGraph, trace' = trace, verdict' = verdict
    PROVE  UNCHANGED Negotiated!vars
<1>1. \A i \in Nets : Wires(i)' = Wires(i)
  BY SameWires
<1>2. [i \in Nets |-> Wires(i)]' = [i \in Nets |-> Wires(i)]
  BY <1>1
<1> QED BY <1>2 DEF Negotiated!vars, Source, MultiSource

LEMMA SameGraph ==
    ASSUME edges' = edges
    PROVE  FullGraph' = FullGraph
  BY DEF FullGraph, MultiSource

(* The trace of a net is dropped as a whole.                               *)
LEMMA StartRefines ==
    ASSUME IInv, StartSource
    PROVE  Negotiated!RipUp(inet)
<1> DEFINE w == [i \in Nets |-> Wires(i)]
<1>1. /\ pc = "source" /\ edges' = edges /\ verdict' = verdict /\ inet' = inet
      /\ trace' = [trace EXCEPT ![inet] = <<>>]
  BY DEF StartSource, result, loops
<1>2. inet \in Nets /\ trace \in [Nets -> Seq(Nodes)] /\ verdict = "none"
  BY <1>1 DEF IInv, SearchInv, TypeOK, Shapes, ControlInv
<1>3. \A i \in Nets \ {inet} : Wires(i)' = Wires(i)
  BY <1>1, <1>2, SameWires
<1>4. Wires(inet)' = {}
  <2>1. trace'[inet] = <<>> /\ Wires(inet)' = WiresOf(trace'[inet])
    BY <1>1, <1>2 DEF Wires, WiresOf
  <2>2. WiresOf(<<>>) = {}
    BY DEF WiresOf
  <2> QED BY <2>1, <2>2
<1>5. w' = [w EXCEPT ![inet] = Wires(inet)']
  BY <1>1, <1>2, <1>3
<1>6. FullGraph' = FullGraph
  BY <1>1, SameGraph
<1> QED BY <1>1, <1>2, <1>4, <1>5, <1>6 DEF Negotiated!RipUp, Source, MultiSource

(* One more sink is reached by a branch that leaves the tree once.         *)
LEMMA BranchWires ==
    ASSUME SearchInv, NEW e, NEW q, NEW L, Joining(e, q, L)
    PROVE  /\ WiresOf(trace[inet]) \subseteq WiresOf(trace'[inet])
           /\ WiresOf(trace'[inet]) \ WiresOf(trace[inet]) = {<<q[k], q[k + 1]>> : k \in 1 .. L - 1}
<1> DEFINE t == trace[inet]
           u == trace'[inet]
           T == Last1
           New == {<<q[k], q[k + 1]>> : k \in 1 .. L - 1}
<1>1. /\ L \in Nat /\ L >= 2 /\ T \in Nat
      /\ DOMAIN t = 1 .. T /\ Len(t) = T /\ DOMAIN u = 1 .. T + L /\ Len(u) = T + L
      /\ \A k \in 1 .. T : u[k] = t[k] /\ t[k] \in Traced
      /\ \A k \in 1 .. L : u[T + k] = q[k]
      /\ \A k \in 1 .. L - 1 : q[k] \notin SinkNodes
      /\ \A k \in 2 .. L : q[k] \notin Traced
  BY DEF Joining, Last1, Traced, OnTrace
<1>2. T # 0 => t[T] \in SinkNodes
  BY RootIsTraced, <1>1, InNetFacts DEF SearchInv, Joining
<1> HIDE DEF t, u, T
<1>3. ASSUME NEW w \in WiresOf(t) PROVE w \in WiresOf(u) /\ w[2] \in Traced
  <2>1. PICK j \in DOMAIN t : j < Len(t) /\ t[j] \notin SinkNodes /\ w = <<t[j], t[j + 1]>>
    BY <1>3 DEF WiresOf
  <2>2. j \in DOMAIN u /\ j < Len(u) /\ j \in 1 .. T /\ j + 1 \in 1 .. T
    BY <1>1, <2>1
  <2>3. u[j] = t[j] /\ u[j + 1] = t[j + 1] /\ t[j + 1] \in Traced
    BY <1>1, <2>2
  <2> QED BY <2>1, <2>2, <2>3 DEF WiresOf
<1>4. ASSUME NEW k \in 1 .. L - 1 PROVE <<q[k], q[k + 1]>> \in WiresOf(u) /\ q[k + 1] \notin Traced
  <2> DEFINE TL == T + L
  <2>3. T \in Nat /\ L \in Nat /\ k \in Int /\ 1 <= k /\ k <= L - 1 /\ DOMAIN u = 1 .. TL /\ Len(u) = TL
    BY <1>1
  <2>4. k \in 1 .. L /\ k + 1 \in 1 .. L /\ k + 1 \in 2 .. L
    BY <2>3
  <2>5. T + (k + 1) = (T + k) + 1 /\ T + k < TL /\ T + k \in 1 .. TL
    BY <2>3
  <2>1. k \in 1 .. L /\ k + 1 \in 1 .. L /\ k + 1 \in 2 .. L /\ T + (k + 1) = (T + k) + 1
        /\ T + k \in DOMAIN u /\ T + k < Len(u)
    <3> HIDE DEF TL
    <3> QED BY <2>3, <2>4, <2>5
  <2>2. u[T + k] = q[k] /\ u[(T + k) + 1] = q[k + 1]
    BY <1>1, <2>1
  <2> QED BY <1>1, <2>1, <2>2 DEF WiresOf
<1>5. ASSUME NEW w \in WiresOf(u), w \notin New PROVE w \in WiresOf(t)
  <2>1. PICK j \in DOMAIN u : j < Len(u) /\ u[j] \notin SinkNodes /\ w = <<u[j], u[j + 1]>>
    BY <1>5 DEF WiresOf
  <2>2. CASE j < T
    <3>1. j \in 1 .. T /\ j + 1 \in 1 .. T /\ j \in DOMAIN t /\ j < Len(t)
      BY <1>1, <2>1, <2>2
    <3>2. u[j] = t[j] /\ u[j + 1] = t[j + 1]
      BY <1>1, <3>1
    <3> QED BY <2>1, <3>1, <3>2 DEF WiresOf
  <2>3. CASE j = T
    BY <1>1, <1>2, <2>1, <2>3
  <2>4. CASE j > T
    <3> DEFINE k == j - T
    <3>1. k \in 1 .. L - 1 /\ k \in 1 .. L /\ k + 1 \in 1 .. L /\ T + k = j /\ T + (k + 1) = j + 1
      BY <1>1, <2>1, <2>4
    <3>2. u[j] = q[k] /\ u[j + 1] = q[k + 1]
      BY <1>1, <3>1
    <3> QED BY <1>5, <2>1, <3>1, <3>2
  <2>5. j < T \/ j = T \/ j > T
    BY <1>1, <2>1
  <2> QED BY <2>2, <2>3, <2>4, <2>5
<1>6. \A w \in New : w \in WiresOf(u) /\ w[2] \notin Traced
  BY <1>4
<1> HIDE DEF New
<1>7. WiresOf(u) \ WiresOf(t) = New
  BY <1>3, <1>5, <1>6
<1> QED BY <1>3, <1>7 DEF t, u, New

LEMMA ConnectRefines ==
    ASSUME IInv, IInv', Connect
    PROVE  Negotiated!Connect(inet)
<1> USE DEF IInv, SearchInv
<1> DEFINE w == [i \in Nets |-> Wires(i)]
           r == [i \in Nets |-> Source(i)]
           terminals == [i \in Nets |-> Sinks(i)]
<1>1. PICK e, q, L : Joining(e, q, L)
  BY Joins
<1>2. /\ pc \in {"first", "wave"} /\ edges' = edges /\ verdict' = verdict /\ inet' = inet
      /\ inet \in Nets /\ verdict = "none" /\ Root \in Nodes \ SinkNodes
  BY InNetFacts DEF Connect, result, loops, ControlInv
<1>3. \A i \in Nets \ {inet} : Wires(i)' = Wires(i)
  BY <1>1, SameWires DEF Joining
<1>4. w' = [w EXCEPT ![inet] = Wires(inet)']
  BY <1>2, <1>3
<1>5. Wires(inet) = WiresOf(trace[inet]) /\ Wires(inet)' = WiresOf(trace'[inet])
  BY <1>2 DEF Wires, WiresOf
<1>6. /\ Wires(inet) \subseteq Wires(inet)'
      /\ Wires(inet)' \ Wires(inet) = {<<q[k], q[k + 1]>> : k \in 1 .. L - 1}
  BY <1>1, <1>5, BranchWires
<1>7. Wires(inet)' \subseteq FullGraph'
  <2>1. \A k \in 1 .. L - 1 : <<q[k], q[k + 1]>> \in edges
    BY <1>1 DEF Joining
  <2>2. Wires(inet) \subseteq edges
    <3> DEFINE t == trace[inet]
    <3>1. Tree(t, Root) /\ DOMAIN t = 1 .. Len(t) /\ Len(t) \in Nat /\ (t = <<>> <=> Len(t) = 0)
      BY <1>2, NetFacts DEF TraceInv, Root
    <3> HIDE DEF t
    <3>2. ASSUME NEW j \in DOMAIN t, j < Len(t), t[j] \notin SinkNodes PROVE <<t[j], t[j + 1]>> \in edges
      <4>1. j + 1 \in DOMAIN t \ {1} /\ (j + 1) - 1 = j /\ t # <<>>
        BY <3>1, <3>2
      <4> QED BY <3>1, <3>2, <4>1 DEF Tree
    <3>3. Wires(inet) = {<<t[k], t[k + 1]>> : k \in {j \in DOMAIN t : j < Len(t) /\ t[j] \notin SinkNodes}}
      BY <1>5 DEF WiresOf, t
    <3> QED BY <3>2, <3>3
  <2> QED BY <1>2, <1>6, <2>1, <2>2, FullGraphIs DEF FullGraph
<1>8. Negotiated!IsTree(Wires(inet)', Root)
  <2>1. trace'[inet] \in Seq(Nodes)
    BY <1>1, <1>2 DEF Joining
  <2>2. TraceInv'
    OBVIOUS
  <2>3. IsTrace(trace'[inet], Root)
    <3>1. (\A i \in Nets : IsTrace(trace[i], Source(i)))'
      BY <2>2, TracesAre, PTL
    <3>2. \A i \in Nets : IsTrace(trace'[i], Source(i))
      BY <3>1 DEF IsTrace
    <3> QED BY <1>2, <3>2 DEF Root
  <2> QED BY <1>2, <1>5, <2>1, <2>3, WiresAreTree
<1>9. Negotiated!Cardinality(Sinks(inet) \cap Negotiated!Heads(Wires(inet)' \ Wires(inet))) = 1
  <2> DEFINE New == {<<q[k], q[k + 1]>> : k \in 1 .. L - 1}
  <2>1. /\ L \in Nat /\ L >= 2 /\ q[L] = e.index /\ e.index \in Sinks(inet)
        /\ \A k \in 1 .. L - 1 : q[k] \notin SinkNodes
    BY <1>1 DEF Joining
  <2>2. Negotiated!Heads(New) = {x[2] : x \in New}
    BY DEF Negotiated!Heads
  <2>3. e.index \in Negotiated!Heads(New)
    <3>1. L - 1 \in 1 .. L - 1 /\ (L - 1) + 1 = L
      BY <2>1
    <3>2. <<q[L - 1], q[L]>> \in New /\ <<q[L - 1], q[L]>>[2] = q[L]
      BY <3>1
    <3> HIDE DEF New
    <3> QED BY <2>1, <2>2, <3>2
  <2>4. ASSUME NEW n \in Negotiated!Heads(New), n \in Sinks(inet) PROVE n = e.index
    <3>1. PICK k \in 1 .. L - 1 : n = q[k + 1]
      BY <2>2, <2>4
    <3>2. n \in SinkNodes
      BY <1>2, <2>4, SinkFacts
    <3>3. k + 1 = L \/ k + 1 \in 1 .. L - 1
      BY <2>1
    <3> QED BY <2>1, <3>1, <3>2, <3>3
  <2> HIDE DEF New
  <2>5. Sinks(inet) \cap Negotiated!Heads(New) = {e.index}
    BY <2>1, <2>3, <2>4
  <2>6. Wires(inet)' \ Wires(inet) = New
    BY <1>6 DEF New
  <2>7. Cardinality(Sinks(inet) \cap Negotiated!Heads(Wires(inet)' \ Wires(inet))) = 1
    BY <2>5, <2>6, FS_Singleton
  <2> QED BY <2>7, CardinalityThere
<1>10. FullGraph' = FullGraph
  BY <1>2, SameGraph
<1>11. w[inet] = Wires(inet) /\ w'[inet] = Wires(inet)' /\ r[inet] = Root /\ terminals[inet] = Sinks(inet)
  BY <1>2 DEF Root
<1>12. r' = r
  BY DEF Source, MultiSource
<1> HIDE DEF w, r, terminals
<1>13. /\ w[inet] \subseteq w'[inet] /\ w'[inet] \subseteq FullGraph
       /\ w' = [w EXCEPT ![inet] = w'[inet]]
       /\ Negotiated!IsTree(w'[inet], r[inet])
       /\ Negotiated!Cardinality(terminals[inet] \cap Negotiated!Heads(w'[inet] \ w[inet])) = 1
  BY <1>4, <1>6, <1>7, <1>8, <1>9, <1>10, <1>11
<1> QED BY <1>2, <1>10, <1>12, <1>13 DEF Negotiated!Connect, w, r, terminals

-----------------------------------------------------------------------------
(* Giving up on a net.  A set of nodes that no edge leaves, with the       *)
(* source and without a wanted sink.                                       *)
ClosedOff ==
    \E R \in SUBSET Nodes :
        /\ Root \in R /\ R \cap Wanted = {}
        /\ \A m \in R, n \in Nodes : <<m, n>> \in edges => n \in R

(* The search is complete, or has shown that a sink cannot be reached.     *)
OpenInv ==
    /\ Searching => Complete \/ ClosedOff
    /\ pc = "close" => Wanted = {} \/ ClosedOff

(* The heap ran empty: the nodes with a path are such a set.               *)
LEMMA EmptyIsClosedOff ==
    ASSUME SearchInv, Complete, CostsBelowHuge, pc \in {"first", "wave"}, heap = {}
    PROVE  ClosedOff
<1> USE DEF SearchInv
<1>1. /\ Searching /\ Root \in Nodes /\ modified \subseteq Nodes /\ HUGE \in Nat /\ HUGE # 0
      /\ Cong(Root) \in Nat /\ Cong(Root) < HUGE
  BY InNetFacts, CostFacts, CostsAssumption DEF Searching, TypeOK, CostsBelowHuge, Root
<1>2. Root \in modified
  <2>1. CASE trace[inet] = <<>>
    <3>1. path_cost[Root] = Cong(Root)
      BY <1>1, <2>1 DEF Complete, Rooted
    <3> QED BY <1>1, <3>1 DEF TouchedInv
  <2>2. CASE trace[inet] # <<>>
    <3>1. 1 \in DOMAIN trace[inet]
      BY <2>2, InNetFacts
    <3>2. trace[inet][1] = Root
      BY <2>2, InNetFacts DEF TraceInv, Tree, Root
    <3>3. Root \in Traced
      BY <3>1, <3>2 DEF Traced, OnTrace
    <3>4. path_cost[Root] = 0
      BY <3>3 DEF Complete, Pending
    <3> QED BY <1>1, <3>4 DEF TouchedInv
  <2> QED BY <2>1, <2>2
<1>3. ASSUME NEW m \in modified, NEW n \in Nodes, <<m, n>> \in edges PROVE n \in modified
  <2> DEFINE c == path_cost[m] + StepCost(n)
  <2>1. Offered(n, c)
    BY <1>3 DEF Complete
  <2>2. c < HUGE /\ c \in Nat
    BY <1>1, <1>3, CostFacts DEF CostsBelowHuge, Searching
  <2> HIDE DEF c
  <2>3. path_cost[n] <= c
    BY <2>1 DEF Offered, Pending
  <2>4. path_cost[n] # HUGE
    BY <1>1, <2>2, <2>3, CostFacts
  <2> QED BY <2>4 DEF TouchedInv
<1>4. modified \cap Wanted = {}
  BY <1>1 DEF PathsInv
<1> QED BY <1>1, <1>2, <1>3, <1>4 DEF ClosedOff

LEMMA StaysClosedOff ==
    ASSUME ClosedOff, edges' = edges, inet' = inet, Wanted' \subseteq Wanted
    PROVE  ClosedOff'
<1>1. Root' = Root
  BY DEF Root
<1>2. PICK R \in SUBSET Nodes : /\ Root \in R /\ R \cap Wanted = {}
                                /\ \A m \in R, n \in Nodes : <<m, n>> \in edges => n \in R
  BY DEF ClosedOff
<1>3. Root' \in R /\ R \cap Wanted' = {} /\ \A m \in R, n \in Nodes : <<m, n>> \in edges' => n \in R
  BY <1>1, <1>2
<1> QED BY <1>3 DEF ClosedOff

(* As many sinks are routed as were tried, when the search is complete.    *)
LEMMA AllTriedAllRouted ==
    ASSUME SearchInv, Complete, AllSinksTried
    PROVE  Wanted = {}
<1> USE DEF SearchInv
<1>1. inet \in Nets /\ pc = "segment" /\ isink > Len(NetSinks[inet]) /\ Searching /\ InNet
  BY InNetFacts DEF AllSinksTried, Searching, InNet
<1>2. /\ Len(NetSinks[inet]) \in Nat /\ IsFiniteSet(Sinks(inet))
      /\ Cardinality(Sinks(inet)) = Len(NetSinks[inet])
  BY <1>1, SinkFacts
<1>3. isink \in 1 .. Len(NetSinks[inet]) + 1
  BY <1>1 DEF ControlInv
<1>4. Cardinality(routed) = Cardinality(Sinks(inet))
  BY <1>1, <1>2, <1>3 DEF Complete
<1>5. routed \subseteq Sinks(inet)
  BY <1>1 DEF SinksInv
<1>6. Sinks(inet) = routed
  BY <1>2, <1>4, <1>5, FS_Subset
<1> QED BY <1>6 DEF Wanted

LEMMA InitOpenInv == Init => OpenInv
  BY DEF Init, OpenInv, Searching

LEMMA OpenInvStep ==
    ASSUME IInv, OpenInv, CostsBelowHuge, [Next]_vars
    PROVE  OpenInv'
<1>1. CASE StartSource
  BY <1>1, StartSourceStep DEF OpenInv, StartSource
<1>2. CASE ExpandSegment \/ Wave
  <2>1. /\ Searching /\ edges' = edges /\ inet' = inet /\ Wanted' = Wanted /\ pc' # "close"
    BY <1>2 DEF ExpandSegment, Wave, Searching, Wanted, loops
  <2>2. Complete => Complete'
    BY <1>2, ExpandSegmentStep, WaveStep
  <2> QED BY <2>1, <2>2, StaysClosedOff DEF OpenInv
<1>3. CASE Connect
  BY <1>3, ConnectStep DEF OpenInv, Connect
<1>4. CASE AllSinksTried
  <2>1. /\ Searching /\ ~Searching' /\ edges' = edges /\ inet' = inet /\ Wanted' = Wanted
    BY <1>4 DEF AllSinksTried, Searching, Wanted, loops
  <2>2. Complete => Wanted = {}
    BY <1>4, AllTriedAllRouted DEF IInv
  <2> QED BY <2>1, <2>2, StaysClosedOff DEF OpenInv
<1>5. CASE Exhausted
  <2>1. /\ Searching /\ edges' = edges /\ inet' = inet /\ Wanted' = Wanted
        /\ pc \in {"first", "wave"} /\ heap = {}
    BY <1>5 DEF Exhausted, Searching, Wanted, loops
  <2>2. ClosedOff
    BY <2>1, EmptyIsClosedOff DEF OpenInv, IInv
  <2> QED BY <2>1, <2>2, StaysClosedOff DEF OpenInv
<1>6. CASE UNCHANGED vars
  <2>1. /\ pc' = pc /\ edges' = edges /\ inet' = inet /\ Wanted' = Wanted
        /\ (Searching' <=> Searching)
    BY <1>6 DEF vars, loops, Wanted, Searching
  <2>2. Complete' <=> Complete
    <3>1. /\ edges' = edges /\ pc' = pc /\ inet' = inet /\ UNCHANGED costs /\ tptr' = tptr
          /\ isink' = isink /\ path_cost' = path_cost /\ prev_node' = prev_node
          /\ modified' = modified /\ trace' = trace /\ heap' = heap /\ routed' = routed
          /\ pres_cost' = pres_cost /\ acc_cost' = acc_cost
      BY <1>6 DEF vars, search, costs, loops
    <3> QED BY <3>1 DEF Complete, Rooted, Offered, Pending, Traced, OnTrace, Root, StepCost, Cong, Entry
  <2> QED BY <2>1, <2>2, StaysClosedOff DEF OpenInv
<1>7. CASE AddVirtualSources \/ RipUp \/ CloseSource \/ AddNet \/ CheckPasses \/ CheckFails \/ Backannotate
  <2>1. pc' \in {"rip", "source", "add", "done", "check", "annotate"}
    <3>1. CASE CloseSource
      BY <3>1, CloseSourceCases DEF IInv
    <3>2. CASE AddNet
      BY <3>2 DEF AddNet
    <3>3. CASE CheckFails
      BY <3>3 DEF CheckFails
    <3> QED BY <1>7, <3>1, <3>2, <3>3 DEF AddVirtualSources, RipUp, CheckPasses, Backannotate
  <2> QED BY <2>1 DEF OpenInv, Searching
<1> QED BY <1>1, <1>2, <1>3, <1>4, <1>5, <1>6, <1>7 DEF Next, Done

-----------------------------------------------------------------------------
(* The refinement.                                                         *)
LEMMA InitRefines == Init => Negotiated!Init
<1> SUFFICES ASSUME Init PROVE Negotiated!Init
  OBVIOUS
<1>1. SearchInv /\ verdict = "none" /\ trace = [i \in Nets |-> <<>>]
  BY InitIInv DEF IInv, Init
<1>2. FullGraph \subseteq Nodes \X Nodes
  <2>1. edges \subseteq Nodes \X Nodes
    BY <1>1 DEF SearchInv, TypeOK
  <2> QED BY <2>1, VirtualEdgesAre, FullGraphIs, FiniteNodes
<1>3. [i \in Nets |-> Source(i)] \in [Nets -> Nodes]
  BY SourceFacts
<1>4. ASSUME NEW i \in Nets PROVE Wires(i) = {}
  <2>1. trace[i] = <<>> /\ Wires(i) = WiresOf(trace[i])
    BY <1>1 DEF Wires, WiresOf
  <2>2. WiresOf(<<>>) = {}
    BY DEF WiresOf
  <2> QED BY <2>1, <2>2
<1> QED BY <1>1, <1>2, <1>3, <1>4 DEF Negotiated!Init

LEMMA AcceptRefines ==
    ASSUME IInv, CheckPasses
    PROVE  Negotiated!Accept
<1> USE DEF IInv
<1>1. /\ pc = "check" /\ verdict' = "routed" /\ Feasible(Recount) /\ edges' = edges /\ trace' = trace
  BY DEF CheckPasses
<1>2. verdict = "none" /\ Shapes
  BY <1>1 DEF SearchInv, ControlInv
<1>3. ASSUME NEW i \in Nets PROVE Sinks(i) \subseteq Negotiated!Heads(Wires(i))
  <2>1. Sinks(i) \subseteq OnTrace(i)
    BY <1>1 DEF ConnectedInv, Finished
  <2>2. Source(i) \notin Sinks(i)
    BY SourceFacts, SinkFacts
  <2> QED BY <2>1, <2>2, WiresAre
<1>4. ASSUME NEW n \in Nodes PROVE Negotiated!Load(n) <= Capacity
  <2>1. Recount[n] <= Capacity /\ Recount[n] \in Nat /\ Recount[n] >= Cardinality(Users(Nets, n))
    BY <1>1, <1>2, RecountFacts DEF Feasible
  <2>2. Cardinality(Users(Nets, n)) \in Nat
    BY FiniteNodes, FS_Subset, FS_CardinalityType DEF Users
  <2> QED BY <2>1, <2>2, LoadIs DEF Capacity
<1>5. FullGraph' = FullGraph
  BY <1>1, SameGraph
<1>6. [i \in Nets |-> Wires(i)]' = [i \in Nets |-> Wires(i)]
  BY <1>1, SameWires
<1> QED BY <1>1, <1>2, <1>3, <1>4, <1>5, <1>6 DEF Negotiated!Accept, Source, MultiSource

LEMMA GiveUpRefines ==
    ASSUME IInv, CheckFails, verdict' # verdict
    PROVE  Negotiated!GiveUp
<1> USE DEF IInv
<1>1. /\ pc = "check" /\ verdict' = "congested" /\ ~Feasible(Recount) /\ edges' = edges /\ trace' = trace
  BY DEF CheckFails
<1>2. verdict = "none" /\ Shapes
  BY <1>1 DEF SearchInv, ControlInv
<1>3. PICK n \in Nodes : ~(Recount[n] <= Capacity)
  BY <1>1 DEF Feasible
<1>4. Negotiated!Load(n) > Capacity
  <2>1. Recount[n] \in Nat /\ (Recount[n] > 1 => Cardinality(Users(Nets, n)) > 1)
    BY <1>2, RecountFacts
  <2> QED BY <1>3, <2>1, LoadIs DEF Capacity
<1>5. FullGraph' = FullGraph
  BY <1>1, SameGraph
<1>6. [i \in Nets |-> Wires(i)]' = [i \in Nets |-> Wires(i)]
  BY <1>1, SameWires
<1> QED BY <1>1, <1>2, <1>4, <1>5, <1>6 DEF Negotiated!GiveUp, Source, MultiSource

LEMMA GiveUpNetRefines ==
    ASSUME IInv, OpenInv, CloseSource, verdict' # verdict
    PROVE  Negotiated!GiveUpNet
<1> USE DEF IInv, SearchInv
<1>1. pc = "close" /\ edges' = edges /\ trace' = trace
  BY DEF CloseSource
<1>2. verdict = "none" /\ pc # "load" /\ inet \in Nets /\ Root \in Nodes
  BY <1>1, InNetFacts DEF ControlInv
<1>3. Wanted # {} /\ verdict' = "disconnected"
  BY CloseSourceCases
<1>4. PICK R \in SUBSET Nodes : /\ Root \in R /\ R \cap Wanted = {}
                                /\ \A m \in R, n \in Nodes : <<m, n>> \in edges => n \in R
  BY <1>1, <1>3 DEF OpenInv, ClosedOff
<1>5. FullGraph = edges
  BY <1>2, FullGraphIs
<1>6. Negotiated!Reach(FullGraph, Root) \subseteq R
  BY <1>2, <1>4, <1>5, ReachIsLeast
<1>7. ~ Sinks(inet) \subseteq Negotiated!Reach(FullGraph, Source(inet))
  BY <1>3, <1>4, <1>6 DEF Wanted, Root
<1>8. FullGraph' = FullGraph
  BY <1>1, SameGraph
<1>9. [i \in Nets |-> Wires(i)]' = [i \in Nets |-> Wires(i)]
  BY <1>1, SameWires
<1> QED BY <1>2, <1>3, <1>7, <1>8, <1>9 DEF Negotiated!GiveUpNet, Source, MultiSource

LEMMA StepRefines ==
    ASSUME IInv, IInv', OpenInv, [Next]_vars
    PROVE  [Negotiated!Next]_(Negotiated!vars)
<1>1. inet \in Nets
  BY DEF IInv, SearchInv, TypeOK
<1>2. CASE StartSource
  BY <1>1, <1>2, StartRefines DEF Negotiated!Next
<1>3. CASE Connect
  BY <1>1, <1>3, ConnectRefines DEF Negotiated!Next
<1>4. CASE CheckPasses
  BY <1>4, AcceptRefines DEF Negotiated!Next
<1>5. CASE CheckFails
  <2>1. edges' = edges /\ trace' = trace
    BY <1>5 DEF CheckFails
  <2> QED BY <1>5, <2>1, GiveUpRefines, Stutters, SameGraph DEF Negotiated!Next
<1>6. CASE CloseSource
  <2>1. edges' = edges /\ trace' = trace
    BY <1>6 DEF CloseSource
  <2> QED BY <1>6, <2>1, GiveUpNetRefines, Stutters, SameGraph DEF Negotiated!Next
<1>7. CASE AddVirtualSources
  <2>1. edges' = edges \cup VirtualEdges /\ trace' = trace /\ verdict' = verdict
    BY <1>7 DEF AddVirtualSources, VirtualEdges, result
  <2>2. FullGraph = edges \cup VirtualEdges /\ FullGraph' = edges' \cup VirtualEdges
    BY DEF FullGraph, VirtualEdges, MultiSource
  <2> QED BY <2>1, <2>2, Stutters
<1>8. CASE RipUp \/ ExpandSegment \/ AllSinksTried \/ Wave \/ Exhausted \/ AddNet \/ Backannotate
           \/ UNCHANGED vars
  <2>1. edges' = edges /\ trace' = trace /\ verdict' = verdict
    BY <1>8 DEF RipUp, ExpandSegment, AllSinksTried, Wave, Exhausted, AddNet, Backannotate, vars, result
  <2> QED BY <2>1, Stutters, SameGraph
<1> QED BY <1>2, <1>3, <1>4, <1>5, <1>6, <1>7, <1>8 DEF Next, Done

(* As long as no path costs as much as the HUGE_POSITIVE_FLOAT that stands *)
(* for "no path", the router is a negotiated-congestion router: its traces *)
(* are always trees of existing wires that grow by one sink at a time, it  *)
(* says "routed" only when every net is connected and no node overused,    *)
(* and it gives up on a net only when no path of any length leads there.   *)
THEOREM PbRouterNegotiates == Spec /\ []CostsBelowHuge => ImplementsNegotiation
<1>1. Init => IInv /\ OpenInv /\ Negotiated!Init
  BY InitIInv, InitOpenInv, InitRefines
<1>2. IInv /\ IInv' /\ OpenInv /\ CostsBelowHuge /\ [Next]_vars =>
          OpenInv' /\ [Negotiated!Next]_(Negotiated!vars)
  BY OpenInvStep, StepRefines
<1> QED BY <1>1, <1>2, PbRouterInvariant, PTL DEF Spec, ImplementsNegotiation, Negotiated!Spec
=============================================================================
