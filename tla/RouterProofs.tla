---------------------------- MODULE RouterProofs ----------------------------
(***************************************************************************)
(* The router, for every routing resource graph with the edges VPR builds, *)
(* any nets and any costs: its occupancies are exact, its traces are       *)
(* trees, no net finds anything of the one before, and its verdict is      *)
(* right: "routed" is routed, and a net without a path has none.           *)
(*                                                                         *)
(* Then the search for the channel width around it, for every set of       *)
(* setups, every bound on the width and every answer of the router: the    *)
(* routing put back at the end is that of the width returned, the next     *)
(* narrower width was tried and failed, and the search implements          *)
(* NarrowestWidth.                                                         *)
(***************************************************************************)
EXTENDS Router, ChannelSearch, FiniteSetTheorems, FunctionTheorems, SequenceTheorems, WellFoundedInduction, TLAPS

Open     == pc \in {"segment", "wave"}
Source   == Terminals[inet][1]
Traced   == {trace[inet][k] : k \in DOMAIN trace[inet]}
Last     == Len(trace[inet])

-----------------------------------------------------------------------------
(* The invariant.  First the types, and that every use of a node costs.    *)
Shapes ==
    /\ edges \in Graphs /\ trace \in [Nets -> Seq(Nodes)] /\ DOMAIN opins = DOMAIN Classes
    /\ \A n \in Nodes : pres_cost[n] >= 1 /\ acc_cost[n] >= 1 /\ path_cost[n] <= HUGE

(* Where the router is.                                                    *)
ControlInv ==
    /\ Open => inet \in Nets \ Global /\ isink <= Len(SinksOf(inet)) + 1
    /\ pc = "wave" => isink <= Len(SinksOf(inet))
    /\ pc = "reserve" => inet = 1 /\ iclass <= Len(Classes) + 1
    /\ verdict = "none" <=> pc # "done"
    /\ verdict = "disconnected" => inet \in Nets \ Global
    /\ verdict \in {"routed", "congested"} => iclass = Len(Classes) + 1 /\ inet = 1

(* A trace is a tree, and ends with a SINK.                                *)
TraceInv ==
    /\ TracesAreTrees
    /\ \A i \in Nets : trace[i] # <<>> => Type[trace[i][Len(trace[i])]] = "SINK"

(* What reset_path_costs will reset.                                       *)
TouchedInv ==
    /\ \A n \in Nodes : path_cost[n] # HUGE => n \in modified
    /\ ~Open => heap = {} /\ modified = {}

(* A path of cost c to n by way of p: it comes from the wiring or from the *)
(* SOURCE, or from a node that has a cheaper path.                         *)
Path(n, c, p) ==
    IF p = NoNode THEN n \in Traced \cup {Source}
    ELSE /\ <<p, n>> \in edges
         /\ path_cost[p] # HUGE /\ path_cost[p] <= c
         /\ Type[n] # "SINK" => path_cost[p] < c

WaveInv ==
    Open =>
        /\ \A n \in Nodes : path_cost[n] \notin {HUGE, -HUGE} => Path(n, path_cost[n], prev_node[n])
        /\ \A e \in heap : Path(e.index, e.cost, e.prev_node)

(* All wiring of the net costs nothing, or is about to: it is on the heap  *)
(* or in the segment that is expanded next.  Only an input pin that must   *)
(* not be used again is barred.                                            *)
WiringInv ==
    Open =>
        /\ \A n \in Nodes : path_cost[n] = -HUGE => n \in Traced /\ Type[n] = "IPIN"
        /\ \A n \in Traced : Type[n] # "SINK" =>
               /\ path_cost[n] # HUGE
               /\ \/ path_cost[n] = -HUGE
                  \/ path_cost[n] = 0 /\ prev_node[n] = NoNode
                  \/ Entry(n, 0, NoNode) \in heap
                  \/ pc = "segment" /\ \E k \in tptr .. Last : trace[inet][k] = n

(* The newest segment: it ends with an IPIN and its SINK, and enters no    *)
(* other of either.                                                        *)
SegmentInv ==
    pc = "segment" =>
        \/ trace[inet] = <<>> /\ tptr = 0 /\ remaining = 0
        \/ /\ tptr \in 1 .. Last - 1
           /\ remaining = target_flag[trace[inet][Last]]
           /\ \A k \in tptr .. Last - 1 : Type[trace[inet][k]] = "IPIN" <=> k = Last - 1
           /\ \A k \in tptr .. Last - 1 : Type[trace[inet][k]] # "SINK"

(* As long as a SINK is wanted, the IPINs by which the net entered it are  *)
(* barred, and nothing on the heap reaches it by them or from nowhere.     *)
PinsInv ==
    Open =>
        /\ \A k \in Links(inet) :
               target_flag[trace[inet][k + 1]] > 0 /\ ~(pc = "segment" /\ k = Last - 1) =>
                   /\ path_cost[trace[inet][k]] = -HUGE
                   /\ \A e \in heap : ~(e.index = trace[inet][k + 1] /\ e.prev_node = trace[inet][k])
        /\ \A e \in heap : e.prev_node = NoNode => target_flag[e.index] = 0

(* U are the terminals of the open net that are not connected yet.         *)
Unconnected(U) ==
    /\ U \subseteq 1 .. Len(SinksOf(inet))
    /\ Cardinality(U) = Len(SinksOf(inet)) - (isink - 1)
    /\ \A n \in Nodes : target_flag[n] = Cardinality({k \in U : SinksOf(inet)[k] = n})

FlagsInv ==
    /\ Open => /\ \E U \in SUBSET (1 .. Len(SinksOf(inet))) : Unconnected(U)
               /\ \A n \in OfType("SINK") :
                      Cardinality(InTrace(inet, n)) + target_flag[n] = Connections(inet, n)
    /\ pc \in {"net", "reserve"} => \A n \in Nodes : target_flag[n] = 0

(* The nets routed so far in this call, and the classes that hold OPINs.   *)
Finished(i) ==
    /\ i \notin Global
    /\ itry > 1 \/ i < inet \/ pc = "reserve" \/ verdict \in {"routed", "congested"}
    /\ i = inet => ~Open /\ verdict # "disconnected"

ConnectedInv ==
    \A i \in Nets, n \in OfType("SINK") :
        Finished(i) => Cardinality(InTrace(i, n)) = Connections(i, n)

ReservedInv ==
    \A c \in DOMAIN Classes :
        itry > 1 \/ (pc = "reserve" /\ c < iclass) \/ verdict \in {"routed", "congested"} =>
            \A j, k \in DOMAIN opins[c] : opins[c][j] = opins[c][k] => j = k

FeasibleInv == verdict = "routed" => Feasible
-----------------------------------------------------------------------------
(* Induction, and iteration of a function, as facts about sets and         *)
(* functions.                                                              *)
LEMMA LeastNatural ==
    ASSUME NEW S, S \subseteq Nat, S # {}
    PROVE  \E m \in S : \A k \in S : m <= k
<1> DEFINE R == OpToRel(<, Nat)
<1>1. \A x, y \in Nat : <<x, y>> \in R <=> x < y
  BY DEF OpToRel
<1>2. IsWellFoundedOn(R, Nat)
  BY NatLessThanWellFounded
<1> HIDE DEF R
<1>3. \E x \in S : \A y \in S : ~ (<<y, x>> \in R)
  BY <1>2, WFMin
<1>4. PICK x \in S : \A y \in S : ~ (<<y, x>> \in R)
  BY <1>3
<1>5. \A k \in S : k \in Nat /\ x \in Nat
  OBVIOUS
<1>6. \A k \in S : ~ (k < x)
  BY <1>1, <1>4, <1>5
<1> QED BY <1>5, <1>6

LEMMA NaturalsFromZero ==
    ASSUME NEW S, 0 \in S, \A n \in Nat : n \in S => n + 1 \in S
    PROVE  Nat \subseteq S
<1> SUFFICES ASSUME ~ (Nat \subseteq S) PROVE FALSE
  OBVIOUS
<1> DEFINE T == Nat \ S
<1>1. T # {} /\ T \subseteq Nat
  OBVIOUS
<1>2. PICK m \in T : \A k \in T : m <= k
  <2> HIDE DEF T
  <2> QED BY <1>1, LeastNatural
<1>3. m \in Nat /\ m # 0
  OBVIOUS
<1>4. m - 1 \in Nat /\ m - 1 \in S
  BY <1>2, <1>3
<1> QED BY <1>3, <1>4

(* A walk that takes one step of a function at a time.                     *)
Iterates(f, a, step) == f = CHOOSE g : g = [k \in Nat |-> IF k = 0 THEN a ELSE step[g[k - 1]]]

LEMMA Iteration ==
    ASSUME NEW S, NEW step \in [S -> S], NEW a \in S, NEW f, Iterates(f, a, step)
    PROVE  /\ f \in [Nat -> S] /\ f[0] = a
           /\ \A k \in Nat : f[k + 1] = step[f[k]]
<1> DEFINE Part(n) == {g \in [0 .. n -> S] : g[0] = a /\ \A k \in 1 .. n : g[k] = step[g[k - 1]]}
           Parts == {n \in Nat : Part(n) # {}}
<1>1. \A n \in Nat : Part(n) # {}
  <2>1. 0 \in Parts
    <3>1. [k \in 0 .. 0 |-> a] \in Part(0)
      OBVIOUS
    <3> QED BY <3>1
  <2>2. ASSUME NEW n \in Nat, n \in Parts PROVE n + 1 \in Parts
    <3>1. PICK g : g \in Part(n)
      BY <2>2
    <3> DEFINE h == [k \in 0 .. n + 1 |-> IF k = n + 1 THEN step[g[n]] ELSE g[k]]
    <3>2. n \in 0 .. n /\ g[n] \in S /\ step[g[n]] \in S
      BY <3>1
    <3>3. h \in [0 .. n + 1 -> S]
      BY <3>1, <3>2
    <3>4. h[0] = a
      BY <3>1
    <3>5. ASSUME NEW k \in 1 .. n + 1 PROVE h[k] = step[h[k - 1]]
      <4>1. CASE k = n + 1
        BY <4>1
      <4>2. CASE k # n + 1
        <5>1. k \in 1 .. n /\ k - 1 \in 0 .. n + 1 /\ k - 1 # n + 1
          BY <4>2
        <5>2. g[k] = step[g[k - 1]]
          BY <3>1, <5>1
        <5> QED BY <4>2, <5>1, <5>2
      <4> QED BY <4>1, <4>2
    <3>6. h \in Part(n + 1)
      <4> HIDE DEF h
      <4> QED BY <3>3, <3>4, <3>5
    <3> QED BY <3>6
  <2> HIDE DEF Part
  <2>3. Nat \subseteq Parts
    <3> HIDE DEF Parts
    <3> QED BY <2>1, <2>2, NaturalsFromZero
  <2> QED BY <2>3
<1> DEFINE Same == {k \in Nat : \A m, n \in Nat : \A g \in Part(m), h \in Part(n) :
                                    k <= m /\ k <= n => g[k] = h[k]}
<1>2. \A k, m, n \in Nat : \A g \in Part(m), h \in Part(n) : k <= m /\ k <= n => g[k] = h[k]
  <2>1. 0 \in Same
    OBVIOUS
  <2>2. ASSUME NEW k \in Nat, k \in Same PROVE k + 1 \in Same
    <3>1. ASSUME NEW m \in Nat, NEW n \in Nat, NEW g \in Part(m), NEW h \in Part(n),
                 k + 1 <= m, k + 1 <= n
          PROVE  g[k + 1] = h[k + 1]
      <4>1. g[k] = h[k]
        <5> HIDE DEF Part
        <5> QED BY <2>2, <3>1
      <4>2. k + 1 \in 1 .. m /\ k + 1 \in 1 .. n /\ k + 1 - 1 = k
        BY <3>1
      <4>3. g[k + 1] = step[g[k]] /\ h[k + 1] = step[h[k]]
        BY <4>2
      <4> QED BY <4>1, <4>3
    <3> HIDE DEF Part
    <3> QED BY <3>1
  <2>3. Nat \subseteq Same
    <3> HIDE DEF Same
    <3> QED BY <2>1, <2>2, NaturalsFromZero
  <2> HIDE DEF Part
  <2> QED BY <2>3
<1> DEFINE whole == [n \in Nat |-> (CHOOSE g : g \in Part(n))[n]]
<1>3. \A n \in Nat : (CHOOSE g : g \in Part(n)) \in Part(n)
  <2> HIDE DEF Part
  <2> QED BY <1>1
<1>4. ASSUME NEW n \in Nat, NEW h \in Part(n), NEW k \in 0 .. n PROVE whole[k] = h[k]
  <2>1. k \in Nat /\ k <= k /\ k <= n
    OBVIOUS
  <2> HIDE DEF Part
  <2>2. whole[k] = (CHOOSE g : g \in Part(k))[k]
    BY <2>1
  <2> QED BY <1>2, <1>3, <2>1, <2>2
<1>5. whole[0] = a
  <2>1. PICK h : h \in Part(0)
    BY <1>1
  <2>2. h[0] = a /\ 0 \in 0 .. 0
    BY <2>1
  <2> HIDE DEF whole
  <2> QED BY <1>4, <2>1, <2>2
<1>6. ASSUME NEW n \in Nat PROVE whole[n + 1] = step[whole[n]] /\ whole[n] \in S
  <2>1. PICK h : h \in Part(n + 1)
    BY <1>1
  <2>2. n + 1 \in 1 .. n + 1 /\ n + 1 - 1 = n /\ n \in 0 .. n + 1 /\ n + 1 \in 0 .. n + 1
    OBVIOUS
  <2>3. h[n + 1] = step[h[n]] /\ h[n] \in S
    BY <2>1, <2>2
  <2>4. whole[n + 1] = h[n + 1] /\ whole[n] = h[n]
    <3> HIDE DEF whole, Part
    <3> QED BY <1>4, <2>1, <2>2
  <2> QED BY <2>3, <2>4
<1>7. whole = [k \in Nat |-> IF k = 0 THEN a ELSE step[whole[k - 1]]]
  <2>1. whole = [n \in Nat |-> whole[n]]
    OBVIOUS
  <2> HIDE DEF whole
  <2>2. ASSUME NEW k \in Nat PROVE whole[k] = IF k = 0 THEN a ELSE step[whole[k - 1]]
    <3>1. CASE k = 0
      BY <1>5, <3>1
    <3>2. CASE k # 0
      <4>1. k - 1 \in Nat /\ (k - 1) + 1 = k
        BY <3>2
      <4> QED BY <1>6, <3>2, <4>1
    <3> QED BY <3>1, <3>2
  <2> QED BY <2>1, <2>2
<1> HIDE DEF whole
<1>8. f = [k \in Nat |-> IF k = 0 THEN a ELSE step[f[k - 1]]]
  <2> DEFINE Solves(g) == g = [k \in Nat |-> IF k = 0 THEN a ELSE step[g[k - 1]]]
  <2>1. \E g : Solves(g)
    BY <1>7
  <2>2. f = CHOOSE g : Solves(g)
    BY DEF Iterates
  <2>3. Solves(f)
    <3> HIDE DEF Solves
    <3> QED BY <2>1, <2>2
  <2> QED BY <2>3
<1> DEFINE value(n) == IF n = 0 THEN a ELSE step[f[n - 1]]
<1>13. \A n \in Nat : f[n] = value(n)
  <2>1. f = [n \in Nat |-> value(n)]
    BY <1>8
  <2> HIDE DEF value
  <2> QED BY <2>1
<1>9. f[0] = a
  BY <1>13
<1>10. ASSUME NEW k \in Nat PROVE f[k + 1] = step[f[k]]
  <2>1. k + 1 \in Nat /\ k + 1 # 0 /\ k + 1 - 1 = k
    OBVIOUS
  <2> QED BY <1>13, <2>1
<1>11. \A k \in Nat : f[k] \in S
  <2> DEFINE Good == {k \in Nat : f[k] \in S}
  <2>1. 0 \in Good
    BY <1>9
  <2>2. \A k \in Nat : k \in Good => k + 1 \in Good
    BY <1>10
  <2>3. Nat \subseteq Good
    <3> HIDE DEF Good
    <3> QED BY <2>1, <2>2, NaturalsFromZero
  <2> QED BY <2>3
<1>12. f \in [Nat -> S]
  BY <1>8, <1>11
<1> QED BY <1>9, <1>10, <1>12

-----------------------------------------------------------------------------
LEMMA EdgeFacts ==
    ASSUME TypeOK, Shapes
    PROVE  \A m, n \in Nodes : <<m, n>> \in edges =>
               /\ Type[m] # "SINK" /\ Type[n] # "SOURCE"
               /\ Type[m] = "IPIN" <=> Type[n] = "SINK"
               /\ Type[m] = "IPIN" => \A x \in Nodes : <<m, x>> \in edges => x = n
<1>1. edges \in Graphs
  BY DEF Shapes
<1>2. /\ edges \subseteq (Nodes \ OfType("SINK")) \X (Nodes \ OfType("SOURCE"))
      /\ \A m, n \in Nodes : <<m, n>> \in edges =>
             /\ Type[m] = "IPIN" <=> Type[n] = "SINK"
             /\ Type[m] = "IPIN" => \A x \in Nodes : <<m, x>> \in edges => x = n
  BY <1>1, GraphAssumption
<1>3. \A m, n \in Nodes : <<m, n>> \in edges =>
          m \in Nodes \ OfType("SINK") /\ n \in Nodes \ OfType("SOURCE")
  BY <1>2
<1>4. \A n \in Nodes : /\ Type[n] = "SINK" => n \in OfType("SINK")
                       /\ Type[n] = "SOURCE" => n \in OfType("SOURCE")
  BY DEF OfType
<1> QED BY <1>2, <1>3, <1>4

LEMMA NodesOfEdges ==
    ASSUME TypeOK, NEW m, NEW n, <<m, n>> \in edges
    PROVE  m \in Nodes /\ n \in Nodes
<1>1. edges \subseteq Nodes \X Nodes
  BY DEF TypeOK
<1> QED BY <1>1

LEMMA HeapElements ==
    ASSUME TypeOK, NEW e \in heap
    PROVE  /\ e.index \in Nodes /\ e.cost \in Nat /\ e.prev_node \in Nodes \cup {NoNode}
           /\ e = Entry(e.index, e.cost, e.prev_node)
<1>1. e \in [index : Nodes, cost : Nat, prev_node : Nodes \cup {NoNode}]
  BY DEF TypeOK
<1> QED BY <1>1 DEF Entry

LEMMA PathCostFacts ==
    ASSUME TypeOK, NEW n \in Nodes
    PROVE  /\ path_cost[n] \in Int /\ HUGE \in Nat /\ HUGE > 0 /\ -HUGE \notin Nat /\ -HUGE \in Int
           /\ path_cost[n] # -HUGE => path_cost[n] \in Nat
<1>1. path_cost[n] \in Nat \cup {-HUGE}
  BY DEF TypeOK
<1>2. HUGE \in Nat /\ HUGE > 0
  BY CostsAssumption
<1>3. -HUGE \in Int /\ -HUGE < 0
  BY <1>2
<1> QED BY <1>1, <1>2, <1>3

(* A node that has a path.                                                 *)
OnWave(n) == n \in Nodes /\ Type[n] # "SINK" /\ path_cost[n] \notin {HUGE, -HUGE}

(* Where the walk back from a SINK's element goes.                         *)
LEMMA WalkBack ==
    ASSUME TypeOK, Shapes, WaveInv, WiringInv, Open, NEW e \in heap,
           Type[e.index] = "SINK", e.prev_node # NoNode, path_cost[e.prev_node] # -HUGE
    PROVE  /\ Up(e) \in [Nat -> Nodes \cup {NoNode}]
           /\ Up(e)[0] = e.index /\ Up(e)[1] = e.prev_node
           /\ \A k \in Nat : Up(e)[k] = NoNode => Up(e)[k + 1] = NoNode
           /\ \A k \in Nat \ {0} : Up(e)[k] # NoNode =>
                  /\ OnWave(Up(e)[k]) /\ Up(e)[k + 1] = prev_node[Up(e)[k]]
                  /\ Up(e)[k + 1] # NoNode => path_cost[Up(e)[k + 1]] < path_cost[Up(e)[k]]
<1> DEFINE up == Up(e)
           S == Nodes \cup {NoNode}
<1>1. e.index \in Nodes /\ e.cost \in Nat /\ e.prev_node \in Nodes
  BY HeapElements
<1>2. prev_node \in [Nodes -> S]
  BY DEF TypeOK
<1>3. Pred(e) \in [S -> S]
  BY <1>1, <1>2 DEF Pred
<1>4. Iterates(up, e.index, Pred(e))
  BY DEF Up, Iterates
<1> HIDE DEF up
<1>5. /\ up \in [Nat -> S] /\ up[0] = e.index
      /\ \A k \in Nat : up[k + 1] = Pred(e)[up[k]]
  <2>1. e.index \in S
    BY <1>1
  <2> HIDE DEF S
  <2> QED BY <1>3, <1>4, <2>1, Iteration
<1>6. /\ Pred(e)[NoNode] = NoNode /\ Pred(e)[e.index] = e.prev_node
      /\ \A n \in Nodes : n # e.index => Pred(e)[n] = prev_node[n]
  BY <1>1, GraphAssumption DEF Pred
<1>7. up[1] = e.prev_node
  <2>1. up[0 + 1] = Pred(e)[up[0]]
    BY <1>5
  <2> QED BY <1>5, <1>6, <2>1
<1>8. \A k \in Nat : up[k] = NoNode => up[k + 1] = NoNode
  BY <1>5, <1>6
<1>9. ASSUME NEW n, OnWave(n), prev_node[n] # NoNode
      PROVE  OnWave(prev_node[n]) /\ path_cost[prev_node[n]] < path_cost[n]
  <2>1. Path(n, path_cost[n], prev_node[n])
    BY <1>9 DEF WaveInv, OnWave
  <2>2. n \in Nodes /\ Type[n] # "SINK" /\ prev_node[n] \in Nodes
    BY <1>2, <1>9 DEF OnWave
  <2>3. <<prev_node[n], n>> \in edges /\ path_cost[prev_node[n]] # HUGE
        /\ path_cost[prev_node[n]] < path_cost[n]
    BY <1>9, <2>1, <2>2 DEF Path
  <2>4. Type[prev_node[n]] # "SINK" /\ Type[prev_node[n]] # "IPIN"
    BY <2>2, <2>3, EdgeFacts
  <2>5. path_cost[prev_node[n]] # -HUGE
    BY <2>2, <2>4 DEF WiringInv
  <2> QED BY <2>2, <2>3, <2>4, <2>5 DEF OnWave
<1>10. OnWave(e.prev_node)
  <2>1. Path(e.index, e.cost, e.prev_node)
    BY DEF WaveInv
  <2>2. <<e.prev_node, e.index>> \in edges /\ path_cost[e.prev_node] # HUGE
    BY <2>1 DEF Path
  <2>3. Type[e.prev_node] # "SINK"
    BY <1>1, <2>2, EdgeFacts
  <2> QED BY <1>1, <2>2, <2>3 DEF OnWave
<1>11. ASSUME NEW k \in Nat, OnWave(up[k]) PROVE up[k + 1] = prev_node[up[k]]
  BY <1>5, <1>6, <1>11 DEF OnWave
<1> DEFINE Sound == {k \in Nat : k = 0 \/ up[k] = NoNode \/ OnWave(up[k])}
<1>12. Nat \subseteq Sound
  <2>1. 0 \in Sound
    OBVIOUS
  <2>2. ASSUME NEW k \in Nat, k \in Sound PROVE k + 1 \in Sound
    <3>1. k + 1 \in Nat
      OBVIOUS
    <3>2. CASE k = 0
      BY <1>7, <1>10, <3>2
    <3>3. CASE up[k] = NoNode
      BY <1>8, <3>3
    <3>4. CASE OnWave(up[k])
      <4>1. up[k + 1] = prev_node[up[k]]
        BY <1>11, <3>4
      <4>2. CASE prev_node[up[k]] = NoNode
        BY <3>1, <4>1, <4>2
      <4>3. CASE prev_node[up[k]] # NoNode
        <5>1. OnWave(up[k + 1])
          BY <1>9, <3>4, <4>1, <4>3
        <5> QED BY <3>1, <5>1
      <4> QED BY <4>2, <4>3
    <3> QED BY <2>2, <3>2, <3>3, <3>4
  <2> HIDE DEF Sound
  <2> QED BY <2>1, <2>2, NaturalsFromZero
<1>13. ASSUME NEW k \in Nat \ {0}, up[k] # NoNode
       PROVE  /\ OnWave(up[k]) /\ up[k + 1] = prev_node[up[k]]
              /\ up[k + 1] # NoNode => path_cost[up[k + 1]] < path_cost[up[k]]
  <2>1. OnWave(up[k])
    BY <1>12, <1>13
  <2>2. up[k + 1] = prev_node[up[k]]
    BY <1>11, <2>1
  <2> QED BY <1>9, <2>1, <2>2
<1>14. up \in [Nat -> Nodes \cup {NoNode}]
  BY <1>5
<1> QED BY <1>5, <1>7, <1>8, <1>13, <1>14 DEF up

(* The traceback: from a node without a predecessor, each node the         *)
(* predecessor of the next and cheaper, to the SINK.                       *)
IsTraceback(q, L, e) ==
    /\ L \in Nat /\ L >= 2 /\ q \in [1 .. L -> Nodes]
    /\ q[L] = e.index /\ q[L - 1] = e.prev_node
    /\ \A k \in 1 .. L - 1 : OnWave(q[k]) /\ prev_node[q[k]] = IF k = 1 THEN NoNode ELSE q[k - 1]
    /\ \A j, k \in 1 .. L - 1 : j < k => path_cost[q[j]] < path_cost[q[k]]

LEMMA Traceback ==
    ASSUME TypeOK, Shapes, WaveInv, WiringInv, Open, NEW e \in heap,
           Type[e.index] = "SINK", e.prev_node # NoNode, path_cost[e.prev_node] # -HUGE
    PROVE  \E L \in Nat : IsTraceback(BackTrace(e), L, e)
<1> DEFINE up == Up(e)
           N == Cardinality(Nodes)
<1> HIDE DEF up
<1>1. /\ up \in [Nat -> Nodes \cup {NoNode}]
      /\ up[0] = e.index /\ up[1] = e.prev_node
      /\ \A k \in Nat : up[k] = NoNode => up[k + 1] = NoNode
      /\ \A k \in Nat \ {0} : up[k] # NoNode =>
             /\ OnWave(up[k]) /\ up[k + 1] = prev_node[up[k]]
             /\ up[k + 1] # NoNode => path_cost[up[k + 1]] < path_cost[up[k]]
  BY WalkBack DEF up
<1>2. e.index \in Nodes /\ e.prev_node \in Nodes /\ NoNode \notin Nodes
  BY HeapElements, GraphAssumption
<1>3. N \in Nat /\ IsFiniteSet(Nodes)
  BY GraphAssumption, FS_CardinalityType
<1>4. \A n \in Nodes : path_cost[n] \in Int
  BY PathCostFacts
<1> DEFINE Down(j) == {k \in Nat : j < k /\ up[k] # NoNode
      => up[j] # NoNode /\ path_cost[up[k]] < path_cost[up[j]]}
<1>5. ASSUME NEW j \in Nat \ {0} PROVE Nat \subseteq Down(j)
  <2>1. 0 \in Down(j)
    OBVIOUS
  <2>2. ASSUME NEW k \in Nat, k \in Down(j) PROVE k + 1 \in Down(j)
    <3> SUFFICES ASSUME j < k + 1, up[k + 1] # NoNode
                 PROVE  up[j] # NoNode /\ path_cost[up[k + 1]] < path_cost[up[j]]
      OBVIOUS
    <3>1. up[k] # NoNode /\ k \in Nat \ {0}
      BY <1>1
    <3>2. path_cost[up[k + 1]] < path_cost[up[k]]
      BY <1>1, <3>1
    <3>3. CASE j = k
      BY <3>1, <3>2, <3>3
    <3>4. CASE j < k
      <4>1. up[j] # NoNode /\ path_cost[up[k]] < path_cost[up[j]]
        BY <2>2, <3>1, <3>4
      <4>2. up[j] \in Nodes /\ up[k] \in Nodes /\ up[k + 1] \in Nodes
        BY <1>1, <3>1, <4>1
      <4> QED BY <1>4, <3>2, <4>1, <4>2
    <3> QED BY <3>3, <3>4
  <2> HIDE DEF Down
  <2> QED BY <2>1, <2>2, NaturalsFromZero
<1>6. \A j \in Nat \ {0}, k \in Nat :
          j < k /\ up[k] # NoNode => up[j] # NoNode /\ path_cost[up[k]] < path_cost[up[j]]
  BY <1>5
<1> DEFINE Ends == {k \in 0 .. N : up[k] = NoNode}
<1>7. Ends # {}
  <2> SUFFICES ASSUME Ends = {} PROVE FALSE
    OBVIOUS
  <2>1. \A k \in 0 .. N : up[k] \in Nodes
    BY <1>1
  <2> DEFINE f == [k \in 0 .. N |-> up[k]]
  <2>2. f \in [0 .. N -> Nodes]
    BY <2>1
  <2>3. IsFiniteSet(0 .. N) /\ Cardinality(0 .. N) = N + 1
    BY <1>3, FS_Interval
  <2>4. N < Cardinality(0 .. N)
    BY <1>3, <2>3
  <2> HIDE DEF f
  <2>5. PICK x \in 0 .. N, y \in 0 .. N : x # y /\ f[x] = f[y]
    BY <1>3, <2>2, <2>3, <2>4, FS_PigeonHole
  <2>6. up[x] = up[y] /\ x \in Nat /\ y \in Nat
    BY <1>3, <2>5 DEF f
  <2>7. ASSUME NEW j \in 0 .. N, NEW k \in 0 .. N, j < k PROVE up[j] # up[k]
    <3>0. j \in Nat /\ k \in Nat /\ k # 0 /\ up[j] \in Nodes /\ up[k] \in Nodes
      BY <1>3, <2>1, <2>7
    <3>1. CASE j = 0
      <4>1. Type[up[k]] # "SINK"
        BY <1>1, <1>2, <3>0 DEF OnWave
      <4> QED BY <1>1, <3>1, <4>1
    <3>2. CASE j # 0
      <4>1. path_cost[up[k]] < path_cost[up[j]]
        BY <1>2, <1>6, <2>7, <3>0, <3>2
      <4> QED BY <1>4, <3>0, <4>1
    <3> QED BY <3>1, <3>2
  <2>8. x < y \/ y < x
    BY <2>5, <2>6
  <2> QED BY <2>5, <2>6, <2>7, <2>8
<1>8. PICK L \in Ends : \A k \in Ends : L <= k
  <2>1. Ends \subseteq Nat
    BY <1>3
  <2> HIDE DEF Ends
  <2> QED BY <1>7, <2>1, LeastNatural
<1>9. L \in Nat /\ L <= N /\ up[L] = NoNode /\ \A k \in 0 .. N : k < L => up[k] # NoNode
  <2>1. L \in 0 .. N /\ up[L] = NoNode
    BY <1>8
  <2>2. \A k \in 0 .. N : k < L => k \notin Ends
    BY <1>3, <1>8, <2>1
  <2> QED BY <1>3, <2>1, <2>2
<1>10. L >= 2
  BY <1>1, <1>2, <1>9
<1> DEFINE Over == {k \in Nat : k >= L => up[k] = NoNode}
<1>11. Nat \subseteq Over
  <2>1. 0 \in Over
    BY <1>10
  <2>2. ASSUME NEW k \in Nat, k \in Over PROVE k + 1 \in Over
    <3>1. CASE k + 1 = L
      BY <1>9, <3>1
    <3>2. CASE k + 1 # L
      BY <1>1, <1>9, <2>2, <3>2
    <3> QED BY <3>1, <3>2
  <2> HIDE DEF Over
  <2> QED BY <2>1, <2>2, NaturalsFromZero
<1>12. {k \in 0 .. N : up[k] # NoNode} = 0 .. L - 1
  BY <1>3, <1>9, <1>11
<1>13. Cardinality(0 .. L - 1) = L
  BY <1>9, <1>10, FS_Interval
<1> DEFINE q == [k \in 1 .. L |-> up[L - k]]
<1>14. BackTrace(e) = q
  BY <1>12, <1>13 DEF BackTrace, up
<1>15. ASSUME NEW k \in 1 .. L PROVE q[k] = up[L - k] /\ L - k \in 0 .. N /\ L - k \in Nat /\ q[k] \in Nodes
  <2>1. L - k \in 0 .. N /\ L - k \in Nat /\ L - k < L
    BY <1>3, <1>9
  <2>2. up[L - k] # NoNode
    BY <1>9, <2>1
  <2> QED BY <1>1, <2>1, <2>2
<1> HIDE DEF q
<1>16. q \in [1 .. L -> Nodes]
  BY <1>15 DEF q
<1>17. q[L] = e.index /\ q[L - 1] = e.prev_node
  <2>1. L \in 1 .. L /\ L - 1 \in 1 .. L /\ L - L = 0 /\ L - (L - 1) = 1
    BY <1>9, <1>10
  <2>2. q[L] = up[0] /\ q[L - 1] = up[1]
    BY <1>15, <2>1
  <2> QED BY <1>1, <2>2
<1>18. ASSUME NEW k \in 1 .. L - 1
       PROVE  OnWave(q[k]) /\ prev_node[q[k]] = IF k = 1 THEN NoNode ELSE q[k - 1]
  <2>1. k \in 1 .. L /\ L - k \in Nat \ {0}
    BY <1>9
  <2>2. q[k] = up[L - k] /\ q[k] # NoNode
    BY <1>2, <1>15, <2>1
  <2>3. OnWave(q[k]) /\ prev_node[q[k]] = up[(L - k) + 1]
    BY <1>1, <2>1, <2>2
  <2>4. CASE k = 1
    <3>1. (L - k) + 1 = L
      BY <1>9, <2>4
    <3> QED BY <1>9, <2>3, <2>4, <3>1
  <2>5. CASE k # 1
    <3>1. k - 1 \in 1 .. L /\ L - (k - 1) = (L - k) + 1
      BY <1>9, <2>5
    <3>2. q[k - 1] = up[(L - k) + 1]
      BY <1>15, <3>1
    <3> QED BY <2>3, <2>5, <3>2
  <2> QED BY <2>4, <2>5
<1>19. ASSUME NEW j \in 1 .. L - 1, NEW k \in 1 .. L - 1, j < k PROVE path_cost[q[j]] < path_cost[q[k]]
  <2>1. j \in 1 .. L /\ k \in 1 .. L /\ L - j \in Nat /\ L - k \in Nat \ {0} /\ L - k < L - j
    BY <1>9, <1>19
  <2>2. q[j] = up[L - j] /\ q[k] = up[L - k] /\ q[j] # NoNode
    BY <1>2, <1>15, <2>1
  <2> QED BY <1>6, <2>1, <2>2
<1>20. IsTraceback(q, L, e)
  BY <1>9, <1>10, <1>16, <1>17, <1>18, <1>19 DEF IsTraceback
<1> QED BY <1>9, <1>14, <1>20

-----------------------------------------------------------------------------
(* The net being routed, and its trace.                                    *)
LEMMA NetFacts ==
    ASSUME TypeOK, Shapes, NEW i \in Nets
    PROVE  /\ i \in Nat \ {0} /\ trace[i] \in Seq(Nodes) /\ Len(trace[i]) \in Nat
           /\ DOMAIN trace[i] = 1 .. Len(trace[i])
           /\ \A k \in DOMAIN trace[i] : trace[i][k] \in Nodes
           /\ Terminals[i][1] \in Nodes /\ Type[Terminals[i][1]] = "SOURCE"
           /\ SinksOf(i) \in Seq(OfType("SINK")) /\ Len(SinksOf(i)) \in Nat
           /\ DOMAIN SinksOf(i) = 1 .. Len(SinksOf(i))
<1>1. Terminals \in Seq(Seq(Nodes)) /\ Nets = 1 .. Len(Terminals) /\ Len(Terminals) \in Nat
  BY NetsAssumption, LenProperties DEF Nets
<1>2. i \in Nat \ {0} /\ Terminals[i] \in Seq(Nodes)
  BY <1>1, ElementOfSeq
<1>3. trace[i] \in Seq(Nodes)
  BY DEF Shapes
<1>4. Len(trace[i]) \in Nat /\ DOMAIN trace[i] = 1 .. Len(trace[i])
  BY <1>3, LenProperties
<1>5. \A k \in DOMAIN trace[i] : trace[i][k] \in Nodes
  BY <1>3, <1>4, ElementOfSeq
<1>6. Terminals[i] # <<>> /\ Type[Terminals[i][1]] = "SOURCE" /\ SinksOf(i) \in Seq(OfType("SINK"))
  BY NetsAssumption
<1>7. Terminals[i][1] \in Nodes
  <2>1. Len(Terminals[i]) \in Nat /\ Len(Terminals[i]) # 0
    BY <1>2, <1>6, LenProperties, EmptySeq
  <2>2. 1 \in 1 .. Len(Terminals[i])
    BY <2>1
  <2> QED BY <1>2, <2>2, ElementOfSeq
<1>8. Len(SinksOf(i)) \in Nat /\ DOMAIN SinksOf(i) = 1 .. Len(SinksOf(i))
  BY <1>6, LenProperties
<1> QED BY <1>2, <1>3, <1>4, <1>5, <1>6, <1>7, <1>8

LEMMA WantedIsSink ==
    ASSUME TypeOK, Shapes, ControlInv, FlagsInv, Open, NEW n \in Nodes, target_flag[n] > 0
    PROVE  Type[n] = "SINK"
<1>1. inet \in Nets
  BY DEF ControlInv
<1>2. PICK U \in SUBSET (1 .. Len(SinksOf(inet))) : Unconnected(U)
  BY DEF FlagsInv
<1> DEFINE W == {k \in U : SinksOf(inet)[k] = n}
<1>3. target_flag[n] = Cardinality(W)
  BY <1>2 DEF Unconnected
<1>4. W # {}
  <2>1. Cardinality(W) # 0
    BY <1>3
  <2>2. Cardinality({}) = 0
    BY FS_EmptySet
  <2> HIDE DEF W
  <2> QED BY <2>1, <2>2
<1>5. PICK k \in U : SinksOf(inet)[k] = n
  BY <1>4
<1>6. SinksOf(inet) \in Seq(OfType("SINK")) /\ k \in 1 .. Len(SinksOf(inet))
  BY <1>1, NetFacts
<1>7. SinksOf(inet)[k] \in OfType("SINK")
  BY <1>6, ElementOfSeq
<1> QED BY <1>5, <1>7 DEF OfType

(* The links of a tree: the IPIN that enters a SINK.                       *)
LEMMA LinkFacts ==
    ASSUME TypeOK, Shapes, TraceInv, NEW i \in Nets, NEW k \in DOMAIN trace[i], Type[trace[i][k]] # "SINK"
    PROVE  /\ k \in Links(i) /\ k + 1 \in DOMAIN trace[i]
           /\ <<trace[i][k], trace[i][k + 1]>> \in edges
           /\ Type[trace[i][k]] = "IPIN" <=> Type[trace[i][k + 1]] = "SINK"
<1>1. trace[i] # <<>> /\ DOMAIN trace[i] = 1 .. Len(trace[i]) /\ Len(trace[i]) \in Nat
  BY NetFacts
<1>2. k # Len(trace[i])
  BY <1>1 DEF TraceInv
<1>3. k \in Links(i) /\ k + 1 \in DOMAIN trace[i]
  BY <1>1, <1>2 DEF Links
<1>4. <<trace[i][k], trace[i][k + 1]>> \in edges
  BY <1>1, <1>3 DEF TraceInv, TracesAreTrees
<1>5. trace[i][k] \in Nodes /\ trace[i][k + 1] \in Nodes
  BY <1>3, NetFacts
<1> QED BY <1>3, <1>4, <1>5, EdgeFacts

(* The SINK that is connected next is reached by an IPIN the net has not   *)
(* used, at some cost, when all its wiring costs nothing.                  *)
LEMMA WantedByOtherPin ==
    ASSUME TypeOK, Shapes, ControlInv, TraceInv, WaveInv, WiringInv, PinsInv, FlagsInv,
           pc = "wave", NEW e \in Cheapest, target_flag[e.index] > 0
    PROVE  /\ e \in heap /\ e.index \in Nodes /\ Type[e.index] = "SINK"
           /\ e.prev_node \in Nodes \ Traced /\ Type[e.prev_node] = "IPIN"
           /\ <<e.prev_node, e.index>> \in edges
           /\ path_cost[e.prev_node] # -HUGE
           /\ \A n \in Traced : Type[n] # "SINK" =>
                  path_cost[n] = -HUGE \/ (path_cost[n] = 0 /\ prev_node[n] = NoNode)
<1>1. Open /\ inet \in Nets
  BY DEF Open, ControlInv
<1>2. e \in heap /\ \A f \in heap : e.cost <= f.cost
  BY DEF Cheapest
<1>3. e.index \in Nodes /\ e.cost \in Nat /\ e.prev_node \in Nodes \cup {NoNode}
  BY <1>2, HeapElements
<1>4. Type[e.index] = "SINK"
  BY <1>1, <1>3, WantedIsSink
<1>5. e.prev_node # NoNode /\ e.prev_node \in Nodes
  <2>1. e.prev_node # NoNode
    BY <1>1, <1>2 DEF PinsInv
  <2> QED BY <1>3, <2>1
<1> DEFINE p == e.prev_node
<1>6. <<p, e.index>> \in edges /\ path_cost[p] # HUGE /\ path_cost[p] <= e.cost
  <2>1. Path(e.index, e.cost, p)
    BY <1>1, <1>2 DEF WaveInv
  <2> QED BY <1>5, <2>1 DEF Path
<1>7. Type[p] = "IPIN"
  BY <1>3, <1>4, <1>5, <1>6, EdgeFacts
<1>8. p \notin Traced
  <2> SUFFICES ASSUME p \in Traced PROVE FALSE
    OBVIOUS
  <2>1. PICK k \in DOMAIN trace[inet] : trace[inet][k] = p
    BY DEF Traced
  <2>2. /\ k \in Links(inet) /\ k + 1 \in DOMAIN trace[inet]
        /\ <<p, trace[inet][k + 1]>> \in edges
    <3>1. Type[trace[inet][k]] # "SINK"
      BY <1>7, <2>1
    <3> QED BY <1>1, <2>1, <3>1, LinkFacts
  <2>3. trace[inet][k + 1] \in Nodes
    BY <1>1, <2>2, NetFacts
  <2>4. trace[inet][k + 1] = e.index
    BY <1>3, <1>5, <1>6, <1>7, <2>2, <2>3, EdgeFacts
  <2> QED BY <1>1, <1>2, <2>1, <2>2, <2>4 DEF PinsInv
<1>9. path_cost[p] # -HUGE
  BY <1>1, <1>5, <1>8 DEF WiringInv
<1>10. e.cost > 0
  <2>1. path_cost[p] \in Nat
    BY <1>5, <1>9, PathCostFacts
  <2>2. Path(p, path_cost[p], prev_node[p])
    BY <1>1, <1>5, <1>6, <1>9 DEF WaveInv
  <2>3. prev_node[p] # NoNode
    <3> SUFFICES ASSUME prev_node[p] = NoNode PROVE FALSE
      OBVIOUS
    <3>1. p \in Traced \cup {Source}
      BY <2>2 DEF Path
    <3>2. Type[Source] = "SOURCE"
      BY <1>1, NetFacts DEF Source
    <3> QED BY <1>7, <1>8, <3>1, <3>2
  <2>4. prev_node[p] \in Nodes
    BY <1>5, <2>3 DEF TypeOK
  <2>5. <<prev_node[p], p>> \in edges /\ path_cost[prev_node[p]] < path_cost[p]
    BY <1>7, <2>2, <2>3 DEF Path
  <2>6. Type[prev_node[p]] # "IPIN"
    BY <1>5, <1>7, <2>4, <2>5, EdgeFacts
  <2>7. path_cost[prev_node[p]] \in Nat
    <3>1. path_cost[prev_node[p]] # -HUGE
      BY <1>1, <2>4, <2>6 DEF WiringInv
    <3> QED BY <2>4, <3>1, PathCostFacts
  <2> QED BY <1>3, <1>6, <2>1, <2>5, <2>7
<1>11. ASSUME NEW n \in Traced, Type[n] # "SINK"
       PROVE  path_cost[n] = -HUGE \/ (path_cost[n] = 0 /\ prev_node[n] = NoNode)
  <2>1. Entry(n, 0, NoNode) \notin heap
    <3>1. Entry(n, 0, NoNode).cost = 0
      BY DEF Entry
    <3> QED BY <1>2, <1>3, <1>10, <3>1
  <2> QED BY <1>1, <1>11, <2>1 DEF WiringInv
<1> QED BY <1>2, <1>3, <1>4, <1>5, <1>6, <1>7, <1>8, <1>9, <1>11

(* The traceback leaves the tree once, at its first node.                  *)
LEMMA BranchFacts ==
    ASSUME TypeOK, Shapes, ControlInv, TraceInv, WaveInv, WiringInv, PinsInv, FlagsInv,
           pc = "wave", NEW e \in Cheapest, target_flag[e.index] > 0,
           NEW q, NEW L \in Nat, IsTraceback(q, L, e)
    PROVE  /\ L >= 2 /\ q \in [1 .. L -> Nodes] /\ q[L] = e.index /\ Type[q[L]] = "SINK"
           /\ q[1] \in Traced \cup {Source}
           /\ trace[inet] = <<>> => q[1] = Source
           /\ \A k \in 1 .. L - 1 : /\ Type[q[k]] # "SINK" /\ path_cost[q[k]] # HUGE
                                    /\ <<q[k], q[k + 1]>> \in edges
                                    /\ Type[q[k]] = "IPIN" <=> k = L - 1
           /\ \A k \in 2 .. L : k = L \/ (q[k] \notin Traced /\ q[k] # Source)
           /\ q[L - 1] \notin Traced
           /\ \A j, k \in 1 .. L - 1 : q[j] = q[k] => j = k
<1>1. Open /\ inet \in Nets
  BY DEF Open, ControlInv
<1>2. /\ e \in heap /\ e.index \in Nodes /\ Type[e.index] = "SINK"
      /\ e.prev_node \in Nodes \ Traced /\ Type[e.prev_node] = "IPIN"
      /\ <<e.prev_node, e.index>> \in edges
      /\ path_cost[e.prev_node] # -HUGE
      /\ \A n \in Traced : Type[n] # "SINK" =>
             path_cost[n] = -HUGE \/ (path_cost[n] = 0 /\ prev_node[n] = NoNode)
  BY WantedByOtherPin
<1>3. /\ L \in Nat /\ L >= 2 /\ q \in [1 .. L -> Nodes]
      /\ q[L] = e.index /\ q[L - 1] = e.prev_node
      /\ \A k \in 1 .. L - 1 : OnWave(q[k]) /\ prev_node[q[k]] = IF k = 1 THEN NoNode ELSE q[k - 1]
      /\ \A j, k \in 1 .. L - 1 : j < k => path_cost[q[j]] < path_cost[q[k]]
  BY DEF IsTraceback
<1>4. NoNode \notin Nodes /\ \A k \in 1 .. L : q[k] \in Nodes
  BY <1>3, GraphAssumption
<1>5. ASSUME NEW k \in 1 .. L - 1
      PROVE  /\ Type[q[k]] # "SINK" /\ path_cost[q[k]] # HUGE /\ path_cost[q[k]] \in Nat
             /\ Path(q[k], path_cost[q[k]], prev_node[q[k]])
  <2>1. OnWave(q[k])
    BY <1>3
  <2>2. Type[q[k]] # "SINK" /\ path_cost[q[k]] \notin {HUGE, -HUGE} /\ q[k] \in Nodes
    BY <2>1 DEF OnWave
  <2>3. path_cost[q[k]] \in Nat
    BY <2>2, PathCostFacts
  <2>4. Path(q[k], path_cost[q[k]], prev_node[q[k]])
    BY <1>1, <2>2 DEF WaveInv
  <2> QED BY <2>2, <2>3, <2>4
<1>6. q[1] \in Traced \cup {Source}
  <2>1. 1 \in 1 .. L - 1
    BY <1>3
  <2>2. prev_node[q[1]] = NoNode
    BY <1>3, <2>1
  <2>3. Path(q[1], path_cost[q[1]], NoNode)
    BY <1>5, <2>1, <2>2
  <2> QED BY <2>3 DEF Path
<1>7. trace[inet] = <<>> => q[1] = Source
  <2>1. trace[inet] = <<>> => Traced = {}
    BY DEF Traced
  <2> QED BY <1>6, <2>1
<1>8. ASSUME NEW k \in 1 .. L - 1 PROVE <<q[k], q[k + 1]>> \in edges
  <2>1. CASE k = L - 1
    <3>1. k + 1 = L
      BY <1>3, <2>1
    <3> QED BY <1>2, <1>3, <2>1, <3>1
  <2>2. CASE k # L - 1
    <3>1. k + 1 \in 1 .. L - 1 /\ k + 1 # 1 /\ (k + 1) - 1 = k /\ k \in 1 .. L
      BY <1>3, <2>2
    <3>2. prev_node[q[k + 1]] = q[k]
      BY <1>3, <3>1
    <3>3. Path(q[k + 1], path_cost[q[k + 1]], q[k]) /\ q[k] # NoNode
      BY <1>4, <1>5, <3>1, <3>2
    <3> QED BY <3>3 DEF Path
  <2> QED BY <2>1, <2>2
<1>9. ASSUME NEW k \in 1 .. L - 1 PROVE Type[q[k]] = "IPIN" <=> k = L - 1
  <2>1. k \in 1 .. L /\ k + 1 \in 1 .. L
    BY <1>3
  <2>2. Type[q[k]] = "IPIN" <=> Type[q[k + 1]] = "SINK"
    BY <1>4, <1>8, <2>1, EdgeFacts
  <2>3. CASE k = L - 1
    BY <1>2, <1>3, <2>3
  <2>4. CASE k # L - 1
    <3>1. k + 1 \in 1 .. L - 1
      BY <1>3, <2>4
    <3> QED BY <1>5, <2>2, <2>4, <3>1
  <2> QED BY <2>3, <2>4
<1>10. ASSUME NEW j \in 1 .. L - 1, NEW k \in 1 .. L - 1, q[j] = q[k] PROVE j = k
  <2>1. path_cost[q[j]] \in Nat
    BY <1>5
  <2>2. ~(j < k) /\ ~(k < j)
    BY <1>3, <1>10, <2>1
  <2> QED BY <2>2
<1>11. ASSUME NEW k \in 2 .. L, k # L PROVE q[k] \notin Traced /\ q[k] # Source
  <2>1. k \in 1 .. L - 1 /\ 1 \in 1 .. L - 1 /\ 1 < k /\ k - 1 \in 1 .. L
    BY <1>3, <1>11
  <2>2. path_cost[q[1]] < path_cost[q[k]] /\ path_cost[q[1]] \in Nat /\ path_cost[q[k]] \in Nat
    BY <1>3, <1>5, <2>1
  <2>3. path_cost[q[k]] # 0 /\ path_cost[q[k]] # -HUGE
    <3>1. q[k] \in Nodes
      BY <1>4
    <3> QED BY <2>2, <3>1, PathCostFacts
  <2>4. q[k] \notin Traced
    BY <1>2, <1>5, <2>1, <2>3
  <2>5. q[k] # Source
    <3>1. <<q[k - 1], q[k]>> \in edges
      <4>1. k - 1 \in 1 .. L - 1 /\ (k - 1) + 1 = k
        BY <1>3, <1>11
      <4> QED BY <1>8, <4>1
    <3>2. Type[q[k]] # "SOURCE"
      BY <1>4, <2>1, <3>1, EdgeFacts
    <3>3. Type[Source] = "SOURCE"
      BY <1>1, NetFacts DEF Source
    <3> QED BY <3>2, <3>3
  <2> QED BY <2>4, <2>5
<1>12. Type[q[L]] = "SINK" /\ q[L - 1] \notin Traced
  BY <1>2, <1>3
<1> QED BY <1>3, <1>5, <1>6, <1>7, <1>8, <1>9, <1>10, <1>11, <1>12

-----------------------------------------------------------------------------
(* What Connect does to the trace: q, L long, joins the trace of the net.  *)
Joining(e, q, L) ==
    /\ e \in heap /\ e.index \in Nodes /\ target_flag[e.index] > 0 /\ L \in Nat /\ L >= 2
    /\ \A k \in 1 .. L : q[k] \in Nodes
    /\ q[L] = e.index /\ Type[q[L]] = "SINK" /\ q[L - 1] = e.prev_node
    /\ q[1] \in Traced \cup {Source}
    /\ trace[inet] = <<>> => q[1] = Source
    /\ \A k \in 1 .. L - 1 : /\ Type[q[k]] # "SINK" /\ path_cost[q[k]] # HUGE
                             /\ <<q[k], q[k + 1]>> \in edges
                             /\ Type[q[k]] = "IPIN" <=> k = L - 1
    /\ \A k \in 2 .. L : k = L \/ (q[k] \notin Traced /\ q[k] # Source)
    /\ q[L - 1] \notin Traced
    /\ \A j, k \in 1 .. L - 1 : q[j] = q[k] => j = k
    /\ trace' \in [Nets -> Seq(Nodes)] /\ \A i \in Nets \ {inet} : trace'[i] = trace[i]
    /\ Last \in Nat /\ DOMAIN trace[inet] = 1 .. Last
    /\ Len(trace'[inet]) = Last + L /\ DOMAIN trace'[inet] = 1 .. Last + L
    /\ \A k \in 1 .. Last : trace'[inet][k] = trace[inet][k]
    /\ \A k \in 1 .. L : trace'[inet][Last + k] = q[k]
    /\ Last > 0 => trace[inet] # <<>>
    /\ tptr' = IF Last = 0 THEN 1 ELSE Last + 2
    /\ heap' = heap \ {e} /\ remaining' = target_flag'[e.index]
    /\ target_flag' = [target_flag EXCEPT ![e.index] = @ - 1]
    /\ trace'[inet] # <<>>

LEMMA Joins ==
    ASSUME TypeOK, Shapes, ControlInv, TraceInv, WaveInv, WiringInv, PinsInv, FlagsInv, Connect
    PROVE  \E e, q, L : Joining(e, q, L)
<1>0. pc = "wave"
  BY DEF Connect
<1>1. PICK e \in Cheapest :
          /\ target_flag[e.index] > 0
          /\ target_flag' = [target_flag EXCEPT ![e.index] = @ - 1]
          /\ remaining' = target_flag'[e.index]
          /\ trace' = [trace EXCEPT ![inet] = @ \o BackTrace(e)]
          /\ tptr' = IF trace[inet] = <<>> THEN 1 ELSE Len(trace[inet]) + 2
          /\ heap' = heap \ {e}
  BY DEF Connect
<1>2. Open /\ inet \in Nets
  BY <1>0 DEF Open, ControlInv
<1>3. /\ e \in heap /\ e.index \in Nodes /\ Type[e.index] = "SINK"
      /\ e.prev_node \in Nodes /\ path_cost[e.prev_node] # -HUGE
  BY <1>0, <1>1, WantedByOtherPin
<1>4. PICK L \in Nat : IsTraceback(BackTrace(e), L, e)
  <2>1. e.prev_node # NoNode
    BY <1>3, GraphAssumption
  <2> QED BY <1>2, <1>3, <2>1, Traceback
<1> DEFINE q == BackTrace(e)
           t == trace[inet]
<1> HIDE DEF q
<1>5. IsTraceback(q, L, e)
  BY <1>4 DEF q
<1>6. /\ L >= 2 /\ q \in [1 .. L -> Nodes] /\ q[L] = e.index /\ Type[q[L]] = "SINK"
      /\ q[1] \in Traced \cup {Source}
      /\ trace[inet] = <<>> => q[1] = Source
      /\ \A k \in 1 .. L - 1 : /\ Type[q[k]] # "SINK" /\ path_cost[q[k]] # HUGE
                               /\ <<q[k], q[k + 1]>> \in edges
                               /\ Type[q[k]] = "IPIN" <=> k = L - 1
      /\ \A k \in 2 .. L : k = L \/ (q[k] \notin Traced /\ q[k] # Source)
      /\ q[L - 1] \notin Traced
      /\ \A j, k \in 1 .. L - 1 : q[j] = q[k] => j = k
  BY <1>0, <1>1, <1>5, BranchFacts
<1>7. q \in Seq(Nodes) /\ Len(q) = L
  <2>1. q \in Seq(Nodes)
    BY <1>6, SeqDef
  <2>2. Len(q) \in Nat /\ DOMAIN q = 1 .. Len(q) /\ DOMAIN q = 1 .. L
    BY <1>6, <2>1, LenProperties
  <2> QED BY <1>6, <2>1, <2>2
<1>8. t \in Seq(Nodes) /\ Len(t) \in Nat /\ DOMAIN t = 1 .. Len(t)
  BY <1>2, NetFacts
<1> HIDE DEF t
<1>9. /\ t \o q \in Seq(Nodes) /\ Len(t \o q) = Len(t) + L
      /\ \A k \in 1 .. Len(t) + L : (t \o q)[k] = IF k <= Len(t) THEN t[k] ELSE q[k - Len(t)]
  BY <1>7, <1>8, ConcatProperties
<1>10. DOMAIN (t \o q) = 1 .. Len(t) + L
  BY <1>9, LenProperties
<1>11. trace \in [Nets -> Seq(Nodes)]
  BY DEF Shapes
<1>12. trace'[inet] = t \o q /\ \A i \in Nets \ {inet} : trace'[i] = trace[i]
  BY <1>1, <1>2, <1>11 DEF t, q
<1>13. trace' \in [Nets -> Seq(Nodes)]
  <2>1. trace' = [trace EXCEPT ![inet] = t \o q]
    BY <1>1 DEF t, q
  <2> QED BY <1>9, <1>11, <2>1
<1>14. ASSUME NEW k \in 1 .. Len(t) PROVE trace'[inet][k] = t[k]
  <2>1. k \in 1 .. Len(t) + L /\ k <= Len(t)
    BY <1>8
  <2> QED BY <1>9, <1>12, <2>1
<1>15. ASSUME NEW k \in 1 .. L PROVE trace'[inet][Len(t) + k] = q[k]
  <2>1. Len(t) + k \in 1 .. Len(t) + L /\ ~(Len(t) + k <= Len(t)) /\ (Len(t) + k) - Len(t) = k
    BY <1>8
  <2> QED BY <1>9, <1>12, <2>1
<1>16. t = <<>> <=> Len(t) = 0
  BY <1>8, EmptySeq
<1>17. t \o q # <<>>
  <2>1. Len(t \o q) # 0
    BY <1>6, <1>8, <1>9
  <2> QED BY <1>9, <2>1, EmptySeq
<1>18. q[L - 1] = e.prev_node
  BY <1>5 DEF IsTraceback
<1>19. Joining(e, q, L)
  BY <1>18, <1>1, <1>3, <1>6, <1>8, <1>9, <1>10, <1>12, <1>13, <1>14, <1>15, <1>16, <1>17 DEF Joining, Last, t
<1> QED BY <1>19

(* The trace is still a tree, and ends with the SINK.                      *)
LEMMA ConnectTrace ==
    ASSUME TypeOK, Shapes, ControlInv, TraceInv, WaveInv, WiringInv, PinsInv, FlagsInv, Connect
    PROVE  TraceInv'
<1>1. PICK e, q, L : Joining(e, q, L)
  BY Joins
<1> DEFINE t == trace[inet]
           u == trace'[inet]
           T == Last
<1>2. inet \in Nets /\ edges' = edges /\ inet' = inet
  BY DEF Connect, Open, ControlInv, loops
<1>3. /\ L \in Nat /\ L >= 2 /\ T \in Nat
      /\ DOMAIN t = 1 .. T /\ Len(u) = T + L /\ DOMAIN u = 1 .. T + L
      /\ \A k \in 1 .. T : u[k] = t[k]
      /\ \A k \in 1 .. L : u[T + k] = q[k]
      /\ \A i \in Nets \ {inet} : trace'[i] = trace[i]
  BY <1>1 DEF Joining
<1>4. ASSUME NEW k \in DOMAIN u, k > T PROVE k - T \in 1 .. L /\ u[k] = q[k - T]
  <2>1. k - T \in 1 .. L /\ T + (k - T) = k
    BY <1>3, <1>4
  <2> QED BY <1>3, <2>1
<1>5. \A k \in 1 .. T : t[k] \in Traced
  BY <1>3 DEF Traced
<1>6. q[1] \in Traced \cup {Source} /\ (t = <<>> => q[1] = Source) /\ (T > 0 => t # <<>>)
  BY <1>1 DEF Joining
<1>7. T > 0 => t[1] = Source /\ Type[t[T]] = "SINK"
  BY <1>2, <1>6 DEF TraceInv, TracesAreTrees, Source, Last
<1>8. u[1] = Source
  <2>1. CASE T = 0
    <3>1. t = <<>> /\ 1 \in 1 .. L /\ T + 1 = 1
      <4>1. t \in Seq(Nodes) /\ Len(t) = 0
        BY <1>2, <2>1, NetFacts DEF Last
      <4> QED BY <1>3, <2>1, <4>1, EmptySeq
    <3> QED BY <1>3, <1>6, <3>1
  <2>2. CASE T > 0
    <3>1. 1 \in 1 .. T
      BY <1>3, <2>2
    <3> QED BY <1>3, <1>7, <2>2, <3>1
  <2> QED BY <1>3, <2>1, <2>2
<1>9. Type[Source] = "SOURCE"
  BY <1>2, NetFacts DEF Source
<1>10. /\ \A k \in 1 .. L : q[k] \in Nodes
       /\ Type[q[L]] = "SINK" /\ q[L - 1] \notin Traced
       /\ \A k \in 1 .. L - 1 : Type[q[k]] # "SINK" /\ <<q[k], q[k + 1]>> \in edges
       /\ \A k \in 2 .. L : k = L \/ (q[k] \notin Traced /\ q[k] # Source)
       /\ \A j, k \in 1 .. L - 1 : q[j] = q[k] => j = k
  BY <1>1 DEF Joining
<1>11. ASSUME NEW k \in Links(inet)', k <= T
       PROVE  /\ k \in Links(inet) /\ k + 1 \in 1 .. T /\ k \in 1 .. T
              /\ u[k] = t[k] /\ u[k + 1] = t[k + 1]
  <2>1. k \in DOMAIN u /\ Type[u[k]] # "SINK"
    BY <1>2 DEF Links
  <2>2. k \in 1 .. T
    BY <1>3, <1>11, <2>1
  <2>3. Type[t[k]] # "SINK" /\ k \in DOMAIN t
    BY <1>3, <2>1, <2>2
  <2>4. k \in Links(inet) /\ k + 1 \in DOMAIN t
    BY <1>2, <2>3, LinkFacts
  <2> QED BY <1>3, <2>2, <2>4
<1>12. ASSUME NEW k \in Links(inet)', k > T
       PROVE  /\ k - T \in 1 .. L - 1 /\ u[k] = q[k - T]
              /\ (k - T) + 1 \in 2 .. L /\ u[k + 1] = q[(k - T) + 1]
  <2>1. k \in DOMAIN u /\ k < Len(u)
    BY <1>2 DEF Links
  <2>2. k - T \in 1 .. L - 1 /\ (k - T) + 1 \in 2 .. L /\ k + 1 \in DOMAIN u /\ k + 1 > T
        /\ (k + 1) - T = (k - T) + 1
    BY <1>3, <1>12, <2>1
  <2> QED BY <1>4, <1>12, <2>1, <2>2
<1>13. \A k \in Links(inet)' : k \in DOMAIN u /\ k \in Nat
  BY <1>2, <1>3 DEF Links
<1>14. ASSUME NEW k \in Links(inet)' PROVE <<u[k], u[k + 1]>> \in edges /\ u[k + 1] # u[1]
  <2>1. CASE k <= T
    <3>1. k \in Links(inet) /\ k + 1 \in 1 .. T /\ u[k] = t[k] /\ u[k + 1] = t[k + 1] /\ T > 0
      BY <1>3, <1>11, <2>1
    <3>2. <<t[k], t[k + 1]>> \in edges /\ t[k + 1] # t[1]
      BY <1>2, <1>6, <3>1 DEF TraceInv, TracesAreTrees
    <3> QED BY <1>7, <1>8, <3>1, <3>2
  <2>2. CASE k > T
    <3> DEFINE m == k - T
    <3>1. m \in 1 .. L - 1 /\ m + 1 \in 2 .. L /\ u[k] = q[m] /\ u[k + 1] = q[m + 1]
      BY <1>12, <2>2
    <3> HIDE DEF m
    <3>2. <<q[m], q[m + 1]>> \in edges
      BY <1>10, <3>1
    <3>3. q[m + 1] # Source
      BY <1>9, <1>10, <3>1
    <3> QED BY <1>8, <3>1, <3>2, <3>3
  <2> QED BY <1>3, <1>13, <2>1, <2>2
<1>15. ASSUME NEW j \in Links(inet)', NEW k \in Links(inet)', j # k, u[j + 1] = u[k + 1]
       PROVE  Type[u[j + 1]] = "SINK" /\ u[j] # u[k]
  <2>1. CASE j <= T /\ k <= T
    <3>1. /\ j \in Links(inet) /\ u[j] = t[j] /\ u[j + 1] = t[j + 1] /\ j \in 1 .. T
          /\ k \in Links(inet) /\ u[k] = t[k] /\ u[k + 1] = t[k + 1]
      BY <1>11, <2>1
    <3>2. T > 0
      BY <1>3, <3>1
    <3>3. t[j + 1] = t[k + 1] => Type[t[j + 1]] = "SINK" /\ t[j] # t[k]
      BY <1>2, <1>6, <1>15, <3>1, <3>2 DEF TraceInv, TracesAreTrees
    <3> QED BY <1>15, <3>1, <3>3
  <2>2. ASSUME NEW a \in Links(inet)', NEW b \in Links(inet)', a <= T, b > T, u[a + 1] = u[b + 1]
        PROVE  Type[u[a + 1]] = "SINK" /\ u[a] # u[b]
    <3> DEFINE m == b - T
    <3>1. m \in 1 .. L - 1 /\ m + 1 \in 2 .. L /\ u[b] = q[m] /\ u[b + 1] = q[m + 1]
      BY <1>12, <2>2
    <3> HIDE DEF m
    <3>2. u[a] = t[a] /\ u[a + 1] = t[a + 1] /\ t[a] \in Traced /\ t[a + 1] \in Traced
      BY <1>5, <1>11, <2>2
    <3>3. m + 1 = L
      BY <1>10, <2>2, <3>1, <3>2
    <3>4. m = L - 1
      BY <1>3, <3>1, <3>3
    <3> QED BY <1>10, <2>2, <3>1, <3>2, <3>3, <3>4
  <2>3. CASE j > T /\ k > T
    <3> DEFINE m == j - T
               n == k - T
    <3>1. /\ m \in 1 .. L - 1 /\ m + 1 \in 2 .. L /\ u[j + 1] = q[m + 1]
          /\ n \in 1 .. L - 1 /\ n + 1 \in 2 .. L /\ u[k + 1] = q[n + 1]
      BY <1>12, <2>3
    <3>2. m # n /\ m \in Int /\ n \in Int
      <4>1. j \in Int /\ k \in Int /\ T \in Int /\ j # k
        BY <1>3, <1>13, <1>15
      <4> HIDE DEF T
      <4> QED BY <4>1
    <3> HIDE DEF m, n
    <3>3. q[m + 1] = q[n + 1] /\ m + 1 # n + 1
      <4>1. u[j + 1] = u[k + 1]
        BY <1>15
      <4>2. m + 1 # n + 1
        BY <3>2
      <4> HIDE DEF u
      <4> QED BY <3>1, <4>1, <4>2
    <3>4. ~(m + 1 = L) /\ ~(n + 1 = L)
      <4>1. m + 1 = L => n + 1 \in 1 .. L - 1
        BY <1>3, <3>1, <3>3
      <4>2. n + 1 = L => m + 1 \in 1 .. L - 1
        BY <1>3, <3>1, <3>3
      <4> QED BY <1>10, <3>3, <4>1, <4>2
    <3>5. m + 1 \in 1 .. L - 1 /\ n + 1 \in 1 .. L - 1
      BY <1>3, <3>1, <3>4
    <3> QED BY <1>10, <3>3, <3>5
  <2> QED BY <1>3, <1>13, <1>15, <2>1, <2>2, <2>3
<1>16. ASSUME NEW k \in DOMAIN u, k - 1 \in DOMAIN u \ Links(inet)'
       PROVE  \E j \in 1 .. k - 2 : u[j] = u[k] /\ Type[u[j]] # "SINK"
  <2>1. k \in Nat /\ k - 1 \in DOMAIN u /\ k - 1 < Len(u) /\ k - 1 \in Nat
    BY <1>3, <1>16
  <2>2. Type[u[k - 1]] = "SINK"
    BY <1>2, <1>16, <2>1 DEF Links
  <2>3. CASE k <= T
    <3>1. k \in DOMAIN t /\ k - 1 \in DOMAIN t /\ u[k] = t[k] /\ u[k - 1] = t[k - 1] /\ T > 0
      BY <1>3, <2>1, <2>3
    <3>2. k - 1 \notin Links(inet)
      BY <2>2, <3>1 DEF Links
    <3>3. \E j \in 1 .. k - 2 : t[j] = t[k] /\ Type[t[j]] # "SINK"
      BY <1>2, <1>6, <3>1, <3>2 DEF TraceInv, TracesAreTrees
    <3>4. PICK j \in 1 .. k - 2 : t[j] = t[k] /\ Type[t[j]] # "SINK"
      BY <3>3
    <3>5. j \in 1 .. T
      BY <1>3, <2>1, <2>3, <3>4
    <3> QED BY <1>3, <3>1, <3>4, <3>5
  <2>4. CASE k = T + 1
    <3>1. 1 \in 1 .. L /\ u[k] = q[1] /\ T > 0 /\ T \in 1 .. T
      BY <1>3, <2>1, <2>4
    <3>2. q[1] \in Traced
      BY <1>3, <1>5, <1>6, <1>7, <3>1
    <3>3. PICK j \in 1 .. T : t[j] = q[1]
      BY <1>3, <3>2 DEF Traced
    <3>4. 1 \in 1 .. L - 1
      BY <1>3
    <3>5. Type[q[1]] # "SINK"
      BY <1>10, <3>4
    <3>6. j # T
      BY <1>7, <3>1, <3>3, <3>5
    <3>7. j \in 1 .. k - 2 /\ u[j] = t[j]
      BY <1>3, <2>4, <3>3, <3>6
    <3> QED BY <3>1, <3>3, <3>5, <3>7
  <2>5. CASE k > T + 1
    <3>1. k - 1 > T /\ (k - 1) - T \in 1 .. L - 1
      BY <1>3, <2>1, <2>5
    <3>2. u[k - 1] = q[(k - 1) - T]
      BY <1>4, <2>1, <3>1
    <3> QED BY <1>10, <2>2, <3>1, <3>2
  <2> QED BY <1>3, <2>1, <2>3, <2>4, <2>5
<1>17. Type[u[Len(u)]] = "SINK"
  BY <1>3, <1>10
<1>18. ASSUME NEW i \in Nets \ {inet}
       PROVE  trace'[i] = trace[i] /\ Links(i)' = Links(i)
  BY <1>3, <1>18 DEF Links
<1>19. TracesAreTrees'
  <2> SUFFICES ASSUME NEW i \in Nets, trace'[i] # <<>>
               PROVE  /\ trace'[i][1] = Terminals[i][1]
                      /\ \A k \in Links(i)' : <<trace'[i][k], trace'[i][k + 1]>> \in edges'
                             /\ trace'[i][k + 1] # trace'[i][1]
                      /\ \A j, k \in Links(i)' :
                             j # k /\ trace'[i][j + 1] = trace'[i][k + 1] =>
                                 Type[trace'[i][j + 1]] = "SINK" /\ trace'[i][j] # trace'[i][k]
                      /\ \A k \in DOMAIN trace'[i] : k - 1 \in DOMAIN trace'[i] \ Links(i)' =>
                             \E j \in 1 .. k - 2 : trace'[i][j] = trace'[i][k] /\ Type[trace'[i][j]] # "SINK"
    BY DEF TracesAreTrees, Nets
  <2>1. CASE i = inet
    BY <1>2, <1>8, <1>14, <1>15, <1>16, <2>1 DEF Source
  <2>2. CASE i # inet
    BY <1>2, <1>18, <2>2 DEF TraceInv, TracesAreTrees
  <2> QED BY <2>1, <2>2
<1>20. \A i \in Nets : trace'[i] # <<>> => Type[trace'[i][Len(trace'[i])]] = "SINK"
  BY <1>17, <1>18 DEF TraceInv
<1> QED BY <1>19, <1>20 DEF TraceInv, Nets

-----------------------------------------------------------------------------
(* What the nets and classes that are charged use.                         *)
Routed == IF Open \/ verdict = "disconnected" THEN Nets \ {inet} ELSE Nets
Held   == CASE pc = "reserve" -> 1 .. iclass - 1
            [] pc # "reserve" /\ itry = 1 /\ (pc # "done" \/ verdict = "disconnected") -> {}
            [] OTHER -> DOMAIN Classes
OccupancyInv == \A n \in Nodes : occ[n] = TrueOcc(Routed, Held, n)

LEMMA Occupancies == OccupancyIsExact <=> TypeOK /\ OccupancyInv
BY DEF OccupancyIsExact, OccupancyInv, Routed, Held, Open

(* The variables the occupancies depend on.                                *)
LEMMA SameUse ==
    ASSUME NEW I \in SUBSET Nets, NEW C, NEW n, \A i \in I : trace'[i] = trace[i], opins' = opins
    PROVE  TrueOcc(I, C, n)' = TrueOcc(I, C, n)
<1>1. \A i \in I : InTrace(i, n)' = InTrace(i, n)
  BY DEF InTrace
<1> DEFINE B(i) == {<<i, k>> : k \in {j \in InTrace(i, n) : Type[n] = "SINK"
      \/ \A l \in InTrace(i, n) : j <= l}}
<1>2. \A i \in I : B(i)' = B(i)
  BY <1>1
<1>3. {B(i)' : i \in I} = {B(i) : i \in I}
  <2> HIDE DEF B
  <2> QED BY <1>2
<1> QED BY <1>3 DEF TrueOcc

(* A SINK that still is wanted, and one terminal less to connect.          *)
LEMMA OneLessToConnect ==
    ASSUME TypeOK, NEW e, e \in Nodes, target_flag[e] > 0, inet \in Nets,
           NEW U, Unconnected(U), Len(SinksOf(inet)) \in Nat,
           target_flag' = [target_flag EXCEPT ![e] = @ - 1], isink' = isink + 1, inet' = inet
    PROVE  \E V \in SUBSET (1 .. Len(SinksOf(inet))) : Unconnected(V)'
<1> DEFINE s == SinksOf(inet)
           W(n) == {k \in U : s[k] = n}
<1>1. s' = s
  BY DEF SinksOf
<1> HIDE DEF s
<1>2. /\ U \subseteq 1 .. Len(s) /\ Cardinality(U) = Len(s) - (isink - 1)
      /\ \A n \in Nodes : target_flag[n] = Cardinality(W(n))
  BY DEF Unconnected, s
<1>3. IsFiniteSet(U) /\ Len(s) \in Nat
  <2>1. Len(s) \in Nat
    BY DEF s
  <2>2. IsFiniteSet(1 .. Len(s))
    BY <2>1, FS_Interval
  <2> QED BY <1>2, <2>1, <2>2, FS_Subset
<1>4. \A n \in Nodes : IsFiniteSet(W(n)) /\ Cardinality(W(n)) \in Nat
  BY <1>3, FS_Subset, FS_CardinalityType
<1>5. W(e) # {}
  <2>1. Cardinality(W(e)) # 0
    BY <1>2
  <2>2. Cardinality({}) = 0
    BY FS_EmptySet
  <2> HIDE DEF W
  <2> QED BY <2>1, <2>2
<1>6. PICK c \in U : s[c] = e
  BY <1>5
<1> DEFINE V == U \ {c}
<1>7. IsFiniteSet(V) /\ Cardinality(V) = Cardinality(U) - 1
  BY <1>3, <1>6, FS_RemoveElement
<1>8. ASSUME NEW n \in Nodes PROVE target_flag'[n] = Cardinality({k \in V : s[k] = n})
  <2>1. CASE n = e
    <3>1. {k \in V : s[k] = n} = W(n) \ {c} /\ c \in W(n)
      BY <1>6, <2>1
    <3>2. Cardinality(W(n) \ {c}) = Cardinality(W(n)) - 1
      <4> HIDE DEF W
      <4> QED BY <1>4, <3>1, FS_RemoveElement
    <3>3. target_flag'[n] = target_flag[n] - 1
      BY <2>1 DEF TypeOK
    <3>4. {k \in V : s[k] = n} = W(n) \ {c} /\ target_flag[n] = Cardinality(W(n))
      BY <1>2, <3>1
    <3> HIDE DEF W, V
    <3> QED BY <3>2, <3>3, <3>4
  <2>2. CASE n # e
    <3>1. {k \in V : s[k] = n} = W(n)
      BY <1>6, <2>2
    <3>2. target_flag'[n] = target_flag[n]
      BY <2>2 DEF TypeOK
    <3> QED BY <1>2, <3>1, <3>2
  <2> QED BY <2>1, <2>2
<1>9. Cardinality(V) = Len(s) - (isink' - 1)
  <2>1. isink \in Nat
    BY DEF TypeOK
  <2> HIDE DEF V
  <2> QED BY <1>2, <1>3, <1>7, <2>1
<1>10. V \subseteq 1 .. Len(s)
  BY <1>2
<1>11. Unconnected(V)'
  <2>1. V \subseteq 1 .. Len(s') /\ Cardinality(V) = Len(s') - (isink' - 1)
        /\ \A n \in Nodes : target_flag'[n] = Cardinality({k \in V : s'[k] = n})
    BY <1>1, <1>8, <1>9, <1>10
  <2> HIDE DEF V
  <2> QED BY <2>1 DEF Unconnected, s
<1> QED BY <1>10, <1>11 DEF s

LEMMA ConnectSearch ==
    ASSUME TypeOK, Shapes, ControlInv, TraceInv, TouchedInv, WaveInv, WiringInv, SegmentInv,
           PinsInv, FlagsInv, Connect
    PROVE  TypeOK' /\ Shapes' /\ ControlInv' /\ TouchedInv' /\ WaveInv' /\ WiringInv' /\ SegmentInv'
           /\ PinsInv' /\ FlagsInv'
<1>1. PICK e, q, L : Joining(e, q, L)
  BY Joins
<1> DEFINE t == trace[inet]
           u == trace'[inet]
           T == Last
<1>2. /\ pc = "wave" /\ pc' = "segment" /\ isink' = isink + 1 /\ inet' = inet /\ edges' = edges /\ occ' = occ
      /\ pres_cost' = pres_cost /\ acc_cost' = acc_cost /\ opins' = opins /\ iclass' = iclass
      /\ itry' = itry /\ pres_fac' = pres_fac /\ verdict' = verdict
      /\ path_cost' = path_cost /\ prev_node' = prev_node /\ modified' = modified
  BY DEF Connect, loops, path, costs
<1>3. /\ e \in heap /\ e.index \in Nodes /\ target_flag[e.index] > 0 /\ L \in Nat /\ L >= 2 /\ T \in Nat
      /\ DOMAIN t = 1 .. T /\ Len(u) = T + L /\ DOMAIN u = 1 .. T + L
      /\ \A k \in 1 .. T : u[k] = t[k]
      /\ \A k \in 1 .. L : u[T + k] = q[k]
      /\ trace' \in [Nets -> Seq(Nodes)] /\ \A i \in Nets \ {inet} : trace'[i] = trace[i]
      /\ tptr' = IF T = 0 THEN 1 ELSE T + 2
      /\ heap' = heap \ {e} /\ remaining' = target_flag'[e.index]
      /\ target_flag' = [target_flag EXCEPT ![e.index] = @ - 1]
  BY <1>1 DEF Joining
<1>4. /\ \A k \in 1 .. L : q[k] \in Nodes
      /\ q[L] = e.index /\ Type[q[L]] = "SINK"
      /\ q[1] \in Traced \cup {Source}
      /\ \A k \in 1 .. L - 1 : /\ Type[q[k]] # "SINK" /\ path_cost[q[k]] # HUGE
                               /\ Type[q[k]] = "IPIN" <=> k = L - 1
      /\ q[L - 1] \notin Traced
      /\ T > 0 => t # <<>>
  BY <1>1 DEF Joining
<1>5. inet \in Nets \ Global /\ Open /\ Open' /\ inet \in Nat
  <2>1. Open /\ Open'
    BY <1>2 DEF Open
  <2> QED BY <2>1, NetFacts DEF ControlInv
<1>6. target_flag \in [Nodes -> Nat] /\ target_flag' \in [Nodes -> Nat]
      /\ \A n \in Nodes : target_flag'[n] <= target_flag[n]
  <2>1. target_flag \in [Nodes -> Nat]
    BY DEF TypeOK
  <2> QED BY <1>3, <2>1
<1>7. T > 0 => Source \in Traced
  <2>1. T > 0 => t[1] = Source /\ 1 \in DOMAIN t
    BY <1>3, <1>4, <1>5 DEF TraceInv, TracesAreTrees, Source
  <2> QED BY <2>1 DEF Traced
<1>8. L >= 3
  <2> SUFFICES ASSUME L = 2 PROVE FALSE
    BY <1>3
  <2>1. Type[q[1]] = "IPIN" /\ q[1] \notin Traced
    BY <1>4
  <2>2. Type[Source] = "SOURCE"
    BY <1>5, NetFacts DEF Source
  <2> QED BY <1>4, <2>1, <2>2
<1>9. Traced \subseteq Traced'
  <2>1. \A k \in DOMAIN t : k \in DOMAIN u /\ u[k] = t[k]
    BY <1>3
  <2>2. Traced' = {u[k] : k \in DOMAIN u}
    BY <1>2 DEF Traced
  <2> QED BY <2>1, <2>2 DEF Traced
<1>10. TypeOK'
  <2>1. tptr' \in Nat /\ remaining' \in Nat /\ isink' \in Nat \ {0}
    <3>1. isink \in Nat \ {0}
      BY DEF TypeOK
    <3> QED BY <1>2, <1>3, <1>6, <3>1
  <2>2. \A i \in Nets : trace'[i] \in Seq(Nodes)
    BY <1>3
  <2> QED BY <1>2, <1>3, <1>6, <2>1, <2>2 DEF TypeOK, Nets
<1>11. Shapes'
  BY <1>2, <1>3 DEF Shapes, Nets
<1>12. ControlInv'
  <2>1. isink \in Nat \ {0} /\ isink <= Len(SinksOf(inet)) /\ Len(SinksOf(inet)) \in Nat
    BY <1>2, <1>5, NetFacts DEF ControlInv, TypeOK
  <2>2. isink' <= Len(SinksOf(inet)') + 1
    BY <1>2, <2>1 DEF SinksOf
  <2> QED BY <1>2, <1>5, <2>2 DEF ControlInv, Nets
<1>13. TouchedInv'
  BY <1>2, <1>5 DEF TouchedInv
<1>14. WaveInv'
  <2>1. ASSUME NEW n, NEW c, NEW p, Path(n, c, p) PROVE Path(n, c, p)'
    BY <1>2, <1>9, <2>1 DEF Path, Source
  <2>2. heap' \subseteq heap
    BY <1>3
  <2>3. \A n \in Nodes : path_cost[n] \notin {HUGE, -HUGE} => Path(n, path_cost[n], prev_node[n])
    BY <1>5 DEF WaveInv
  <2>4. \A f \in heap : Path(f.index, f.cost, f.prev_node)
    BY <1>5 DEF WaveInv
  <2>5. \A n \in Nodes : path_cost[n] \notin {HUGE, -HUGE} => Path(n, path_cost[n], prev_node[n])'
    BY <1>2, <2>1, <2>3 DEF Path
  <2>6. \A f \in heap' : Path(f.index, f.cost, f.prev_node)'
    BY <2>1, <2>2, <2>4
  <2> QED BY <1>2, <2>5, <2>6 DEF WaveInv
<1>15. ASSUME NEW n \in Traced', Type[n] # "SINK", n \notin Traced
       PROVE  /\ path_cost[n] # HUGE
              /\ \E k \in tptr' .. Len(u) : u[k] = n
  <2>1. PICK k \in 1 .. T + L : u[k] = n
    BY <1>2, <1>3 DEF Traced
  <2>2. k > T
    <3> SUFFICES ASSUME k \in 1 .. T PROVE FALSE
      BY <1>3, <2>1
    <3>1. n = t[k] /\ k \in DOMAIN t
      BY <1>3, <2>1
    <3> QED BY <1>15, <3>1 DEF Traced
  <2> DEFINE m == k - T
  <2>3. m \in 1 .. L /\ u[k] = q[m] /\ T + m = k
    <3>1. m \in 1 .. L /\ T + m = k
      BY <1>3, <2>1, <2>2
    <3> QED BY <1>3, <3>1
  <2> HIDE DEF m
  <2>4. m \in 1 .. L - 1
    <3>1. m # L
      BY <1>4, <1>15, <2>1, <2>3
    <3> QED BY <1>3, <2>3, <3>1
  <2>5. T = 0 \/ m # 1
    BY <1>4, <1>7, <1>15, <1>3, <2>1, <2>3
  <2>6. k \in tptr' .. Len(u)
    BY <1>3, <2>1, <2>2, <2>3, <2>4, <2>5
  <2> QED BY <1>4, <2>1, <2>3, <2>4, <2>6
<1>16. WiringInv'
  <2>1. \A n \in Nodes : path_cost'[n] = -HUGE => n \in Traced' /\ Type[n] = "IPIN"
    BY <1>2, <1>5, <1>9 DEF WiringInv
  <2>2. ASSUME NEW n \in Traced', Type[n] # "SINK"
        PROVE  /\ path_cost'[n] # HUGE
               /\ \/ path_cost'[n] = -HUGE
                  \/ path_cost'[n] = 0 /\ prev_node'[n] = NoNode
                  \/ Entry(n, 0, NoNode) \in heap'
                  \/ \E k \in tptr' .. Len(u) : u[k] = n
    <3>1. CASE n \in Traced
      <4>1. /\ path_cost[n] # HUGE
            /\ \/ path_cost[n] = -HUGE
               \/ path_cost[n] = 0 /\ prev_node[n] = NoNode
               \/ Entry(n, 0, NoNode) \in heap
        BY <1>2, <1>5, <2>2, <3>1 DEF WiringInv
      <4>2. Entry(n, 0, NoNode) # e
        BY <1>4, <2>2 DEF Entry
      <4> QED BY <1>2, <1>3, <4>1, <4>2
    <3>2. CASE n \notin Traced
      BY <1>2, <1>15, <2>2, <3>2
    <3> QED BY <3>1, <3>2
  <2> QED BY <1>2, <2>1, <2>2 DEF WiringInv, Last
<1>17. SegmentInv'
  <2>1. tptr' \in 1 .. Len(u) - 1
    BY <1>3, <1>8
  <2>2. u[Len(u)] = e.index
    <3>1. L \in 1 .. L
      BY <1>3
    <3> QED BY <1>3, <1>4, <3>1
  <2>3. ASSUME NEW k \in tptr' .. Len(u) - 1
        PROVE  /\ Type[u[k]] = "IPIN" <=> k = Len(u) - 1
               /\ Type[u[k]] # "SINK"
    <3> DEFINE m == k - T
    <3>1. m \in 1 .. L - 1 /\ m \in 1 .. L /\ T + m = k /\ (m = L - 1 <=> k = Len(u) - 1)
      BY <1>3, <2>3
    <3> HIDE DEF m
    <3>2. u[k] = q[m]
      BY <1>3, <3>1
    <3> QED BY <1>4, <3>1, <3>2
  <2> QED BY <1>2, <1>3, <2>1, <2>2, <2>3 DEF SegmentInv, Last
<1>18. PinsInv'
  <2>1. ASSUME NEW k \in Links(inet)', target_flag'[u[k + 1]] > 0, k # Len(u) - 1
        PROVE  /\ path_cost[u[k]] = -HUGE
               /\ \A f \in heap' : ~(f.index = u[k + 1] /\ f.prev_node = u[k])
    <3>1. k \in 1 .. T + L /\ k < T + L /\ Type[u[k]] # "SINK"
      BY <1>2, <1>3 DEF Links
    <3>2. CASE k <= T
      <4>1. k \in DOMAIN t /\ u[k] = t[k]
        BY <1>3, <3>1, <3>2
      <4>2. k \in Links(inet) /\ k + 1 \in DOMAIN t
        BY <1>5, <3>1, <4>1, LinkFacts
      <4>3. u[k + 1] = t[k + 1] /\ t[k + 1] \in Nodes
        BY <1>3, <1>5, <4>2, NetFacts
      <4>4. target_flag[t[k + 1]] > 0
        BY <1>6, <2>1, <4>3
      <4>5. path_cost[t[k]] = -HUGE /\ \A f \in heap : ~(f.index = t[k + 1] /\ f.prev_node = t[k])
        BY <1>2, <1>5, <4>2, <4>4 DEF PinsInv
      <4> QED BY <1>3, <4>1, <4>3, <4>5
    <3>3. CASE k > T
      <4> DEFINE m == (k + 1) - T
      <4>1. m \in 1 .. L - 1 /\ m \in 1 .. L /\ T + m = k + 1
        <5>1. k # T + L - 1 /\ L \in Nat /\ T \in Nat /\ k \in 1 .. T + L /\ k < T + L
          BY <1>3, <2>1, <3>1
        <5> HIDE DEF T
        <5> QED BY <3>3, <5>1
      <4> HIDE DEF m
      <4>2. u[k + 1] = q[m] /\ q[m] \in Nodes /\ Type[q[m]] # "SINK"
        BY <1>3, <1>4, <4>1
      <4>3. target_flag[q[m]] > 0
        BY <1>6, <2>1, <4>2
      <4> QED BY <1>5, <4>2, <4>3, WantedIsSink
    <3> QED BY <1>3, <3>1, <3>2, <3>3
  <2>2. \A f \in heap' : f.prev_node = NoNode => target_flag'[f.index] = 0
    <3>1. ASSUME NEW f \in heap', f.prev_node = NoNode PROVE target_flag'[f.index] = 0
      <4>1. f \in heap
        BY <1>3
      <4>2. target_flag[f.index] = 0 /\ f.index \in Nodes
        BY <1>5, <3>1, <4>1, HeapElements DEF PinsInv
      <4>3. target_flag'[f.index] <= 0 /\ target_flag'[f.index] \in Nat
        BY <1>6, <4>2
      <4> QED BY <4>3
    <3> QED BY <3>1
  <2> QED BY <1>2, <2>1, <2>2 DEF PinsInv, Last
<1>19. FlagsInv'
  <2>1. \E V \in SUBSET (1 .. Len(SinksOf(inet))) : Unconnected(V)'
    <3>1. PICK U \in SUBSET (1 .. Len(SinksOf(inet))) : Unconnected(U)
      BY <1>5 DEF FlagsInv
    <3>2. Len(SinksOf(inet)) \in Nat
      BY <1>5, NetFacts
    <3> QED BY <1>2, <1>3, <1>5, <3>1, <3>2, OneLessToConnect
  <2>2. ASSUME NEW n \in OfType("SINK")
        PROVE  Cardinality(InTrace(inet, n)') + target_flag'[n] = Connections(inet, n)
    <3>0. n \in Nodes /\ Type[n] = "SINK"
      BY DEF OfType
    <3>1. Cardinality(InTrace(inet, n)) + target_flag[n] = Connections(inet, n)
      BY <1>5 DEF FlagsInv
    <3>2. IsFiniteSet(InTrace(inet, n)) /\ Cardinality(InTrace(inet, n)) \in Nat
      <4>1. InTrace(inet, n) \subseteq 1 .. T
        BY <1>3 DEF InTrace
      <4>2. IsFiniteSet(1 .. T)
        BY <1>3, FS_Interval
      <4> QED BY <4>1, <4>2, FS_Subset, FS_CardinalityType
    <3>3. InTrace(inet, n)' = {k \in 1 .. T + L : u[k] = n}
      BY <1>2, <1>3 DEF InTrace
    <3>4. ASSUME NEW k \in 1 .. T + L, k > T PROVE u[k] = n <=> k = T + L /\ n = e.index
      <4> DEFINE m == k - T
      <4>1. m \in 1 .. L /\ T + m = k /\ (m = L <=> k = T + L)
        BY <1>3, <3>4
      <4>2. m # L => m \in 1 .. L - 1
        BY <1>3, <4>1
      <4> HIDE DEF m
      <4>3. u[k] = q[m]
        BY <1>3, <4>1
      <4> QED BY <1>4, <3>0, <4>1, <4>2, <4>3
    <3>5. CASE n = e.index
      <4>1. InTrace(inet, n)' = InTrace(inet, n) \cup {T + L}
        <5>1. \A k \in 1 .. T + L : u[k] = n <=> k = T + L \/ (k \in 1 .. T /\ t[k] = n)
          BY <1>3, <3>4, <3>5
        <5>2. InTrace(inet, n) = {k \in 1 .. T : t[k] = n}
          BY <1>3 DEF InTrace
        <5>3. T + L \in 1 .. T + L /\ 1 .. T \subseteq 1 .. T + L
          BY <1>3
        <5> HIDE DEF T, t, u
        <5> QED BY <3>3, <5>1, <5>2, <5>3
      <4>2. T + L \notin InTrace(inet, n)
        BY <1>3 DEF InTrace
      <4>3. Cardinality(InTrace(inet, n)') = Cardinality(InTrace(inet, n)) + 1
        BY <3>2, <4>1, <4>2, FS_AddElement
      <4>4. target_flag'[n] = target_flag[n] - 1 /\ target_flag[n] \in Nat
        BY <1>3, <1>6, <3>5
      <4> QED BY <3>1, <3>2, <4>3, <4>4
    <3>6. CASE n # e.index
      <4>1. InTrace(inet, n)' = InTrace(inet, n)
        <5>1. \A k \in 1 .. T + L : u[k] = n <=> k \in 1 .. T /\ t[k] = n
          BY <1>3, <3>4, <3>6
        <5>2. InTrace(inet, n) = {k \in 1 .. T : t[k] = n}
          BY <1>3 DEF InTrace
        <5>3. 1 .. T \subseteq 1 .. T + L
          BY <1>3
        <5> HIDE DEF T, t, u
        <5> QED BY <3>3, <5>1, <5>2, <5>3
      <4>2. target_flag'[n] = target_flag[n]
        BY <1>3, <1>6, <3>0, <3>6
      <4> QED BY <3>1, <4>1, <4>2
    <3> QED BY <3>5, <3>6
  <2>3. SinksOf(inet)' = SinksOf(inet) /\ \A n : Connections(inet, n)' = Connections(inet, n)
    BY <1>2 DEF SinksOf, Connections
  <2>4. \E V \in SUBSET (1 .. Len(SinksOf(inet)')) : Unconnected(V)'
    BY <2>1, <2>3
  <2>5. \A n \in OfType("SINK") : Cardinality(InTrace(inet, n)') + target_flag'[n] = Connections(inet, n)'
    BY <2>2, <2>3
  <2>6. ~(pc' \in {"net", "reserve"})
    BY <1>2
  <2> QED BY <2>4, <2>5, <2>6 DEF FlagsInv
<1> QED BY <1>10, <1>11, <1>12, <1>13, <1>14, <1>16, <1>17, <1>18, <1>19

-----------------------------------------------------------------------------
(* The search for a SINK: nothing of the net changes but its heap and its  *)
(* path costs.                                                             *)
SearchInv ==
    /\ TypeOK /\ Shapes /\ ControlInv /\ TraceInv /\ TouchedInv /\ WaveInv /\ WiringInv
    /\ SegmentInv /\ PinsInv /\ FlagsInv

LEMMA SameTree ==
    ASSUME edges' = edges, trace' = trace, inet' = inet
    PROVE  /\ TraceInv => TraceInv'
           /\ Traced' = Traced /\ Source' = Source /\ Last' = Last
           /\ \A i : Links(i)' = Links(i)
<1>1. Traced' = Traced /\ Source' = Source /\ Last' = Last
  BY DEF Traced, Source, Last
<1>2. \A i : Links(i)' = Links(i)
  BY DEF Links
<1>3. TraceInv => TraceInv'
  BY <1>2 DEF TraceInv, TracesAreTrees, Nets
<1> QED BY <1>1, <1>2, <1>3

LEMMA SameFlags ==
    ASSUME trace' = trace, inet' = inet, isink' = isink, target_flag' = target_flag, Open, Open', FlagsInv
    PROVE  FlagsInv'
<1>1. SinksOf(inet)' = SinksOf(inet) /\ \A n : Connections(inet, n)' = Connections(inet, n)
                                           /\ InTrace(inet, n)' = InTrace(inet, n)
  BY DEF SinksOf, Connections, InTrace
<1>2. \A U : Unconnected(U) => Unconnected(U)'
  BY <1>1 DEF Unconnected
<1>3. \E U \in SUBSET (1 .. Len(SinksOf(inet)')) : Unconnected(U)'
  BY <1>1, <1>2 DEF FlagsInv
<1>4. \A n \in OfType("SINK") : Cardinality(InTrace(inet, n)') + target_flag'[n] = Connections(inet, n)'
  BY <1>1 DEF FlagsInv
<1>5. ~(pc' \in {"net", "reserve"})
  BY DEF Open
<1> QED BY <1>3, <1>4, <1>5 DEF FlagsInv

(* What costs nothing comes from the wiring.                               *)
LEMMA FreeOfWiring ==
    ASSUME TypeOK, Shapes, WiringInv, Open, NEW n \in Nodes, Type[n] # "SINK",
           NEW p \in Nodes \cup {NoNode}, Path(n, 0, p)
    PROVE  p = NoNode
<1> SUFFICES ASSUME p # NoNode PROVE FALSE
  OBVIOUS
<1>1. p \in Nodes /\ <<p, n>> \in edges /\ path_cost[p] < 0
  BY DEF Path
<1>2. path_cost[p] = -HUGE
  BY <1>1, PathCostFacts
<1>3. Type[p] = "IPIN"
  BY <1>1, <1>2 DEF WiringInv
<1> QED BY <1>1, <1>3, EdgeFacts

(* The segment that is expanded: all of it but its SINK, and the SINK too  *)
(* unless it is wanted again.                                              *)
LEMMA SegmentFacts ==
    ASSUME SearchInv, pc = "segment"
    PROVE  /\ Open /\ inet \in Nets /\ Last \in Nat /\ DOMAIN trace[inet] = 1 .. Last
           /\ \A k \in DOMAIN trace[inet] : trace[inet][k] \in Nodes
           /\ NewSegment \subseteq DOMAIN trace[inet]
           /\ \A k \in 1 .. Last : Type[trace[inet][k]] # "SINK" /\ k \in tptr .. Last => k \in NewSegment
           /\ trace[inet] # <<>> =>
                  /\ tptr \in 1 .. Last - 1 /\ NewSegment # {}
                  /\ remaining = target_flag[trace[inet][Last]]
                  /\ NewSegment \ {Last} = tptr .. Last - 1
                  /\ IpinsOf(NewSegment \ {Last}) = {Last - 1}
                  /\ \A k \in NewSegment : k # Last => Type[trace[inet][k]] # "SINK"
           /\ trace[inet] = <<>> => tptr = 0 /\ remaining = 0 /\ Last = 0
<1> DEFINE t == trace[inet]
<1>1. Open /\ inet \in Nets
  BY DEF SearchInv, Open, ControlInv
<1>2. Last \in Nat /\ DOMAIN t = 1 .. Last /\ \A k \in DOMAIN t : t[k] \in Nodes
  BY <1>1, NetFacts DEF SearchInv, Last
<1>3. t \in Seq(Nodes) /\ tptr \in Nat
  BY <1>1, NetFacts DEF SearchInv, TypeOK
<1>4. t = <<>> <=> Last = 0
  BY <1>3, EmptySeq DEF Last
<1>5. \/ t = <<>> /\ tptr = 0 /\ remaining = 0
      \/ /\ tptr \in 1 .. Last - 1
         /\ remaining = target_flag[t[Last]]
         /\ \A k \in tptr .. Last - 1 : Type[t[k]] = "IPIN" <=> k = Last - 1
         /\ \A k \in tptr .. Last - 1 : Type[t[k]] # "SINK"
  BY DEF SearchInv, SegmentInv
<1>6. NewSegment = {k \in 1 .. Last : tptr > 0 /\ k >= tptr /\ (k > tptr \/ Type[t[k]] # "SINK")}
  BY <1>2 DEF NewSegment
<1> HIDE DEF t
<1>7. ASSUME NEW k \in 1 .. Last, Type[t[k]] # "SINK", k \in tptr .. Last PROVE k \in NewSegment
  <2>1. tptr > 0
    BY <1>2, <1>3, <1>4, <1>5, <1>7
  <2> QED BY <1>2, <1>3, <1>6, <1>7, <2>1
<1>8. ASSUME t # <<>>
      PROVE  /\ tptr \in 1 .. Last - 1 /\ NewSegment # {} /\ remaining = target_flag[t[Last]]
             /\ NewSegment \ {Last} = tptr .. Last - 1
             /\ IpinsOf(NewSegment \ {Last}) = {Last - 1}
             /\ \A k \in NewSegment : k # Last => Type[t[k]] # "SINK"
  <2>1. /\ tptr \in 1 .. Last - 1
        /\ remaining = target_flag[t[Last]]
        /\ \A k \in tptr .. Last - 1 : Type[t[k]] = "IPIN" <=> k = Last - 1
        /\ \A k \in tptr .. Last - 1 : Type[t[k]] # "SINK"
    BY <1>5, <1>8
  <2>2. NewSegment \ {Last} = tptr .. Last - 1
    BY <1>2, <1>3, <1>6, <2>1
  <2>3. IpinsOf(NewSegment \ {Last}) = {k \in tptr .. Last - 1 : Type[t[k]] = "IPIN"}
    BY <2>2 DEF IpinsOf, t
  <2>4. IpinsOf(NewSegment \ {Last}) = {Last - 1}
    <3>1. Last - 1 \in tptr .. Last - 1
      BY <1>2, <1>3, <2>1
    <3>2. \A k \in tptr .. Last - 1 : Type[t[k]] = "IPIN" <=> k = Last - 1
      BY <2>1
    <3> QED BY <2>3, <3>1, <3>2
  <2>5. tptr \in NewSegment
    BY <1>2, <1>3, <2>1, <2>2
  <2>6. \A k \in NewSegment : k # Last => k \in tptr .. Last - 1
    BY <2>2
  <2> QED BY <2>1, <2>2, <2>4, <2>5, <2>6
<1>9. NewSegment \subseteq DOMAIN t
  BY <1>2, <1>6
<1>10. t = <<>> => tptr = 0 /\ remaining = 0 /\ Last = 0
  BY <1>2, <1>4, <1>5
<1> QED BY <1>1, <1>2, <1>7, <1>8, <1>9, <1>10 DEF t

(* Entries of the wiring.                                                  *)
LEMMA ExpandedFacts ==
    ASSUME SearchInv, Open, NEW S \in SUBSET DOMAIN trace[inet]
    PROVE  /\ \A f \in Expanded(S) :
                  /\ f \in [index : Nodes, cost : Nat, prev_node : Nodes \cup {NoNode}]
                  /\ f.prev_node = NoNode /\ f.cost = 0 /\ f.index \in Traced
                  /\ \E k \in S : trace[inet][k] = f.index
           /\ \A k \in S : Type[trace[inet][k]] # "SINK" =>
                  LET n == trace[inet][k] IN
                  \/ path_cost[n] = -HUGE
                  \/ path_cost[n] = 0 /\ prev_node[n] = NoNode
                  \/ Entry(n, 0, NoNode) \in Expanded(S)
<1>1. inet \in Nets
  BY DEF SearchInv, ControlInv
<1>2. \A k \in S : trace[inet][k] \in Nodes /\ trace[inet][k] \in Traced
  BY <1>1, NetFacts DEF SearchInv, Traced
<1>3. ASSUME NEW f \in Expanded(S)
      PROVE  /\ f \in [index : Nodes, cost : Nat, prev_node : Nodes \cup {NoNode}]
             /\ f.prev_node = NoNode /\ f.cost = 0 /\ f.index \in Traced
             /\ \E k \in S : trace[inet][k] = f.index
  <2>1. PICK k \in S : f = Entry(trace[inet][k], 0, NoNode)
    BY DEF Expanded, Cheaper
  <2> QED BY <1>2, <2>1 DEF Entry
<1>4. ASSUME NEW k \in S, Type[trace[inet][k]] # "SINK"
      PROVE  LET n == trace[inet][k] IN
             \/ path_cost[n] = -HUGE
             \/ path_cost[n] = 0 /\ prev_node[n] = NoNode
             \/ Entry(n, 0, NoNode) \in Expanded(S)
  <2> DEFINE n == trace[inet][k]
  <2>1. n \in Nodes /\ n \in Traced
    BY <1>2
  <2>2. CASE path_cost[n] > 0
    <3>1. Entry(n, 0, NoNode).cost = 0 /\ Entry(n, 0, NoNode).index = n
      BY DEF Entry
    <3>2. Entry(n, 0, NoNode) \in {Entry(trace[inet][j], 0, NoNode) : j \in S}
      OBVIOUS
    <3> QED BY <2>2, <3>1, <3>2 DEF Expanded, Cheaper
  <2>3. CASE ~(path_cost[n] > 0) /\ path_cost[n] # -HUGE
    <3>1. path_cost[n] = 0
      BY <2>1, <2>3, PathCostFacts DEF SearchInv
    <3>2. HUGE # 0
      BY CostsAssumption
    <3>3. -HUGE # 0
      BY <2>3, <3>1
    <3>4. Path(n, 0, prev_node[n])
      <4>1. path_cost[n] \notin {HUGE, -HUGE}
        BY <2>3, <3>1, <3>2
      <4> HIDE DEF n
      <4> QED BY <2>1, <3>1, <4>1 DEF SearchInv, WaveInv
    <3>5. prev_node[n] \in Nodes \cup {NoNode}
      BY <2>1 DEF SearchInv, TypeOK
    <3>6. prev_node[n] = NoNode
      <4> HIDE DEF n
      <4>1. Type[n] # "SINK"
        BY <1>4 DEF n
      <4> QED BY <2>1, <3>4, <3>5, <4>1, FreeOfWiring DEF SearchInv
    <3> QED BY <3>1, <3>6
  <2> QED BY <2>2, <2>3
<1> QED BY <1>3, <1>4

LEMMA ExpandSegmentSearch ==
    ASSUME SearchInv, ExpandSegment
    PROVE  SearchInv'
<1> DEFINE t == trace[inet]
           New == IF remaining = 0 THEN Expanded(NewSegment) ELSE {}
<1>1. /\ pc = "segment" /\ pc' = "wave" /\ isink <= Len(SinksOf(inet))
      /\ remaining = 0 \/ NewSegment = {}
      /\ heap' = heap \cup New
  BY DEF ExpandSegment
<1>2. /\ edges' = edges /\ occ' = occ /\ opins' = opins /\ inet' = inet /\ iclass' = iclass
      /\ itry' = itry /\ pres_fac' = pres_fac /\ verdict' = verdict /\ isink' = isink
      /\ pres_cost' = pres_cost /\ acc_cost' = acc_cost /\ trace' = trace /\ tptr' = tptr
      /\ path_cost' = path_cost /\ prev_node' = prev_node /\ modified' = modified
      /\ target_flag' = target_flag /\ remaining' = remaining
  BY DEF ExpandSegment, loops, path, costs
<1>3. /\ Open /\ Open' /\ inet \in Nets /\ Last \in Nat /\ DOMAIN t = 1 .. Last
      /\ \A k \in DOMAIN t : t[k] \in Nodes
      /\ NewSegment \subseteq DOMAIN t
      /\ \A k \in 1 .. Last : Type[t[k]] # "SINK" /\ k \in tptr .. Last => k \in NewSegment
      /\ t # <<>> => NewSegment # {} /\ remaining = target_flag[t[Last]]
                     /\ \A k \in NewSegment : k # Last => Type[t[k]] # "SINK"
  BY <1>1, SegmentFacts DEF Open
<1>4. t # <<>> => remaining = 0 /\ New = Expanded(NewSegment) /\ target_flag[t[Last]] = 0
  BY <1>1, <1>3
<1>5. \A f \in New : /\ f \in [index : Nodes, cost : Nat, prev_node : Nodes \cup {NoNode}]
                     /\ f.prev_node = NoNode /\ f.cost = 0 /\ f.index \in Traced
                     /\ \E k \in NewSegment : t[k] = f.index
  BY <1>3, ExpandedFacts
<1> HIDE DEF New
<1>6. Traced' = Traced /\ Source' = Source /\ Last' = Last /\ TraceInv' /\ \A i : Links(i)' = Links(i)
  BY <1>2, SameTree DEF SearchInv
<1>7. TypeOK'
  BY <1>1, <1>2, <1>5 DEF SearchInv, TypeOK, Nets
<1>8. Shapes'
  BY <1>2 DEF SearchInv, Shapes, Nets
<1>9. ControlInv'
  BY <1>1, <1>2, <1>3 DEF SearchInv, ControlInv, Nets, SinksOf
<1>10. TouchedInv'
  BY <1>2, <1>3 DEF SearchInv, TouchedInv
<1>11. WaveInv'
  <2>1. \A n, c, p : Path(n, c, p)' = Path(n, c, p)
    BY <1>2, <1>6 DEF Path
  <2>2. \A f \in New : Path(f.index, f.cost, f.prev_node)
    BY <1>5 DEF Path
  <2>3. \A n \in Nodes : path_cost[n] \notin {HUGE, -HUGE} => Path(n, path_cost[n], prev_node[n])'
    BY <1>2, <1>3, <1>6 DEF SearchInv, WaveInv, Path
  <2>4. \A f \in heap' : Path(f.index, f.cost, f.prev_node)
    BY <1>1, <1>3, <2>2 DEF SearchInv, WaveInv
  <2>5. \A f \in heap' : Path(f.index, f.cost, f.prev_node)'
    BY <2>4, <1>2, <1>6 DEF Path
  <2> QED BY <1>2, <2>3, <2>5 DEF WaveInv
<1>12. WiringInv'
  <2>1. ASSUME NEW n \in Traced, Type[n] # "SINK"
        PROVE  \/ path_cost[n] = -HUGE
               \/ path_cost[n] = 0 /\ prev_node[n] = NoNode
               \/ Entry(n, 0, NoNode) \in heap'
    <3>1. \/ path_cost[n] = -HUGE
          \/ path_cost[n] = 0 /\ prev_node[n] = NoNode
          \/ Entry(n, 0, NoNode) \in heap
          \/ \E k \in tptr .. Last : t[k] = n
      BY <1>3, <2>1 DEF SearchInv, WiringInv
    <3>2. ASSUME NEW k \in tptr .. Last, t[k] = n
          PROVE  \/ path_cost[n] = -HUGE
                 \/ path_cost[n] = 0 /\ prev_node[n] = NoNode
                 \/ Entry(n, 0, NoNode) \in New
      <4>1. t # <<>>
        <5>1. DOMAIN t # {}
          BY <2>1 DEF Traced
        <5> QED BY <5>1
      <4>2. k \in 1 .. Last
        <5>1. tptr \in 1 .. Last - 1
          BY <1>1, <4>1, SegmentFacts
        <5> QED BY <1>3, <5>1
      <4>3. k \in NewSegment
        BY <1>3, <2>1, <3>2, <4>2
      <4> QED BY <1>3, <1>4, <2>1, <3>2, <4>1, <4>3, ExpandedFacts
    <3> QED BY <1>1, <3>1, <3>2
  <2>2. \A n \in Nodes : path_cost[n] = -HUGE => n \in Traced /\ Type[n] = "IPIN"
    BY <1>3 DEF SearchInv, WiringInv
  <2>3. \A n \in Traced : Type[n] # "SINK" => path_cost[n] # HUGE
    BY <1>3 DEF SearchInv, WiringInv
  <2> QED BY <1>2, <1>6, <2>1, <2>2, <2>3 DEF WiringInv
<1>13. SegmentInv'
  BY <1>1 DEF SegmentInv
<1>14. PinsInv'
  <2>1. ASSUME NEW k \in Links(inet), target_flag[t[k + 1]] > 0
        PROVE  /\ path_cost[t[k]] = -HUGE
               /\ \A f \in heap' : ~(f.index = t[k + 1] /\ f.prev_node = t[k])
    <3>1. k \in DOMAIN t /\ t # <<>>
      <4>1. k \in DOMAIN t
        BY DEF Links
      <4> QED BY <4>1
    <3>2. k # Last - 1
      <4> SUFFICES ASSUME k = Last - 1 PROVE FALSE
        OBVIOUS
      <4>1. k + 1 = Last
        BY <1>3
      <4> QED BY <1>4, <2>1, <3>1, <4>1
    <3>3. path_cost[t[k]] = -HUGE /\ \A f \in heap : ~(f.index = t[k + 1] /\ f.prev_node = t[k])
      BY <1>3, <2>1, <3>2 DEF SearchInv, PinsInv
    <3>4. t[k] # NoNode
      BY <1>3, <3>1, GraphAssumption
    <3> QED BY <1>1, <1>5, <3>3, <3>4
  <2>2. ASSUME NEW f \in heap', f.prev_node = NoNode PROVE target_flag[f.index] = 0
    <3>1. CASE f \in heap
      BY <1>3, <2>2, <3>1 DEF SearchInv, PinsInv
    <3>2. CASE f \in New
      <4>1. PICK k \in NewSegment : t[k] = f.index
        BY <1>5, <3>2
      <4>2. k \in DOMAIN t /\ t # <<>> /\ f.index \in Nodes
        BY <1>3, <4>1
      <4>3. CASE k = Last
        BY <1>4, <4>1, <4>2, <4>3
      <4>4. CASE k # Last
        <5>1. Type[f.index] # "SINK"
          BY <1>3, <4>1, <4>2, <4>4
        <5>2. ~(target_flag[f.index] > 0)
          BY <1>3, <4>2, <5>1, WantedIsSink DEF SearchInv
        <5>3. target_flag[f.index] \in Nat
          BY <4>2 DEF SearchInv, TypeOK
        <5> QED BY <5>2, <5>3
      <4> QED BY <4>3, <4>4
    <3> QED BY <1>1, <3>1, <3>2
  <2> QED BY <1>2, <1>6, <2>1, <2>2 DEF PinsInv
<1>15. FlagsInv'
  BY <1>2, <1>3, SameFlags DEF SearchInv
<1> QED BY <1>6, <1>7, <1>8, <1>9, <1>10, <1>11, <1>12, <1>13, <1>14, <1>15 DEF SearchInv

(* A path once the step is taken.                                          *)
PathAfter(n, c, p) ==
    IF p = NoNode THEN n \in Traced' \cup {Source'}
    ELSE /\ <<p, n>> \in edges'
         /\ path_cost'[p] # HUGE /\ path_cost'[p] <= c
         /\ Type[n] # "SINK" => path_cost'[p] < c

LEMMA PathsAfter ==
    ASSUME \A n \in Nodes : path_cost'[n] \notin {HUGE, -HUGE} => PathAfter(n, path_cost'[n], prev_node'[n]),
           \A f \in heap' : PathAfter(f.index, f.cost, f.prev_node)
    PROVE  WaveInv'
BY DEF WaveInv, Path, PathAfter

LEMMA MaxOfOne == ASSUME NEW m \in Int PROVE Max({m}) = m
BY DEF Max

LEMMA ExpandForOtherPinSearch ==
    ASSUME SearchInv, ExpandForOtherPin
    PROVE  SearchInv'
<1> DEFINE t == trace[inet]
           S == NewSegment \ {Last}
           sink == t[Last]
           ipin == t[Last - 1]
           New  == Expanded(S)
<1>0. pc = "segment" /\ remaining # 0 /\ NewSegment # {}
  BY DEF ExpandForOtherPin
<1>1. /\ Open /\ inet \in Nets /\ Last \in Nat /\ DOMAIN t = 1 .. Last /\ t # <<>>
      /\ \A k \in DOMAIN t : t[k] \in Nodes
      /\ NewSegment \subseteq DOMAIN t
      /\ tptr \in 1 .. Last - 1 /\ S = tptr .. Last - 1 /\ IpinsOf(S) = {Last - 1}
      /\ \A k \in S : Type[t[k]] # "SINK"
  <2>1. t # <<>>
    BY <1>0, SegmentFacts
  <2> QED BY <1>0, <2>1, SegmentFacts
<1>2. Max(IpinsOf(S)) = Last - 1
  <2>1. Last - 1 \in Int
    BY <1>1
  <2>2. Max({Last - 1}) = Last - 1
    BY <2>1, MaxOfOne
  <2> HIDE DEF S
  <2>3. IpinsOf(S) = {Last - 1}
    BY <1>1
  <2> QED BY <2>2, <2>3
<1>3. /\ pc' = "wave" /\ isink <= Len(SinksOf(inet))
      /\ heap' = {f \in heap \cup New : ~(f.index = sink /\ f.prev_node = ipin)}
      /\ path_cost' = [path_cost EXCEPT ![ipin] = -HUGE, ![sink] = HUGE]
  <2>1. Finish = Last
    BY DEF Finish, Last
  <2> QED BY <1>2, <2>1 DEF ExpandForOtherPin
<1>4. /\ edges' = edges /\ occ' = occ /\ opins' = opins /\ inet' = inet /\ iclass' = iclass
      /\ itry' = itry /\ pres_fac' = pres_fac /\ verdict' = verdict /\ isink' = isink
      /\ pres_cost' = pres_cost /\ acc_cost' = acc_cost /\ trace' = trace /\ tptr' = tptr
      /\ prev_node' = prev_node /\ modified' = modified
      /\ target_flag' = target_flag /\ remaining' = remaining
  BY DEF ExpandForOtherPin, loops, path, costs
<1>5. Open'
  BY <1>3 DEF Open
<1>6. S \in SUBSET DOMAIN t
  BY <1>1
<1>7. /\ \A f \in New : /\ f \in [index : Nodes, cost : Nat, prev_node : Nodes \cup {NoNode}]
                        /\ f.prev_node = NoNode /\ f.cost = 0 /\ f.index \in Traced
                        /\ \E k \in S : t[k] = f.index
      /\ \A k \in S : Type[t[k]] # "SINK" =>
             \/ path_cost[t[k]] = -HUGE
             \/ path_cost[t[k]] = 0 /\ prev_node[t[k]] = NoNode
             \/ Entry(t[k], 0, NoNode) \in New
  <2> HIDE DEF S
  <2> QED BY <1>1, <1>6, ExpandedFacts
<1>8. /\ Last \in DOMAIN t /\ Last - 1 \in DOMAIN t /\ sink \in Nodes /\ ipin \in Nodes
      /\ Type[sink] = "SINK" /\ Type[ipin] = "IPIN" /\ ipin \in Traced
      /\ <<ipin, sink>> \in edges /\ sink # ipin
  <2>1. Last \in DOMAIN t /\ Last - 1 \in DOMAIN t /\ (Last - 1) + 1 = Last
    BY <1>1
  <2>2. sink \in Nodes /\ ipin \in Nodes /\ ipin \in Traced
    BY <1>1, <2>1 DEF Traced
  <2>3. Type[sink] = "SINK"
    BY <1>1 DEF SearchInv, TraceInv, Last
  <2>4. Type[ipin] = "IPIN"
    <3>1. Last - 1 \in IpinsOf(S)
      BY <1>1
    <3> QED BY <3>1 DEF IpinsOf
  <2>5. Type[t[Last - 1]] # "SINK"
    BY <2>4
  <2>6. <<t[Last - 1], t[(Last - 1) + 1]>> \in edges
    BY <1>1, <2>1, <2>5, LinkFacts DEF SearchInv
  <2> QED BY <2>1, <2>2, <2>3, <2>4, <2>6
<1> HIDE DEF New, S, ipin, sink
<1>9. /\ path_cost \in [Nodes -> Nat \cup {-HUGE}] /\ HUGE \in Nat /\ HUGE > 0 /\ -HUGE \in Int
      /\ -HUGE # HUGE /\ -HUGE <= HUGE
  BY CostsAssumption DEF SearchInv, TypeOK
<1>10. /\ path_cost' \in [Nodes -> Nat \cup {-HUGE}]
       /\ path_cost'[ipin] = -HUGE /\ path_cost'[sink] = HUGE
       /\ \A n \in Nodes : n \notin {ipin, sink} => path_cost'[n] = path_cost[n]
  BY <1>3, <1>8, <1>9
<1>11. Traced' = Traced /\ Source' = Source /\ Last' = Last /\ TraceInv' /\ \A i : Links(i)' = Links(i)
  BY <1>4, SameTree DEF SearchInv
<1>12. TypeOK'
  <2>1. heap' \subseteq [index : Nodes, cost : Nat, prev_node : Nodes \cup {NoNode}]
    BY <1>3, <1>7 DEF SearchInv, TypeOK
  <2> QED BY <1>3, <1>4, <1>10, <2>1 DEF SearchInv, TypeOK, Nets
<1>13. Shapes'
  <2>1. \A n \in Nodes : path_cost'[n] <= HUGE
    <3>1. \A n \in Nodes : path_cost[n] <= HUGE
      BY DEF SearchInv, Shapes
    <3> QED BY <1>9, <1>10, <3>1
  <2> QED BY <1>4, <2>1 DEF SearchInv, Shapes, Nets
<1>14. ControlInv'
  BY <1>0, <1>1, <1>3, <1>4 DEF SearchInv, ControlInv, Nets, SinksOf
<1>15. path_cost[ipin] # HUGE
  BY <1>1, <1>8 DEF SearchInv, WiringInv
<1>16. TouchedInv'
  <2>1. ASSUME NEW n \in Nodes, path_cost'[n] # HUGE PROVE n \in modified
    BY <1>8, <1>10, <1>15, <2>1 DEF SearchInv, TouchedInv
  <2> QED BY <1>4, <1>5, <2>1 DEF TouchedInv
<1>17. ASSUME NEW n \in Nodes, NEW c, NEW p \in Nodes \cup {NoNode}, Path(n, c, p), ~(n = sink /\ p = ipin)
       PROVE  PathAfter(n, c, p)
  <2>1. CASE p = NoNode
    BY <1>11, <1>17, <2>1 DEF Path, PathAfter
  <2>2. CASE p # NoNode
    <3>1. p \in Nodes /\ <<p, n>> \in edges
      BY <1>17, <2>2 DEF Path
    <3>2. p # sink
      BY <1>8, <1>17, <3>1, EdgeFacts DEF SearchInv
    <3>3. p # ipin
      BY <1>8, <1>17, <3>1, EdgeFacts DEF SearchInv
    <3>4. path_cost'[p] = path_cost[p]
      BY <1>10, <3>1, <3>2, <3>3
    <3> QED BY <1>4, <1>17, <2>2, <3>4 DEF Path, PathAfter
  <2> QED BY <2>1, <2>2
<1>18. WaveInv'
  <2>1. ASSUME NEW n \in Nodes, path_cost'[n] \notin {HUGE, -HUGE}
        PROVE  PathAfter(n, path_cost'[n], prev_node'[n])
    <3>1. n \notin {ipin, sink} /\ path_cost'[n] = path_cost[n]
      BY <1>10, <2>1
    <3>2. Path(n, path_cost[n], prev_node[n])
      BY <1>1, <2>1, <3>1 DEF SearchInv, WaveInv
    <3>3. prev_node[n] \in Nodes \cup {NoNode} /\ prev_node'[n] = prev_node[n]
      BY <1>4 DEF SearchInv, TypeOK
    <3>4. PathAfter(n, path_cost[n], prev_node[n])
      BY <1>17, <3>1, <3>2, <3>3
    <3> QED BY <3>1, <3>3, <3>4
  <2>2. ASSUME NEW f \in heap' PROVE PathAfter(f.index, f.cost, f.prev_node)
    <3>1. f \in heap \cup New /\ ~(f.index = sink /\ f.prev_node = ipin)
      BY <1>3
    <3>2. f.index \in Nodes /\ f.prev_node \in Nodes \cup {NoNode} /\ Path(f.index, f.cost, f.prev_node)
      <4>1. CASE f \in heap
        BY <1>1, <4>1, HeapElements DEF SearchInv, WaveInv
      <4>2. CASE f \in New
        BY <1>7, <4>2 DEF Path
      <4> QED BY <3>1, <4>1, <4>2
    <3> QED BY <1>17, <3>1, <3>2
  <2> QED BY <2>1, <2>2, PathsAfter
<1>19. WiringInv'
  <2>1. \A n \in Nodes : path_cost'[n] = -HUGE => n \in Traced /\ Type[n] = "IPIN"
    BY <1>1, <1>8, <1>9, <1>10 DEF SearchInv, WiringInv
  <2>2. ASSUME NEW n \in Traced, Type[n] # "SINK"
        PROVE  /\ path_cost'[n] # HUGE
               /\ \/ path_cost'[n] = -HUGE
                  \/ path_cost'[n] = 0 /\ prev_node[n] = NoNode
                  \/ Entry(n, 0, NoNode) \in heap'
    <3>1. CASE n = ipin
      BY <1>9, <1>10, <3>1
    <3>2. CASE n # ipin
      <4>1. n \in Nodes /\ n # sink
        BY <1>1, <1>8, <2>2 DEF Traced
      <4>2. path_cost'[n] = path_cost[n]
        BY <1>10, <3>2, <4>1
      <4>3. /\ path_cost[n] # HUGE
            /\ \/ path_cost[n] = -HUGE
               \/ path_cost[n] = 0 /\ prev_node[n] = NoNode
               \/ Entry(n, 0, NoNode) \in heap
               \/ \E k \in tptr .. Last : t[k] = n
        BY <1>1, <2>2 DEF SearchInv, WiringInv
      <4>4. ASSUME NEW k \in tptr .. Last, t[k] = n
            PROVE  \/ path_cost[n] = -HUGE
                   \/ path_cost[n] = 0 /\ prev_node[n] = NoNode
                   \/ Entry(n, 0, NoNode) \in New
        <5>1. k # Last
          BY <1>8, <2>2, <4>4 DEF sink
        <5>2. k \in S
          BY <1>1, <4>4, <5>1
        <5> QED BY <1>7, <2>2, <4>4, <5>2
      <4>5. Entry(n, 0, NoNode).prev_node # ipin
        BY <1>8, GraphAssumption DEF Entry
      <4> QED BY <1>3, <4>2, <4>3, <4>4, <4>5
    <3> QED BY <3>1, <3>2
  <2> QED BY <1>4, <1>11, <2>1, <2>2 DEF WiringInv
<1>20. SegmentInv'
  BY <1>3 DEF SegmentInv
<1>21. PinsInv'
  <2>1. ASSUME NEW k \in Links(inet), target_flag[t[k + 1]] > 0
        PROVE  /\ path_cost'[t[k]] = -HUGE
               /\ \A f \in heap' : ~(f.index = t[k + 1] /\ f.prev_node = t[k])
    <3>1. k \in DOMAIN t /\ t[k] \in Nodes /\ Type[t[k]] # "SINK"
      BY <1>1 DEF Links
    <3>2. CASE k = Last - 1
      <4>1. t[k] = ipin /\ t[k + 1] = sink
        <5>1. k + 1 = Last
          BY <1>1, <3>2
        <5> QED BY <3>2, <5>1 DEF ipin, sink
      <4> QED BY <1>3, <1>10, <4>1
    <3>3. CASE k # Last - 1
      <4>1. path_cost[t[k]] = -HUGE /\ \A f \in heap : ~(f.index = t[k + 1] /\ f.prev_node = t[k])
        BY <1>1, <2>1, <3>3 DEF SearchInv, PinsInv
      <4>2. t[k] # NoNode
        BY <3>1, GraphAssumption
      <4>3. path_cost'[t[k]] = -HUGE
        BY <1>8, <1>10, <3>1, <4>1
      <4> QED BY <1>3, <1>7, <4>1, <4>2, <4>3
    <3> QED BY <3>2, <3>3
  <2>2. ASSUME NEW f \in heap', f.prev_node = NoNode PROVE target_flag[f.index] = 0
    <3>1. CASE f \in heap
      BY <1>1, <2>2, <3>1 DEF SearchInv, PinsInv
    <3>2. CASE f \in New
      <4>1. PICK k \in S : t[k] = f.index
        BY <1>7, <3>2
      <4>2. f.index \in Nodes /\ Type[f.index] # "SINK"
        BY <1>1, <1>6, <4>1
      <4>3. ~(target_flag[f.index] > 0)
        BY <1>1, <4>2, WantedIsSink DEF SearchInv
      <4>4. target_flag[f.index] \in Nat
        BY <4>2 DEF SearchInv, TypeOK
      <4> QED BY <4>3, <4>4
    <3> QED BY <1>3, <3>1, <3>2
  <2> QED BY <1>4, <1>11, <2>1, <2>2 DEF PinsInv
<1>22. FlagsInv'
  BY <1>1, <1>4, <1>5, SameFlags DEF SearchInv
<1> QED BY <1>11, <1>12, <1>13, <1>14, <1>16, <1>18, <1>19, <1>20, <1>21, <1>22 DEF SearchInv

(* What a further node costs.                                              *)
LEMMA CongFacts ==
    ASSUME TypeOK, Shapes, NEW n \in Nodes
    PROVE  Cong(n) \in Nat /\ (Type[n] \notin {"SOURCE", "SINK"} => Cong(n) > 0)
<1>1. ASSUME NEW a \in Nat, NEW b \in Nat PROVE a * b \in Nat /\ (a > 0 /\ b > 0 => a * b > 0)
  OBVIOUS
<1>2. /\ BaseCost[n] \in Nat /\ acc_cost[n] \in Nat /\ pres_cost[n] \in Nat
      /\ acc_cost[n] > 0 /\ pres_cost[n] > 0
      /\ Type[n] \notin {"SOURCE", "SINK"} => BaseCost[n] > 0
  <2>1. acc_cost[n] \in Nat /\ pres_cost[n] \in Nat /\ acc_cost[n] >= 1 /\ pres_cost[n] >= 1
    BY DEF TypeOK, Shapes
  <2>2. BaseCost[n] \in Nat /\ (BaseCost[n] = 0 => Type[n] \in {"SOURCE", "SINK"})
    BY CostsAssumption
  <2> QED BY <2>1, <2>2
<1> DEFINE b == BaseCost[n]
           a == acc_cost[n]
           p == pres_cost[n]
<1>3. Cong(n) = (b * a) * p
  BY DEF Cong, CongWith
<1> HIDE DEF a, b, p
<1>4. a \in Nat /\ b \in Nat /\ p \in Nat /\ a > 0 /\ p > 0 /\ (Type[n] \notin {"SOURCE", "SINK"} => b > 0)
  BY <1>2 DEF a, b, p
<1>5. b * a \in Nat /\ (b > 0 => b * a > 0)
  BY <1>1, <1>4
<1> DEFINE c == b * a
<1> HIDE DEF c
<1>6. c \in Nat /\ (b > 0 => c > 0)
  BY <1>5 DEF c
<1>7. c * p \in Nat /\ (c > 0 => c * p > 0)
  BY <1>1, <1>4, <1>6
<1> QED BY <1>3, <1>4, <1>6, <1>7 DEF c

LEMMA WaveSearch ==
    ASSUME SearchInv, Wave
    PROVE  SearchInv'
<1> DEFINE t == trace[inet]
<1>1. PICK e \in Cheapest :
          /\ pc = "wave" /\ target_flag[e.index] = 0
          /\ IF path_cost[e.index] > e.cost
             THEN /\ path_cost' = [path_cost EXCEPT ![e.index] = e.cost]
                  /\ prev_node' = [prev_node EXCEPT ![e.index] = e.prev_node]
                  /\ modified' = IF path_cost[e.index] = HUGE THEN modified \cup {e.index}
                                                              ELSE modified
                  /\ heap' = (heap \ {e}) \cup Neighbours(e, path_cost')
             ELSE heap' = heap \ {e} /\ UNCHANGED path
  BY DEF Wave
<1>2. /\ edges' = edges /\ occ' = occ /\ opins' = opins /\ inet' = inet /\ iclass' = iclass
      /\ itry' = itry /\ pres_fac' = pres_fac /\ verdict' = verdict /\ isink' = isink
      /\ pres_cost' = pres_cost /\ acc_cost' = acc_cost /\ trace' = trace /\ tptr' = tptr
      /\ target_flag' = target_flag /\ remaining' = remaining /\ pc' = pc
  BY DEF Wave, loops, costs
<1> DEFINE x == e.index
           New == IF path_cost[x] > e.cost THEN Neighbours(e, path_cost') ELSE {}
<1>3. /\ e \in heap /\ \A f \in heap : e.cost <= f.cost
      /\ x \in Nodes /\ e.cost \in Nat /\ e.prev_node \in Nodes \cup {NoNode}
      /\ e = Entry(x, e.cost, e.prev_node)
  <2>1. e \in heap /\ \A f \in heap : e.cost <= f.cost
    BY DEF Cheapest
  <2> QED BY <2>1, HeapElements DEF SearchInv
<1>4. Open /\ Open' /\ inet \in Nets
  BY <1>1, <1>2 DEF Open, SearchInv, ControlInv
<1>5. /\ path_cost \in [Nodes -> Nat \cup {-HUGE}] /\ HUGE \in Nat /\ HUGE > 0 /\ -HUGE \in Int
      /\ \A n \in Nodes : path_cost[n] \in Int /\ path_cost[n] <= HUGE
      /\ -HUGE < 0
  <2>1. path_cost \in [Nodes -> Nat \cup {-HUGE}] /\ \A n \in Nodes : path_cost[n] <= HUGE
    BY DEF SearchInv, TypeOK, Shapes
  <2>2. HUGE \in Nat /\ HUGE > 0 /\ -HUGE \in Int /\ -HUGE < 0
    BY CostsAssumption
  <2> QED BY <2>1, <2>2
<1>6. /\ heap' = (heap \ {e}) \cup New
      /\ \A n \in Nodes \ {x} : path_cost'[n] = path_cost[n] /\ prev_node'[n] = prev_node[n]
      /\ path_cost' \in [Nodes -> Nat \cup {-HUGE}] /\ prev_node' \in [Nodes -> Nodes \cup {NoNode}]
      /\ path_cost[x] > e.cost => path_cost'[x] = e.cost /\ prev_node'[x] = e.prev_node
      /\ ~(path_cost[x] > e.cost) => path_cost'[x] = path_cost[x] /\ prev_node'[x] = prev_node[x]
      /\ modified' = IF path_cost[x] > e.cost /\ path_cost[x] = HUGE THEN modified \cup {x} ELSE modified
  <2>1. prev_node \in [Nodes -> Nodes \cup {NoNode}]
    BY DEF SearchInv, TypeOK
  <2>2. CASE path_cost[x] > e.cost
    BY <1>1, <1>3, <1>5, <2>1, <2>2
  <2>3. CASE ~(path_cost[x] > e.cost)
    <3>1. path_cost' = path_cost /\ prev_node' = prev_node /\ modified' = modified /\ heap' = heap \ {e}
      BY <1>1, <2>3 DEF path
    <3> QED BY <1>5, <2>1, <2>3, <3>1
  <2> QED BY <2>2, <2>3
<1>7. ASSUME NEW f \in New
      PROVE  /\ f \in [index : Nodes, cost : Nat, prev_node : Nodes \cup {NoNode}]
             /\ f.prev_node = x /\ <<x, f.index>> \in edges /\ path_cost[x] > e.cost
             /\ e.cost <= f.cost /\ (Type[f.index] # "SINK" => e.cost < f.cost)
  <2>1. path_cost[x] > e.cost /\ f \in Neighbours(e, path_cost')
    BY <1>7
  <2>2. PICK n \in {m \in Box[inet] : <<x, m>> \in edges} : f = Entry(n, e.cost + Cong(n) + Bend(x, n), x)
    BY <2>1 DEF Neighbours, Cheaper
  <2>3. n \in Nodes /\ <<x, n>> \in edges
    BY <2>2, NodesOfEdges DEF SearchInv
  <2>4. Cong(n) \in Nat /\ Bend(x, n) \in Nat
    <3>1. Cong(n) \in Nat
      BY <2>3, CongFacts DEF SearchInv
    <3>2. Bend(x, n) \in Nat
      BY CostsAssumption DEF Bend
    <3> QED BY <3>1, <3>2
  <2>5. Type[n] # "SINK" => Cong(n) > 0
    <3>1. Type[n] # "SOURCE"
      BY <1>3, <2>3, EdgeFacts DEF SearchInv
    <3> QED BY <2>3, <3>1, CongFacts DEF SearchInv
  <2> DEFINE c == e.cost + Cong(n) + Bend(x, n)
  <2>6. c \in Nat /\ e.cost <= c /\ (Type[n] # "SINK" => e.cost < c)
    BY <1>3, <2>4, <2>5
  <2> HIDE DEF c
  <2>7. f = Entry(n, c, x)
    BY <2>2 DEF c
  <2> QED BY <1>3, <2>1, <2>3, <2>6, <2>7 DEF Entry
<1> HIDE DEF New
<1>8. Traced' = Traced /\ Source' = Source /\ Last' = Last /\ TraceInv' /\ \A i : Links(i)' = Links(i)
  BY <1>2, SameTree DEF SearchInv
<1>9. \A n \in Nodes : path_cost'[n] <= path_cost[n] /\ path_cost'[n] <= HUGE
                       /\ path_cost'[n] \in Int /\ (path_cost[n] = -HUGE => path_cost'[n] = -HUGE)
                       /\ (path_cost'[n] = -HUGE => path_cost[n] = -HUGE)
                       /\ (path_cost[n] # HUGE => path_cost'[n] # HUGE)
  BY <1>3, <1>5, <1>6
<1>10. TypeOK'
  <2>1. heap' \subseteq [index : Nodes, cost : Nat, prev_node : Nodes \cup {NoNode}]
        /\ modified' \subseteq Nodes
    BY <1>3, <1>6, <1>7 DEF SearchInv, TypeOK
  <2> QED BY <1>2, <1>6, <2>1 DEF SearchInv, TypeOK, Nets
<1>11. Shapes'
  BY <1>2, <1>9 DEF SearchInv, Shapes, Nets
<1>12. ControlInv'
  <2>1. SinksOf(inet)' = SinksOf(inet)
    BY <1>2 DEF SinksOf
  <2> QED BY <1>2, <1>4, <2>1 DEF SearchInv, ControlInv, Open, Nets
<1>13. TouchedInv'
  <2>1. ASSUME NEW n \in Nodes, path_cost'[n] # HUGE PROVE n \in modified'
    <3>1. \A m \in Nodes : path_cost[m] # HUGE => m \in modified
      BY DEF SearchInv, TouchedInv
    <3> QED BY <1>6, <2>1, <3>1
  <2> QED BY <1>4, <2>1 DEF TouchedInv
<1>14. ASSUME NEW n \in Nodes, NEW c \in Int, NEW p \in Nodes \cup {NoNode}, Path(n, c, p)
       PROVE  PathAfter(n, c, p)
  <2>1. CASE p = NoNode
    BY <1>8, <1>14, <2>1 DEF Path, PathAfter
  <2>2. CASE p # NoNode
    <3>1. p \in Nodes /\ path_cost[p] # HUGE /\ path_cost[p] <= c /\ <<p, n>> \in edges
          /\ (Type[n] # "SINK" => path_cost[p] < c)
      BY <1>14, <2>2 DEF Path
    <3>2. path_cost'[p] # HUGE /\ path_cost'[p] <= c /\ (Type[n] # "SINK" => path_cost'[p] < c)
      BY <1>5, <1>9, <3>1
    <3> QED BY <1>2, <2>2, <3>1, <3>2 DEF PathAfter
  <2> QED BY <2>1, <2>2
<1>15. WaveInv'
  <2>1. \A n \in Nodes : path_cost[n] \notin {HUGE, -HUGE} => Path(n, path_cost[n], prev_node[n])
    BY <1>4 DEF SearchInv, WaveInv
  <2>2. \A f \in heap : Path(f.index, f.cost, f.prev_node)
    BY <1>4 DEF SearchInv, WaveInv
  <2>3. prev_node \in [Nodes -> Nodes \cup {NoNode}]
    BY DEF SearchInv, TypeOK
  <2>4. PathAfter(x, e.cost, e.prev_node)
    BY <1>3, <1>14, <2>2
  <2>5. ASSUME NEW n \in Nodes, path_cost'[n] \notin {HUGE, -HUGE}
        PROVE  PathAfter(n, path_cost'[n], prev_node'[n])
    <3>1. CASE n = x /\ path_cost[x] > e.cost
      BY <1>6, <2>4, <3>1
    <3>2. CASE ~(n = x /\ path_cost[x] > e.cost)
      <4>1. path_cost'[n] = path_cost[n] /\ prev_node'[n] = prev_node[n]
        BY <1>6, <3>2
      <4>2. Path(n, path_cost[n], prev_node[n]) /\ path_cost[n] \in Int /\ prev_node[n] \in Nodes \cup {NoNode}
        BY <1>5, <2>1, <2>3, <2>5, <4>1
      <4>3. PathAfter(n, path_cost[n], prev_node[n])
        BY <1>14, <4>2
      <4> QED BY <4>1, <4>3
    <3> QED BY <3>1, <3>2
  <2>6. ASSUME NEW f \in heap' PROVE PathAfter(f.index, f.cost, f.prev_node)
    <3>1. CASE f \in heap
      <4>1. f.index \in Nodes /\ f.cost \in Int /\ f.prev_node \in Nodes \cup {NoNode}
        BY <3>1, HeapElements DEF SearchInv
      <4> QED BY <1>14, <2>2, <3>1, <4>1
    <3>2. CASE f \in New
      <4>1. /\ f.prev_node = x /\ <<x, f.index>> \in edges /\ path_cost[x] > e.cost
            /\ e.cost <= f.cost /\ (Type[f.index] # "SINK" => e.cost < f.cost)
        BY <1>7, <3>2
      <4>2. path_cost'[x] = e.cost /\ e.cost # HUGE /\ x # NoNode
        BY <1>3, <1>5, <1>6, <4>1, GraphAssumption
      <4> QED BY <1>2, <4>1, <4>2 DEF PathAfter
    <3> QED BY <1>6, <3>1, <3>2
  <2> QED BY <2>5, <2>6, PathsAfter
<1>16. WiringInv'
  <2>1. \A n \in Nodes : path_cost'[n] = -HUGE => n \in Traced /\ Type[n] = "IPIN"
    BY <1>4, <1>9 DEF SearchInv, WiringInv
  <2>2. ASSUME NEW n \in Traced, Type[n] # "SINK"
        PROVE  /\ path_cost'[n] # HUGE
               /\ \/ path_cost'[n] = -HUGE
                  \/ path_cost'[n] = 0 /\ prev_node'[n] = NoNode
                  \/ Entry(n, 0, NoNode) \in heap'
    <3>1. n \in Nodes
      BY <1>4, <2>2, NetFacts DEF Traced, SearchInv
    <3>2. /\ path_cost[n] # HUGE
          /\ \/ path_cost[n] = -HUGE
             \/ path_cost[n] = 0 /\ prev_node[n] = NoNode
             \/ Entry(n, 0, NoNode) \in heap
      BY <1>1, <1>4, <2>2 DEF SearchInv, WiringInv
    <3>3. path_cost'[n] # HUGE
      BY <1>9, <3>1, <3>2
    <3>4. CASE path_cost[n] = -HUGE
      BY <1>9, <3>1, <3>3, <3>4
    <3>5. CASE path_cost[n] = 0 /\ prev_node[n] = NoNode
      <4>1. ~(n = x /\ path_cost[x] > e.cost)
        BY <1>3, <3>5
      <4>2. path_cost'[n] = path_cost[n] /\ prev_node'[n] = prev_node[n]
        BY <1>6, <3>1, <4>1
      <4> QED BY <3>3, <3>5, <4>2
    <3>6. CASE Entry(n, 0, NoNode) \in heap
      <4>1. CASE n # x
        <5>1. Entry(n, 0, NoNode).index = n
          BY DEF Entry
        <5>2. Entry(n, 0, NoNode) # e
          BY <4>1, <5>1
        <5> QED BY <1>6, <3>3, <3>6, <5>2
      <4>2. CASE n = x
        <5>1. Entry(n, 0, NoNode).cost = 0
          BY DEF Entry
        <5>2. e.cost = 0
          BY <1>3, <3>6, <5>1
        <5>3. CASE path_cost[x] > e.cost
          <6>1. Path(n, 0, e.prev_node)
            BY <1>3, <1>4, <4>2, <5>2 DEF SearchInv, WaveInv
          <6>2. e.prev_node = NoNode
            BY <1>3, <1>4, <2>2, <3>1, <6>1, FreeOfWiring DEF SearchInv
          <6> QED BY <1>6, <3>3, <4>2, <5>2, <5>3, <6>2
        <5>4. CASE ~(path_cost[x] > e.cost) /\ path_cost[x] # -HUGE
          <6>1. path_cost[x] \in Nat
            BY <1>3, <5>4, PathCostFacts DEF SearchInv
          <6>2. path_cost[n] = 0 /\ path_cost'[n] = 0 /\ prev_node'[n] = prev_node[n]
            BY <1>3, <1>6, <4>2, <5>2, <5>4, <6>1
          <6>3. Path(n, 0, prev_node[n])
            <7>1. path_cost[n] \notin {HUGE, -HUGE}
              BY <1>5, <6>2
            <7>2. Path(n, path_cost[n], prev_node[n])
              BY <1>4, <3>1, <7>1 DEF SearchInv, WaveInv
            <7> QED BY <6>2, <7>2
          <6>4. prev_node[n] = NoNode
            <7>1. prev_node[n] \in Nodes \cup {NoNode}
              BY <3>1 DEF SearchInv, TypeOK
            <7> QED BY <1>4, <2>2, <3>1, <6>3, <7>1, FreeOfWiring DEF SearchInv
          <6> QED BY <3>3, <6>2, <6>4
        <5>5. CASE path_cost[x] = -HUGE
          BY <3>1, <3>4, <4>2, <5>5
        <5> QED BY <5>3, <5>4, <5>5
      <4> QED BY <4>1, <4>2
    <3> QED BY <3>2, <3>4, <3>5, <3>6
  <2> QED BY <1>2, <1>8, <2>1, <2>2 DEF WiringInv
<1>17. SegmentInv'
  BY <1>1, <1>2 DEF SegmentInv
<1>18. PinsInv'
  <2>1. ASSUME NEW k \in Links(inet), target_flag[t[k + 1]] > 0
        PROVE  /\ path_cost'[t[k]] = -HUGE
               /\ \A f \in heap' : ~(f.index = t[k + 1] /\ f.prev_node = t[k])
    <3>1. t[k] \in Nodes
      BY <1>4, NetFacts DEF Links, SearchInv
    <3>2. path_cost[t[k]] = -HUGE /\ \A f \in heap : ~(f.index = t[k + 1] /\ f.prev_node = t[k])
      BY <1>1, <1>4, <2>1 DEF SearchInv, PinsInv
    <3>3. ASSUME NEW f \in New PROVE f.prev_node # t[k]
      <4>1. f.prev_node = x /\ path_cost[x] > e.cost
        BY <1>7
      <4>2. path_cost[x] # -HUGE
        BY <1>3, <1>5, <4>1
      <4> HIDE DEF x
      <4> QED BY <3>2, <4>1, <4>2
    <3> QED BY <1>6, <1>9, <3>1, <3>2, <3>3
  <2>2. ASSUME NEW f \in heap', f.prev_node = NoNode PROVE target_flag[f.index] = 0
    <3>1. f \notin New
      BY <1>3, <1>7, <2>2, GraphAssumption
    <3> QED BY <1>4, <1>6, <2>2, <3>1 DEF SearchInv, PinsInv
  <2> QED BY <1>2, <1>8, <2>1, <2>2 DEF PinsInv
<1>19. FlagsInv'
  BY <1>2, <1>4, SameFlags DEF SearchInv
<1> QED BY <1>8, <1>10, <1>11, <1>12, <1>13, <1>15, <1>16, <1>17, <1>18, <1>19 DEF SearchInv

-----------------------------------------------------------------------------
(* Counting.  A finite set with each element labelled, and a finite union. *)
LEMMA SameNumber ==
    ASSUME NEW S, NEW T, IsFiniteSet(S), NEW f \in [S -> T],
           \A x, y \in S : f[x] = f[y] => x = y, \A y \in T : \E x \in S : f[x] = y
    PROVE  IsFiniteSet(T) /\ Cardinality(T) = Cardinality(S)
<1>1. f \in Bijection(S, T)
  BY Fun_IsBij
<1>2. ExistsBijection(S, T)
  BY <1>1, Fun_ExistsBij
<1> QED BY <1>2, FS_Bijection

Labelled(i, K) == {<<i, k>> : k \in K}
Union(I, K) == UNION {Labelled(i, K[i]) : i \in I}

LEMMA LabelledFacts ==
    ASSUME NEW i, NEW K, IsFiniteSet(K)
    PROVE  IsFiniteSet(Labelled(i, K)) /\ Cardinality(Labelled(i, K)) = Cardinality(K)
<1> DEFINE f == [k \in K |-> <<i, k>>]
<1>1. f \in [K -> Labelled(i, K)]
  BY DEF Labelled
<1>2. \A x, y \in K : f[x] = f[y] => x = y
  OBVIOUS
<1>3. \A y \in Labelled(i, K) : \E x \in K : f[x] = y
  BY DEF Labelled
<1> HIDE DEF f
<1> QED BY <1>1, <1>2, <1>3, SameNumber

LEMMA FiniteUnion ==
    ASSUME NEW I, IsFiniteSet(I), NEW K, \A i \in I : IsFiniteSet(K[i])
    PROVE  IsFiniteSet(Union(I, K))
<1> DEFINE T == {Labelled(i, K[i]) : i \in I}
           f == [i \in I |-> Labelled(i, K[i])]
<1>1. f \in [I -> T] /\ \A y \in T : \E i \in I : f[i] = y
  OBVIOUS
<1>2. \A y \in T : IsFiniteSet(y)
  BY LabelledFacts
<1> HIDE DEF T, f
<1>3. f \in Surjection(I, T)
  BY <1>1, Fun_IsSurj
<1>4. IsFiniteSet(T)
  BY <1>3, FS_Surjection
<1> QED BY <1>2, <1>4, FS_UNION DEF T, Union

LEMMA OneMore ==
    ASSUME NEW I, IsFiniteSet(I), NEW i, i \notin I, NEW K, \A j \in I \cup {i} : IsFiniteSet(K[j])
    PROVE  /\ Cardinality(Union(I \cup {i}, K)) = Cardinality(Union(I, K)) + Cardinality(K[i])
           /\ Cardinality(Union(I, K)) \in Nat /\ Cardinality(K[i]) \in Nat
<1> DEFINE L == Labelled(i, K[i])
<1>1. Union(I \cup {i}, K) = Union(I, K) \cup L
  BY DEF Union
<1>2. Union(I, K) \cap L = {}
  BY DEF Labelled, Union
<1>3. IsFiniteSet(Union(I, K))
  BY FiniteUnion
<1>4. IsFiniteSet(L) /\ Cardinality(L) = Cardinality(K[i]) /\ Cardinality(K[i]) \in Nat
  BY LabelledFacts, FS_CardinalityType
<1> HIDE DEF L
<1>5. Cardinality(Union(I, K)) \in Nat
  BY <1>3, FS_CardinalityType
<1>6. Cardinality(Union(I, K) \cup L) = Cardinality(Union(I, K)) + Cardinality(L) - Cardinality({})
  BY <1>2, <1>3, <1>4, FS_Union
<1>7. Cardinality({}) = 0
  BY FS_EmptySet
<1>8. Cardinality(Union(I \cup {i}, K)) = Cardinality(Union(I, K) \cup L)
  BY <1>1
<1>9. Cardinality(Union(I \cup {i}, K)) = Cardinality(Union(I, K)) + Cardinality(K[i]) - 0
  BY <1>4, <1>6, <1>7, <1>8
<1> QED BY <1>4, <1>5, <1>9

(* What net i adds to the occupancy of n.                                  *)
Counted(i, n) == {j \in InTrace(i, n) : Type[n] = "SINK" \/ \A l \in InTrace(i, n) : j <= l}
NetOcc(I, n) == Cardinality(Union(I, [i \in Nets |-> Counted(i, n)]))
ClassOcc(C, n) == Cardinality({c \in C : \E k \in DOMAIN opins[c] : opins[c][k] = n})

LEMMA TrueOccIs ==
    ASSUME NEW I \in SUBSET Nets, NEW C, NEW n
    PROVE  TrueOcc(I, C, n) = NetOcc(I, n) + ClassOcc(C, n)
<1> DEFINE K == [i \in Nets |-> Counted(i, n)]
<1>1. {Labelled(i, K[i]) : i \in I} = {Labelled(i, Counted(i, n)) : i \in I}
  OBVIOUS
<1>2. Union(I, K) = UNION {Labelled(i, Counted(i, n)) : i \in I}
  BY <1>1 DEF Union
<1>3. NetOcc(I, n) = Cardinality(UNION {Labelled(i, Counted(i, n)) : i \in I})
  BY <1>2 DEF NetOcc
<1> QED BY <1>3 DEF TrueOcc, ClassOcc, Labelled, Counted

(* A tree is charged once for each of its nodes, and a SINK once for each  *)
(* of its connections.                                                     *)
LEMMA ChargedIsCounted ==
    ASSUME TypeOK, Shapes, TraceInv, NEW i \in Nets, NEW n \in Nodes
    PROVE  /\ {k \in Charged(trace[i]) : trace[i][k] = n} = Counted(i, n)
           /\ IsFiniteSet(Counted(i, n)) /\ Cardinality(Counted(i, n)) \in Nat
           /\ Uses(trace[i])[n] = Cardinality(Counted(i, n))
<1> DEFINE t == trace[i]
<1>1. /\ Len(t) \in Nat /\ DOMAIN t = 1 .. Len(t) /\ \A k \in DOMAIN t : t[k] \in Nodes
      /\ t # <<>> => 1 \in DOMAIN t
  <2>1. t \in Seq(Nodes) /\ Len(t) \in Nat /\ DOMAIN t = 1 .. Len(t) /\ \A k \in DOMAIN t : t[k] \in Nodes
    BY NetFacts
  <2>2. t # <<>> => Len(t) # 0
    BY <2>1, EmptySeq
  <2> QED BY <2>1, <2>2
<1>2. InTrace(i, n) = {k \in 1 .. Len(t) : t[k] = n} /\ InTrace(i, n) \subseteq Nat
  BY <1>1 DEF InTrace
<1>3. ASSUME NEW k \in 1 .. Len(t), k # 1, Type[t[k - 1]] = "SINK"
      PROVE  \E j \in 1 .. Len(t) : j < k /\ t[j] = t[k] /\ Type[t[k]] # "SINK"
  <2>1. k \in DOMAIN t /\ k - 1 \in DOMAIN t /\ t # <<>>
    BY <1>1, <1>3
  <2>2. k - 1 \notin Links(i)
    BY <1>3 DEF Links
  <2>3. \E j \in 1 .. k - 2 : t[j] = t[k] /\ Type[t[j]] # "SINK"
    BY <2>1, <2>2 DEF TraceInv, TracesAreTrees
  <2>4. PICK j \in 1 .. k - 2 : t[j] = t[k] /\ Type[t[j]] # "SINK"
    BY <2>3
  <2>5. j \in 1 .. Len(t) /\ j < k
    BY <1>1, <2>1, <2>4
  <2> QED BY <2>4, <2>5
<1>4. ASSUME NEW k \in 1 .. Len(t), k # 1, Type[t[k - 1]] # "SINK"
      PROVE  /\ k - 1 \in Links(i) /\ (k - 1) + 1 = k /\ t[k] # t[1]
  <2>1. k - 1 \in DOMAIN t /\ (k - 1) + 1 = k /\ t # <<>>
    BY <1>1, <1>4
  <2>2. k - 1 \in Links(i)
    BY <1>4, <2>1, LinkFacts
  <2>3. t[(k - 1) + 1] # t[1]
    BY <2>1, <2>2 DEF TraceInv, TracesAreTrees
  <2> QED BY <2>1, <2>2, <2>3
<1>5. ASSUME NEW k \in 1 .. Len(t), NEW l \in 1 .. Len(t), k # 1, l # 1, k # l, t[k] = t[l],
             Type[t[k - 1]] # "SINK", Type[t[l - 1]] # "SINK"
      PROVE  Type[t[k]] = "SINK"
  <2>1. k - 1 \in Links(i) /\ (k - 1) + 1 = k /\ l - 1 \in Links(i) /\ (l - 1) + 1 = l
    BY <1>4, <1>5
  <2>2. k - 1 # l - 1 /\ t # <<>>
    BY <1>1, <1>5
  <2>3. \A a, b \in Links(i) : a # b /\ t[a + 1] = t[b + 1] => Type[t[a + 1]] = "SINK"
    BY <2>2 DEF TraceInv, TracesAreTrees
  <2>4. t[(k - 1) + 1] = t[(l - 1) + 1]
    BY <1>5, <2>1
  <2>5. Type[t[(k - 1) + 1]] = "SINK"
    BY <2>1, <2>2, <2>3, <2>4
  <2> QED BY <2>1, <2>5
<1>6. ASSUME NEW k \in Charged(t), t[k] = n PROVE k \in Counted(i, n)
  <2>1. k \in 1 .. Len(t) /\ (k = 1 \/ Type[t[k - 1]] # "SINK") /\ k \in InTrace(i, n)
    BY <1>1, <1>2, <1>6 DEF Charged
  <2> SUFFICES ASSUME Type[n] # "SINK", ~(\A l \in InTrace(i, n) : k <= l) PROVE FALSE
    BY <2>1 DEF Counted
  <2>2. PICK f \in InTrace(i, n) : \A l \in InTrace(i, n) : f <= l
    BY <1>2, <2>1, LeastNatural
  <2>3. f \in 1 .. Len(t) /\ t[f] = n /\ f < k /\ k # 1
    BY <1>1, <1>2, <2>1, <2>2
  <2>4. CASE f = 1
    BY <1>4, <1>6, <2>1, <2>3, <2>4
  <2>5. CASE f # 1 /\ Type[t[f - 1]] = "SINK"
    <3>1. PICK j \in 1 .. Len(t) : j < f /\ t[j] = t[f]
      BY <1>3, <2>3, <2>5
    <3>2. j \in InTrace(i, n) /\ j \in Nat
      BY <1>2, <2>3, <3>1
    <3> QED BY <2>2, <2>3, <3>1, <3>2
  <2>6. CASE f # 1 /\ Type[t[f - 1]] # "SINK"
    <3>1. Type[t[k]] = "SINK"
      BY <1>5, <1>6, <2>1, <2>3, <2>6
    <3> QED BY <1>6, <3>1
  <2> QED BY <2>4, <2>5, <2>6
<1>7. ASSUME NEW k \in Counted(i, n) PROVE k \in Charged(t) /\ t[k] = n
  <2>1. k \in 1 .. Len(t) /\ t[k] = n /\ (Type[n] = "SINK" \/ \A l \in InTrace(i, n) : k <= l)
    BY <1>2 DEF Counted
  <2>2. k = 1 \/ Type[t[k - 1]] # "SINK"
    <3> SUFFICES ASSUME k # 1, Type[t[k - 1]] = "SINK" PROVE FALSE
      OBVIOUS
    <3>1. PICK j \in 1 .. Len(t) : j < k /\ t[j] = t[k] /\ Type[t[k]] # "SINK"
      BY <1>3, <2>1
    <3>2. j \in InTrace(i, n) /\ j \in Nat /\ k \in Nat
      BY <1>2, <2>1, <3>1
    <3> QED BY <2>1, <3>1, <3>2
  <2> QED BY <1>1, <2>1, <2>2 DEF Charged
<1>8. {k \in Charged(t) : t[k] = n} = Counted(i, n)
  <2> HIDE DEF t
  <2> QED BY <1>6, <1>7
<1>9. IsFiniteSet(Counted(i, n)) /\ Cardinality(Counted(i, n)) \in Nat
  <2>1. Counted(i, n) \subseteq 1 .. Len(t)
    BY <1>2 DEF Counted
  <2>2. IsFiniteSet(1 .. Len(t))
    BY <1>1, FS_Interval
  <2> QED BY <2>1, <2>2, FS_Subset, FS_CardinalityType
<1>10. Uses(t)[n] = Cardinality({k \in Charged(t) : t[k] = n})
  BY DEF Uses
<1> QED BY <1>8, <1>9, <1>10

LEMMA FiniteNets == IsFiniteSet(Nets) /\ IsFiniteSet(DOMAIN Classes) /\ DOMAIN Classes = 1 .. Len(Classes)
                    /\ Len(Classes) \in Nat /\ Nets = 1 .. Len(Terminals) /\ Len(Terminals) \in Nat
<1>1. Terminals \in Seq(Seq(Nodes)) /\ Nets = 1 .. Len(Terminals) /\ Len(Terminals) \in Nat
  BY NetsAssumption, LenProperties DEF Nets
<1>2. Classes \in Seq([source : Nodes, nelem : Nat])
  BY NetsAssumption
<1>3. Len(Classes) \in Nat /\ DOMAIN Classes = 1 .. Len(Classes)
  BY <1>2, LenProperties
<1> QED BY <1>1, <1>3, FS_Interval

(* All nets but one, and all.                                              *)
LEMMA OneNetMore ==
    ASSUME TypeOK, Shapes, TraceInv, NEW i \in Nets, NEW C, IsFiniteSet(C), NEW n \in Nodes
    PROVE  TrueOcc(Nets, C, n) = TrueOcc(Nets \ {i}, C, n) + Uses(trace[i])[n]
<1> DEFINE I == Nets \ {i}
           K == [j \in Nets |-> Counted(j, n)]
<1>1. IsFiniteSet(I) /\ i \notin I /\ I \cup {i} = Nets
  BY FiniteNets, FS_Subset
<1>2. \A j \in Nets : IsFiniteSet(K[j]) /\ K[j] = Counted(j, n)
  BY ChargedIsCounted
<1> HIDE DEF I, K
<1>3. \A j \in I \cup {i} : IsFiniteSet(K[j])
  BY <1>1, <1>2
<1>4. Cardinality(Union(I \cup {i}, K)) = Cardinality(Union(I, K)) + Cardinality(K[i])
      /\ Cardinality(Union(I, K)) \in Nat /\ Cardinality(K[i]) \in Nat
  BY <1>1, <1>3, OneMore
<1>5. \A J : NetOcc(J, n) = Cardinality(Union(J, K))
  BY DEF NetOcc, K
<1>6. NetOcc(Nets, n) = NetOcc(I, n) + Cardinality(Counted(i, n))
      /\ NetOcc(I, n) \in Nat /\ Cardinality(Counted(i, n)) \in Nat
  BY <1>1, <1>2, <1>4, <1>5
<1>7. Uses(trace[i])[n] = Cardinality(Counted(i, n))
  BY ChargedIsCounted
<1>8. ClassOcc(C, n) \in Nat
  BY FS_Subset, FS_CardinalityType DEF ClassOcc
<1>9. /\ TrueOcc(Nets, C, n) = NetOcc(Nets, n) + ClassOcc(C, n)
      /\ TrueOcc(I, C, n) = NetOcc(I, n) + ClassOcc(C, n)
  BY <1>1, TrueOccIs
<1>10. NetOcc(Nets, n) + ClassOcc(C, n) = (NetOcc(I, n) + ClassOcc(C, n)) + Uses(trace[i])[n]
  BY <1>6, <1>7, <1>8
<1> QED BY <1>9, <1>10 DEF I

(* A list of OPINs without repetition reserves each once.                  *)
LEMMA ReservedCount ==
    ASSUME NEW lists, IsFiniteSet(DOMAIN lists), NEW n \in Nodes,
           \A c \in DOMAIN lists : \A j, k \in DOMAIN lists[c] : lists[c][j] = lists[c][k] => j = k
    PROVE  Reserved(lists)[n] =
               Cardinality({c \in DOMAIN lists : \E k \in DOMAIN lists[c] : lists[c][k] = n})
<1> DEFINE S == {c \in DOMAIN lists : \E k \in DOMAIN lists[c] : lists[c][k] = n}
           T == UNION {{<<c, k>> : k \in {j \in DOMAIN lists[c] : lists[c][j] = n}} : c \in DOMAIN lists}
           pick(c) == CHOOSE k \in DOMAIN lists[c] : lists[c][k] = n
           f == [c \in S |-> <<c, pick(c)>>]
<1>1. \A c \in S : pick(c) \in DOMAIN lists[c] /\ lists[c][pick(c)] = n
  OBVIOUS
<1> HIDE DEF pick
<1>2. ASSUME NEW c \in S PROVE f[c] \in T
  BY <1>1
<1>3. ASSUME NEW y \in T PROVE \E c \in S : f[c] = y
  <2>1. PICK c \in DOMAIN lists : \E k \in DOMAIN lists[c] : y = <<c, k>> /\ lists[c][k] = n
    OBVIOUS
  <2>2. PICK k \in DOMAIN lists[c] : y = <<c, k>> /\ lists[c][k] = n
    BY <2>1
  <2>3. c \in S
    BY <2>2
  <2>4. pick(c) = k
    BY <1>1, <2>2, <2>3
  <2> QED BY <2>2, <2>3, <2>4
<1>4. \A b, c \in S : f[b] = f[c] => b = c
  OBVIOUS
<1>5. f \in [S -> T]
  BY <1>2
<1>6. IsFiniteSet(S)
  BY FS_Subset
<1>7. Reserved(lists)[n] = Cardinality(T)
  BY DEF Reserved
<1> HIDE DEF f, S, T
<1>8. Cardinality(T) = Cardinality(S)
  BY <1>3, <1>4, <1>5, <1>6, SameNumber
<1> QED BY <1>7, <1>8 DEF S

LEMMA NoneReserved == ASSUME NEW n \in Nodes PROVE Reserved(<<>>)[n] = 0
<1> DEFINE empty == <<>>
<1>1. DOMAIN empty = {} /\ IsFiniteSet({}) /\ Cardinality({}) = 0
  BY FS_EmptySet
<1> HIDE DEF empty
<1>2. Reserved(empty)[n] = Cardinality({c \in DOMAIN empty : \E k \in DOMAIN empty[c] : empty[c][k] = n})
  BY <1>1, ReservedCount
<1>3. {c \in DOMAIN empty : \E k \in DOMAIN empty[c] : empty[c][k] = n} = {}
  BY <1>1
<1> QED BY <1>1, <1>2, <1>3 DEF empty

LEMMA ListReserved ==
    ASSUME NEW s, \A j, k \in DOMAIN s : s[j] = s[k] => j = k, NEW n \in Nodes
    PROVE  Reserved(<<s>>)[n] = IF \E k \in DOMAIN s : s[k] = n THEN 1 ELSE 0
<1> DEFINE list == <<s>>
<1>1. DOMAIN list = {1} /\ list[1] = s
  <2>1. list \in Seq({s}) /\ Len(list) = 1 /\ list[1] = s
    OBVIOUS
  <2> QED BY <2>1, LenProperties
<1>2. IsFiniteSet({1}) /\ Cardinality({1}) = 1 /\ Cardinality({}) = 0
  BY FS_Singleton, FS_EmptySet
<1> HIDE DEF list
<1>3. Reserved(list)[n] = Cardinality({c \in DOMAIN list : \E k \in DOMAIN list[c] : list[c][k] = n})
  <2>1. \A c \in DOMAIN list : \A j, k \in DOMAIN list[c] : list[c][j] = list[c][k] => j = k
    BY <1>1
  <2>2. IsFiniteSet(DOMAIN list)
    BY <1>1, <1>2
  <2> QED BY <2>1, <2>2, ReservedCount
<1>4. {c \in DOMAIN list : \E k \in DOMAIN list[c] : list[c][k] = n}
          = IF \E k \in DOMAIN s : s[k] = n THEN {1} ELSE {}
  BY <1>1
<1> QED BY <1>2, <1>3, <1>4 DEF list

(* What a node costs by its occupancy.                                     *)
LEMMA PresCostFacts ==
    ASSUME NEW n \in Nodes, NEW o \in Nat, NEW fac \in Nat
    PROVE  PresCost(n, o, fac) \in Nat /\ PresCost(n, o, fac) >= 1
<1>1. Capacity[n] \in Nat
  BY GraphAssumption
<1>2. CASE o < Capacity[n]
  BY <1>2 DEF PresCost
<1>3. CASE ~(o < Capacity[n])
  <2> DEFINE d == o + 1 - Capacity[n]
  <2>1. d \in Nat
    BY <1>1, <1>3
  <2> HIDE DEF d
  <2>2. d * fac \in Nat
    BY <2>1
  <2>3. PresCost(n, o, fac) = 1 + d * fac
    BY <1>3 DEF PresCost, d
  <2> QED BY <2>2, <2>3
<1> QED BY <1>2, <1>3

(* An adjustment keeps the costs when the occupancies stay natural.        *)
LEMMA AdjustFacts ==
    ASSUME TypeOK, Shapes, NEW sign \in {-1, 1}, NEW uses, Adjust(sign, uses),
           \A n \in Nodes : uses[n] \in Nat /\ occ[n] + sign * uses[n] \in Nat
    PROVE  /\ occ' \in [Nodes -> Nat] /\ \A n \in Nodes : occ'[n] = occ[n] + sign * uses[n]
           /\ pres_cost' \in [Nodes -> Nat] /\ \A n \in Nodes : pres_cost'[n] >= 1
<1>1. occ' = [n \in Nodes |-> occ[n] + sign * uses[n]]
  BY DEF Adjust
<1>2. occ' \in [Nodes -> Nat] /\ \A n \in Nodes : occ'[n] = occ[n] + sign * uses[n]
  BY <1>1
<1> DEFINE value(n) == IF uses[n] = 0 THEN pres_cost[n] ELSE PresCost(n, occ'[n], pres_fac)
<1>3. pres_cost' = [n \in Nodes |-> value(n)]
  BY DEF Adjust
<1>4. pres_fac \in Nat /\ \A n \in Nodes : pres_cost[n] \in Nat /\ pres_cost[n] >= 1
  BY DEF TypeOK, Shapes
<1>5. ASSUME NEW n \in Nodes PROVE value(n) \in Nat /\ value(n) >= 1
  <2>1. PresCost(n, occ'[n], pres_fac) \in Nat /\ PresCost(n, occ'[n], pres_fac) >= 1
    BY <1>2, <1>4, PresCostFacts
  <2> QED BY <1>4, <2>1
<1> HIDE DEF value
<1>6. pres_cost' \in [Nodes -> Nat] /\ \A n \in Nodes : pres_cost'[n] = value(n)
  BY <1>3, <1>5
<1> QED BY <1>2, <1>5, <1>6

-----------------------------------------------------------------------------
(* The invariant.                                                          *)
IInv ==
    /\ SearchInv /\ OccupancyInv /\ ConnectedInv /\ ReservedInv /\ FeasibleInv

LEMMA InitIInv == Init => IInv
<1> SUFFICES ASSUME Init PROVE IInv
  OBVIOUS
<1>1. /\ edges \in Graphs
      /\ occ = [n \in Nodes |-> 0]
      /\ pres_cost = [n \in Nodes |-> 1] /\ acc_cost = [n \in Nodes |-> 1]
      /\ path_cost = [n \in Nodes |-> HUGE] /\ prev_node = [n \in Nodes |-> NoNode]
      /\ target_flag = [n \in Nodes |-> 0]
      /\ modified = {} /\ heap = {}
      /\ trace = [i \in Nets |-> <<>>] /\ tptr = 0 /\ remaining = 0
      /\ inet = 1 /\ isink = 1 /\ iclass = 1 /\ itry = 1 /\ pres_fac = FirstPresFac
      /\ verdict = "none" /\ pc = "net"
  BY DEF Init
<1>2. PICK n \in Leftover : opins = [c \in DOMAIN Classes |-> [k \in 1 .. Classes[c].nelem |-> n]]
  BY DEF Init
<1>3. ~Open
  BY <1>1 DEF Open
<1>4. \A i \in Nets : trace[i] = <<>> /\ trace[i] \in Seq(Nodes)
  BY <1>1
<1>5. HUGE \in Nat \ {0} /\ FirstPresFac \in Nat /\ MaxIterations \in Nat \ {0} /\ Leftover \subseteq Nodes
  BY CostsAssumption, NetsAssumption
<1>6. TypeOK
  <2>1. edges \subseteq Nodes \X Nodes
    <3>1. edges \subseteq (Nodes \ OfType("SINK")) \X (Nodes \ OfType("SOURCE"))
      BY <1>1, GraphAssumption
    <3> QED BY <3>1
  <2>2. \A c \in DOMAIN Classes : opins[c] \in [1 .. Classes[c].nelem -> Nodes]
    BY <1>2, <1>5
  <2>3. inet \in 1 .. Len(Terminals) + 1
    BY <1>1, FiniteNets
  <2>4. itry \in 1 .. MaxIterations /\ {tptr, remaining, pres_fac} \subseteq Nat
        /\ {isink, iclass} \subseteq Nat \ {0}
    BY <1>1, <1>5
  <2>5. /\ occ \in [Nodes -> Nat] /\ pres_cost \in [Nodes -> Nat] /\ acc_cost \in [Nodes -> Nat]
        /\ path_cost \in [Nodes -> Nat \cup {-HUGE}]
        /\ prev_node \in [Nodes -> Nodes \cup {NoNode}]
        /\ target_flag \in [Nodes -> Nat] /\ modified \subseteq Nodes
        /\ heap \subseteq [index : Nodes, cost : Nat, prev_node : Nodes \cup {NoNode}]
    BY <1>1, <1>5
  <2> QED BY <1>1, <1>4, <2>1, <2>2, <2>3, <2>4, <2>5 DEF TypeOK
<1>7. Shapes
  BY <1>1, <1>2, <1>4, <1>5 DEF Shapes
<1>8. ControlInv
  BY <1>1, <1>3 DEF ControlInv
<1>9. TraceInv
  BY <1>4 DEF TraceInv, TracesAreTrees
<1>10. TouchedInv
  BY <1>1 DEF TouchedInv
<1>11. WaveInv /\ WiringInv /\ SegmentInv /\ PinsInv
  BY <1>1, <1>3 DEF WaveInv, WiringInv, SegmentInv, PinsInv
<1>12. FlagsInv
  BY <1>1, <1>3 DEF FlagsInv
<1>13. OccupancyInv
  <2> SUFFICES ASSUME NEW x \in Nodes PROVE occ[x] = TrueOcc(Routed, Held, x)
    BY DEF OccupancyInv
  <2>1. Routed = Nets /\ Held = {}
    BY <1>1, <1>3 DEF Routed, Held
  <2>2. \A i \in Nets : Counted(i, x) = {}
    BY <1>4 DEF Counted, InTrace
  <2>3. Union(Nets, [i \in Nets |-> Counted(i, x)]) = {}
    BY <2>2 DEF Union, Labelled
  <2>4. NetOcc(Nets, x) = 0 /\ ClassOcc({}, x) = 0
    BY <2>3, FS_EmptySet DEF NetOcc, ClassOcc
  <2>5. TrueOcc(Nets, {}, x) = NetOcc(Nets, x) + ClassOcc({}, x)
    BY TrueOccIs
  <2> QED BY <1>1, <2>1, <2>4, <2>5
<1>14. ConnectedInv /\ ReservedInv /\ FeasibleInv
  <2>1. ConnectedInv
    BY <1>1, FiniteNets DEF ConnectedInv, Finished
  <2>2. ReservedInv /\ FeasibleInv
    BY <1>1 DEF ReservedInv, FeasibleInv
  <2> QED BY <2>1, <2>2
<1> QED BY <1>6, <1>7, <1>8, <1>9, <1>10, <1>11, <1>12, <1>13, <1>14 DEF IInv, SearchInv

(* While a net is searched for.                                            *)
LEMMA SearchKeeps ==
    ASSUME IInv, Open, Open', inet' = inet, verdict' = verdict, itry' = itry, iclass' = iclass,
           opins' = opins, occ' = occ, \A i \in Nets \ {inet} : trace'[i] = trace[i]
    PROVE  OccupancyInv' /\ ConnectedInv' /\ ReservedInv' /\ FeasibleInv'
<1>1. Routed' = Nets \ {inet} /\ Routed = Nets \ {inet} /\ Held' = Held
  BY DEF Routed, Held, Open, Nets
<1>2. ASSUME NEW n \in Nodes PROVE occ'[n] = TrueOcc(Routed, Held, n)'
  <2> DEFINE I == Nets \ {inet}
             C == Held
  <2>1. occ[n] = TrueOcc(I, C, n)
    BY <1>1 DEF IInv, OccupancyInv
  <2>2. I \in SUBSET Nets
    OBVIOUS
  <2>3. \A i \in I : trace'[i] = trace[i]
    OBVIOUS
  <2>4. I' = I /\ C' = C
    BY <1>1 DEF Nets
  <2> HIDE DEF I, C
  <2>5. TrueOcc(I, C, n)' = TrueOcc(I, C, n)
    BY <2>2, <2>3, <2>4, SameUse
  <2>6. TrueOcc(Routed, Held, n)' = TrueOcc(I, C, n)'
    BY <1>1, <2>4 DEF I, C
  <2> QED BY <2>1, <2>5, <2>6
<1>3. OccupancyInv'
  BY <1>2 DEF OccupancyInv
<1>4. ASSUME NEW i \in Nets, NEW n \in OfType("SINK"), Finished(i)'
      PROVE  Cardinality(InTrace(i, n)') = Connections(i, n)
  <2>1. Finished(i) /\ i # inet
    BY <1>4 DEF Finished, Open
  <2>2. InTrace(i, n)' = InTrace(i, n)
    BY <2>1 DEF InTrace
  <2> QED BY <2>1, <2>2 DEF IInv, ConnectedInv
<1>5. ConnectedInv'
  BY <1>4 DEF ConnectedInv, Connections, SinksOf, Nets
<1>6. ReservedInv'
  BY DEF IInv, ReservedInv, Open
<1>7. FeasibleInv'
  BY DEF IInv, SearchInv, ControlInv, FeasibleInv, Open
<1> QED BY <1>3, <1>5, <1>6, <1>7

LEMMA SearchSteps ==
    ASSUME IInv, ExpandSegment \/ ExpandForOtherPin \/ Wave \/ Connect
    PROVE  IInv'
<1>1. SearchInv'
  <2>1. CASE ExpandSegment
    BY <2>1, ExpandSegmentSearch DEF IInv
  <2>2. CASE ExpandForOtherPin
    BY <2>2, ExpandForOtherPinSearch DEF IInv
  <2>3. CASE Wave
    BY <2>3, WaveSearch DEF IInv
  <2>4. CASE Connect
    BY <2>4, ConnectSearch, ConnectTrace DEF IInv, SearchInv
  <2> QED BY <2>1, <2>2, <2>3, <2>4
<1>2. /\ Open /\ Open' /\ inet' = inet /\ verdict' = verdict /\ itry' = itry /\ iclass' = iclass
      /\ opins' = opins /\ occ' = occ
  <2>1. CASE ExpandSegment
    BY <2>1 DEF ExpandSegment, Open, loops
  <2>2. CASE ExpandForOtherPin
    BY <2>2 DEF ExpandForOtherPin, Open, loops
  <2>3. CASE Wave
    BY <2>3 DEF Wave, Open, loops
  <2>4. CASE Connect
    BY <2>4 DEF Connect, Open, loops
  <2> QED BY <2>1, <2>2, <2>3, <2>4
<1>3. \A i \in Nets \ {inet} : trace'[i] = trace[i]
  <2>1. CASE ExpandSegment \/ ExpandForOtherPin \/ Wave
    BY <2>1 DEF ExpandSegment, ExpandForOtherPin, Wave
  <2>2. CASE Connect
    <3>1. \E e, q, L : Joining(e, q, L)
      BY <2>2, Joins DEF IInv, SearchInv
    <3> QED BY <3>1 DEF Joining
  <2> QED BY <2>1, <2>2
<1> QED BY <1>1, <1>2, <1>3, SearchKeeps DEF IInv

-----------------------------------------------------------------------------
(* Between the nets nothing is searched for.                               *)
LEMMA NoSearch ==
    ASSUME ~Open'
    PROVE  WaveInv' /\ WiringInv' /\ SegmentInv' /\ PinsInv'
BY DEF WaveInv, WiringInv, SegmentInv, PinsInv, Open

LEMMA SameOccupancy ==
    ASSUME IInv, occ' = occ, trace' = trace, opins' = opins, Routed' = Routed, Held' = Held
    PROVE  OccupancyInv'
<1>1. ASSUME NEW n \in Nodes PROVE occ'[n] = TrueOcc(Routed, Held, n)'
  <2> DEFINE I == Routed
             C == Held
  <2>1. occ[n] = TrueOcc(I, C, n)
    BY DEF IInv, OccupancyInv
  <2>2. I \in SUBSET Nets /\ \A i \in I : trace'[i] = trace[i]
    BY DEF Routed
  <2>3. I' = I /\ C' = C
    OBVIOUS
  <2> HIDE DEF I, C
  <2>4. TrueOcc(I, C, n)' = TrueOcc(I, C, n)
    BY <2>2, <2>3, SameUse
  <2>5. TrueOcc(Routed, Held, n)' = TrueOcc(I, C, n)'
    BY DEF I, C
  <2> QED BY <2>1, <2>4, <2>5
<1> QED BY <1>1 DEF OccupancyInv

LEMMA SkipGlobalStep == ASSUME IInv, SkipGlobal PROVE IInv'
<1>1. /\ pc = "net" /\ inet \in Global /\ inet' = inet + 1 /\ pc' = pc
      /\ edges' = edges /\ occ' = occ /\ opins' = opins /\ iclass' = iclass
      /\ itry' = itry /\ pres_fac' = pres_fac /\ verdict' = verdict /\ isink' = isink
      /\ pres_cost' = pres_cost /\ acc_cost' = acc_cost /\ trace' = trace /\ tptr' = tptr
      /\ path_cost' = path_cost /\ prev_node' = prev_node /\ modified' = modified /\ heap' = heap
      /\ target_flag' = target_flag /\ remaining' = remaining
  BY DEF SkipGlobal, search, path, costs
<1>2. inet \in Nets /\ inet \in 1 .. Len(Terminals) /\ Len(Terminals) \in Nat /\ Nets = 1 .. Len(Terminals)
  BY <1>1, NetsAssumption, FiniteNets
<1>3. ~Open /\ ~Open' /\ verdict = "none"
  BY <1>1 DEF Open, IInv, SearchInv, ControlInv
<1>4. TypeOK'
  <2>1. inet' \in 1 .. Len(Terminals) + 1
    BY <1>1, <1>2
  <2> QED BY <1>1, <2>1 DEF IInv, SearchInv, TypeOK, Nets
<1>5. Shapes' /\ TouchedInv'
  BY <1>1, <1>3 DEF IInv, SearchInv, Shapes, TouchedInv, Nets
<1>6. ControlInv'
  BY <1>1, <1>3 DEF IInv, SearchInv, ControlInv
<1>7. TraceInv'
  BY <1>1 DEF IInv, SearchInv, TraceInv, TracesAreTrees, Links, Nets
<1>8. FlagsInv'
  BY <1>1, <1>3 DEF IInv, SearchInv, FlagsInv
<1>9. OccupancyInv'
  <2>1. Routed' = Routed /\ Held' = Held
    BY <1>1, <1>3 DEF Routed, Held, Nets
  <2> QED BY <1>1, <2>1, SameOccupancy
<1>10. ConnectedInv'
  <2>1. ASSUME NEW i \in Nets, NEW n \in OfType("SINK"), Finished(i)'
        PROVE  Cardinality(InTrace(i, n)') = Connections(i, n)
    <3>1. i # inet
      BY <1>1, <2>1 DEF Finished
    <3>2. Finished(i)
      BY <1>1, <1>2, <1>3, <2>1, <3>1 DEF Finished
    <3>3. InTrace(i, n)' = InTrace(i, n)
      BY <1>1 DEF InTrace
    <3> QED BY <3>2, <3>3 DEF IInv, ConnectedInv
  <2> QED BY <2>1 DEF ConnectedInv, Connections, SinksOf, Nets
<1>11. ReservedInv' /\ FeasibleInv'
  BY <1>1 DEF IInv, ReservedInv, FeasibleInv, Feasible
<1> QED BY <1>3, <1>4, <1>5, <1>6, <1>7, <1>8, <1>9, <1>10, <1>11, NoSearch DEF IInv, SearchInv

(* The path costs are all reset.                                           *)
LEMMA ResetFacts ==
    ASSUME SearchInv, ResetPathCosts
    PROVE  /\ path_cost' \in [Nodes -> Nat \cup {-HUGE}] /\ \A n \in Nodes : path_cost'[n] = HUGE
           /\ modified' = {} /\ prev_node' = prev_node
<1>1. /\ path_cost' = [n \in Nodes |-> IF n \in modified THEN HUGE ELSE path_cost[n]]
      /\ modified' = {} /\ prev_node' = prev_node
  BY DEF ResetPathCosts
<1>2. \A n \in Nodes : path_cost[n] # HUGE => n \in modified
  BY DEF SearchInv, TouchedInv
<1>3. HUGE \in Nat
  BY CostsAssumption
<1> QED BY <1>1, <1>2, <1>3

LEMMA UnroutableStep == ASSUME IInv, Unroutable PROVE IInv'
<1>1. /\ pc = "wave" /\ heap = {} /\ ResetPathCosts /\ verdict' = "disconnected" /\ pc' = "done"
      /\ edges' = edges /\ occ' = occ /\ opins' = opins /\ inet' = inet /\ iclass' = iclass
      /\ itry' = itry /\ pres_fac' = pres_fac /\ isink' = isink
      /\ pres_cost' = pres_cost /\ acc_cost' = acc_cost /\ trace' = trace /\ tptr' = tptr
      /\ heap' = heap /\ target_flag' = target_flag /\ remaining' = remaining
  BY DEF Unroutable, loops, search, costs
<1>2. /\ path_cost' \in [Nodes -> Nat \cup {-HUGE}] /\ \A n \in Nodes : path_cost'[n] = HUGE
      /\ modified' = {} /\ prev_node' = prev_node
  BY <1>1, ResetFacts DEF IInv
<1>3. Open /\ ~Open' /\ verdict = "none" /\ inet \in Nets \ Global /\ HUGE \in Nat
  BY <1>1, CostsAssumption DEF Open, IInv, SearchInv, ControlInv
<1>4. TypeOK'
  BY <1>1, <1>2 DEF IInv, SearchInv, TypeOK, Nets
<1>5. Shapes'
  BY <1>1, <1>2, <1>3 DEF IInv, SearchInv, Shapes, Nets
<1>6. TouchedInv'
  BY <1>1, <1>2 DEF TouchedInv
<1>7. ControlInv'
  BY <1>1, <1>3 DEF IInv, SearchInv, ControlInv, Nets, Open
<1>8. TraceInv'
  BY <1>1 DEF IInv, SearchInv, TraceInv, TracesAreTrees, Links, Nets
<1>9. FlagsInv'
  BY <1>1, <1>3 DEF FlagsInv
<1>10. OccupancyInv'
  <2>1. Routed' = Routed /\ Held' = Held
    BY <1>1, <1>3 DEF Routed, Held, Nets
  <2> QED BY <1>1, <2>1, SameOccupancy
<1>11. ConnectedInv'
  <2>1. ASSUME NEW i \in Nets, NEW n \in OfType("SINK"), Finished(i)'
        PROVE  Cardinality(InTrace(i, n)') = Connections(i, n)
    <3>1. i # inet
      BY <1>1, <2>1 DEF Finished
    <3>2. Finished(i)
      BY <1>1, <2>1, <3>1 DEF Finished
    <3>3. InTrace(i, n)' = InTrace(i, n)
      BY <1>1 DEF InTrace
    <3> QED BY <3>2, <3>3 DEF IInv, ConnectedInv
  <2> QED BY <2>1 DEF ConnectedInv, Connections, SinksOf, Nets
<1>12. ReservedInv' /\ FeasibleInv'
  BY <1>1 DEF IInv, ReservedInv, FeasibleInv, Feasible
<1> QED BY <1>3, <1>4, <1>5, <1>6, <1>7, <1>8, <1>9, <1>10, <1>11, <1>12, NoSearch DEF IInv, SearchInv

LEMMA FiniteHeld == ASSUME IInv PROVE IsFiniteSet(Held) /\ Routed \subseteq Nets
<1>1. iclass \in Nat
  BY DEF IInv, SearchInv, TypeOK
<1>2. IsFiniteSet(1 .. iclass - 1)
  BY <1>1, FS_Interval
<1>3. IsFiniteSet({})
  BY FS_EmptySet
<1>4. Held \in {1 .. iclass - 1, {}, DOMAIN Classes}
  BY DEF Held
<1>5. IsFiniteSet(Held)
  BY <1>2, <1>3, <1>4, FiniteNets
<1> QED BY <1>5 DEF Routed

LEMMA CloseNetStep == ASSUME IInv, CloseNet PROVE IInv'
<1>1. /\ pc = "segment" /\ isink > Len(SinksOf(inet)) /\ pc' = "net"
      /\ heap' = {} /\ ResetPathCosts /\ Adjust(1, Uses(trace[inet])) /\ inet' = inet + 1
      /\ edges' = edges /\ acc_cost' = acc_cost /\ opins' = opins /\ iclass' = iclass
      /\ itry' = itry /\ pres_fac' = pres_fac /\ verdict' = verdict /\ isink' = isink
      /\ trace' = trace /\ tptr' = tptr /\ target_flag' = target_flag /\ remaining' = remaining
  BY DEF CloseNet
<1>2. /\ path_cost' \in [Nodes -> Nat \cup {-HUGE}] /\ \A n \in Nodes : path_cost'[n] = HUGE
      /\ modified' = {} /\ prev_node' = prev_node
  BY <1>1, ResetFacts DEF IInv
<1>3. Open /\ ~Open' /\ verdict = "none" /\ inet \in Nets \ Global /\ HUGE \in Nat
  BY <1>1, CostsAssumption DEF Open, IInv, SearchInv, ControlInv
<1>4. inet \in 1 .. Len(Terminals) /\ Len(Terminals) \in Nat /\ Nets = 1 .. Len(Terminals)
  BY <1>3, FiniteNets
<1>5. isink = Len(SinksOf(inet)) + 1 /\ Len(SinksOf(inet)) \in Nat
  <2>1. isink \in Nat /\ isink <= Len(SinksOf(inet)) + 1 /\ Len(SinksOf(inet)) \in Nat
    BY <1>3, NetFacts DEF IInv, SearchInv, ControlInv, TypeOK
  <2> QED BY <1>1, <2>1
<1>6. \A n \in Nodes : target_flag[n] = 0
  <2>1. PICK U \in SUBSET (1 .. Len(SinksOf(inet))) : Unconnected(U)
    BY <1>3 DEF IInv, SearchInv, FlagsInv
  <2>2. Cardinality(U) = 0
    BY <1>5, <2>1 DEF Unconnected
  <2>3. IsFiniteSet(1 .. Len(SinksOf(inet)))
    BY <1>5, FS_Interval
  <2>4. IsFiniteSet(U)
    BY <2>3, FS_Subset
  <2>5. U = {}
    BY <2>2, <2>4, FS_EmptySet
  <2>6. \A n \in Nodes : {k \in U : SinksOf(inet)[k] = n} = {}
    BY <2>5
  <2> QED BY <2>1, <2>6, FS_EmptySet DEF Unconnected
<1> DEFINE uses == Uses(trace[inet])
           C == Held
<1>7. Routed = Nets \ {inet} /\ Routed' = Nets /\ C' = C
  BY <1>1, <1>3 DEF Routed, Held, Nets
<1>8. ASSUME NEW n \in Nodes
      PROVE  /\ uses[n] \in Nat /\ occ[n] \in Nat /\ occ[n] + uses[n] = TrueOcc(Nets, C, n)
             /\ TrueOcc(Nets, C, n)' = TrueOcc(Nets, C, n)
  <2>1. occ[n] = TrueOcc(Nets \ {inet}, C, n) /\ occ[n] \in Nat
    BY <1>7 DEF IInv, OccupancyInv, SearchInv, TypeOK
  <2>2. IsFiniteSet(C)
    BY FiniteHeld
  <2>3. \A i \in Nets : trace'[i] = trace[i]
    BY <1>1
  <2>4. C' = C
    BY <1>7
  <2> HIDE DEF C
  <2>5. TrueOcc(Nets, C, n) = TrueOcc(Nets \ {inet}, C, n) + Uses(trace[inet])[n]
    BY <1>3, <2>2, OneNetMore DEF IInv, SearchInv
  <2>6. Uses(trace[inet])[n] \in Nat
    BY <1>3, ChargedIsCounted DEF IInv, SearchInv
  <2>7. TrueOcc(Nets, C, n)' = TrueOcc(Nets, C, n)
    BY <1>1, <2>3, <2>4, SameUse DEF Nets
  <2> QED BY <2>1, <2>5, <2>6, <2>7
<1> HIDE DEF uses, C
<1>9. /\ occ' \in [Nodes -> Nat] /\ \A n \in Nodes : occ'[n] = occ[n] + uses[n]
      /\ pres_cost' \in [Nodes -> Nat] /\ \A n \in Nodes : pres_cost'[n] >= 1
  <2>1. \A n \in Nodes : uses[n] \in Nat /\ occ[n] \in Nat /\ 1 * uses[n] = uses[n]
        /\ occ[n] + 1 * uses[n] \in Nat
    BY <1>8
  <2>2. Adjust(1, uses) /\ 1 \in {-1, 1}
    BY <1>1 DEF uses
  <2>3. /\ occ' \in [Nodes -> Nat] /\ \A n \in Nodes : occ'[n] = occ[n] + 1 * uses[n]
        /\ pres_cost' \in [Nodes -> Nat] /\ \A n \in Nodes : pres_cost'[n] >= 1
    BY <2>1, <2>2, AdjustFacts DEF IInv, SearchInv
  <2> QED BY <2>1, <2>3
<1>10. OccupancyInv'
  <2>1. \A n \in Nodes : TrueOcc(Routed, Held, n)' = TrueOcc(Nets, C, n)'
    BY <1>7 DEF C, Nets
  <2>2. \A n \in Nodes : occ'[n] = TrueOcc(Routed, Held, n)'
    BY <1>8, <1>9, <2>1
  <2> QED BY <2>2 DEF OccupancyInv
<1>11. TypeOK'
  <2>1. inet' \in 1 .. Len(Terminals) + 1
    BY <1>1, <1>4
  <2> QED BY <1>1, <1>2, <1>9, <2>1 DEF IInv, SearchInv, TypeOK, Nets
<1>12. Shapes'
  BY <1>1, <1>2, <1>3, <1>9 DEF IInv, SearchInv, Shapes, Nets
<1>13. TouchedInv'
  BY <1>1, <1>2 DEF TouchedInv
<1>14. ControlInv'
  BY <1>1, <1>3 DEF IInv, SearchInv, ControlInv, Open
<1>15. TraceInv'
  BY <1>1 DEF IInv, SearchInv, TraceInv, TracesAreTrees, Links, Nets
<1>16. FlagsInv'
  BY <1>1, <1>3, <1>6 DEF FlagsInv
<1>17. ConnectedInv'
  <2>1. ASSUME NEW i \in Nets, NEW n \in OfType("SINK"), Finished(i)'
        PROVE  Cardinality(InTrace(i, n)') = Connections(i, n)
    <3>1. InTrace(i, n)' = InTrace(i, n)
      BY <1>1 DEF InTrace
    <3>2. CASE i = inet
      <4>1. Cardinality(InTrace(inet, n)) + target_flag[n] = Connections(inet, n) /\ n \in Nodes
        BY <1>3 DEF IInv, SearchInv, FlagsInv, OfType
      <4>2. Cardinality(InTrace(inet, n)) \in Nat
        <5>1. Len(trace[inet]) \in Nat /\ DOMAIN trace[inet] = 1 .. Len(trace[inet])
          BY <1>3, NetFacts DEF IInv, SearchInv
        <5>2. IsFiniteSet(1 .. Len(trace[inet]))
          BY <5>1, FS_Interval
        <5>3. InTrace(inet, n) \subseteq 1 .. Len(trace[inet])
          BY <5>1 DEF InTrace
        <5> QED BY <5>2, <5>3, FS_Subset, FS_CardinalityType
      <4> QED BY <1>6, <3>1, <3>2, <4>1, <4>2
    <3>3. CASE i # inet
      <4>1. Finished(i)
        BY <1>1, <1>3, <1>4, <2>1, <3>3 DEF Finished
      <4> QED BY <3>1, <4>1 DEF IInv, ConnectedInv
    <3> QED BY <3>2, <3>3
  <2> QED BY <2>1 DEF ConnectedInv, Connections, SinksOf, Nets
<1>18. ReservedInv' /\ FeasibleInv'
  BY <1>1, <1>3 DEF IInv, ReservedInv, FeasibleInv
<1> QED BY <1>3, <1>10, <1>11, <1>12, <1>13, <1>14, <1>15, <1>16, <1>17, <1>18, NoSearch DEF IInv, SearchInv

LEMMA StartNetStep == ASSUME IInv, StartNet PROVE IInv'
<1> DEFINE source == Terminals[inet][1]
           first  == Entry(source, CongWith(pres_cost', source), NoNode)
<1>1. /\ pc = "net" /\ inet \in Nets \ Global /\ pc' = "segment"
      /\ Adjust(-1, Uses(trace[inet]))
      /\ trace' = [trace EXCEPT ![inet] = <<>>]
      /\ heap' = heap \cup Cheaper({first}, path_cost)
      /\ target_flag' = [n \in Nodes |-> target_flag[n] + Connections(inet, n)]
      /\ tptr' = 0 /\ remaining' = 0 /\ isink' = 1 /\ inet' = inet
      /\ edges' = edges /\ acc_cost' = acc_cost /\ opins' = opins /\ iclass' = iclass
      /\ itry' = itry /\ pres_fac' = pres_fac /\ verdict' = verdict
      /\ path_cost' = path_cost /\ prev_node' = prev_node /\ modified' = modified
  BY DEF StartNet, loops, path
<1>2. ~Open /\ Open' /\ verdict = "none" /\ inet \in Nets
  BY <1>1 DEF Open, IInv, SearchInv, ControlInv
<1>3. heap = {} /\ modified = {} /\ \A n \in Nodes : path_cost[n] = HUGE
  BY <1>2 DEF IInv, SearchInv, TouchedInv
<1>4. \A n \in Nodes : target_flag[n] = 0
  BY <1>1 DEF IInv, SearchInv, FlagsInv
<1>5. /\ source \in Nodes /\ Type[source] = "SOURCE" /\ SinksOf(inet) \in Seq(OfType("SINK"))
      /\ Len(SinksOf(inet)) \in Nat /\ DOMAIN SinksOf(inet) = 1 .. Len(SinksOf(inet))
  BY <1>2, NetFacts DEF IInv, SearchInv
<1>6. trace \in [Nets -> Seq(Nodes)] /\ <<>> \in Seq(Nodes)
  BY DEF IInv, SearchInv, Shapes
<1>7. /\ trace' \in [Nets -> Seq(Nodes)] /\ trace'[inet] = <<>>
      /\ \A i \in Nets \ {inet} : trace'[i] = trace[i]
  BY <1>1, <1>2, <1>6
<1>8. /\ \A n : Connections(inet, n) = Cardinality({k \in 1 .. Len(SinksOf(inet)) : SinksOf(inet)[k] = n})
      /\ \A n \in Nodes : Connections(inet, n) \in Nat /\ target_flag'[n] = Connections(inet, n)
      /\ SinksOf(inet)' = SinksOf(inet) /\ \A n : Connections(inet, n)' = Connections(inet, n)
  <2>1. \A n : Connections(inet, n) = Cardinality({k \in 1 .. Len(SinksOf(inet)) : SinksOf(inet)[k] = n})
    BY <1>5 DEF Connections
  <2>2. ASSUME NEW n PROVE Connections(inet, n) \in Nat
    <3>1. IsFiniteSet(1 .. Len(SinksOf(inet)))
      BY <1>5, FS_Interval
    <3> DEFINE W == {k \in 1 .. Len(SinksOf(inet)) : SinksOf(inet)[k] = n}
    <3>2. W \subseteq 1 .. Len(SinksOf(inet)) /\ Connections(inet, n) = Cardinality(W)
      BY <2>1
    <3> HIDE DEF W
    <3>3. IsFiniteSet(W)
      BY <3>1, <3>2, FS_Subset
    <3> QED BY <3>2, <3>3, FS_CardinalityType
  <2>3. SinksOf(inet)' = SinksOf(inet)
    BY <1>1 DEF SinksOf
  <2>4. \A n : Connections(inet, n)' = Connections(inet, n)
    BY <2>3 DEF Connections
  <2>5. ASSUME NEW n \in Nodes PROVE target_flag'[n] = Connections(inet, n)
    <3>1. target_flag'[n] = target_flag[n] + Connections(inet, n)
      BY <1>1
    <3> QED BY <1>4, <2>2, <3>1
  <2> QED BY <2>1, <2>2, <2>3, <2>4, <2>5
<1> DEFINE uses == Uses(trace[inet])
           C == Held
           I == Nets \ {inet}
<1>9. Routed = Nets /\ Routed' = I /\ C' = C /\ I' = I
  BY <1>1, <1>2 DEF Routed, Held, Nets
<1>10. ASSUME NEW n \in Nodes
       PROVE  /\ uses[n] \in Nat /\ occ[n] \in Nat /\ occ[n] = TrueOcc(I, C, n) + uses[n]
              /\ TrueOcc(I, C, n) \in Nat /\ TrueOcc(I, C, n)' = TrueOcc(I, C, n)
  <2>1. occ[n] = TrueOcc(Nets, C, n) /\ occ[n] \in Nat
    BY <1>9 DEF IInv, OccupancyInv, SearchInv, TypeOK
  <2>2. IsFiniteSet(C)
    BY FiniteHeld
  <2>3. \A i \in I : trace'[i] = trace[i]
    BY <1>7
  <2>4. C' = C /\ I' = I /\ I \in SUBSET Nets
    BY <1>9
  <2> HIDE DEF C
  <2>5. TrueOcc(Nets, C, n) = TrueOcc(I, C, n) + Uses(trace[inet])[n]
    BY <1>2, <2>2, OneNetMore DEF IInv, SearchInv
  <2>6. Uses(trace[inet])[n] \in Nat
    BY <1>2, ChargedIsCounted DEF IInv, SearchInv
  <2> HIDE DEF I
  <2>7. TrueOcc(I, C, n)' = TrueOcc(I, C, n)
    BY <1>1, <2>3, <2>4, SameUse
  <2>8. TrueOcc(I, C, n) \in Nat
    <3>1. TrueOcc(I, C, n) = NetOcc(I, n) + ClassOcc(C, n)
      BY <2>4, TrueOccIs
    <3>2. ClassOcc(C, n) \in Nat
      BY <2>2, FS_Subset, FS_CardinalityType DEF ClassOcc
    <3>3. NetOcc(I, n) \in Nat
      <4> DEFINE K == [j \in Nets |-> Counted(j, n)]
      <4>1. IsFiniteSet(I) /\ \A j \in I : IsFiniteSet(K[j])
        BY <2>4, FiniteNets, FS_Subset, ChargedIsCounted DEF IInv, SearchInv
      <4> HIDE DEF K
      <4>2. IsFiniteSet(Union(I, K))
        BY <4>1, FiniteUnion
      <4> QED BY <4>2, FS_CardinalityType DEF NetOcc, K
    <3> QED BY <3>1, <3>2, <3>3
  <2> QED BY <2>1, <2>5, <2>6, <2>7, <2>8
<1> HIDE DEF uses, C, I
<1>11. /\ occ' \in [Nodes -> Nat] /\ \A n \in Nodes : occ'[n] = TrueOcc(I, C, n)
       /\ pres_cost' \in [Nodes -> Nat] /\ \A n \in Nodes : pres_cost'[n] >= 1
  <2>1. \A n \in Nodes : uses[n] \in Nat /\ occ[n] + (-1) * uses[n] = TrueOcc(I, C, n)
        /\ occ[n] + (-1) * uses[n] \in Nat
    BY <1>10
  <2>2. Adjust(-1, uses) /\ -1 \in {-1, 1}
    BY <1>1 DEF uses
  <2>3. /\ occ' \in [Nodes -> Nat] /\ \A n \in Nodes : occ'[n] = occ[n] + (-1) * uses[n]
        /\ pres_cost' \in [Nodes -> Nat] /\ \A n \in Nodes : pres_cost'[n] >= 1
    BY <2>1, <2>2, AdjustFacts DEF IInv, SearchInv
  <2> QED BY <2>1, <2>3
<1>12. OccupancyInv'
  <2>1. \A n \in Nodes : TrueOcc(Routed, Held, n)' = TrueOcc(I, C, n)'
    BY <1>9 DEF C
  <2>2. \A n \in Nodes : occ'[n] = TrueOcc(Routed, Held, n)'
    BY <1>10, <1>11, <2>1
  <2> QED BY <2>2 DEF OccupancyInv
<1>13. \A f \in heap' : /\ f \in [index : Nodes, cost : Nat, prev_node : Nodes \cup {NoNode}]
                        /\ f.index = source /\ f.prev_node = NoNode
  <2>1. heap' \subseteq {first}
    BY <1>1, <1>3 DEF Cheaper
  <2>2. CongWith(pres_cost', source) \in Nat
    <3>1. BaseCost[source] \in Nat /\ acc_cost[source] \in Nat /\ pres_cost'[source] \in Nat
      BY <1>5, <1>11, CostsAssumption DEF IInv, SearchInv, TypeOK
    <3> DEFINE b == BaseCost[source]
               a == acc_cost[source]
               p == pres_cost'[source]
    <3>2. \A x, y \in Nat : x * y \in Nat
      OBVIOUS
    <3> HIDE DEF a, b, p
    <3>3. a \in Nat /\ b \in Nat /\ p \in Nat
      BY <3>1 DEF a, b, p
    <3>4. b * a \in Nat
      BY <3>2, <3>3
    <3>5. b * a * p \in Nat
      BY <3>2, <3>3, <3>4
    <3> QED BY <3>5 DEF CongWith, a, b, p
  <2>3. first \in [index : Nodes, cost : Nat, prev_node : Nodes \cup {NoNode}]
        /\ first.index = source /\ first.prev_node = NoNode
    BY <1>5, <2>2 DEF Entry
  <2> HIDE DEF first, source
  <2> QED BY <2>1, <2>3
<1>14. TypeOK'
  <2>1. target_flag' \in [Nodes -> Nat]
    BY <1>1, <1>8
  <2>2. heap' \subseteq [index : Nodes, cost : Nat, prev_node : Nodes \cup {NoNode}]
    BY <1>13
  <2>3. \A i \in Nets : trace'[i] \in Seq(Nodes)
    BY <1>7
  <2>4. {tptr', remaining', pres_fac'} \subseteq Nat /\ {isink', iclass'} \subseteq Nat \ {0}
    BY <1>1 DEF IInv, SearchInv, TypeOK
  <2>5. /\ edges' \subseteq Nodes \X Nodes /\ acc_cost' \in [Nodes -> Nat]
        /\ path_cost' \in [Nodes -> Nat \cup {-HUGE}]
        /\ prev_node' \in [Nodes -> Nodes \cup {NoNode}] /\ modified' \subseteq Nodes
        /\ \A c \in DOMAIN Classes : opins'[c] \in [1 .. Classes[c].nelem -> Nodes]
        /\ inet' \in 1 .. Len(Terminals) + 1 /\ itry' \in 1 .. MaxIterations
        /\ verdict' \in {"none", "routed", "disconnected", "congested"}
        /\ pc' \in {"net", "segment", "wave", "reserve", "done"}
    BY <1>1 DEF IInv, SearchInv, TypeOK
  <2> QED BY <1>11, <2>1, <2>2, <2>3, <2>4, <2>5 DEF TypeOK, Nets
<1>15. Shapes'
  BY <1>1, <1>7, <1>11 DEF IInv, SearchInv, Shapes, Nets
<1>16. ControlInv'
  <2>1. isink' <= Len(SinksOf(inet)') + 1
    BY <1>1, <1>5, <1>8
  <2> QED BY <1>1, <1>2, <2>1 DEF ControlInv, Nets, IInv, SearchInv
<1>17. TraceInv'
  <2> SUFFICES ASSUME NEW i \in Nets, trace'[i] # <<>>
               PROVE  /\ trace'[i][1] = Terminals[i][1]
                      /\ \A k \in Links(i)' : <<trace'[i][k], trace'[i][k + 1]>> \in edges'
                             /\ trace'[i][k + 1] # trace'[i][1]
                      /\ \A j, k \in Links(i)' :
                             j # k /\ trace'[i][j + 1] = trace'[i][k + 1] =>
                                 Type[trace'[i][j + 1]] = "SINK" /\ trace'[i][j] # trace'[i][k]
                      /\ \A k \in DOMAIN trace'[i] : k - 1 \in DOMAIN trace'[i] \ Links(i)' =>
                             \E j \in 1 .. k - 2 : trace'[i][j] = trace'[i][k] /\ Type[trace'[i][j]] # "SINK"
                      /\ Type[trace'[i][Len(trace'[i])]] = "SINK"
    BY DEF TraceInv, TracesAreTrees, Nets
  <2>1. i # inet /\ trace'[i] = trace[i]
    BY <1>7
  <2>2. Links(i)' = Links(i)
    BY <2>1 DEF Links
  <2> QED BY <1>1, <2>1, <2>2 DEF IInv, SearchInv, TraceInv, TracesAreTrees
<1>18. TouchedInv'
  BY <1>1, <1>2, <1>3 DEF TouchedInv
<1>19. Traced' = {} /\ Source' = source /\ Links(inet)' = {} /\ Last' = 0
  <2>1. DOMAIN trace'[inet] = {} /\ Len(trace'[inet]) = 0
    BY <1>7
  <2> QED BY <1>1, <2>1 DEF Traced, Source, Links, Last
<1>20. HUGE # -HUGE
  BY CostsAssumption
<1>21. WaveInv'
  <2>1. \A n \in Nodes : path_cost'[n] \notin {HUGE, -HUGE} => PathAfter(n, path_cost'[n], prev_node'[n])
    BY <1>1, <1>3
  <2>2. \A f \in heap' : PathAfter(f.index, f.cost, f.prev_node)
    BY <1>13, <1>19 DEF PathAfter
  <2> QED BY <2>1, <2>2, PathsAfter
<1>22. WiringInv'
  BY <1>1, <1>3, <1>19, <1>20 DEF WiringInv
<1>23. SegmentInv'
  BY <1>1, <1>7 DEF SegmentInv
<1>24. PinsInv'
  <2>1. target_flag'[source] = 0
    <3>1. {k \in 1 .. Len(SinksOf(inet)) : SinksOf(inet)[k] = source} = {}
      <4>1. \A k \in 1 .. Len(SinksOf(inet)) : SinksOf(inet)[k] \in OfType("SINK")
        BY <1>5, ElementOfSeq
      <4> QED BY <1>5, <4>1 DEF OfType
    <3> QED BY <1>5, <1>8, <3>1, FS_EmptySet
  <2>2. \A f \in heap' : f.prev_node = NoNode => target_flag'[f.index] = 0
    BY <1>13, <2>1
  <2> QED BY <1>19, <2>2 DEF PinsInv
<1>25. FlagsInv'
  <2> DEFINE U == 1 .. Len(SinksOf(inet))
  <2>1. Cardinality(U) = Len(SinksOf(inet))
    <3> DEFINE L == Len(SinksOf(inet))
    <3>1. L \in Nat
      BY <1>5
    <3> HIDE DEF L
    <3>2. 1 \in Int /\ L \in Int
      BY <3>1
    <3>3. Cardinality(1 .. L) = IF 1 > L THEN 0 ELSE L - 1 + 1
      BY <3>2, FS_Interval
    <3>4. Cardinality(1 .. L) = L
      BY <3>1, <3>3
    <3> QED BY <3>4 DEF L
  <2>2. \A n \in Nodes : target_flag'[n] = Cardinality({k \in U : SinksOf(inet)[k] = n})
    BY <1>8
  <2>3. Unconnected(U)'
    <3>1. /\ U \subseteq 1 .. Len(SinksOf(inet)') /\ Cardinality(U) = Len(SinksOf(inet)') - (isink' - 1)
          /\ \A n \in Nodes : target_flag'[n] = Cardinality({k \in U : SinksOf(inet)'[k] = n})
      BY <1>1, <1>8, <2>1, <2>2
    <3>2. U' = U
      BY <1>8
    <3> HIDE DEF U
    <3> QED BY <3>1, <3>2 DEF Unconnected
  <2>4. \E V \in SUBSET (1 .. Len(SinksOf(inet)')) : Unconnected(V)'
    <3>1. U \in SUBSET (1 .. Len(SinksOf(inet)')) /\ U' = U
      BY <1>8
    <3> HIDE DEF U
    <3> QED BY <2>3, <3>1 DEF Unconnected
  <2>5. ASSUME NEW n \in OfType("SINK")
        PROVE Cardinality(InTrace(inet, n)') + target_flag'[n] = Connections(inet, n)'
    <3>1. InTrace(inet, n)' = {}
      <4>1. DOMAIN trace'[inet] = {}
        BY <1>7
      <4> QED BY <1>1, <4>1 DEF InTrace
    <3>2. n \in Nodes
      BY DEF OfType
    <3> QED BY <1>8, <3>1, <3>2, FS_EmptySet
  <2> QED BY <1>1, <2>4, <2>5 DEF FlagsInv
<1>26. ConnectedInv'
  <2>1. ASSUME NEW i \in Nets, NEW n \in OfType("SINK"), Finished(i)'
        PROVE  Cardinality(InTrace(i, n)') = Connections(i, n)
    <3>1. i # inet
      BY <1>1, <1>2, <2>1 DEF Finished
    <3>2. Finished(i)
      BY <1>1, <2>1, <3>1 DEF Finished
    <3>3. InTrace(i, n)' = InTrace(i, n)
      BY <1>7, <3>1 DEF InTrace
    <3> QED BY <3>2, <3>3 DEF IInv, ConnectedInv
  <2> QED BY <2>1 DEF ConnectedInv, Connections, SinksOf, Nets
<1>27. ReservedInv' /\ FeasibleInv'
  BY <1>1, <1>2 DEF IInv, ReservedInv, FeasibleInv
<1> QED BY <1>12, <1>14, <1>15, <1>16, <1>17, <1>18, <1>21, <1>22, <1>23, <1>24, <1>25, <1>26, <1>27
      DEF IInv, SearchInv

-----------------------------------------------------------------------------
(* The reservations of a list of OPINs, and of one class more.             *)
LEMMA HeldReserved ==
    ASSUME IInv, itry > 1, NEW n \in Nodes
    PROVE  /\ Reserved(opins)[n] = ClassOcc(DOMAIN Classes, n)
           /\ ClassOcc(DOMAIN Classes, n) \in Nat
<1>1. DOMAIN opins = DOMAIN Classes /\ IsFiniteSet(DOMAIN opins)
  BY FiniteNets DEF IInv, SearchInv, Shapes
<1>2. \A c \in DOMAIN opins : \A j, k \in DOMAIN opins[c] : opins[c][j] = opins[c][k] => j = k
  BY <1>1 DEF IInv, ReservedInv
<1>3. Reserved(opins)[n] = Cardinality({c \in DOMAIN opins : \E k \in DOMAIN opins[c] : opins[c][k] = n})
  BY <1>1, <1>2, ReservedCount
<1>4. IsFiniteSet({c \in DOMAIN opins : \E k \in DOMAIN opins[c] : opins[c][k] = n})
  BY <1>1, FS_Subset
<1> QED BY <1>1, <1>3, <1>4, FS_CardinalityType DEF ClassOcc

LEMMA NetOccType ==
    ASSUME IInv, NEW n \in Nodes
    PROVE  NetOcc(Nets, n) \in Nat
<1> DEFINE K == [j \in Nets |-> Counted(j, n)]
<1>1. IsFiniteSet(Nets) /\ \A j \in Nets : IsFiniteSet(K[j])
  BY FiniteNets, ChargedIsCounted DEF IInv, SearchInv
<1> HIDE DEF K
<1>2. IsFiniteSet(Union(Nets, K))
  BY <1>1, FiniteUnion
<1> QED BY <1>2, FS_CardinalityType DEF NetOcc, K

LEMMA RipUpOpinsStep == ASSUME IInv, RipUpOpins PROVE IInv'
<1> DEFINE lists == IF itry = 1 THEN <<>> ELSE opins
           uses  == Reserved(lists)
<1>1. /\ pc = "net" /\ inet > Len(Terminals) /\ pc' = "reserve"
      /\ Adjust(-1, uses) /\ inet' = 1 /\ iclass' = 1
      /\ edges' = edges /\ acc_cost' = acc_cost /\ opins' = opins
      /\ itry' = itry /\ pres_fac' = pres_fac /\ verdict' = verdict /\ isink' = isink
      /\ trace' = trace /\ tptr' = tptr /\ target_flag' = target_flag /\ remaining' = remaining
      /\ path_cost' = path_cost /\ prev_node' = prev_node /\ modified' = modified /\ heap' = heap
  BY DEF RipUpOpins, search, path
<1>2. ~Open /\ ~Open' /\ verdict = "none" /\ Len(Terminals) \in Nat /\ Nets = 1 .. Len(Terminals)
      /\ itry \in Nat /\ itry >= 1 /\ inet \in Nat /\ Len(Classes) \in Nat
  <2>1. itry \in 1 .. MaxIterations /\ MaxIterations \in Nat /\ inet \in 1 .. Len(Terminals) + 1
    BY NetsAssumption DEF IInv, SearchInv, TypeOK
  <2> QED BY <1>1, <2>1, FiniteNets DEF Open, IInv, SearchInv, ControlInv
<1>3. Routed = Nets /\ Routed' = Nets /\ Held' = {}
  <2>1. 1 .. iclass' - 1 = {}
    BY <1>1
  <2> QED BY <1>1, <1>2, <2>1 DEF Routed, Held, Nets
<1>4. ASSUME NEW n \in Nodes
      PROVE  /\ uses[n] \in Nat /\ occ[n] \in Nat /\ occ[n] = NetOcc(Nets, n) + uses[n]
                /\ NetOcc(Nets, n) \in Nat
             /\ TrueOcc(Nets, {}, n)' = NetOcc(Nets, n)
  <2>1. occ[n] = TrueOcc(Nets, Held, n) /\ occ[n] \in Nat
    BY <1>3 DEF IInv, OccupancyInv, SearchInv, TypeOK
  <2>2. NetOcc(Nets, n) \in Nat
    BY NetOccType
  <2>3. \A C : TrueOcc(Nets, C, n) = NetOcc(Nets, n) + ClassOcc(C, n)
    BY TrueOccIs
  <2>4. ClassOcc({}, n) = 0
    BY FS_EmptySet DEF ClassOcc
  <2>5. \A i \in Nets : trace'[i] = trace[i]
    BY <1>1
  <2>6. TrueOcc(Nets, {}, n)' = TrueOcc(Nets, {}, n)
    BY <1>1, <2>5, SameUse DEF Nets
  <2>7. CASE itry = 1
    <3>1. Held = {}
      BY <1>1, <1>2, <2>7 DEF Held
    <3>2. uses[n] = 0
      BY <2>7, NoneReserved
    <3> HIDE DEF uses
    <3> QED BY <2>1, <2>2, <2>3, <2>4, <2>6, <3>1, <3>2
  <2>8. CASE itry # 1
    <3>1. Held = DOMAIN Classes
      BY <1>1, <2>8 DEF Held
    <3>2. uses[n] = ClassOcc(DOMAIN Classes, n) /\ ClassOcc(DOMAIN Classes, n) \in Nat
      BY <1>2, <2>8, HeldReserved
    <3> HIDE DEF uses
    <3> QED BY <2>1, <2>2, <2>3, <2>4, <2>6, <3>1, <3>2
  <2> QED BY <2>7, <2>8
<1> HIDE DEF uses
<1>5. /\ occ' \in [Nodes -> Nat] /\ \A n \in Nodes : occ'[n] = NetOcc(Nets, n)
      /\ pres_cost' \in [Nodes -> Nat] /\ \A n \in Nodes : pres_cost'[n] >= 1
  <2>1. \A n \in Nodes : uses[n] \in Nat /\ occ[n] + (-1) * uses[n] = NetOcc(Nets, n)
        /\ occ[n] + (-1) * uses[n] \in Nat
    BY <1>4
  <2>2. /\ occ' \in [Nodes -> Nat] /\ \A n \in Nodes : occ'[n] = occ[n] + (-1) * uses[n]
        /\ pres_cost' \in [Nodes -> Nat] /\ \A n \in Nodes : pres_cost'[n] >= 1
    BY <1>1, <2>1, AdjustFacts DEF IInv, SearchInv
  <2> QED BY <2>1, <2>2
<1>6. OccupancyInv'
  <2>1. \A n \in Nodes : TrueOcc(Routed, Held, n)' = TrueOcc(Nets, {}, n)'
    BY <1>3 DEF Nets
  <2> QED BY <1>4, <1>5, <2>1 DEF OccupancyInv
<1>7. TypeOK'
  <2>1. inet' \in 1 .. Len(Terminals) + 1
    BY <1>1, <1>2
  <2> QED BY <1>1, <1>5, <2>1 DEF IInv, SearchInv, TypeOK, Nets
<1>8. Shapes' /\ TouchedInv'
  BY <1>1, <1>2, <1>5 DEF IInv, SearchInv, Shapes, TouchedInv, Nets
<1>9. ControlInv'
  BY <1>1, <1>2 DEF ControlInv
<1>10. TraceInv'
  BY <1>1 DEF IInv, SearchInv, TraceInv, TracesAreTrees, Links, Nets
<1>11. FlagsInv'
  BY <1>1, <1>2 DEF IInv, SearchInv, FlagsInv
<1>12. ConnectedInv'
  <2>1. ASSUME NEW i \in Nets, NEW n \in OfType("SINK"), Finished(i)'
        PROVE  Cardinality(InTrace(i, n)') = Connections(i, n)
    <3>1. Finished(i)
      BY <1>1, <1>2, <2>1 DEF Finished
    <3>2. InTrace(i, n)' = InTrace(i, n)
      BY <1>1 DEF InTrace
    <3> QED BY <3>1, <3>2 DEF IInv, ConnectedInv
  <2> QED BY <2>1 DEF ConnectedInv, Connections, SinksOf, Nets
<1>13. ReservedInv'
  <2>1. ASSUME NEW c \in DOMAIN Classes, itry > 1
        PROVE \A j, k \in DOMAIN opins[c] : opins[c][j] = opins[c][k] => j = k
    BY <2>1 DEF IInv, ReservedInv
  <2>2. \A c \in DOMAIN Classes : ~(c < 1)
    BY FiniteNets
  <2> QED BY <1>1, <1>2, <2>1, <2>2 DEF ReservedInv
<1>14. FeasibleInv'
  BY <1>1, <1>2 DEF FeasibleInv
<1> QED BY <1>2, <1>6, <1>7, <1>8, <1>9, <1>10, <1>11, <1>12, <1>13, <1>14, NoSearch DEF IInv, SearchInv

-----------------------------------------------------------------------------
LEMMA AllOccupancies == \A I \in SUBSET Nets : \A C, n : TrueOcc(I, C, n) = NetOcc(I, n) + ClassOcc(C, n)
BY TrueOccIs

LEMMA OccupanciesAfter ==
    (\A I \in SUBSET Nets : \A C, n : TrueOcc(I, C, n) = NetOcc(I, n) + ClassOcc(C, n))'
BY AllOccupancies, PTL

(* A class that reserves its OPINs.                                        *)
LEMMA OneClassMore ==
    ASSUME NEW c \in Nat \ {0}, NEW n \in Nodes,
           c \in DOMAIN opins, NEW s, opins' = [opins EXCEPT ![c] = s]
    PROVE  /\ ClassOcc(1 .. c - 1, n) \in Nat
           /\ ClassOcc(1 .. c, n)' =
                  ClassOcc(1 .. c - 1, n) + (IF \E k \in DOMAIN s : s[k] = n THEN 1 ELSE 0)
<1> DEFINE B == {b \in 1 .. c - 1 : \E k \in DOMAIN opins[b] : opins[b][k] = n}
           A == {b \in 1 .. c : \E k \in DOMAIN opins'[b] : opins'[b][k] = n}
<1>1. IsFiniteSet(B) /\ c \notin B
  <2>1. IsFiniteSet(1 .. c - 1)
    BY FS_Interval
  <2> QED BY <2>1, FS_Subset
<1>2. \A b \in 1 .. c - 1 : opins'[b] = opins[b]
  OBVIOUS
<1>3. opins'[c] = s /\ 1 .. c = (1 .. c - 1) \cup {c} /\ c \notin 1 .. c - 1
  OBVIOUS
<1>4. A = B \cup IF \E k \in DOMAIN s : s[k] = n THEN {c} ELSE {}
  BY <1>2, <1>3
<1>5. ClassOcc(1 .. c - 1, n) = Cardinality(B) /\ ClassOcc(1 .. c, n)' = Cardinality(A)
  BY DEF ClassOcc
<1> HIDE DEF A, B
<1>6. Cardinality(B) \in Nat
  BY <1>1, FS_CardinalityType
<1>7. Cardinality(B \cup {c}) = Cardinality(B) + 1
  BY <1>1, FS_AddElement
<1>8. CASE \E k \in DOMAIN s : s[k] = n
  <2>1. A = B \cup {c}
    BY <1>4, <1>8
  <2> QED BY <1>5, <1>6, <1>7, <1>8, <2>1
<1>9. CASE ~\E k \in DOMAIN s : s[k] = n
  <2>1. A = B
    BY <1>4, <1>9
  <2> QED BY <1>5, <1>6, <1>9, <2>1
<1> QED BY <1>8, <1>9

LEMMA ReserveOpinsStep == ASSUME IInv, ReserveOpins PROVE IInv'
<1>1. PICK s \in CheapestLists(iclass) : opins' = [opins EXCEPT ![iclass] = s] /\ Adjust(1, Reserved(<<s>>))
  BY DEF ReserveOpins
<1>2. /\ pc = "reserve" /\ iclass <= Len(Classes) /\ iclass' = iclass + 1 /\ pc' = pc
      /\ edges' = edges /\ acc_cost' = acc_cost /\ inet' = inet
      /\ itry' = itry /\ pres_fac' = pres_fac /\ verdict' = verdict /\ isink' = isink
      /\ trace' = trace /\ tptr' = tptr /\ target_flag' = target_flag /\ remaining' = remaining
      /\ path_cost' = path_cost /\ prev_node' = prev_node /\ modified' = modified /\ heap' = heap
  BY DEF ReserveOpins, search, path
<1>3. /\ ~Open /\ ~Open' /\ verdict = "none" /\ iclass \in Nat \ {0} /\ iclass \in DOMAIN Classes
      /\ DOMAIN opins = DOMAIN Classes /\ DOMAIN Classes = 1 .. Len(Classes) /\ Len(Classes) \in Nat
      /\ inet = 1
  <2>1. iclass \in Nat \ {0}
    BY DEF IInv, SearchInv, TypeOK
  <2> QED BY <1>2, <2>1, FiniteNets DEF Open, IInv, SearchInv, ControlInv, Shapes
<1>4. /\ s \in [1 .. Classes[iclass].nelem -> Nodes]
      /\ \A j, k \in DOMAIN s : s[j] = s[k] => j = k
  BY <1>1 DEF CheapestLists
<1>5. /\ DOMAIN opins' = DOMAIN opins /\ opins'[iclass] = s
      /\ \A x \in DOMAIN Classes \ {iclass} : opins'[x] = opins[x]
  BY <1>1, <1>3
<1> PICK c \in Nat \ {0} : c = iclass
  BY <1>3
<1> DEFINE uses == Reserved(<<s>>)
           B == 1 .. c - 1
           A == 1 .. c
<1>6. Routed = Nets /\ Routed' = Nets /\ Held = B /\ Held' = A
  <2>1. Routed = Nets /\ Routed' = Nets
    BY <1>2, <1>3 DEF Routed, Nets
  <2>2. Held = B
    BY <1>2 DEF Held
  <2>3. Held' = 1 .. iclass' - 1
    BY <1>2 DEF Held
  <2>4. iclass' - 1 = c
    BY <1>2, <1>3
  <2> QED BY <2>1, <2>2, <2>3, <2>4
<1>7. ASSUME NEW n \in Nodes
      PROVE  /\ uses[n] \in Nat /\ occ[n] \in Nat
             /\ TrueOcc(Routed, Held, n)' = occ[n] + uses[n]
  <2>1. occ[n] = TrueOcc(Nets, B, n) /\ occ[n] \in Nat
    BY <1>6 DEF IInv, OccupancyInv, SearchInv, TypeOK
  <2>2. NetOcc(Nets, n) \in Nat /\ TrueOcc(Nets, B, n) = NetOcc(Nets, n) + ClassOcc(B, n)
    BY NetOccType, TrueOccIs
  <2>3. /\ ClassOcc(B, n) \in Nat
        /\ ClassOcc(A, n)' = ClassOcc(B, n) + (IF \E k \in DOMAIN s : s[k] = n THEN 1 ELSE 0)
    BY <1>1, <1>3, OneClassMore
  <2>4. uses[n] = IF \E k \in DOMAIN s : s[k] = n THEN 1 ELSE 0
    BY <1>4, ListReserved
  <2>5. NetOcc(Nets, n)' = NetOcc(Nets, n)
    BY <1>2 DEF NetOcc, Counted, InTrace, Nets
  <2>6. TrueOcc(Nets, Held, n)' = NetOcc(Nets, n)' + ClassOcc(Held, n)'
    BY OccupanciesAfter, <1>6 DEF Nets
  <2>7. ClassOcc(Held, n)' = ClassOcc(A, n)'
    BY <1>6
  <2>8. TrueOcc(Routed, Held, n)' = TrueOcc(Nets, Held, n)'
    BY <1>6 DEF Nets
  <2>9. uses[n] \in Nat
    BY <2>4
  <2> HIDE DEF uses, A, B
  <2> QED BY <2>1, <2>2, <2>3, <2>4, <2>5, <2>6, <2>7, <2>8, <2>9
<1> HIDE DEF uses, A, B
<1>8. /\ occ' \in [Nodes -> Nat] /\ \A n \in Nodes : occ'[n] = occ[n] + uses[n]
      /\ pres_cost' \in [Nodes -> Nat] /\ \A n \in Nodes : pres_cost'[n] >= 1
  <2>1. \A n \in Nodes : uses[n] \in Nat /\ occ[n] \in Nat /\ 1 * uses[n] = uses[n]
        /\ occ[n] + 1 * uses[n] \in Nat
    BY <1>7
  <2>2. Adjust(1, uses) /\ 1 \in {-1, 1}
    BY <1>1 DEF uses
  <2>3. /\ occ' \in [Nodes -> Nat] /\ \A n \in Nodes : occ'[n] = occ[n] + 1 * uses[n]
        /\ pres_cost' \in [Nodes -> Nat] /\ \A n \in Nodes : pres_cost'[n] >= 1
    BY <2>1, <2>2, AdjustFacts DEF IInv, SearchInv
  <2> QED BY <2>1, <2>3
<1>9. OccupancyInv'
  <2>1. \A n \in Nodes : occ'[n] = TrueOcc(Routed, Held, n)'
    BY <1>7, <1>8
  <2> QED BY <2>1 DEF OccupancyInv
<1>10. TypeOK'
  <2>1. iclass' \in Nat \ {0} /\ inet' \in 1 .. Len(Terminals) + 1
    BY <1>2, <1>3 DEF IInv, SearchInv, TypeOK
  <2>2. \A x \in DOMAIN Classes : opins'[x] \in [1 .. Classes[x].nelem -> Nodes]
    BY <1>4, <1>5 DEF IInv, SearchInv, TypeOK
  <2> QED BY <1>2, <1>8, <2>1, <2>2 DEF IInv, SearchInv, TypeOK, Nets
<1>11. Shapes'
  BY <1>2, <1>3, <1>5, <1>8 DEF IInv, SearchInv, Shapes, Nets
<1>12. TouchedInv'
  BY <1>2, <1>3 DEF IInv, SearchInv, TouchedInv
<1>13. ControlInv'
  <2>1. iclass' <= Len(Classes) + 1
    BY <1>2, <1>3
  <2> QED BY <1>2, <1>3, <2>1 DEF ControlInv
<1>14. TraceInv'
  BY <1>2 DEF IInv, SearchInv, TraceInv, TracesAreTrees, Links, Nets
<1>15. FlagsInv'
  BY <1>2, <1>3 DEF IInv, SearchInv, FlagsInv
<1>16. ConnectedInv'
  <2>1. ASSUME NEW i \in Nets, NEW n \in OfType("SINK"), Finished(i)'
        PROVE  Cardinality(InTrace(i, n)') = Connections(i, n)
    <3>1. Finished(i)
      BY <1>2, <1>3, <2>1 DEF Finished
    <3>2. InTrace(i, n)' = InTrace(i, n)
      BY <1>2 DEF InTrace
    <3> QED BY <3>1, <3>2 DEF IInv, ConnectedInv
  <2> QED BY <2>1 DEF ConnectedInv, Connections, SinksOf, Nets
<1>17. ReservedInv'
  <2>1. ASSUME NEW b \in DOMAIN Classes, itry > 1 \/ b < iclass'
        PROVE \A j, k \in DOMAIN opins'[b] : opins'[b][j] = opins'[b][k] => j = k
    <3>1. CASE b = iclass
      BY <1>4, <1>5, <3>1
    <3>2. CASE b # iclass
      <4>1. itry > 1 \/ b < iclass
        BY <1>2, <1>3, <2>1, <3>2
      <4> QED BY <1>2, <1>5, <2>1, <3>2, <4>1 DEF IInv, ReservedInv
    <3> QED BY <3>1, <3>2
  <2> QED BY <1>2, <1>3, <2>1 DEF ReservedInv
<1>18. FeasibleInv'
  BY <1>2, <1>3 DEF FeasibleInv
<1> QED BY <1>3, <1>9, <1>10, <1>11, <1>12, <1>13, <1>14, <1>15, <1>16, <1>17, <1>18, NoSearch
      DEF IInv, SearchInv

LEMMA CheckPassesStep == ASSUME IInv, CheckPasses PROVE IInv'
<1>1. /\ pc = "reserve" /\ iclass > Len(Classes) /\ Feasible /\ verdict' = "routed" /\ pc' = "done"
      /\ edges' = edges /\ occ' = occ /\ opins' = opins /\ inet' = inet /\ iclass' = iclass
      /\ itry' = itry /\ pres_fac' = pres_fac /\ isink' = isink
      /\ pres_cost' = pres_cost /\ acc_cost' = acc_cost /\ trace' = trace /\ tptr' = tptr
      /\ path_cost' = path_cost /\ prev_node' = prev_node /\ modified' = modified /\ heap' = heap
      /\ target_flag' = target_flag /\ remaining' = remaining
  BY DEF CheckPasses, loops, search, path, costs
<1>2. /\ ~Open /\ ~Open' /\ verdict = "none" /\ inet = 1 /\ iclass = Len(Classes) + 1
      /\ Len(Classes) \in Nat /\ DOMAIN Classes = 1 .. Len(Classes)
  <2>1. iclass \in Nat /\ iclass <= Len(Classes) + 1
    BY <1>1 DEF IInv, SearchInv, TypeOK, ControlInv
  <2> QED BY <1>1, <2>1, FiniteNets DEF Open, IInv, SearchInv, ControlInv
<1>3. TypeOK' /\ Shapes'
  BY <1>1 DEF IInv, SearchInv, TypeOK, Shapes, Nets
<1>4. TouchedInv' /\ FlagsInv'
  BY <1>1, <1>2 DEF IInv, SearchInv, TouchedInv, FlagsInv
<1>5. ControlInv'
  BY <1>1, <1>2 DEF ControlInv
<1>6. TraceInv'
  BY <1>1 DEF IInv, SearchInv, TraceInv, TracesAreTrees, Links, Nets
<1>7. OccupancyInv'
  <2>1. Routed' = Routed
    BY <1>1, <1>2 DEF Routed, Nets
  <2>2. Held = 1 .. iclass - 1 /\ Held' = DOMAIN Classes
    BY <1>1 DEF Held
  <2>3. 1 .. iclass - 1 = DOMAIN Classes
    BY <1>2
  <2> QED BY <1>1, <2>1, <2>2, <2>3, SameOccupancy
<1>8. ConnectedInv'
  <2>1. ASSUME NEW i \in Nets, NEW n \in OfType("SINK"), Finished(i)'
        PROVE  Cardinality(InTrace(i, n)') = Connections(i, n)
    <3>1. Finished(i)
      BY <1>1, <1>2, <2>1 DEF Finished
    <3>2. InTrace(i, n)' = InTrace(i, n)
      BY <1>1 DEF InTrace
    <3> QED BY <3>1, <3>2 DEF IInv, ConnectedInv
  <2> QED BY <2>1 DEF ConnectedInv, Connections, SinksOf, Nets
<1>9. ReservedInv'
  <2>1. \A c \in DOMAIN Classes : c < iclass
    BY <1>2
  <2> QED BY <1>1, <2>1 DEF IInv, ReservedInv
<1>10. FeasibleInv'
  BY <1>1 DEF FeasibleInv, Feasible
<1> QED BY <1>2, <1>3, <1>4, <1>5, <1>6, <1>7, <1>8, <1>9, <1>10, NoSearch DEF IInv, SearchInv

(* The costs of the next iteration.                                        *)
LEMMA CostsAfter ==
    ASSUME IInv, CheckFails
    PROVE  /\ pres_fac' \in Nat
           /\ acc_cost' \in [Nodes -> Nat] /\ \A n \in Nodes : acc_cost'[n] >= 1
           /\ pres_cost' \in [Nodes -> Nat] /\ \A n \in Nodes : pres_cost'[n] >= 1
<1> DEFINE fac == Least(IF itry = 1 THEN InitialPresFac ELSE pres_fac * PresFacMult, PresFacCap)
           more(n) == IF occ[n] > Capacity[n] THEN (occ[n] - Capacity[n]) * AccFac ELSE 0
           pres(n) == IF occ[n] >= Capacity[n] THEN PresCost(n, occ[n], fac) ELSE pres_cost[n]
<1>1. /\ pres_fac' = fac
      /\ acc_cost' = [n \in Nodes |-> acc_cost[n] + more(n)]
      /\ pres_cost' = [n \in Nodes |-> pres(n)]
  BY DEF CheckFails
<1>2. /\ pres_fac \in Nat /\ occ \in [Nodes -> Nat] /\ acc_cost \in [Nodes -> Nat]
      /\ pres_cost \in [Nodes -> Nat]
      /\ \A n \in Nodes : pres_cost[n] >= 1 /\ acc_cost[n] >= 1
  BY DEF IInv, SearchInv, TypeOK, Shapes
<1>3. {InitialPresFac, PresFacMult, PresFacCap, AccFac} \subseteq Nat /\ Capacity \in [Nodes -> Nat \ {0}]
  BY CostsAssumption, GraphAssumption
<1>4. \A x, y \in Nat : x * y \in Nat
  OBVIOUS
<1>5. fac \in Nat
  <2>1. pres_fac * PresFacMult \in Nat
    BY <1>2, <1>3, <1>4
  <2> QED BY <1>3, <2>1 DEF Least
<1>6. ASSUME NEW n \in Nodes PROVE more(n) \in Nat
  <2>1. CASE occ[n] > Capacity[n]
    <3> DEFINE over == occ[n] - Capacity[n]
    <3>1. over \in Nat
      BY <1>2, <1>3, <2>1
    <3> HIDE DEF over
    <3>2. over * AccFac \in Nat
      BY <1>3, <1>4, <3>1
    <3> QED BY <2>1, <3>2 DEF over
  <2> QED BY <2>1
<1> HIDE DEF fac, more
<1>7. ASSUME NEW n \in Nodes PROVE pres(n) \in Nat /\ pres(n) >= 1
  <2>1. PresCost(n, occ[n], fac) \in Nat /\ PresCost(n, occ[n], fac) >= 1
    BY <1>2, <1>5, PresCostFacts
  <2> QED BY <1>2, <2>1
<1>8. ASSUME NEW n \in Nodes PROVE acc_cost[n] + more(n) \in Nat /\ acc_cost[n] + more(n) >= 1
  BY <1>2, <1>6
<1> HIDE DEF pres
<1>9. pres_cost' \in [Nodes -> Nat] /\ \A n \in Nodes : pres_cost'[n] >= 1
  BY <1>1, <1>7
<1>10. acc_cost' \in [Nodes -> Nat] /\ \A n \in Nodes : acc_cost'[n] >= 1
  BY <1>1, <1>8
<1> QED BY <1>1, <1>5, <1>9, <1>10

LEMMA CheckFailsStep == ASSUME IInv, CheckFails PROVE IInv'
<1>1. /\ pc = "reserve" /\ iclass > Len(Classes)
      /\ \/ itry < MaxIterations /\ pc' = "net" /\ itry' = itry + 1 /\ verdict' = verdict
         \/ pc' = "done" /\ verdict' = "congested" /\ itry' = itry
      /\ edges' = edges /\ occ' = occ /\ opins' = opins /\ inet' = inet /\ iclass' = iclass
      /\ isink' = isink /\ trace' = trace /\ tptr' = tptr
      /\ path_cost' = path_cost /\ prev_node' = prev_node /\ modified' = modified /\ heap' = heap
      /\ target_flag' = target_flag /\ remaining' = remaining
  BY DEF CheckFails, search, path
<1>2. /\ ~Open /\ ~Open' /\ verdict = "none" /\ inet = 1 /\ iclass = Len(Classes) + 1
      /\ Len(Classes) \in Nat /\ DOMAIN Classes = 1 .. Len(Classes) /\ itry \in 1 .. MaxIterations
      /\ MaxIterations \in Nat
  <2>1. iclass \in Nat /\ iclass <= Len(Classes) + 1 /\ itry \in 1 .. MaxIterations
    BY <1>1 DEF IInv, SearchInv, TypeOK, ControlInv
  <2> QED BY <1>1, <2>1, FiniteNets, NetsAssumption DEF Open, IInv, SearchInv, ControlInv
<1>3. TypeOK'
  <2>1. itry' \in 1 .. MaxIterations
    BY <1>1, <1>2
  <2> QED BY <1>1, <1>2, <2>1, CostsAfter DEF IInv, SearchInv, TypeOK, Nets
<1>4. Shapes'
  BY <1>1, CostsAfter DEF IInv, SearchInv, Shapes, Nets
<1>5. TouchedInv'
  BY <1>1, <1>2 DEF IInv, SearchInv, TouchedInv
<1>6. FlagsInv'
  BY <1>1, <1>2 DEF IInv, SearchInv, FlagsInv
<1>7. ControlInv'
  BY <1>1, <1>2 DEF ControlInv
<1>8. TraceInv'
  BY <1>1 DEF IInv, SearchInv, TraceInv, TracesAreTrees, Links, Nets
<1>9. OccupancyInv'
  <2>1. Routed' = Routed
    BY <1>1, <1>2 DEF Routed, Nets
  <2>2. Held = 1 .. iclass - 1
    BY <1>1 DEF Held
  <2>3. Held' = DOMAIN Classes
    <3>1. itry' = 1 => pc' = "done" /\ verdict' = "congested"
      BY <1>1, <1>2
    <3> QED BY <1>1, <3>1 DEF Held
  <2>4. 1 .. iclass - 1 = DOMAIN Classes
    BY <1>2
  <2> QED BY <1>1, <2>1, <2>2, <2>3, <2>4, SameOccupancy
<1>10. ConnectedInv'
  <2>1. ASSUME NEW i \in Nets, NEW n \in OfType("SINK"), Finished(i)'
        PROVE  Cardinality(InTrace(i, n)') = Connections(i, n)
    <3>1. Finished(i)
      BY <1>1, <1>2, <2>1 DEF Finished
    <3>2. InTrace(i, n)' = InTrace(i, n)
      BY <1>1 DEF InTrace
    <3> QED BY <3>1, <3>2 DEF IInv, ConnectedInv
  <2> QED BY <2>1 DEF ConnectedInv, Connections, SinksOf, Nets
<1>11. ReservedInv'
  <2>1. \A c \in DOMAIN Classes : c < iclass
    BY <1>2
  <2> QED BY <1>1, <2>1 DEF IInv, ReservedInv
<1>12. FeasibleInv'
  BY <1>1, <1>2 DEF FeasibleInv
<1> QED BY <1>2, <1>3, <1>4, <1>5, <1>6, <1>7, <1>8, <1>9, <1>10, <1>11, <1>12, NoSearch DEF IInv, SearchInv

LEMMA StutterStep == ASSUME IInv, UNCHANGED vars PROVE IInv'
<1>1. /\ edges' = edges /\ occ' = occ /\ opins' = opins /\ inet' = inet /\ iclass' = iclass
      /\ itry' = itry /\ pres_fac' = pres_fac /\ isink' = isink /\ verdict' = verdict /\ pc' = pc
      /\ pres_cost' = pres_cost /\ acc_cost' = acc_cost /\ trace' = trace /\ tptr' = tptr
      /\ path_cost' = path_cost /\ prev_node' = prev_node /\ modified' = modified /\ heap' = heap
      /\ target_flag' = target_flag /\ remaining' = remaining
  BY DEF vars, costs, path, search, loops
<1>2. Open' = Open /\ Finished(1)' = Finished(1)
  BY <1>1 DEF Open, Finished
<1>3. TypeOK' /\ Shapes' /\ ControlInv' /\ TouchedInv'
  BY <1>1 DEF IInv, SearchInv, TypeOK, Shapes, ControlInv, TouchedInv, Open, Nets, SinksOf
<1>4. TraceInv'
  BY <1>1 DEF IInv, SearchInv, TraceInv, TracesAreTrees, Links, Nets
<1>5. WaveInv' /\ WiringInv' /\ SegmentInv' /\ PinsInv'
  BY <1>1, <1>2 DEF IInv, SearchInv, WaveInv, WiringInv, SegmentInv, PinsInv, Path, Traced, Source, Last, Links
<1>6. FlagsInv'
  BY <1>1, <1>2 DEF IInv, SearchInv, FlagsInv, Unconnected, InTrace, Connections, SinksOf
<1>7. OccupancyInv'
  <2>1. Routed' = Routed /\ Held' = Held
    BY <1>1, <1>2 DEF Routed, Held, Nets
  <2> QED BY <1>1, <2>1, SameOccupancy
<1>8. ConnectedInv' /\ ReservedInv' /\ FeasibleInv'
  BY <1>1, <1>2 DEF IInv, ConnectedInv, ReservedInv, FeasibleInv, Feasible, Finished, InTrace,
                    Connections, SinksOf, Open, Nets
<1> QED BY <1>3, <1>4, <1>5, <1>6, <1>7, <1>8 DEF IInv, SearchInv

-----------------------------------------------------------------------------
(* What holds of the router in every state it can reach: the invariant is  *)
(* inductive, by one lemma for each step.                                  *)
THEOREM RouterInvariant == Spec => []IInv
<1>1. IInv /\ [Next]_vars => IInv'
  <2> SUFFICES ASSUME IInv, [Next]_vars PROVE IInv'
    OBVIOUS
  <2>1. CASE SkipGlobal \/ StartNet
    BY <2>1, SkipGlobalStep, StartNetStep
  <2>2. CASE ExpandSegment \/ ExpandForOtherPin \/ Wave \/ Connect
    BY <2>2, SearchSteps
  <2>3. CASE Unroutable \/ CloseNet
    BY <2>3, UnroutableStep, CloseNetStep
  <2>4. CASE RipUpOpins \/ ReserveOpins
    BY <2>4, RipUpOpinsStep, ReserveOpinsStep
  <2>5. CASE CheckPasses \/ CheckFails
    BY <2>5, CheckPassesStep, CheckFailsStep
  <2>6. CASE Done \/ UNCHANGED vars
    BY <2>6, StutterStep DEF Done
  <2> QED BY <2>1, <2>2, <2>3, <2>4, <2>5, <2>6 DEF Next
<1> QED BY <1>1, InitIInv, PTL DEF Spec

(* The occupancies that StartNet, CloseNet, RipUpOpins and ReserveOpins    *)
(* change by differences always are what the traces and the reserved       *)
(* OPINs amount to.                                                        *)
THEOREM Occupancy == Spec => []OccupancyIsExact
<1>1. IInv => OccupancyIsExact
  BY Occupancies DEF IInv, SearchInv
<1> QED BY <1>1, RouterInvariant, PTL

(* The paths that Connect appends make every trace a tree of the graph.    *)
THEOREM Trees == Spec => []TracesAreTrees
<1>1. IInv => TracesAreTrees
  BY DEF IInv, SearchInv, TraceInv
<1> QED BY <1>1, RouterInvariant, PTL

(* reset_path_costs and empty_heap leave nothing of a net to the next.     *)
THEOREM CleanUp == Spec => []NothingIsLeftOver
<1>1. IInv => NothingIsLeftOver
  BY DEF IInv, SearchInv, TouchedInv, FlagsInv, NothingIsLeftOver, Open
<1> QED BY <1>1, RouterInvariant, PTL

-----------------------------------------------------------------------------
(* What the search has not reached yet it still has on its heap, as long   *)
(* as no path costs too much.                                              *)
Found(n) == path_cost[n] # HUGE \/ \E f \in heap : f.index = n

(* IPIN m leads to the wanted SINK n: either it is about to, or it is the  *)
(* last one that did.                                                      *)
Offers(m, n) ==
    \/ \E f \in heap : f.index = n /\ f.prev_node = m
    \/ pc = "segment" /\ Last > 1 /\ m = trace[inet][Last - 1]

FrontierInv ==
    Open =>
        /\ \A f \in heap : f.cost < HUGE
        /\ Found(Source)
        /\ \A m, n \in Nodes : path_cost[m] # HUGE /\ Type[m] # "IPIN" /\ <<m, n>> \in edges
                               /\ n \in Box[inet] => Found(n)
        /\ \A n \in Nodes : target_flag[n] > 0 => path_cost[n] = HUGE
        /\ \A m, n \in Nodes : Type[m] = "IPIN" /\ path_cost[m] \notin {HUGE, -HUGE} /\ <<m, n>> \in edges
                               /\ n \in Box[inet] /\ target_flag[n] > 0 => Offers(m, n)

LEMMA StartNetFrontier == ASSUME IInv, IInv', StartNet, CostsBelowHuge' PROVE FrontierInv'
<1> DEFINE source == Terminals[inet][1]
           first  == Entry(source, CongWith(pres_cost', source), NoNode)
<1>1. /\ pc = "net" /\ pc' = "segment" /\ inet' = inet /\ inet \in Nets /\ acc_cost' = acc_cost
      /\ heap' = heap \cup Cheaper({first}, path_cost) /\ path_cost' = path_cost
  BY DEF StartNet, loops, path
<1>2. \A n \in Nodes : path_cost'[n] = HUGE
  <2>1. \A n \in Nodes : path_cost[n] # HUGE => n \in modified
    BY DEF IInv, SearchInv, TouchedInv
  <2>2. modified = {}
    BY <1>1 DEF IInv, SearchInv, TouchedInv, Open
  <2> QED BY <1>1, <2>1, <2>2
<1>3. source \in Nodes /\ Source' = source
  BY <1>1, NetFacts DEF IInv, SearchInv, Source
<1>4. CongWith(pres_cost', source) < HUGE
  <2>1. Cong(source)' < HUGE
    BY <1>1 DEF CostsBelowHuge
  <2> QED BY <1>1, <2>1 DEF Cong, CongWith
<1>5. first \in heap' /\ first.index = source
  <2> DEFINE c == CongWith(pres_cost', source)
  <2>1. first.index = source /\ first.cost = c
    BY DEF Entry
  <2>2. c < path_cost[source]
    BY <1>1, <1>2, <1>3, <1>4
  <2> HIDE DEF c
  <2>3. first \in Cheaper({first}, path_cost)
    BY <2>1, <2>2 DEF Cheaper
  <2> QED BY <1>1, <2>1, <2>3
<1>6. \A f \in heap' : f.cost < HUGE
  <2>1. heap = {}
    BY <1>1 DEF IInv, SearchInv, TouchedInv, Open
  <2>2. ASSUME NEW f \in Cheaper({first}, path_cost) PROVE f.cost < HUGE
    <3>1. f = first /\ f.cost < path_cost[f.index]
      BY DEF Cheaper
    <3> QED BY <1>1, <1>2, <1>3, <1>5, <3>1
  <2> QED BY <1>1, <2>1, <2>2
<1> HIDE DEF first
<1>7. Found(Source)'
  BY <1>3, <1>5 DEF Found
<1> QED BY <1>2, <1>6, <1>7 DEF FrontierInv

LEMMA ExpandSegmentFrontier == ASSUME IInv, FrontierInv, ExpandSegment PROVE FrontierInv'
<1>1. /\ pc = "segment" /\ pc' = "wave" /\ heap \subseteq heap' /\ inet' = inet
      /\ heap' \subseteq heap \cup Expanded(NewSegment) /\ edges' = edges
      /\ remaining = 0 \/ NewSegment = {}
      /\ path_cost' = path_cost /\ trace' = trace /\ target_flag' = target_flag
  BY DEF ExpandSegment, loops, path
<1>2. Open /\ Open' /\ Source' = Source /\ Last \in Nat /\ NewSegment \in SUBSET DOMAIN trace[inet]
  BY <1>1, SegmentFacts DEF Open, Source, IInv
<1>6. \A f \in heap' : f.cost < HUGE
  <2>1. \A f \in Expanded(NewSegment) : f.cost < HUGE
    BY <1>2, ExpandedFacts, CostsAssumption DEF IInv
  <2> QED BY <1>1, <1>2, <2>1 DEF FrontierInv
<1>3. \A n : Found(n) => Found(n)'
  BY <1>1 DEF Found
<1>4. ASSUME NEW m \in Nodes, NEW n \in Nodes, Type[m] = "IPIN", path_cost[m] \notin {HUGE, -HUGE},
             <<m, n>> \in edges, n \in Box[inet], target_flag[n] > 0
      PROVE  \E f \in heap : f.index = n /\ f.prev_node = m
  <2>1. Offers(m, n)
    BY <1>2, <1>4 DEF FrontierInv
  <2>2. ASSUME Last > 1, m = trace[inet][Last - 1] PROVE FALSE
    <3>1. trace[inet] # <<>> /\ DOMAIN trace[inet] = 1 .. Last
      BY <1>1, <1>2, <2>2, SegmentFacts DEF IInv
    <3>2. remaining = 0 /\ target_flag[trace[inet][Last]] = 0
      BY <1>1, <3>1, SegmentFacts DEF IInv
    <3>3. Last - 1 \in DOMAIN trace[inet] /\ inet \in Nets /\ Last - 1 + 1 = Last /\ Last \in DOMAIN trace[inet]
      BY <1>1, <1>2, <2>2, <3>1, SegmentFacts DEF IInv
    <3>4. <<m, trace[inet][Last]>> \in edges
      BY <1>4, <2>2, <3>3, LinkFacts DEF IInv, SearchInv
    <3>5. trace[inet][Last] \in Nodes
      BY <3>3, NetFacts DEF IInv, SearchInv
    <3>6. trace[inet][Last] = n
      BY <1>4, <3>4, <3>5, EdgeFacts DEF IInv, SearchInv
    <3> QED BY <1>4, <3>2, <3>6
  <2> QED BY <2>1, <2>2 DEF Offers
<1>5. \A m, n \in Nodes : Type[m] = "IPIN" /\ path_cost[m] \notin {HUGE, -HUGE} /\ <<m, n>> \in edges
                          /\ n \in Box[inet] /\ target_flag[n] > 0 => Offers(m, n)'
  BY <1>1, <1>4 DEF Offers
<1> QED BY <1>1, <1>2, <1>3, <1>5, <1>6 DEF FrontierInv

LEMMA ExpandForOtherPinFrontier == ASSUME IInv, FrontierInv, ExpandForOtherPin PROVE FrontierInv'
<1> DEFINE t    == trace[inet]
           S    == NewSegment \ {Last}
           sink == t[Last]
           ipin == t[Last - 1]
<1>1. /\ pc = "segment" /\ pc' = "wave" /\ inet' = inet /\ edges' = edges
      /\ remaining # 0 /\ NewSegment # {} /\ trace' = trace /\ target_flag' = target_flag
  BY DEF ExpandForOtherPin, loops
<1>2. /\ Open /\ inet \in Nets /\ Last \in Nat /\ DOMAIN t = 1 .. Last /\ t # <<>>
      /\ tptr \in 1 .. Last - 1 /\ IpinsOf(S) = {Last - 1} /\ remaining = target_flag[sink]
      /\ \A k \in S : Type[t[k]] # "SINK"
  BY <1>1, SegmentFacts DEF IInv
<1>3. /\ Open' /\ Source' = Source /\ Last > 1 /\ tptr \in Nat
      /\ Last \in DOMAIN t /\ Last - 1 \in DOMAIN t /\ Last - 1 + 1 = Last
  <2>1. tptr \in Nat
    BY DEF IInv, SearchInv, TypeOK
  <2> QED BY <1>1, <1>2, <2>1 DEF Open, Source
<1>4. sink \in Nodes /\ ipin \in Nodes /\ Type[ipin] = "IPIN" /\ <<ipin, sink>> \in edges /\ Type[sink] = "SINK"
  <2>1. sink \in Nodes /\ ipin \in Nodes
    BY <1>2, <1>3, NetFacts DEF IInv, SearchInv
  <2>2. Last - 1 \in IpinsOf(S)
    BY <1>2
  <2>3. Type[ipin] = "IPIN"
    BY <2>2 DEF IpinsOf
  <2>4. Type[ipin] # "SINK"
    BY <2>3
  <2>5. <<ipin, sink>> \in edges
    BY <1>2, <1>3, <2>4, LinkFacts DEF IInv, SearchInv
  <2> QED BY <2>1, <2>3, <2>5, EdgeFacts DEF IInv, SearchInv
<1>5. /\ heap' = {e \in heap \cup Expanded(S) : ~(e.index = sink /\ e.prev_node = ipin)}
      /\ path_cost' = [path_cost EXCEPT ![ipin] = -HUGE, ![sink] = HUGE]
  <2>1. Last - 1 \in Int
    BY <1>2
  <2>2. Max(IpinsOf(S)) = Last - 1
    BY <1>2, <2>1, MaxOfOne
  <2>3. Finish = Last
    BY DEF Finish, Last
  <2> QED BY <2>2, <2>3 DEF ExpandForOtherPin
<1>13. \A f \in heap' : f.cost < HUGE
  <2>1. S \in SUBSET DOMAIN t
    BY <1>1, SegmentFacts DEF IInv
  <2> HIDE DEF S
  <2>2. \A f \in Expanded(S) : f.cost < HUGE
    BY <1>2, <2>1, ExpandedFacts, CostsAssumption DEF IInv
  <2> QED BY <1>2, <1>5, <2>2 DEF FrontierInv
<1> HIDE DEF S, sink, ipin, t
<1>6. /\ path_cost'[ipin] = -HUGE /\ path_cost'[sink] = HUGE
      /\ \A n \in Nodes \ {ipin, sink} : path_cost'[n] = path_cost[n]
      /\ ipin # sink /\ -HUGE # HUGE
  <2>1. path_cost \in [Nodes -> Nat \cup {-HUGE}]
    BY DEF IInv, SearchInv, TypeOK
  <2>2. ipin # sink
    BY <1>4
  <2>3. -HUGE # HUGE
    BY CostsAssumption
  <2> QED BY <1>4, <1>5, <2>1, <2>2, <2>3
<1>7. ASSUME NEW n \in Nodes, n # sink, Found(n) PROVE Found(n)'
  <2>1. CASE path_cost[n] # HUGE
    BY <1>6, <1>7, <2>1 DEF Found
  <2>2. CASE \E f \in heap : f.index = n
    BY <1>5, <1>7, <2>2 DEF Found
  <2> QED BY <1>7, <2>1, <2>2 DEF Found
<1>8. Found(Source)'
  <2>1. Source \in Nodes /\ Type[Source] = "SOURCE"
    BY <1>2, NetFacts DEF IInv, SearchInv, Source
  <2>2. Source # sink
    BY <1>4, <2>1
  <2>3. Found(Source)
    BY <1>2 DEF FrontierInv
  <2> HIDE DEF Source
  <2>4. \A n : n = Source => (Found(n)' => Found(Source)')
    BY <1>3 DEF Found
  <2> QED BY <1>7, <2>1, <2>2, <2>3, <2>4
<1>9. ASSUME NEW m \in Nodes, NEW n \in Nodes, path_cost'[m] # HUGE, Type[m] # "IPIN", <<m, n>> \in edges,
             n \in Box[inet]
      PROVE  Found(n)'
  <2>1. path_cost[m] # HUGE
    BY <1>4, <1>6, <1>9
  <2>2. Type[n] # "SINK"
    BY <1>9, EdgeFacts DEF IInv, SearchInv
  <2>3. n # sink
    BY <1>4, <2>2
  <2> QED BY <1>2, <1>7, <1>9, <2>1, <2>3 DEF FrontierInv
<1>10. ASSUME NEW n \in Nodes, target_flag[n] > 0 PROVE path_cost'[n] = HUGE
  <2>1. Type[n] = "SINK" /\ path_cost[n] = HUGE
    BY <1>2, <1>10, WantedIsSink DEF FrontierInv, IInv, SearchInv
  <2>2. n # ipin
    BY <1>4, <2>1
  <2> QED BY <1>6, <2>1, <2>2
<1>11. ASSUME NEW m \in Nodes, NEW n \in Nodes, Type[m] = "IPIN", path_cost'[m] \notin {HUGE, -HUGE},
              <<m, n>> \in edges, n \in Box[inet], target_flag[n] > 0
       PROVE  \E f \in heap' : f.index = n /\ f.prev_node = m
  <2>1. m # ipin /\ m # sink
    BY <1>4, <1>6, <1>11
  <2>2. Offers(m, n)
    BY <1>2, <1>6, <1>11, <2>1 DEF FrontierInv
  <2>3. PICK f \in heap : f.index = n /\ f.prev_node = m
    BY <2>1, <2>2 DEF Offers, ipin, t
  <2> QED BY <1>5, <2>1, <2>3
<1>12. \A m, n \in Nodes : Type[m] = "IPIN" /\ path_cost'[m] \notin {HUGE, -HUGE} /\ <<m, n>> \in edges
                           /\ n \in Box[inet] /\ target_flag[n] > 0 => Offers(m, n)'
  BY <1>11 DEF Offers
<1> QED BY <1>1, <1>3, <1>8, <1>9, <1>10, <1>12, <1>13 DEF FrontierInv

LEMMA ConnectFrontier == ASSUME IInv, FrontierInv, Connect PROVE FrontierInv'
<1>1. PICK e, q, L : Joining(e, q, L)
  BY Joins DEF IInv, SearchInv
<1>2. /\ pc = "wave" /\ pc' = "segment" /\ inet' = inet /\ edges' = edges /\ path_cost' = path_cost
  BY DEF Connect, loops, path
<1>3. /\ e \in heap /\ heap' = heap \ {e} /\ e.index \in Nodes /\ Type[e.index] = "SINK"
      /\ target_flag' = [target_flag EXCEPT ![e.index] = @ - 1]
      /\ L \in Nat /\ L >= 2 /\ Last \in Nat /\ Last' = Last + L /\ q[L] = e.index
      /\ trace'[inet][Last + (L - 1)] = q[L - 1]
  <2>1. L \in Nat /\ L >= 2
    BY <1>1 DEF Joining
  <2>2. L - 1 \in 1 .. L
    BY <2>1
  <2>3. Len(trace'[inet]) = Last + L
    BY <1>1 DEF Joining
  <2>4. Last' = Last + L
    BY <1>2, <2>3 DEF Last
  <2> QED BY <1>1, <2>1, <2>2, <2>4 DEF Joining
<1>4. Open /\ Open' /\ Source' = Source /\ inet \in Nets /\ target_flag \in [Nodes -> Nat]
  BY <1>2 DEF Open, Source, IInv, SearchInv, ControlInv, TypeOK
<1>5. \A n \in Nodes : target_flag'[n] > 0 => target_flag[n] > 0
  BY <1>3, <1>4
<1>6. ASSUME NEW n \in Nodes, Type[n] # "SINK", Found(n) PROVE Found(n)'
  <2>1. CASE path_cost[n] # HUGE
    BY <1>2, <2>1 DEF Found
  <2>2. CASE \E f \in heap : f.index = n
    BY <1>3, <1>6, <2>2 DEF Found
  <2> QED BY <1>6, <2>1, <2>2 DEF Found
<1>7. Found(Source)'
  <2>1. Source \in Nodes /\ Type[Source] # "SINK"
    BY <1>4, NetFacts DEF IInv, SearchInv, Source
  <2>2. Found(Source)
    BY <1>4 DEF FrontierInv
  <2> HIDE DEF Source
  <2>3. \A n : n = Source => (Found(n)' => Found(Source)')
    BY <1>4 DEF Found
  <2> QED BY <1>6, <2>1, <2>2, <2>3
<1>8. ASSUME NEW m \in Nodes, NEW n \in Nodes, path_cost[m] # HUGE, Type[m] # "IPIN", <<m, n>> \in edges,
             n \in Box[inet]
      PROVE  Found(n)'
  <2>1. Type[n] # "SINK"
    BY <1>8, EdgeFacts DEF IInv, SearchInv
  <2> QED BY <1>4, <1>6, <1>8, <2>1 DEF FrontierInv
<1>9. ASSUME NEW m \in Nodes, NEW n \in Nodes, Type[m] = "IPIN", path_cost[m] \notin {HUGE, -HUGE},
             <<m, n>> \in edges, n \in Box[inet], target_flag'[n] > 0
      PROVE  Offers(m, n)'
  <2>1. Offers(m, n)
    BY <1>4, <1>5, <1>9 DEF FrontierInv
  <2>2. PICK f \in heap : f.index = n /\ f.prev_node = m
    BY <1>2, <2>1 DEF Offers
  <2>3. CASE f # e
    BY <1>3, <2>2, <2>3 DEF Offers
  <2>4. CASE f = e
    <3>1. n = e.index /\ m = e.prev_node
      BY <2>2, <2>4
    <3>2. Last' > 1 /\ Last' - 1 = Last + (L - 1)
      BY <1>3
    <3>3. m = trace'[inet'][Last' - 1]
      BY <1>1, <1>2, <1>3, <3>1, <3>2 DEF Joining
    <3> HIDE DEF Last
    <3> QED BY <1>2, <3>2, <3>3 DEF Offers
  <2> QED BY <2>3, <2>4
<1>10. \A f \in heap' : f.cost < HUGE
  BY <1>3, <1>4 DEF FrontierInv
<1> QED BY <1>2, <1>4, <1>5, <1>7, <1>8, <1>9, <1>10 DEF FrontierInv

LEMMA WaveFrontier == ASSUME IInv, FrontierInv, CostsBelowHuge, Wave PROVE FrontierInv'
<1>1. PICK e \in Cheapest :
          /\ pc = "wave" /\ target_flag[e.index] = 0
          /\ IF path_cost[e.index] > e.cost
             THEN /\ path_cost' = [path_cost EXCEPT ![e.index] = e.cost]
                  /\ heap' = (heap \ {e}) \cup Neighbours(e, path_cost')
             ELSE heap' = heap \ {e} /\ path_cost' = path_cost
  BY DEF Wave, path
<1>2. /\ pc' = pc /\ inet' = inet /\ edges' = edges /\ trace' = trace /\ target_flag' = target_flag
      /\ pres_cost' = pres_cost /\ acc_cost' = acc_cost
  BY DEF Wave, loops, costs
<1> DEFINE x == e.index
           New == IF path_cost[x] > e.cost THEN Neighbours(e, path_cost') ELSE {}
<1>3. /\ e \in heap /\ x \in Nodes /\ e.cost \in Nat /\ e.prev_node \in Nodes \cup {NoNode}
  <2>1. e \in heap
    BY DEF Cheapest
  <2> QED BY <2>1, HeapElements DEF IInv, SearchInv
<1>4. /\ path_cost \in [Nodes -> Nat \cup {-HUGE}] /\ HUGE \in Nat /\ HUGE > 0 /\ -HUGE \in Int /\ -HUGE # HUGE
      /\ \A n \in Nodes : path_cost[n] \in Int /\ path_cost[n] <= HUGE
  <2>1. path_cost \in [Nodes -> Nat \cup {-HUGE}] /\ \A n \in Nodes : path_cost[n] <= HUGE
    BY DEF IInv, SearchInv, TypeOK, Shapes
  <2>2. HUGE \in Nat /\ HUGE > 0 /\ -HUGE \in Int /\ -HUGE # HUGE
    BY CostsAssumption
  <2> QED BY <2>1, <2>2
<1>5. Open /\ Open' /\ Source' = Source /\ inet \in Nets
  BY <1>1, <1>2 DEF Open, Source, IInv, SearchInv, ControlInv
<1>6. /\ heap' = (heap \ {e}) \cup New
      /\ \A n \in Nodes \ {x} : path_cost'[n] = path_cost[n]
      /\ path_cost[x] > e.cost => path_cost'[x] = e.cost
      /\ ~(path_cost[x] > e.cost) => path_cost'[x] = path_cost[x]
      /\ path_cost' \in [Nodes -> Nat \cup {-HUGE}]
  <2>1. CASE path_cost[x] > e.cost
    BY <1>1, <1>3, <1>4, <2>1
  <2>2. CASE ~(path_cost[x] > e.cost)
    <3>1. path_cost' = path_cost /\ heap' = heap \ {e}
      BY <1>1, <2>2
    <3> QED BY <1>4, <2>2, <3>1
  <2> QED BY <2>1, <2>2
(* A neighbour of a node that is recorded has a path, or gets one now.     *)
<1>7. ASSUME NEW n \in Nodes, <<x, n>> \in edges, n \in Box[inet], path_cost[x] > e.cost, path_cost'[n] = HUGE
      PROVE  \E f \in heap' : f.index = n /\ f.prev_node = x
  <2> DEFINE c == e.cost + Cong(n) + Bend(x, n)
             f == Entry(n, c, x)
  <2>1. c < HUGE
    <3>1. e \in heap /\ pc = "wave"
      BY <1>1, <1>3
    <3> QED BY <1>7, <3>1 DEF CostsBelowHuge
  <2>2. f \in {Entry(m, e.cost + Cong(m) + Bend(x, m), x) : m \in {m \in Box[inet] : <<x, m>> \in edges}}
    BY <1>7
  <2>3. f.index = n /\ f.cost = c /\ f.prev_node = x
    BY DEF Entry
  <2> HIDE DEF c
  <2>4. f.cost < path_cost'[f.index]
    BY <1>7, <2>1, <2>3
  <2>5. f \in New
    BY <1>7, <2>2, <2>4 DEF Neighbours, Cheaper, c
  <2> HIDE DEF New, f
  <2> QED BY <1>6, <2>3, <2>5
<1>14. \A f \in heap' : f.cost < HUGE
  <2>1. ASSUME NEW f \in New PROVE f.cost < HUGE
    <3>1. f \in Neighbours(e, path_cost')
      BY <2>1
    <3>2. PICK n \in {m \in Box[inet] : <<x, m>> \in edges} : f = Entry(n, e.cost + Cong(n) + Bend(x, n), x)
      BY <3>1 DEF Neighbours, Cheaper
    <3>3. e \in heap /\ pc = "wave"
      BY <1>1, <1>3
    <3>4. e.cost + Cong(n) + Bend(x, n) < HUGE
      BY <3>2, <3>3 DEF CostsBelowHuge
    <3> QED BY <3>2, <3>4 DEF Entry
  <2> HIDE DEF New
  <2> QED BY <1>5, <1>6, <2>1 DEF FrontierInv
<1> HIDE DEF New
<1>8. ASSUME NEW n \in Nodes, Found(n) PROVE Found(n)'
  <2>1. CASE n = x
    <3>1. \/ path_cost[x] > e.cost /\ path_cost'[x] = e.cost /\ e.cost < HUGE
          \/ path_cost'[x] = path_cost[x] /\ path_cost[x] <= e.cost
      BY <1>3, <1>4, <1>6
    <3>2. e.cost < HUGE \/ path_cost[x] # HUGE
      <4>1. CASE path_cost[x] # HUGE
        BY <4>1
      <4>2. CASE path_cost[x] = HUGE
        <5>1. e.cost < HUGE
          BY <1>3, <1>5 DEF FrontierInv
        <5> QED BY <5>1
      <4> QED BY <4>1, <4>2
    <3>3. path_cost'[x] # HUGE
      BY <1>3, <1>4, <3>1, <3>2
    <3> QED BY <2>1, <3>3 DEF Found
  <2>2. CASE n # x /\ path_cost[n] # HUGE
    BY <1>6, <2>2 DEF Found
  <2>3. CASE n # x /\ \E f \in heap : f.index = n
    <3>1. PICK f \in heap : f.index = n
      BY <2>3
    <3>2. f # e
      BY <2>3, <3>1
    <3> QED BY <1>6, <3>1, <3>2 DEF Found
  <2> QED BY <1>8, <2>1, <2>2, <2>3 DEF Found
<1>9. Found(Source)'
  <2>1. Source \in Nodes
    BY <1>5, NetFacts DEF IInv, SearchInv, Source
  <2>2. Found(Source)
    BY <1>5 DEF FrontierInv
  <2> HIDE DEF Source
  <2>3. \A n : n = Source => (Found(n)' => Found(Source)')
    BY <1>5 DEF Found
  <2> QED BY <1>8, <2>1, <2>2, <2>3
<1>10. ASSUME NEW m \in Nodes, NEW n \in Nodes, path_cost'[m] # HUGE, Type[m] # "IPIN", <<m, n>> \in edges,
              n \in Box[inet]
       PROVE  Found(n)'
  <2>1. CASE m = x /\ path_cost[x] > e.cost
    <3>1. path_cost'[n] = HUGE => \E f \in heap' : f.index = n
      BY <1>7, <1>10, <2>1
    <3> QED BY <3>1 DEF Found
  <2>2. CASE ~(m = x /\ path_cost[x] > e.cost)
    <3>1. path_cost[m] # HUGE
      BY <1>6, <1>10, <2>2
    <3> QED BY <1>5, <1>8, <1>10, <3>1 DEF FrontierInv
  <2> QED BY <2>1, <2>2
<1>11. ASSUME NEW n \in Nodes, target_flag[n] > 0 PROVE path_cost'[n] = HUGE
  <2>1. n # x /\ path_cost[n] = HUGE
    BY <1>1, <1>5, <1>11 DEF FrontierInv
  <2> QED BY <1>6, <2>1
<1>12. ASSUME NEW m \in Nodes, NEW n \in Nodes, Type[m] = "IPIN", path_cost'[m] \notin {HUGE, -HUGE},
              <<m, n>> \in edges, n \in Box[inet], target_flag[n] > 0
       PROVE  \E f \in heap' : f.index = n /\ f.prev_node = m
  <2>1. CASE m = x /\ path_cost[x] > e.cost
    BY <1>7, <1>11, <1>12, <2>1
  <2>2. CASE ~(m = x /\ path_cost[x] > e.cost)
    <3>1. path_cost[m] \notin {HUGE, -HUGE}
      BY <1>6, <1>12, <2>2
    <3>2. Offers(m, n)
      BY <1>5, <1>12, <3>1 DEF FrontierInv
    <3>3. PICK f \in heap : f.index = n /\ f.prev_node = m
      BY <1>1, <3>2 DEF Offers
    <3>4. f # e
      BY <1>1, <1>12, <3>3
    <3> QED BY <1>6, <3>3, <3>4
  <2> QED BY <2>1, <2>2
<1>13. \A m, n \in Nodes : Type[m] = "IPIN" /\ path_cost'[m] \notin {HUGE, -HUGE} /\ <<m, n>> \in edges
                           /\ n \in Box[inet] /\ target_flag[n] > 0 => Offers(m, n)'
  BY <1>12 DEF Offers
<1> QED BY <1>2, <1>9, <1>10, <1>11, <1>13, <1>14 DEF FrontierInv

(* What net i reaches lies in every set that has its SOURCE and is closed. *)
LEMMA ReachableWithin ==
    ASSUME NEW i \in Nets, NEW B \in SUBSET Nodes, Terminals[i][1] \in B,
           \A m \in B, n \in Box[i] : <<m, n>> \in edges => n \in B
    PROVE  Reachable(i) \subseteq B
<1> DEFINE near == Near(i)
           S == SUBSET Nodes
<1>1. Terminals[i][1] \in Nodes /\ {Terminals[i][1]} \in S
  OBVIOUS
<1>2. Box[i] \subseteq Nodes
  BY NetsAssumption
<1>3. Widen(i) \in [S -> S]
  <2>1. \A T \in S : T \cup {n \in Box[i] : \E m \in T : <<m, n>> \in edges} \in S
    BY <1>2
  <2> QED BY <2>1 DEF Widen
<1>4. Iterates(near, {Terminals[i][1]}, Widen(i))
  BY DEF Near, Iterates
<1> HIDE DEF near
<1>5. /\ near[0] = {Terminals[i][1]} /\ near \in [Nat -> S]
      /\ \A k \in Nat : near[k + 1] = Widen(i)[near[k]]
  <2> HIDE DEF S
  <2> QED BY <1>1, <1>3, <1>4, Iteration
<1> DEFINE Within == {k \in Nat : near[k] \subseteq B}
<1>6. 0 \in Within
  BY <1>5
<1>7. ASSUME NEW k \in Nat, k \in Within PROVE k + 1 \in Within
  <2>1. near[k] \in S /\ near[k] \subseteq B
    BY <1>5, <1>7
  <2>2. near[k + 1] = near[k] \cup {n \in Box[i] : \E m \in near[k] : <<m, n>> \in edges}
    BY <1>5, <2>1 DEF Widen
  <2>3. ASSUME NEW n \in near[k + 1] PROVE n \in B
    <3>1. CASE n \in near[k]
      BY <2>1, <3>1
    <3>2. CASE \E m \in near[k] : n \in Box[i] /\ <<m, n>> \in edges
      BY <2>1, <3>2
    <3> QED BY <2>2, <2>3, <3>1, <3>2
  <2> QED BY <2>3
<1> HIDE DEF Within
<1>8. Nat \subseteq Within
  BY <1>6, <1>7, NaturalsFromZero
<1>9. Cardinality(Nodes) \in Nat
  BY GraphAssumption, FS_CardinalityType
<1>10. Reachable(i) = near[Cardinality(Nodes)]
  BY DEF Reachable, near
<1> QED BY <1>8, <1>9, <1>10 DEF Within

(* When the heap is empty, a SINK that still is wanted has too few pins:   *)
(* the net has entered it by each one within reach.                        *)
LEMMA TooFewPins ==
    ASSUME IInv, FrontierInv, pc = "wave", heap = {}
    PROVE  \E n \in OfType("SINK") :
               Connections(inet, n) >
                   Cardinality({m \in Reachable(inet) : n \in Box[inet] /\ <<m, n>> \in edges})
<1> DEFINE t == trace[inet]
<1>1. Open /\ inet \in Nets /\ isink <= Len(SinksOf(inet)) /\ isink \in Nat /\ isink >= 1
  BY DEF Open, IInv, SearchInv, ControlInv, TypeOK
<1>2. /\ Source \in Nodes /\ Len(SinksOf(inet)) \in Nat /\ SinksOf(inet) \in Seq(OfType("SINK"))
      /\ DOMAIN SinksOf(inet) = 1 .. Len(SinksOf(inet))
      /\ Len(t) \in Nat /\ DOMAIN t = 1 .. Len(t)
  BY <1>1, NetFacts DEF IInv, SearchInv, Source
<1>3. PICK U \in SUBSET (1 .. Len(SinksOf(inet))) : Unconnected(U)
  BY <1>1 DEF IInv, SearchInv, FlagsInv
<1>4. IsFiniteSet(U) /\ U # {}
  <2>1. IsFiniteSet(1 .. Len(SinksOf(inet)))
    BY <1>2, FS_Interval
  <2>2. Cardinality(U) # 0
    BY <1>1, <1>2, <1>3 DEF Unconnected
  <2>3. Cardinality({}) = 0
    BY FS_EmptySet
  <2> QED BY <2>1, <2>2, <2>3, FS_Subset
<1>5. PICK j \in U : TRUE
  BY <1>4
<1> DEFINE n == SinksOf(inet)[j]
<1>6. n \in OfType("SINK") /\ n \in Nodes /\ Type[n] = "SINK"
  <2>1. n \in OfType("SINK")
    BY <1>2, ElementOfSeq
  <2> QED BY <2>1 DEF OfType
<1>7. target_flag[n] \in Nat /\ target_flag[n] > 0
  <2> DEFINE W == {k \in U : SinksOf(inet)[k] = n}
  <2>1. target_flag[n] = Cardinality(W)
    BY <1>3, <1>6 DEF Unconnected
  <2>2. j \in W
    BY <1>5
  <2>3. IsFiniteSet(W)
    BY <1>4, FS_Subset
  <2> HIDE DEF W
  <2>4. Cardinality(W) \in Nat /\ Cardinality(W) # 0
    BY <2>2, <2>3, FS_CardinalityType, FS_EmptySet
  <2> QED BY <2>1, <2>4
<1>8. Cardinality(InTrace(inet, n)) + target_flag[n] = Connections(inet, n)
  BY <1>1, <1>6 DEF IInv, SearchInv, FlagsInv
<1> HIDE DEF n, t
<1> DEFINE B == {m \in Nodes : path_cost[m] # HUGE \/ Type[m] = "SINK"}
<1>9. Reachable(inet) \subseteq B
  <2>1. Source \in B
    BY <1>1, <1>2 DEF FrontierInv, Found
  <2>2. ASSUME NEW u \in B, NEW v \in Box[inet], <<u, v>> \in edges PROVE v \in B
    <3>1. u \in Nodes /\ v \in Nodes
      BY <2>2, NodesOfEdges DEF IInv, SearchInv
    <3>2. Type[u] # "SINK" /\ (Type[u] = "IPIN" => Type[v] = "SINK")
      BY <2>2, <3>1, EdgeFacts DEF IInv, SearchInv
    <3>3. CASE Type[u] # "IPIN"
      <4>1. Found(v)
        BY <1>1, <2>2, <3>1, <3>2, <3>3 DEF FrontierInv
      <4> QED BY <3>1, <4>1 DEF Found
    <3> QED BY <3>1, <3>2, <3>3
  <2>3. Terminals[inet][1] \in B /\ B \in SUBSET Nodes
    BY <2>1 DEF Source
  <2> HIDE DEF B
  <2> QED BY <1>1, <2>2, <2>3, ReachableWithin
<1> DEFINE P == {m \in Reachable(inet) : n \in Box[inet] /\ <<m, n>> \in edges}
           T == InTrace(inet, n)
<1>10. ASSUME NEW m \in P PROVE \E k \in DOMAIN t : k + 1 \in T /\ t[k] = m
  <2>1. m \in Nodes /\ <<m, n>> \in edges /\ n \in Box[inet] /\ (path_cost[m] # HUGE \/ Type[m] = "SINK")
    BY <1>9
  <2>2. Type[m] = "IPIN" /\ Type[m] # "SINK"
    BY <1>6, <2>1, EdgeFacts DEF IInv, SearchInv
  <2>3. path_cost[m] = -HUGE
    <3>1. SUFFICES ASSUME path_cost[m] # -HUGE PROVE FALSE
      OBVIOUS
    <3>2. Offers(m, n)
      BY <1>1, <1>6, <1>7, <2>1, <2>2, <3>1 DEF FrontierInv
    <3> QED BY <3>2 DEF Offers
  <2>4. m \in Traced
    BY <1>1, <2>1, <2>3 DEF IInv, SearchInv, WiringInv
  <2>5. PICK k \in DOMAIN t : t[k] = m
    BY <2>4 DEF Traced, t
  <2>6. k + 1 \in DOMAIN t /\ <<t[k], t[k + 1]>> \in edges
    BY <1>1, <2>2, <2>5, LinkFacts DEF IInv, SearchInv, t
  <2>7. t[k + 1] \in Nodes
    BY <1>1, <2>6, NetFacts DEF IInv, SearchInv, t
  <2>8. t[k + 1] = n
    BY <1>6, <2>1, <2>2, <2>5, <2>6, <2>7, EdgeFacts DEF IInv, SearchInv
  <2> QED BY <2>5, <2>6, <2>8 DEF InTrace, t
<1> DEFINE at(m) == CHOOSE k \in DOMAIN t : k + 1 \in T /\ t[k] = m
           f == [m \in P |-> at(m) + 1]
<1>11. \A m \in P : at(m) \in DOMAIN t /\ at(m) + 1 \in T /\ t[at(m)] = m
  BY <1>10
<1> HIDE DEF at
<1>12. f \in [P -> T]
  BY <1>11
<1>13. \A l, m \in P : f[l] = f[m] => l = m
  <2>1. ASSUME NEW l \in P, NEW m \in P, at(l) + 1 = at(m) + 1 PROVE l = m
    <3>1. at(l) \in Int /\ at(m) \in Int
      BY <1>2, <1>11
    <3>2. at(l) = at(m)
      BY <2>1, <3>1
    <3> QED BY <1>11, <3>2
  <2> QED BY <2>1
<1>14. IsFiniteSet(T)
  <2>1. IsFiniteSet(1 .. Len(t))
    <3>1. Len(t) \in Nat
      BY <1>2 DEF t
    <3> QED BY <3>1, FS_Interval
  <2>2. T \subseteq 1 .. Len(t)
    BY <1>2 DEF InTrace, t
  <2> HIDE DEF T
  <2> QED BY <2>1, <2>2, FS_Subset
<1> HIDE DEF f, P, T
<1>15. Cardinality(P) \in Nat /\ Cardinality(T) \in Nat /\ Cardinality(P) <= Cardinality(T)
  <2>1. f \in Injection(P, T)
    BY <1>12, <1>13, Fun_IsInj
  <2>2. IsFiniteSet(P) /\ Cardinality(P) <= Cardinality(T)
    BY <1>14, <2>1, FS_Injection
  <2> QED BY <1>14, <2>2, FS_CardinalityType
<1>16. Connections(inet, n) > Cardinality(P)
  BY <1>7, <1>8, <1>15 DEF T
<1> QED BY <1>6, <1>16 DEF P

LEMMA FrontierSteps ==
    ASSUME IInv, IInv', FrontierInv, CostsBelowHuge, CostsBelowHuge', [Next]_vars
    PROVE  FrontierInv'
<1>1. CASE StartNet
  BY <1>1, StartNetFrontier
<1>2. CASE ExpandSegment \/ ExpandForOtherPin \/ Wave \/ Connect
  BY <1>2, ExpandSegmentFrontier, ExpandForOtherPinFrontier, WaveFrontier, ConnectFrontier
<1>3. CASE SkipGlobal \/ Unroutable \/ CloseNet \/ RipUpOpins \/ ReserveOpins \/ CheckPasses \/ CheckFails
  <2>1. ~Open'
    BY <1>3 DEF Open, SkipGlobal, Unroutable, CloseNet, RipUpOpins, ReserveOpins, CheckPasses, CheckFails
  <2> QED BY <2>1 DEF FrontierInv
<1>4. CASE Done \/ UNCHANGED vars
  BY <1>4 DEF Done, vars, path, search, loops, FrontierInv, Open, Found, Offers, Source, Last
<1> QED BY <1>1, <1>2, <1>3, <1>4 DEF Next

LEMMA DisconnectedSteps ==
    ASSUME IInv, FrontierInv, DisconnectedIsTrue, [Next]_vars
    PROVE  DisconnectedIsTrue'
<1> SUFFICES ASSUME verdict' = "disconnected"
             PROVE  (\E n \in OfType("SINK") :
                        Connections(inet, n) >
                            Cardinality({m \in Reachable(inet) : n \in Box[inet] /\ <<m, n>> \in edges}))'
  BY DEF DisconnectedIsTrue
<1>1. Unroutable \/ (verdict = "disconnected" /\ UNCHANGED vars)
  <2>1. CASE verdict = "disconnected"
    <3>1. pc = "done"
      BY <2>1 DEF IInv, SearchInv, ControlInv
    <3> QED BY <2>1, <3>1 DEF Next, Done, SkipGlobal, StartNet, ExpandSegment, ExpandForOtherPin, Wave, Connect,
                             Unroutable, CloseNet, RipUpOpins, ReserveOpins, CheckPasses, CheckFails
  <2>2. CASE verdict # "disconnected"
    <3>1. verdict' # verdict
      BY <2>2
    <3>2. CheckPasses => verdict' = "routed"
      BY DEF CheckPasses
    <3>3. CheckFails => verdict' \in {verdict, "congested"}
      BY DEF CheckFails
    <3>4. SkipGlobal \/ StartNet \/ ExpandSegment \/ ExpandForOtherPin => verdict' = verdict
      BY DEF SkipGlobal, StartNet, ExpandSegment, ExpandForOtherPin
    <3>5. Wave \/ Connect \/ CloseNet \/ RipUpOpins \/ ReserveOpins => verdict' = verdict
      BY DEF Wave, Connect, CloseNet, RipUpOpins, ReserveOpins
    <3>6. Done \/ UNCHANGED vars => verdict' = verdict
      BY DEF Done, vars
    <3> QED BY <2>2, <3>1, <3>2, <3>3, <3>4, <3>5, <3>6 DEF Next
  <2> QED BY <2>1, <2>2
<1>2. edges' = edges /\ inet' = inet
  BY <1>1 DEF Unroutable, vars, loops
<1>3. \E n \in OfType("SINK") :
          Connections(inet, n) >
              Cardinality({m \in Reachable(inet) : n \in Box[inet] /\ <<m, n>> \in edges})
  <2>1. CASE Unroutable
    BY <2>1, TooFewPins DEF Unroutable
  <2>2. CASE verdict = "disconnected"
    BY <2>2 DEF DisconnectedIsTrue
  <2> QED BY <1>1, <2>1, <2>2
<1>4. Reachable(inet)' = Reachable(inet)
  BY <1>2 DEF Reachable, Near, Widen
<1> QED BY <1>2, <1>3, <1>4 DEF Connections, SinksOf

(* What "routed" promises: Routed and Held are all nets and classes then.  *)
LEMMA RoutedFacts == ASSUME IInv PROVE RoutedIsComplete
<1> SUFFICES ASSUME verdict = "routed" PROVE RoutedIsComplete
  BY DEF RoutedIsComplete
<1>1. pc = "done" /\ ~Open
  BY DEF IInv, SearchInv, ControlInv, Open
<1>2. ASSUME NEW i \in Nets \ Global, NEW n \in OfType("SINK")
      PROVE  Cardinality(InTrace(i, n)) = Connections(i, n)
  <2>1. Finished(i)
    BY <1>1 DEF Finished
  <2> QED BY <2>1 DEF IInv, ConnectedInv
<1>3. Routed = Nets /\ Held = DOMAIN Classes
  BY <1>1 DEF Routed, Held
<1>4. ASSUME NEW n \in Nodes PROVE TrueOcc(Nets, DOMAIN Classes, n) <= Capacity[n]
  BY <1>3 DEF IInv, OccupancyInv, FeasibleInv, Feasible
<1> QED BY <1>2, <1>4 DEF RoutedIsComplete

-----------------------------------------------------------------------------
(* When try_breadth_first_route says "routed", every net is connected and  *)
(* nothing is overused.                                                    *)
THEOREM RoutedVerdict == Spec => []RoutedIsComplete
BY RoutedFacts, RouterInvariant, PTL

(* Both verdicts hold, as long as no path costs HUGE_POSITIVE_FLOAT: with  *)
(* one that does, the heap may run empty before the SINK is reached.       *)
THEOREM Verdict == Spec /\ []CostsBelowHuge => []VerdictIsRight
<1>1. Init => FrontierInv /\ DisconnectedIsTrue
  BY DEF Init, FrontierInv, Open, DisconnectedIsTrue
<1>2. IInv /\ IInv' /\ FrontierInv /\ DisconnectedIsTrue /\ CostsBelowHuge /\ CostsBelowHuge' /\ [Next]_vars
          => FrontierInv' /\ DisconnectedIsTrue'
  BY FrontierSteps, DisconnectedSteps
<1>3. IInv /\ DisconnectedIsTrue => VerdictIsRight
  BY RoutedFacts DEF VerdictIsRight
<1> QED BY <1>1, <1>2, <1>3, RouterInvariant, PTL DEF Spec

-----------------------------------------------------------------------------
(* The search for the channel width.                                       *)
Searching == {"search", "searched", "verify"}

Track == Multiplier(setup)              \* the step from a width to the next
Fits(w) == setup.unidir => w % 2 = 0
Failed(w) == w >= 1 => outcome[w] = "failed"

(* The width that would be returned if the search ended now.               *)
Answer == IF final # None THEN final ELSE high

Fresh ==
    phase = "start" =>
        /\ low = None /\ high = None /\ final = None
        /\ outcome = [w \in Widths |-> "untried"]
        /\ trace_head = NoTrace /\ best_routing = NoTrace

(* The ends of the bracket were tried.                                     *)
Bracket ==
    phase \in Searching =>
        /\ setup.fixed = 0
        /\ low # None => low >= 1 /\ Fits(low) /\ outcome[low] = "failed"
        /\ high # None => high >= 1 /\ Fits(high) /\ outcome[high] = "routed"
        /\ final # None => final >= 1 /\ Fits(final) /\ outcome[final] = "routed"
        /\ phase # "search" /\ final = None => high = None

(* Where the next attempt lies in the bracket.                             *)
OpenBracket ==
    phase = "search" =>
        /\ current \in Nat /\ Fits(current)
        /\ final # None => final = high
        /\ final = None =>
            /\ low # None /\ high # None =>
                    high - low > Track /\ low < current /\ current < high
            /\ low = None /\ high # None => current = Legal(high \div 2)
            /\ low # None /\ high = None => low < current
            /\ low = None /\ high = None => current >= 1

(* Nothing narrower than the answer was seen to route.                     *)
AnswerIsLeast ==
    phase \in Searching =>
        \A w \in Widths : outcome[w] = "routed" => Answer # None /\ Answer <= w

(* What fails right below the answer, before and while it is verified.     *)
Below ==
    /\ phase \in {"search", "searched"} /\ final # None /\ setup.Fs <= 3 =>
            Failed(final - Track)
    /\ phase = "verify" /\ final = None => current < 1
    /\ phase = "verify" /\ final # None =>
        /\ Fits(current) /\ current <= final - Track
        /\ ~prev_success => current <= final - 2 * Track
        /\ ~prev_success /\ ~prev2_success => current <= final - 3 * Track
        /\ setup.Fs <= 3 =>
            \A w \in Widths : current < w /\ w < final /\ w >= 1 /\ Fits(w) =>
                    outcome[w] = "failed"

(* The answer has a saved routing, made by an attempt.                     *)
Saved ==
    /\ phase \in Searching =>
        /\ trace_head.attempt <= attempt
        /\ Answer # None => best_routing.attempt \in 1 .. attempt
        /\ Answer = None => best_routing = NoTrace
    /\ phase \in Searching \cup {"start"} => clb_opins.by \in Nat
    /\ setup.router = "breadth_first" => clb_opins.len = saved_clb_opins.len

SearchIInv ==
    /\ DoneIsConsistent
    /\ setup.Fs <= 3 => NarrowerFailed
    /\ Fresh /\ Bracket /\ OpenBracket /\ AnswerIsLeast /\ Below /\ Saved
-----------------------------------------------------------------------------
LEMMA SetupFacts ==
    ASSUME setup \in Setups
    PROVE  /\ setup.pins \in Nat \ {0} /\ setup.Fs \in Nat \ {0}
           /\ setup.fixed \in Nat /\ setup.fixed <= MaxWidth
           /\ setup.unidir \in BOOLEAN /\ setup.verify \in BOOLEAN /\ setup.auto \in BOOLEAN
           /\ setup.router \in {"breadth_first", "timing_driven"}
           /\ MaxWidth \in Nat /\ OutPins \in Nat
           /\ Track = IF setup.unidir THEN 2 ELSE 1
  BY SetupsAssumption, WidthAssumption DEF Track, Multiplier

(* Rounding gives a width of the right parity, the same or the next one.   *)
LEMMA LegalWidth ==
    ASSUME setup \in Setups, NEW w \in Nat
    PROVE  /\ Legal(w) \in Nat /\ Fits(Legal(w))
           /\ setup.unidir => Legal(w) = w + (w % 2)
           /\ ~setup.unidir => Legal(w) = w
  BY SetupFacts DEF Legal, Fits, Track

LEMMA OpinsReserved ==
    ASSUME SearchTypeOK, NEW ok \in BOOLEAN, clb_opins' \in Reservations(ok), clb_opins.by \in Nat
    PROVE  /\ clb_opins' \in [len : 0 .. OutPins, by : Nat]
           /\ ok /\ ~setup.auto => clb_opins'.by = attempt + 1
           /\ setup.router = "breadth_first" => clb_opins'.len = clb_opins.len
  BY DEF SearchTypeOK, Reservations

LEMMA SearchInitIInv == SearchInit => SearchIInv
  BY SetupFacts DEF SearchInit, SearchIInv, DoneIsConsistent, NarrowerFailed, Fresh, Bracket, OpenBracket,
     AnswerIsLeast, Below, Saved, SearchTypeOK, SavedIsAnswer, OpinsRestored, Searching, Phases,
     NoTrace, None, Widths, Junk
(* Every attempt is of a width between 1 and MaxWidth not tried with the   *)
(* other outcome; the bracket and the answer keep what was said of them.   *)
LEMMA Tried ==
    ASSUME SearchTypeOK, NEW w \in Widths, NEW ok \in BOOLEAN, TryRoute(w, ok), clb_opins.by \in Nat
    PROVE  /\ outcome' \in [Widths -> {"untried", "routed", "failed"}]
           /\ outcome'[w] = IF ok THEN "routed" ELSE "failed"
           /\ \A v \in Widths : v # w => outcome'[v] = outcome[v]
           /\ \A v \in Widths : outcome[v] # "untried" => outcome'[v] = outcome[v]
           /\ attempt' = attempt + 1 /\ attempt' \in Nat
           /\ chan_width' = w
           /\ clb_opins' \in [len : 0 .. OutPins, by : Nat]
           /\ ok /\ ~setup.auto => clb_opins'.by = attempt + 1
           /\ setup.router = "breadth_first" => clb_opins'.len = clb_opins.len
  BY OpinsReserved DEF SearchTypeOK, TryRoute

LEMMA FixedOddWidthStep == ASSUME SearchIInv, FixedOddWidth PROVE SearchIInv'
  BY SetupFacts DEF FixedOddWidth, bounds, verification, routing, store,
     SearchIInv, DoneIsConsistent, NarrowerFailed, Fresh, Bracket, OpenBracket,
     AnswerIsLeast, Below, Saved, SearchTypeOK, SavedIsAnswer, OpinsRestored, Searching, Phases,
     NoTrace, None, Widths, Junk, Answer, Failed, Fits, Track, Multiplier

LEMMA RouteFixedWidthStep == ASSUME SearchIInv, RouteFixedWidth PROVE SearchIInv'
<1>1. PICK ok \in BOOLEAN : TryRoute(setup.fixed, ok) /\ phase' = IF ok THEN "done" ELSE "unroutable"
  BY DEF RouteFixedWidth
<1>2. setup.fixed \in Widths /\ SearchTypeOK /\ clb_opins.by \in Nat
  BY SetupFacts DEF RouteFixedWidth, SearchIInv, DoneIsConsistent, SearchTypeOK, Widths, Saved
<1> QED
  BY <1>1, <1>2, Tried, SetupFacts DEF RouteFixedWidth, bounds, verification, store, LeaveRouting, Trace,
     SearchIInv, DoneIsConsistent, NarrowerFailed, Fresh, Bracket, OpenBracket,
     AnswerIsLeast, Below, Saved, SearchTypeOK, SavedIsAnswer, OpinsRestored, Searching, Phases,
     NoTrace, None, Widths, Junk, Answer, Failed, Fits, Track, Multiplier

LEMMA StartSearchStep == ASSUME SearchIInv, StartSearch PROVE SearchIInv'
<1>1. /\ phase = "start" /\ setup.fixed = 0 /\ phase' \in {"aborted", "search"}
      /\ current' = setup.pins + (setup.pins % 2)
      /\ UNCHANGED <<setup, low, high, final, prev_success, prev2_success, outcome, attempt,
                    chan_width, trace_head, clb_opins, best_routing, saved_clb_opins, channel_width>>
  BY DEF StartSearch, verification, routing, store
<1>2. SearchTypeOK /\ low = None /\ high = None /\ final = None
      /\ outcome = [w \in Widths |-> "untried"] /\ trace_head = NoTrace /\ best_routing = NoTrace
  BY <1>1 DEF SearchIInv, DoneIsConsistent, Fresh
<1>3. current' \in Nat /\ current' >= 1 /\ Fits(current)'
  BY <1>1, <1>2, SetupFacts DEF Fits, SearchTypeOK
<1>4. SearchTypeOK'
  BY <1>1, <1>2, <1>3 DEF SearchTypeOK, Phases
<1>5. Saved' /\ SavedIsAnswer'
  BY <1>1, <1>2 DEF SearchIInv, Saved, SavedIsAnswer, Answer, NoTrace, SearchTypeOK
<1>6. Fresh' /\ Bracket' /\ OpenBracket' /\ AnswerIsLeast' /\ Below'
  BY <1>1, <1>2, <1>3 DEF Fresh, Bracket, OpenBracket, AnswerIsLeast, Below, Searching
<1> QED
  BY <1>1, <1>4, <1>5, <1>6 DEF SearchIInv, DoneIsConsistent, NarrowerFailed, OpinsRestored

LEMMA TooWideStep == ASSUME SearchIInv, TooWide PROVE SearchIInv'
  BY SetupFacts DEF TooWide, bounds, verification, routing, store,
     SearchIInv, DoneIsConsistent, NarrowerFailed, Fresh, Bracket, OpenBracket,
     AnswerIsLeast, Below, Saved, SearchTypeOK, SavedIsAnswer, OpinsRestored, Searching, Phases,
     NoTrace, None, Widths, Junk, Answer, Failed, Fits, Track, Multiplier

LEMMA StopBelowFsStep == ASSUME SearchIInv, StopBelowFs PROVE SearchIInv'
<1>1. /\ phase = "search" /\ final = None /\ phase' = "searched" /\ final' = high
      /\ current * 3 < setup.Fs
      /\ UNCHANGED <<setup, current, low, high, prev_success, prev2_success, outcome, attempt,
                    chan_width, trace_head, clb_opins, best_routing, saved_clb_opins, channel_width>>
  BY DEF StopBelowFs, BelowFs, verification, routing, store
<1>2. final' # None /\ setup.Fs <= 3 => final' - Track < 1
  <2> SUFFICES ASSUME high # None, setup.Fs <= 3 PROVE high - Track < 1
    BY <1>1
  <2>1. current = 0
    BY <1>1, SetupFacts DEF SearchIInv, DoneIsConsistent, SearchTypeOK, OpenBracket
  <2>2. high \in Nat /\ high >= 1 /\ Fits(high) /\ (low # None => low \in Nat /\ low >= 1)
    BY <1>1, SetupFacts DEF SearchIInv, DoneIsConsistent, SearchTypeOK, Bracket, Searching, Widths
  <2>3. low = None
    BY <1>1, <2>1, <2>2 DEF SearchIInv, OpenBracket
  <2>4. Legal(high \div 2) = 0
    BY <1>1, <2>1, <2>3 DEF SearchIInv, OpenBracket
  <2>5. high = 1
    BY <2>2, <2>4, LegalWidth DEF SearchIInv, DoneIsConsistent, SearchTypeOK
  <2> QED BY <2>5, SetupFacts DEF SearchIInv, DoneIsConsistent, SearchTypeOK
<1>3. DoneIsConsistent' /\ NarrowerFailed' /\ Fresh' /\ Bracket' /\ OpenBracket' /\ AnswerIsLeast' /\ Saved'
  BY <1>1 DEF SearchIInv, DoneIsConsistent, NarrowerFailed, Fresh, Bracket, OpenBracket,
     AnswerIsLeast, Below, Saved, SearchTypeOK, SavedIsAnswer, OpinsRestored, Searching, Phases,
     NoTrace, None, Widths, Junk, Answer, Failed, Fits, Track, Multiplier
<1>4. Below'
  <2>1. CASE high = None
    BY <1>1, <2>1 DEF Below
  <2>2. CASE high # None /\ setup.Fs <= 3
    <3>1. ~(final - Track >= 1)'
      BY <1>1, <1>2, <2>2, SetupFacts DEF SearchIInv, DoneIsConsistent, SearchTypeOK, Widths, Track, Multiplier
    <3> QED BY <1>1, <3>1 DEF Below, Failed
  <2>3. CASE ~(setup.Fs <= 3)
    BY <1>1, <2>3 DEF Below
  <2> QED BY <2>1, <2>2, <2>3
<1> QED BY <1>3, <1>4 DEF SearchIInv

LEMMA SearchEndedStep == ASSUME SearchIInv, SearchEnded PROVE SearchIInv'
  BY SetupFacts DEF SearchEnded, bounds, verification, routing, store,
     SearchIInv, DoneIsConsistent, NarrowerFailed, Fresh, Bracket, OpenBracket,
     AnswerIsLeast, Below, Saved, SearchTypeOK, SavedIsAnswer, OpinsRestored, Searching, Phases,
     NoTrace, None, Widths, Junk, Answer, Failed, Fits, Track, Multiplier

LEMMA StartVerifyStep == ASSUME SearchIInv, StartVerify PROVE SearchIInv'
<1>1. /\ phase = "searched" /\ phase' = "verify" /\ current' = final - 2
      /\ prev_success' = TRUE /\ prev2_success' = TRUE
      /\ UNCHANGED <<setup, low, high, final, outcome, attempt,
                    chan_width, trace_head, clb_opins, best_routing, saved_clb_opins, channel_width>>
  BY DEF StartVerify, routing, store
<1>2. DoneIsConsistent' /\ NarrowerFailed' /\ Fresh' /\ Bracket' /\ OpenBracket' /\ AnswerIsLeast' /\ Saved'
  BY <1>1 DEF SearchIInv, DoneIsConsistent, NarrowerFailed, Fresh, Bracket, OpenBracket,
     AnswerIsLeast, Below, Saved, SearchTypeOK, SavedIsAnswer, OpinsRestored, Searching, Phases,
     NoTrace, None, Widths, Junk, Answer, Failed, Fits, Track, Multiplier
<1>3. Below'
  <2>1. final = None => current' < 1
    BY <1>1 DEF None
  <2>2. ASSUME final # None
        PROVE  Fits(current)' /\ current' <= final - Track
    BY <1>1, <2>2, SetupFacts DEF SearchIInv, DoneIsConsistent, SearchTypeOK, Bracket, Searching, Fits, Widths
  <2>3. ASSUME final # None, setup.Fs <= 3, NEW w \in Widths, current' < w, w < final, w >= 1, Fits(w)
        PROVE  outcome[w] = "failed"
    <3>1. final \in Nat /\ Failed(final - Track) /\ Fits(final)
      BY <1>1, <2>3 DEF SearchIInv, DoneIsConsistent, SearchTypeOK, Bracket, Searching, Below, Widths
    <3>2. w \in Nat /\ Track = (IF setup.unidir THEN 2 ELSE 1) /\ final - 2 < w
      BY <1>1, <2>3, SetupFacts DEF SearchIInv, DoneIsConsistent, SearchTypeOK, Widths
    <3>3. w = final - Track
      BY <2>3, <3>1, <3>2 DEF Fits
    <3> QED BY <2>3, <3>1, <3>3 DEF Failed
  <2> QED BY <1>1, <2>1, <2>2, <2>3 DEF Below, Track, Multiplier, Fits
<1> QED BY <1>2, <1>3 DEF SearchIInv

LEMMA SearchStutterStep == ASSUME SearchIInv, UNCHANGED searchVars PROVE SearchIInv'
<1>1. UNCHANGED <<setup, phase, current, low, high, final, prev_success, prev2_success, outcome,
                  attempt, chan_width, trace_head, clb_opins, best_routing, saved_clb_opins, channel_width>>
  BY DEF searchVars, bounds, verification, routing, store
<1>2. DoneIsConsistent' /\ (setup.Fs <= 3 => NarrowerFailed)'
  BY <1>1 DEF SearchIInv, DoneIsConsistent, SearchTypeOK, SavedIsAnswer, OpinsRestored, NarrowerFailed,
     Multiplier, Phases
<1>3. Fresh' /\ Bracket' /\ OpenBracket' /\ AnswerIsLeast' /\ Below' /\ Saved'
  BY <1>1 DEF SearchIInv, Fresh, Bracket, OpenBracket, AnswerIsLeast, Below, Saved, Answer, Failed, Fits,
     Track, Multiplier, Legal
<1> QED BY <1>2, <1>3 DEF SearchIInv

(* An attempt of the search lies strictly inside the bracket, except that  *)
(* the narrowest width is tried again.                                     *)
LEMMA NextAttempt ==
    ASSUME SearchIInv, phase = "search", final = None, current <= MaxWidth, ~BelowFs
    PROVE  /\ current \in Widths /\ current >= 1 /\ Fits(current)
           /\ low # None => low < current
           /\ high # None => current < high \/ (current = high /\ current <= Track)
           /\ low \in Widths \cup {None} /\ high \in Widths \cup {None}
           /\ clb_opins.by \in Nat /\ SearchTypeOK /\ setup \in Setups
<1>1. /\ SearchTypeOK /\ setup \in Setups /\ current \in Nat /\ Fits(current) /\ clb_opins.by \in Nat
      /\ low \in Widths \cup {None} /\ high \in Widths \cup {None}
  BY DEF SearchIInv, DoneIsConsistent, SearchTypeOK, OpenBracket, Saved, Searching
<1>2. current >= 1
  BY <1>1, SetupFacts DEF BelowFs
<1>3. low # None => low < current
  BY <1>1, <1>2 DEF SearchIInv, OpenBracket
<1>4. ASSUME high # None PROVE current < high \/ (current = high /\ current <= Track)
  <2>1. CASE low # None
    <3>1. low < current /\ current < high
      BY <2>1, <1>4 DEF SearchIInv, OpenBracket
    <3> QED BY <3>1
  <2>2. CASE low = None
    <3>1. high \in Nat /\ high >= 1 /\ Fits(high) /\ current = Legal(high \div 2)
      BY <2>2, <1>1, <1>4 DEF SearchIInv, OpenBracket, Bracket, Searching, Widths
    <3>2. high \div 2 \in Nat /\ high \div 2 < high /\ 2 * (high \div 2) <= high
      BY <3>1
    <3>3. CASE setup.unidir
      <4>1. high % 2 = 0 /\ Track = 2 /\ current = (high \div 2) + ((high \div 2) % 2)
        BY <1>1, <3>1, <3>2, <3>3, LegalWidth, SetupFacts DEF Fits
      <4> QED BY <1>1, <1>2, <3>1, <4>1
    <3>4. CASE ~setup.unidir
      BY <1>1, <3>1, <3>2, <3>4, LegalWidth
    <3> QED BY <3>3, <3>4
  <2> QED BY <2>1, <2>2
<1> QED BY <1>1, <1>2, <1>3, <1>4, SetupFacts DEF Widths

(* Half way between two ends that leave a width between them.              *)
LEMMA Between ==
    ASSUME setup \in Setups, NEW a \in Nat, NEW b \in Nat, Fits(a), Fits(b), b - a > Track
    PROVE  LET c == Legal((b + a) \div 2) IN c \in Nat /\ Fits(c) /\ a < c /\ c < b
<1> DEFINE h == (b + a) \div 2
<1>1. h \in Nat /\ 2 * h <= b + a /\ b + a <= 2 * h + 1
  OBVIOUS
<1>2. Legal(h) \in Nat /\ Fits(Legal(h))
  BY <1>1, LegalWidth
<1>3. CASE setup.unidir
  <2>1. Legal(h) = h + (h % 2) /\ a % 2 = 0 /\ b % 2 = 0 /\ b - a > 2
    BY <1>1, <1>3, LegalWidth, SetupFacts DEF Fits
  <2>2. a < h + (h % 2) /\ h + (h % 2) < b
    BY <1>1, <2>1
  <2> QED BY <1>2, <2>1, <2>2
<1>4. CASE ~setup.unidir
  <2>1. Legal(h) = h /\ b - a > 1
    BY <1>1, <1>4, LegalWidth, SetupFacts
  <2> QED BY <1>1, <1>2, <2>1
<1> QED BY <1>3, <1>4

LEMMA WidthRoutesStep == ASSUME SearchIInv, WidthRoutes PROVE SearchIInv'
<1>1. /\ phase = "search" /\ final = None /\ current <= MaxWidth /\ ~BelowFs
      /\ phase' = "search" /\ high' = current
      /\ final' = IF current = high \/ Closes(low, current) THEN current ELSE None
      /\ current' = Legal(IF low # None THEN (current + low) \div 2 ELSE current \div 2)
      /\ best_routing' = Trace(current) /\ trace_head' = NoTrace
      /\ saved_clb_opins' = IF setup.auto THEN saved_clb_opins ELSE clb_opins'
      /\ TryRoute(current, TRUE)
      /\ UNCHANGED <<setup, low, prev_success, prev2_success, channel_width>>
  BY DEF WidthRoutes, SaveRouting, verification
<1>2. /\ current \in Widths /\ current >= 1 /\ Fits(current)
      /\ low # None => low < current
      /\ high # None => current < high \/ (current = high /\ current <= Track)
      /\ low \in Widths \cup {None} /\ high \in Widths \cup {None}
      /\ clb_opins.by \in Nat /\ SearchTypeOK /\ setup \in Setups
  BY <1>1, NextAttempt
<1>3. /\ outcome' \in [Widths -> {"untried", "routed", "failed"}]
      /\ outcome'[current] = "routed"
      /\ \A v \in Widths : v # current => outcome'[v] = outcome[v]
      /\ attempt' = attempt + 1 /\ attempt' \in Nat /\ chan_width' = current
      /\ clb_opins' \in [len : 0 .. OutPins, by : Nat] /\ (~setup.auto => clb_opins'.by = attempt + 1)
      /\ setup.router = "breadth_first" => clb_opins'.len = clb_opins.len
  BY <1>1, <1>2, Tried
<1>4. Widths \subseteq Nat /\ None \notin Nat /\ attempt \in Nat
  BY <1>2, SetupFacts DEF Widths, None, SearchTypeOK
<1>5. low # None => low \in Nat /\ low >= 1 /\ Fits(low) /\ outcome'[low] = "failed"
  BY <1>1, <1>2, <1>3, <1>4 DEF SearchIInv, Bracket, Searching
<1>6. /\ final' = None \/ final' = current
      /\ current' \in Nat /\ Fits(current)'
      /\ final' = None => IF low # None THEN current - low > Track /\ low < current' /\ current' < current
                          ELSE current' = Legal(current \div 2)
  <2>1. CASE low = None
    <3>1. current' = Legal(current \div 2) /\ current \div 2 \in Nat
      BY <1>1, <1>2, <1>4, <2>1
    <3> QED BY <1>1, <1>2, <2>1, <3>1, LegalWidth DEF Fits
  <2>2. CASE low # None /\ final' = current
    <3>1. current' = Legal((current + low) \div 2) /\ (current + low) \div 2 \in Nat
      BY <1>1, <1>2, <1>4, <1>5, <2>2
    <3> QED BY <1>1, <1>2, <1>4, <2>2, <3>1, LegalWidth DEF Fits
  <2>3. CASE low # None /\ final' # current
    <3>1. current - low > Track
      BY <1>1, <1>2, <1>4, <1>5, <2>3, SetupFacts DEF Closes, Track
    <3>2. current' = Legal((current + low) \div 2)
      BY <1>1, <2>3
    <3> QED BY <1>1, <1>2, <1>4, <1>5, <2>3, <3>1, <3>2, Between DEF Fits
  <2> QED BY <1>1, <2>1, <2>2, <2>3
<1>7. SearchTypeOK'
  <2>1. 0 \in Widths
    BY <1>2, SetupFacts DEF Widths
  <2> QED BY <1>1, <1>2, <1>3, <1>4, <1>6, <2>1 DEF SearchTypeOK, Trace, NoTrace
<1>a. Answer' = current /\ current # None /\ best_routing' = [attempt |-> attempt + 1, width |-> current]
  BY <1>1, <1>2, <1>4, <1>6 DEF Answer, Trace
<1>8. SavedIsAnswer' /\ Saved'
  <2>1. SavedIsAnswer'
    BY <1>1, <1>3, <1>4, <1>a DEF SavedIsAnswer, Answer, NoTrace
  <2>2. Saved'
    BY <1>1, <1>2, <1>3, <1>4, <1>a DEF Saved, Searching, NoTrace, SearchIInv
  <2> QED BY <2>1, <2>2
<1>9. Bracket'
  BY <1>1, <1>2, <1>3, <1>4, <1>5, <1>6 DEF Bracket, Searching, Fits, SearchIInv
<1>10. OpenBracket'
  BY <1>1, <1>2, <1>4, <1>6 DEF OpenBracket, Track, Multiplier, Legal, Fits
<1>11. AnswerIsLeast'
  <2> SUFFICES ASSUME NEW w \in Widths, outcome'[w] = "routed" PROVE current <= w
    BY <1>1, <1>4, <1>2, <1>6 DEF AnswerIsLeast, Answer
  <2>1. CASE w = current
    BY <2>1, <1>2, <1>4
  <2>2. CASE w # current
    <3>1. outcome[w] = "routed" BY <2>2, <1>3
    <3>2. high # None /\ high <= w BY <1>1, <3>1 DEF SearchIInv, AnswerIsLeast, Answer, Searching
    <3> QED BY <1>2, <1>4, <3>2
  <2> QED BY <2>1, <2>2
<1>12. Below'
  <2> SUFFICES ASSUME final' # None PROVE Failed(final - Track)'
    BY <1>1 DEF Below
  <2>1. final' = current /\ Track' = Track /\ Track \in {1, 2} /\ (Track = 2 <=> setup.unidir)
    BY <1>1, <1>2, <1>6, SetupFacts DEF Track, Multiplier
  <2>2. CASE current <= Track
    BY <1>2, <1>4, <2>1, <2>2 DEF Failed
  <2>3. CASE ~(current <= Track)
    <3>1. current - low <= Track
      BY <1>1, <1>2, <1>4, <2>1, <2>3 DEF Closes, Track
    <3>2. low # None
      BY <1>2, <1>4, <2>1, <2>3, <3>1 DEF None
    <3>3. low = current - Track
      <4>1. CASE setup.unidir
        BY <1>2, <1>4, <1>5, <2>1, <3>1, <3>2, <4>1 DEF Fits
      <4>2. CASE ~setup.unidir
        BY <1>2, <1>4, <1>5, <2>1, <3>1, <3>2, <4>2
      <4> QED BY <4>1, <4>2
    <3> QED BY <1>5, <2>1, <3>2, <3>3 DEF Failed
  <2> QED BY <2>2, <2>3
<1> QED
  BY <1>1, <1>7, <1>8, <1>9, <1>10, <1>11, <1>12
     DEF SearchIInv, DoneIsConsistent, NarrowerFailed, Fresh, OpinsRestored

LEMMA WidthFailsStep == ASSUME SearchIInv, WidthFails PROVE SearchIInv'
<1>1. /\ phase = "search" /\ final = None /\ current <= MaxWidth /\ ~BelowFs
      /\ phase' = "search" /\ low' = current
      /\ final' = IF high # None /\ Closes(current, high) THEN high ELSE None
      /\ current' = Legal(IF high # None THEN (high + current) \div 2 ELSE current * 2)
      /\ trace_head' = Trace(current) /\ best_routing' = best_routing /\ saved_clb_opins' = saved_clb_opins
      /\ TryRoute(current, FALSE)
      /\ UNCHANGED <<setup, high, prev_success, prev2_success, channel_width>>
  BY DEF WidthFails, LeaveRouting, verification, store
<1>2. /\ current \in Widths /\ current >= 1 /\ Fits(current)
      /\ high # None => current < high \/ (current = high /\ current <= Track)
      /\ low \in Widths \cup {None} /\ high \in Widths \cup {None}
      /\ clb_opins.by \in Nat /\ SearchTypeOK /\ setup \in Setups
  BY <1>1, NextAttempt
<1>3. /\ outcome' \in [Widths -> {"untried", "routed", "failed"}]
      /\ outcome'[current] = "failed" /\ outcome[current] # "routed"
      /\ \A v \in Widths : v # current => outcome'[v] = outcome[v]
      /\ attempt' = attempt + 1 /\ attempt' \in Nat /\ chan_width' = current
      /\ clb_opins' \in [len : 0 .. OutPins, by : Nat]
      /\ setup.router = "breadth_first" => clb_opins'.len = clb_opins.len
  BY <1>1, <1>2, Tried DEF TryRoute
<1>4. Widths \subseteq Nat /\ None \notin Nat /\ attempt \in Nat
  BY <1>2, SetupFacts DEF Widths, None, SearchTypeOK
<1>5. high # None => /\ high \in Nat /\ high >= 1 /\ Fits(high)
                     /\ outcome[high] = "routed" /\ current < high /\ outcome'[high] = "routed"
  BY <1>1, <1>2, <1>3, <1>4 DEF SearchIInv, Bracket, Searching
<1>6. /\ final' = None \/ (final' = high /\ high # None)
      /\ current' \in Nat /\ Fits(current)'
      /\ final' = None => IF high # None THEN high - current > Track /\ current < current' /\ current' < high
                          ELSE current < current'
  <2>1. CASE high = None
    <3>1. current' = Legal(current * 2) /\ current * 2 \in Nat
      BY <1>1, <1>2, <1>4, <2>1
    <3> QED BY <1>1, <1>2, <1>4, <2>1, <3>1, LegalWidth DEF Fits
  <2>2. CASE high # None /\ final' # None
    <3>1. current' = Legal((high + current) \div 2) /\ (high + current) \div 2 \in Nat
      BY <1>1, <1>2, <1>4, <1>5, <2>2
    <3> QED BY <1>1, <1>2, <1>4, <2>2, <3>1, LegalWidth DEF Fits
  <2>3. CASE high # None /\ final' = None
    <3>1. high - current > Track
      BY <1>1, <1>2, <1>4, <1>5, <2>3, SetupFacts DEF Closes, Track
    <3>2. current' = Legal((high + current) \div 2)
      BY <1>1, <2>3
    <3> QED BY <1>1, <1>2, <1>4, <1>5, <2>3, <3>1, <3>2, Between DEF Fits
  <2> QED BY <1>1, <2>1, <2>2, <2>3
<1>7. SearchTypeOK'
  BY <1>1, <1>2, <1>3, <1>4, <1>6, SetupFacts DEF SearchTypeOK, Trace
<1>8. Answer' = Answer
  BY <1>1, <1>6 DEF Answer
<1>9. SavedIsAnswer' /\ Saved'
  BY <1>1, <1>2, <1>3, <1>4, <1>8
     DEF SavedIsAnswer, Saved, Searching, Answer, Trace, NoTrace, SearchTypeOK, SearchIInv, DoneIsConsistent
<1>10. Bracket'
  BY <1>1, <1>2, <1>3, <1>4, <1>5, <1>6 DEF Bracket, Searching, Fits, SearchIInv
<1>11. OpenBracket'
  BY <1>1, <1>2, <1>4, <1>6 DEF OpenBracket, Track, Multiplier, Legal, Fits
<1>12. AnswerIsLeast'
  BY <1>1, <1>3, <1>8 DEF SearchIInv, AnswerIsLeast, Searching
<1>13. Below'
  <2> SUFFICES ASSUME final' # None PROVE Failed(final - Track)'
    BY <1>1 DEF Below
  <2>1. final' = high /\ Track' = Track /\ Track \in {1, 2} /\ (Track = 2 <=> setup.unidir)
    BY <1>1, <1>2, <1>6, SetupFacts DEF Track, Multiplier
  <2>2. high - current <= Track
    BY <1>1, <2>1 DEF Closes, Track
  <2>3. current = high - Track
    <3>1. CASE setup.unidir
      BY <1>2, <1>4, <1>5, <1>6, <2>1, <2>2, <3>1 DEF Fits
    <3>2. CASE ~setup.unidir
      BY <1>2, <1>4, <1>5, <1>6, <2>1, <2>2, <3>2
    <3> QED BY <3>1, <3>2
  <2> QED BY <1>3, <2>1, <2>3 DEF Failed
<1> QED
  BY <1>1, <1>7, <1>9, <1>10, <1>11, <1>12, <1>13
     DEF SearchIInv, DoneIsConsistent, NarrowerFailed, Fresh, OpinsRestored

LEMMA VerifyWidthStep == ASSUME SearchIInv, VerifyWidth PROVE SearchIInv'
<1>1. PICK ok \in BOOLEAN :
        /\ TryRoute(current, ok)
        /\ IF ok THEN SaveRouting(current) ELSE LeaveRouting(current)
        /\ final' = IF ok THEN current ELSE final
        /\ prev_success' = ok
  BY DEF VerifyWidth
<1>2. /\ phase = "verify" /\ phase' = "verify" /\ (prev2_success \/ prev_success) /\ current >= 1
      /\ prev2_success' = prev_success /\ current' = current - Track
      /\ UNCHANGED <<setup, low, high, channel_width>>
  BY DEF VerifyWidth, Verifying, Track
<1>3. SearchTypeOK /\ setup \in Setups /\ clb_opins.by \in Nat
  BY <1>2 DEF SearchIInv, DoneIsConsistent, SearchTypeOK, Saved, Searching
<1>4. Widths \subseteq Nat /\ None \notin Nat /\ attempt \in Nat /\ current \in Int
      /\ Track \in {1, 2} /\ (Track = 2 <=> setup.unidir) /\ setup.unidir \in BOOLEAN
      /\ Track' = Track
  BY <1>2, <1>3, SetupFacts DEF Widths, None, SearchTypeOK, Track, Multiplier
<1>5. /\ final # None /\ final \in Widths /\ final >= 1 /\ Fits(final)
      /\ current <= final - Track /\ Fits(current)
      /\ ~prev_success => current <= final - 2 * Track
  BY <1>2, <1>3, <1>4 DEF SearchIInv, Below, Bracket, Searching, SearchTypeOK
<1>6. current \in Widths /\ current \in Nat
  BY <1>2, <1>3, <1>4, <1>5, SetupFacts DEF Widths
<1>7. /\ outcome' \in [Widths -> {"untried", "routed", "failed"}]
      /\ outcome'[current] = IF ok THEN "routed" ELSE "failed"
      /\ \A v \in Widths : v # current => outcome'[v] = outcome[v]
      /\ \A v \in Widths : outcome[v] # "untried" => outcome'[v] = outcome[v]
      /\ attempt' = attempt + 1 /\ attempt' \in Nat /\ chan_width' = current
      /\ clb_opins' \in [len : 0 .. OutPins, by : Nat] /\ (ok /\ ~setup.auto => clb_opins'.by = attempt + 1)
      /\ setup.router = "breadth_first" => clb_opins'.len = clb_opins.len
  BY <1>1, <1>3, <1>6, Tried
<1>8. Fits(current - Track)
  BY <1>4, <1>5, <1>6 DEF Fits
<1>9. /\ Answer = final /\ Answer' = final' /\ final' # None /\ final' \in Widths /\ final' >= 1
      /\ Fits(final') /\ outcome'[final'] = "routed"
  <2>1. outcome[final] = "routed"
    BY <1>2, <1>5 DEF SearchIInv, Bracket, Searching
  <2>2. final' # None
    BY <1>1, <1>4, <1>5, <1>6
  <2> QED BY <1>1, <1>2, <1>5, <1>6, <1>7, <2>1, <2>2 DEF Answer
<1>10. CASE ok
  <2>1. /\ best_routing' = [attempt |-> attempt + 1, width |-> current]
        /\ trace_head' = NoTrace /\ final' = current
        /\ saved_clb_opins' = IF setup.auto THEN saved_clb_opins ELSE clb_opins'
    BY <1>1, <1>10 DEF SaveRouting, Trace
  <2>2. SearchTypeOK'
    <3>1. 0 \in Widths
      BY <1>3, SetupFacts DEF Widths
    <3> QED BY <1>1, <1>2, <1>3, <1>4, <1>6, <1>7, <2>1, <3>1 DEF SearchTypeOK, NoTrace
  <2>3. SavedIsAnswer'
    BY <1>1, <1>2, <1>4, <1>7, <1>9, <1>10, <2>1 DEF SavedIsAnswer, Answer, NoTrace
  <2>4. Saved'
    BY <1>2, <1>3, <1>4, <1>7, <1>9, <1>10, <2>1 DEF Saved, Searching, NoTrace, SearchIInv, SearchTypeOK
  <2>5. AnswerIsLeast'
    <3> SUFFICES ASSUME NEW w \in Widths, outcome'[w] = "routed" PROVE current <= w
      BY <1>9, <2>1 DEF AnswerIsLeast
    <3>1. CASE w = current
      BY <3>1, <1>6
    <3>2. CASE w # current
      <4>1. outcome[w] = "routed" BY <1>7, <3>2
      <4>2. final <= w BY <1>2, <1>9, <4>1 DEF SearchIInv, AnswerIsLeast, Searching
      <4> QED BY <1>4, <1>5, <1>6, <4>2
    <3> QED BY <3>1, <3>2
  <2>6. Below'
    <3>1. \A w \in Widths : ~(current - Track < w /\ w < current /\ Fits(w))
      BY <1>4, <1>5, <1>6 DEF Fits
    <3> QED BY <1>1, <1>2, <1>4, <1>6, <1>8, <1>10, <2>1, <3>1 DEF Below, Track, Multiplier, Fits
  <2>7. Bracket'
    BY <1>2, <1>3, <1>7, <1>9 DEF Bracket, Searching, Fits, SearchIInv, SearchTypeOK
  <2> QED
    BY <1>2, <2>2, <2>3, <2>4, <2>5, <2>6, <2>7
       DEF SearchIInv, DoneIsConsistent, NarrowerFailed, Fresh, OpenBracket, OpinsRestored
<1>11. CASE ~ok
  <2>1. /\ best_routing' = best_routing /\ saved_clb_opins' = saved_clb_opins /\ final' = final
        /\ trace_head' = [attempt |-> attempt + 1, width |-> current]
    BY <1>1, <1>11 DEF LeaveRouting, Trace, store
  <2>2. SearchTypeOK'
    BY <1>1, <1>2, <1>3, <1>4, <1>6, <1>7, <2>1 DEF SearchTypeOK
  <2>3. SavedIsAnswer' /\ Saved'
    BY <1>2, <1>3, <1>4, <1>5, <1>7, <1>9, <2>1
       DEF SavedIsAnswer, Saved, Searching, Answer, SearchTypeOK, SearchIInv, DoneIsConsistent
  <2>4. AnswerIsLeast'
    BY <1>2, <1>7, <1>9, <1>11, <2>1 DEF SearchIInv, AnswerIsLeast, Searching
  <2>5. Below'
    <3>1. ASSUME setup.Fs <= 3, NEW w \in Widths, current - Track < w, w < final, w >= 1, Fits(w)
          PROVE  outcome'[w] = "failed"
      <4>1. CASE w = current
        BY <1>7, <1>11, <4>1
      <4>2. CASE w # current
        <5>1. current < w
          BY <1>4, <1>5, <1>6, <3>1, <4>2 DEF Fits
        <5>2. outcome[w] = "failed"
          BY <1>2, <1>5, <3>1, <5>1 DEF SearchIInv, Below
        <5> QED BY <1>7, <4>2, <5>2
      <4> QED BY <4>1, <4>2
    <3>2. /\ current - Track <= final - 2 * Track /\ current - Track <= final - Track
          /\ ~prev_success => current - Track <= final - 3 * Track
      BY <1>4, <1>5, <1>6
    <3> QED BY <1>1, <1>2, <1>4, <1>8, <1>11, <2>1, <3>1, <3>2 DEF Below, Fits
  <2>6. Bracket'
    BY <1>2, <1>3, <1>7, <1>9 DEF Bracket, Searching, Fits, SearchIInv, SearchTypeOK
  <2> QED
    BY <1>2, <2>2, <2>3, <2>4, <2>5, <2>6
       DEF SearchIInv, DoneIsConsistent, NarrowerFailed, Fresh, OpenBracket, OpinsRestored
<1> QED BY <1>10, <1>11

LEMMA RestoreStep == ASSUME SearchIInv, Restore PROVE SearchIInv'
<1>1. /\ phase \in Searching /\ phase' \in {"done", "aborted"}
      /\ phase = "searched" \/ (phase = "verify" /\ ~Verifying)
      /\ phase = "searched" => ~setup.verify
      /\ chan_width' = IF final = None THEN 1 ELSE final
      /\ trace_head' = best_routing /\ best_routing' = NoTrace
      /\ clb_opins' = [clb_opins EXCEPT !.by = IF clb_opins.len <= saved_clb_opins.len THEN saved_clb_opins.by ELSE Junk]
      /\ phase' = "done" => trace_head'.width # 0
      /\ channel_width' = IF phase' = "done" THEN final ELSE channel_width
      /\ UNCHANGED <<setup, current, low, high, final, prev_success, prev2_success, outcome,
                    attempt, saved_clb_opins>>
  BY DEF Restore, RestoreRouting, Searching, bounds, verification
<1>2. SearchTypeOK /\ setup \in Setups /\ clb_opins.by \in Nat /\ setup.fixed = 0
  BY <1>1 DEF SearchIInv, DoneIsConsistent, SearchTypeOK, Saved, Searching, Bracket
<1>3. SearchTypeOK'
  <2>1. 0 \in Widths /\ NoTrace \in [attempt : Nat, width : Widths]
    BY <1>2, SetupFacts DEF Widths, NoTrace
  <2>2. chan_width' \in Widths \cup {1}
    BY <1>1, <1>2 DEF SearchTypeOK
  <2>3. clb_opins' \in [len : 0 .. OutPins, by : Nat \cup {Junk}]
    BY <1>1, <1>2 DEF SearchTypeOK
  <2> QED BY <1>1, <1>2, <2>1, <2>2, <2>3 DEF SearchTypeOK, Phases
<1>4. ASSUME phase' = "done"
      PROVE  /\ final # None /\ final \in Nat /\ final >= 1 /\ Fits(final)
             /\ best_routing.width = final /\ best_routing.attempt # 0
             /\ setup.auto \/ saved_clb_opins.by = best_routing.attempt
  <2>1. Answer # None
    BY <1>1, <1>4 DEF SearchIInv, Saved, NoTrace
  <2>2. final # None
    BY <1>1, <1>4, <2>1 DEF SearchIInv, Answer, OpenBracket, Bracket, Searching
  <2>3. /\ final \in Nat /\ final >= 1 /\ Fits(final)
        /\ best_routing.width = final /\ (setup.auto \/ saved_clb_opins.by = best_routing.attempt)
    BY <1>1, <1>2, <2>2, SetupFacts
       DEF SearchIInv, DoneIsConsistent, SavedIsAnswer, Searching, Bracket, SearchTypeOK, Widths
  <2>4. best_routing.attempt \in 1 .. attempt
    BY <1>1, <2>1 DEF SearchIInv, Saved
  <2> QED BY <1>2, <2>2, <2>3, <2>4 DEF SearchTypeOK
<1>5. SavedIsAnswer'
  BY <1>1 DEF SavedIsAnswer
<1>6. (phase = "done" => /\ trace_head.width = chan_width /\ chan_width = channel_width
                         /\ trace_head.attempt # 0)'
  BY <1>1, <1>4
<1>7. (setup.router = "breadth_first" => OpinsRestored)'
  <2> SUFFICES ASSUME setup.router = "breadth_first", phase' = "done", ~setup.auto
               PROVE  clb_opins' = saved_clb_opins /\ clb_opins'.by = best_routing.attempt
    BY <1>1 DEF OpinsRestored
  <2>1. clb_opins.len = saved_clb_opins.len /\ clb_opins.len <= saved_clb_opins.len
    BY <1>2 DEF SearchIInv, Saved, SearchTypeOK
  <2>2. clb_opins' = [clb_opins EXCEPT !.by = saved_clb_opins.by]
    BY <1>1, <2>1
  <2>3. /\ clb_opins \in [len : 0 .. OutPins, by : Nat \cup {Junk}]
        /\ saved_clb_opins \in [len : 0 .. OutPins, by : Nat]
    BY <1>2 DEF SearchTypeOK
  <2>4. clb_opins' = saved_clb_opins
    BY <2>1, <2>2, <2>3
  <2> QED BY <1>4, <2>4
<1>8. (setup.Fs <= 3 => NarrowerFailed)'
  <2> SUFFICES ASSUME phase' = "done", setup.Fs <= 3,
                      NEW k \in 1 .. IF setup.verify THEN 2 ELSE 1, final - k * Track >= 1
               PROVE  outcome[final - k * Track] = "failed"
    BY <1>1 DEF NarrowerFailed, Track, Multiplier
  <2> DEFINE w == final - k * Track
  <2>1. /\ Track \in {1, 2} /\ (Track = 2 <=> setup.unidir) /\ k \in {1, 2}
        /\ setup.verify \in BOOLEAN /\ current \in Int /\ MaxWidth \in Nat
        /\ final \in Nat /\ final <= MaxWidth
    BY <1>2, <1>4, SetupFacts DEF SearchTypeOK, Widths
  <2>2. w \in Widths /\ w < final /\ Fits(w)
    <3>1. CASE k = 1
      BY <1>4, <2>1, <3>1 DEF Fits, Widths
    <3>2. CASE k = 2
      BY <1>4, <2>1, <3>2 DEF Fits, Widths
    <3> QED BY <2>1, <3>1, <3>2
  <2>3. CASE phase = "searched"
    <3>1. k = 1 /\ Failed(final - Track)
      BY <1>1, <1>4, <2>1, <2>3 DEF SearchIInv, Below
    <3> QED BY <2>1, <2>2, <3>1 DEF Failed
  <2>4. CASE phase = "verify"
    <3>1. current < 1 \/ current <= final - 3 * Track
      BY <1>1, <1>4, <2>1, <2>4 DEF SearchIInv, Below, Verifying
    <3>2. current < w
      <4>1. CASE k = 1
        BY <2>1, <3>1, <4>1
      <4>2. CASE k = 2
        BY <2>1, <3>1, <4>2
      <4> QED BY <2>1, <4>1, <4>2
    <3> QED BY <1>4, <2>2, <2>4, <3>2 DEF SearchIInv, Below
  <2> QED BY <1>1, <2>3, <2>4
<1>9. Fresh' /\ Bracket' /\ OpenBracket' /\ AnswerIsLeast' /\ Below'
  BY <1>1 DEF Fresh, Bracket, OpenBracket, AnswerIsLeast, Below, Searching
<1>10. Saved'
  BY <1>1, <1>2 DEF SearchIInv, Saved, Searching, SearchTypeOK
<1> QED BY <1>3, <1>5, <1>6, <1>7, <1>8, <1>9, <1>10 DEF SearchIInv, DoneIsConsistent
-----------------------------------------------------------------------------
(* IInv holds all along: the bracket, the saved routing and what was tried *)
(* right below the answer hold together at every step of the search.       *)
THEOREM SearchInvariant == SearchSpec => []SearchIInv
<1>1. SearchIInv /\ [SearchNext]_searchVars => SearchIInv'
  BY FixedOddWidthStep, RouteFixedWidthStep, StartSearchStep, TooWideStep, StopBelowFsStep,
     WidthRoutesStep, WidthFailsStep, SearchEndedStep, StartVerifyStep, VerifyWidthStep,
     RestoreStep, SearchStutterStep DEF SearchNext, Ended
<1> QED BY SearchInitIInv, <1>1, PTL DEF SearchSpec

(* Whatever the router says of each width, the answer never loses its      *)
(* routing, and the routing put back by restore_routing is for the width   *)
(* that binary_search_place_and_route returns and for the graph it is on.  *)
THEOREM RoutingOfTheAnswer == SearchSpec => []DoneIsConsistent
<1>1. SearchIInv => DoneIsConsistent
  BY DEF SearchIInv
<1> QED BY <1>1, SearchInvariant, PTL

(* With Fs at most 3, so that no width is skipped as being below Fs, the   *)
(* next narrower width was tried and failed, and the next two of a         *)
(* verified answer.                                                        *)
THEOREM NarrowerWidthsFail == SearchSpec => [](setup.Fs <= 3 => NarrowerFailed)
<1>1. SearchIInv => (setup.Fs <= 3 => NarrowerFailed)
  BY DEF SearchIInv
<1> QED BY <1>1, SearchInvariant, PTL

-----------------------------------------------------------------------------
(* The search as NarrowestWidth sees it.                                   *)
RoutedWidths   == {w \in Widths : outcome[w] = "routed"}
RejectedWidths == {w \in Widths : outcome[w] = "failed"}
Returned == IF phase = "done" /\ setup.fixed = 0 THEN channel_width ELSE None

LEMMA TryLearns ==
    ASSUME SearchTypeOK, NEW w \in Widths, NEW ok \in BOOLEAN, TryRoute(w, ok), clb_opins.by \in Nat,
           Returned = None, Returned' = None
    PROVE  Narrowest!Learn
<1>1. outcome[w] \in {"untried", IF ok THEN "routed" ELSE "failed"}
  BY DEF TryRoute
<1>2. /\ outcome'[w] = IF ok THEN "routed" ELSE "failed"
      /\ \A v \in Widths : v # w => outcome'[v] = outcome[v]
  BY Tried
<1>3. CASE ok
  <2>1. w \notin RejectedWidths /\ RoutedWidths' = RoutedWidths \cup {w} /\ RejectedWidths' = RejectedWidths
    BY <1>1, <1>2, <1>3 DEF RoutedWidths, RejectedWidths, Widths
  <2> QED BY <2>1 DEF Narrowest!Learn, Narrowest!NoAnswer, None, RoutedWidths, RejectedWidths, Returned
<1>4. CASE ~ok
  <2>1. w \notin RoutedWidths /\ RejectedWidths' = RejectedWidths \cup {w} /\ RoutedWidths' = RoutedWidths
    BY <1>1, <1>2, <1>4 DEF RoutedWidths, RejectedWidths, Widths
  <2> QED BY <2>1 DEF Narrowest!Learn, Narrowest!NoAnswer, None, RoutedWidths, RejectedWidths, Returned
<1> QED BY <1>3, <1>4

LEMMA RestoreAnswers ==
    ASSUME SearchIInv, Restore, phase' = "done"
    PROVE  Narrowest!Answer
<1>1. /\ phase \in Searching /\ outcome' = outcome /\ setup' = setup /\ final' = final
      /\ channel_width' = final /\ setup.fixed = 0
      /\ trace_head' = best_routing /\ best_routing.width # 0
  BY DEF Restore, RestoreRouting, Searching, bounds, SearchIInv, Bracket
<1>2. final # None
  <2>1. Answer # None
    BY <1>1 DEF SearchIInv, Saved, NoTrace
  <2> QED BY <1>1, <2>1 DEF SearchIInv, Answer, OpenBracket, Bracket, Searching, Restore
<1>3. final \in RoutedWidths /\ \A w \in RoutedWidths : final <= w
  BY <1>1, <1>2 DEF SearchIInv, DoneIsConsistent, SearchTypeOK, Bracket, AnswerIsLeast, Answer, RoutedWidths
<1>4. Returned = None /\ Returned' = final /\ RoutedWidths' = RoutedWidths /\ RejectedWidths' = RejectedWidths
  BY <1>1 DEF Returned, Searching, RoutedWidths, RejectedWidths
<1> QED
  BY <1>3, <1>4 DEF Narrowest!Answer, Narrowest!NoAnswer, None, RoutedWidths, RejectedWidths, Returned

LEMMA NarrowestStep ==
    ASSUME SearchIInv, [SearchNext]_searchVars
    PROVE  [Narrowest!NarrowNext]_<<RoutedWidths, RejectedWidths, Returned>>
<1> USE DEF Narrowest!NarrowNext
<1>0. SearchTypeOK
  BY DEF SearchIInv, DoneIsConsistent
<1>1. CASE \E w \in Widths, ok \in BOOLEAN : TryRoute(w, ok) /\ clb_opins.by \in Nat
                                            /\ Returned = None /\ Returned' = None
  BY <1>0, <1>1, TryLearns
<1>2. CASE RouteFixedWidth
  <2>1. PICK ok \in BOOLEAN : TryRoute(setup.fixed, ok)
    BY <1>2 DEF RouteFixedWidth
  <2>2. setup.fixed \in Widths /\ clb_opins.by \in Nat /\ Returned = None /\ Returned' = None
    BY <1>0, <1>2, SetupFacts
       DEF RouteFixedWidth, SearchIInv, SearchTypeOK, Saved, Searching, Widths, Returned, None
  <2> QED BY <1>1, <2>1, <2>2
<1>3. CASE WidthRoutes \/ WidthFails
  <2>1. current \in Widths /\ clb_opins.by \in Nat
    BY <1>3, NextAttempt DEF WidthRoutes, WidthFails
  <2>2. Returned = None /\ Returned' = None
    BY <1>3 DEF WidthRoutes, WidthFails, Returned
  <2>3. TryRoute(current, TRUE) \/ TryRoute(current, FALSE)
    BY <1>3 DEF WidthRoutes, WidthFails
  <2> QED BY <1>1, <2>1, <2>2, <2>3
<1>4. CASE VerifyWidth
  <2>1. PICK ok \in BOOLEAN : TryRoute(current, ok)
    BY <1>4 DEF VerifyWidth
  <2>2. phase = "verify" /\ phase' = "verify" /\ current >= 1
    BY <1>4 DEF VerifyWidth, Verifying
  <2>3. current \in Widths /\ clb_opins.by \in Nat
    <3>1. final # None /\ final \in Widths /\ current <= final - Track /\ current \in Int
      BY <1>0, <2>2 DEF SearchIInv, Below, SearchTypeOK
    <3> QED BY <1>0, <2>2, <3>1, SetupFacts DEF SearchIInv, SearchTypeOK, Saved, Searching, Widths
  <2> QED BY <1>1, <2>1, <2>2, <2>3 DEF Returned
<1>5. CASE Restore
  <2>1. CASE phase' = "done"
    BY <1>5, <2>1, RestoreAnswers
  <2>2. CASE phase' # "done"
    BY <1>5, <2>2 DEF Restore, RoutedWidths, RejectedWidths, Returned, bounds, verification
  <2> QED BY <2>1, <2>2
<1>6. CASE \/ FixedOddWidth \/ StartSearch \/ TooWide \/ StopBelowFs \/ SearchEnded
           \/ StartVerify \/ Ended \/ UNCHANGED searchVars
  BY <1>6 DEF FixedOddWidth, StartSearch, TooWide, StopBelowFs, SearchEnded, StartVerify, Ended,
     RoutedWidths, RejectedWidths, Returned, searchVars, bounds, verification, routing, store
<1> QED BY <1>2, <1>3, <1>4, <1>5, <1>6 DEF SearchNext

(* binary_search_place_and_route implements NarrowestWidth: what it        *)
(* returns is the narrowest width it ever saw route.                       *)
THEOREM ImplementsNarrowestWidth == SearchSpec => ImplementsNarrowest
<1>1. SearchInit => Narrowest!NarrowInit
  BY SetupFacts DEF SearchInit, Narrowest!NarrowInit, Narrowest!NoAnswer, None
<1>2. ASSUME SearchIInv, [SearchNext]_searchVars
      PROVE  [Narrowest!NarrowNext]_<<{w \in Widths : outcome[w] = "routed"},
                                      {w \in Widths : outcome[w] = "failed"},
                                      IF phase = "done" /\ setup.fixed = 0 THEN channel_width ELSE None>>
  BY <1>2, NarrowestStep DEF RoutedWidths, RejectedWidths, Returned
<1> QED
  BY <1>1, <1>2, SearchInvariant, PTL DEF SearchSpec, ImplementsNarrowest, Narrowest!NarrowSpec

=============================================================================
