--------------------------- MODULE BitstreamProofs ---------------------------
(***************************************************************************)
(* Proofs about Bitstream, for every design: the counters of the two         *)
(* generators never part, a scan chain or a memory bank loaded from the list *)
(* ends with every circuit's bits in the circuit's own cells, and with these *)
(* every multiplexer passes its input and every LUT computes its cover.      *)
(***************************************************************************)
EXTENDS Bitstream, FiniteSetTheorems, SequenceTheorems, WellFoundedInduction, TLAPS

Phases == {"netlist", "bitstream", "load", "run"}

TypeOK ==
  /\ orgz \in {ScanChain, MemoryBank}
  /\ design \in Designs
  /\ phase \in Phases
  /\ done \in 0..Len(design)
  /\ lsb \in Seq(Nat)
  /\ memBit \in Nat
  /\ total \in Nat
  /\ startEdge \in BOOLEAN
  /\ cycle \in Nat

\* The cells of the netlist's circuits follow one another from cell 0.
Top(n) == IF n = 0 THEN 0 ELSE lsb[n] + NetlistBits(design[n])

Tiles ==
  /\ Len(lsb) = IF phase = "netlist" THEN done ELSE Len(design)
  /\ \A c \in 1..Len(lsb) : lsb[c] = Top(c - 1)
  /\ phase = "netlist" => memBit = Top(done)
  /\ phase # "netlist" => total = Top(Len(design)) /\ memBit = Top(done)

IsList(s, n) == s = [i \in 1..n |-> s[i]] /\ Len(s) = n

\* The list holds one bit for each cell of the circuits done, newest first.
Files ==
  /\ phase = "netlist" => bits = <<>>
  /\ phase # "netlist" =>
       /\ IsList(bits, memBit)
       /\ \A i \in 1..memBit : bits[i].addr = memBit - i
       /\ \A c \in 1..done : \A j \in 0..(NetlistBits(design[c]) - 1) :
            /\ lsb[c] + j \in 0..(memBit - 1)
            /\ bits[memBit - (lsb[c] + j)].val = BitsOf(design[c])[j]
  /\ phase \in {"load", "run"} => done = Len(design)

\* A scan chain that caught the first edge is one bit ahead of its clock.
Shifts ==
  phase \in {"load", "run"} /\ orgz = ScanChain /\ startEdge =>
    /\ DOMAIN cells = 0..(total - 1)
    /\ cycle <= memBit
    /\ fed = IF cycle < memBit THEN cycle + 1 ELSE memBit
    /\ head = bits[fed].val
    /\ \A i \in 0..(cycle - 1) : cells[i] = bits[cycle - i].val
    /\ phase = "run" => cycle = memBit

\* After k writes the first k cells of a memory bank hold their bits.
Writes ==
  phase \in {"load", "run"} /\ orgz = MemoryBank =>
    /\ DOMAIN cells = 0..(total - 1)
    /\ cycle <= memBit /\ fed = cycle
    /\ \A i \in 0..(cycle - 1) : cells[i] = bits[memBit - i].val
    /\ phase = "run" => cycle = memBit

Ready == phase = "bitstream" => DOMAIN cells = 0..(total - 1)

Fresh == phase \in {"netlist", "bitstream"} => cycle = 0

IInv == TypeOK /\ Tiles /\ Files /\ Ready /\ Fresh /\ Shifts /\ Writes

---------------------------------------------------------------------------
(* Circuits. *)

\* Both generators count the same cells for a circuit, at least one.
LEMMA SameCount ==
  ASSUME NEW e, IsCircuit(e)
  PROVE  NetlistBits(e) = BitstreamBits(e) /\ NetlistBits(e) \in Nat \ {0}
<1>1. NetlistBits(e) = BitstreamBits(e)
  BY DEF NetlistBits, BitstreamBits, ConfBits, SramBits
<1> QED BY <1>1 DEF IsCircuit

\* A decoder returns as many bits as were counted, numbered from 0.
LEMMA DecodedBits ==
  ASSUME NEW e, IsCircuit(e)
  PROVE  DOMAIN BitsOf(e) = 0..(NetlistBits(e) - 1)
<1>1. CASE ~IsMux(e)
  BY <1>1 DEF BitsOf, LutBits, NetlistBits
<1>2. CASE IsMux(e)
  <2> DEFINE m == e.model
             n == Full(m, e.size)
             p == InputOf(m, e.size, e.path)
  <2>0. BitsOf(e) = Decode(m, e.size, e.path) /\ NetlistBits(e) = ConfBits(m, e.size)
    BY <1>2 DEF BitsOf, NetlistBits
  <2>t. /\ m.structure \in {Tree, OneLevel, MultiLevel}
        /\ m.levels \in Nat \ {0}
        /\ n \in Nat
    BY <1>2 DEF IsCircuit, Full
  <2>1. CASE n = 2
    <3>1. Decode(m, e.size, e.path) = DecodeTree(1, n, p) /\ ConfBits(m, e.size) = 1
      BY <2>1 DEF Decode, ConfBits
    <3>2. DOMAIN DecodeTree(1, n, p) = 0..(1 - 1) BY DEF DecodeTree
    <3> QED BY <2>0, <3>1, <3>2
  <2>2. CASE n # 2 /\ m.structure = Tree
    <3>1. Decode(m, e.size, e.path) = DecodeTree(TreeLevel(n), n, p)
      BY <2>2 DEF Decode, Tree, OneLevel, MultiLevel
    <3>2. ConfBits(m, e.size) = TreeLevel(n)
      BY <2>2 DEF ConfBits, Tree, OneLevel, MultiLevel
    <3>3. DOMAIN DecodeTree(TreeLevel(n), n, p) = 0..(TreeLevel(n) - 1) BY DEF DecodeTree
    <3> QED BY <2>0, <3>1, <3>2, <3>3
  <2>3. CASE n # 2 /\ m.structure = OneLevel
    <3>1. Decode(m, e.size, e.path) = DecodeOneLevel(n, p)
      BY <2>3 DEF Decode, Tree, OneLevel, MultiLevel
    <3>2. ConfBits(m, e.size) = n
      BY <2>3 DEF ConfBits, Tree, OneLevel, MultiLevel
    <3>3. DOMAIN DecodeOneLevel(n, p) = 0..(n - 1) BY DEF DecodeOneLevel
    <3> QED BY <2>0, <3>1, <3>2, <3>3
  <2>4. CASE n # 2 /\ m.structure = MultiLevel
    <3>1. ConfBits(m, e.size) = Basis(n, m.levels) * m.levels
      BY <2>4 DEF ConfBits, Tree, OneLevel, MultiLevel
    <3>2. CASE m.levels = 1
      <4>1. Decode(m, e.size, e.path) = DecodeOneLevel(n, p)
        BY <2>4, <3>2 DEF Decode, Tree, OneLevel, MultiLevel
      <4>2. Basis(n, m.levels) = n BY <3>2 DEF Basis
      <4>3. ConfBits(m, e.size) = n BY <2>t, <3>1, <3>2, <4>2
      <4>4. DOMAIN DecodeOneLevel(n, p) = 0..(n - 1) BY DEF DecodeOneLevel
      <4> QED BY <2>0, <4>1, <4>3, <4>4
    <3>3. CASE m.levels # 1
      <4>1. Decode(m, e.size, e.path) = DecodeMulti(m.levels, n, p)
        BY <2>t, <2>4, <3>3 DEF Decode, Tree, OneLevel, MultiLevel
      <4>2. DOMAIN DecodeMulti(m.levels, n, p) = 0..(Basis(n, m.levels) * m.levels - 1)
        BY DEF DecodeMulti
      <4> QED BY <2>0, <3>1, <4>1, <4>2
    <3> QED BY <3>2, <3>3
  <2> QED BY <2>t, <2>1, <2>2, <2>3, <2>4
<1> QED BY <1>1, <1>2

LEMMA CircuitsOf ==
  ASSUME NEW d \in Designs
  PROVE  /\ Len(d) \in Nat \ {0}
         /\ \A c \in 1..Len(d) : IsCircuit(d[c])
BY DesignsAssumption

\* Sequences given as functions.
LEMMA FunctionIsSequence ==
  ASSUME NEW S, NEW n \in Nat, NEW f \in [1..n -> S]
  PROVE  f \in Seq(S) /\ Len(f) = n
OBVIOUS

LEMMA Joined ==
  ASSUME NEW S, NEW f \in Seq(S), NEW g \in Seq(S)
  PROVE  /\ f \o g \in Seq(S)
         /\ Len(f \o g) = Len(f) + Len(g)
         /\ \A i \in 1..(Len(f) + Len(g)) :
              (f \o g)[i] = IF i <= Len(f) THEN f[i] ELSE g[i - Len(f)]
OBVIOUS

\* What filing a circuit's bits does to the list.
LEMMA FiledList ==
  ASSUME NEW values, NEW n \in Nat, DOMAIN values = 0..(n - 1),
         NEW first \in Nat, NEW list, IsList(list, first)
  PROVE  /\ IsList(Filed(values, first, list), first + n)
         /\ \A i \in 1..n : Filed(values, first, list)[i]
              = [addr |-> first + n - i, val |-> values[n - i]]
         /\ \A i \in 1..first : Filed(values, first, list)[n + i] = list[i]
<1> DEFINE ahead == [i \in 1..n |-> [addr |-> first + n - i, val |-> values[n - i]]]
           S == {ahead[i] : i \in 1..n} \cup {list[i] : i \in 1..first}
<1>1. Cardinality(DOMAIN values) = n
  BY FS_Interval
<1>2. Filed(values, first, list) = ahead \o list
  BY <1>1 DEF Filed
<1>3. ahead \in Seq(S) /\ Len(ahead) = n
  <2>1. ahead \in [1..n -> S] OBVIOUS
  <2> HIDE DEF ahead, S
  <2> QED BY ONLY n \in Nat, <2>1, FunctionIsSequence
<1>4. list \in Seq(S) /\ Len(list) = first
  <2>1. list \in [1..first -> S] BY DEF IsList
  <2> HIDE DEF S
  <2> QED BY ONLY first \in Nat, <2>1, FunctionIsSequence
<1>5. /\ Len(ahead \o list) = n + first
      /\ \A i \in 1..(n + first) :
           (ahead \o list)[i] = IF i <= n THEN ahead[i] ELSE list[i - n]
  <2> HIDE DEF ahead, S
  <2> QED BY ONLY n \in Nat, first \in Nat, <1>3, <1>4, Joined
<1>6. IsList(ahead \o list, first + n)
  <2> HIDE DEF ahead
  <2>1. ahead \o list \in Seq(S) BY <1>3, <1>4, ConcatProperties
  <2> QED BY <1>5, <2>1 DEF IsList
<1>7. \A i \in 1..n : (ahead \o list)[i] = ahead[i]
  BY <1>5
<1>8. \A i \in 1..first : (ahead \o list)[n + i] = list[i]
  <2> TAKE i \in 1..first
  <2>1. n + i \in 1..(n + first) /\ ~(n + i <= n) /\ (n + i) - n = i OBVIOUS
  <2> HIDE DEF ahead
  <2> QED BY <1>5, <2>1
<1> QED BY <1>2, <1>6, <1>7, <1>8

---------------------------------------------------------------------------
(* Induction, powers of two and the memory bank's array. *)

LEMMA LeastNatural ==
    ASSUME NEW S, S \subseteq Nat, S # {}
    PROVE  \E m \in S : \A k \in S : m <= k
<1> DEFINE R == OpToRel(<, Nat)
<1>1. \A x, y \in Nat : <<x, y>> \in R <=> x < y
  BY DEF OpToRel
<1>2. IsWellFoundedOn(R, Nat)
  BY NatLessThanWellFounded
<1> HIDE DEF R
<1>3. \E x \in S : \A y \in S : ~ (<<y, x>> \in R)
  BY <1>2, WFMin
<1>4. PICK x \in S : \A y \in S : ~ (<<y, x>> \in R)
  BY <1>3
<1>5. \A k \in S : k \in Nat /\ x \in Nat
  OBVIOUS
<1>6. \A k \in S : ~ (k < x)
  BY <1>1, <1>4, <1>5
<1> QED BY <1>5, <1>6

LEMMA NaturalsFromZero ==
    ASSUME NEW S, 0 \in S, \A n \in Nat : n \in S => n + 1 \in S
    PROVE  Nat \subseteq S
<1> SUFFICES ASSUME ~ (Nat \subseteq S) PROVE FALSE
  OBVIOUS
<1> DEFINE T == Nat \ S
<1>1. T # {} /\ T \subseteq Nat
  OBVIOUS
<1>2. PICK m \in T : \A k \in T : m <= k
  <2> HIDE DEF T
  <2> QED BY <1>1, LeastNatural
<1>3. m \in Nat /\ m # 0
  OBVIOUS
<1>4. m - 1 \in Nat /\ m - 1 \in S
  BY <1>2, <1>3
<1> QED BY <1>3, <1>4

\* A function defined by one step at a time.
Iterates(f, a, step) == f = CHOOSE g : g = [k \in Nat |-> IF k = 0 THEN a ELSE step[g[k - 1]]]

LEMMA Iteration ==
    ASSUME NEW S, NEW step \in [S -> S], NEW a \in S, NEW f, Iterates(f, a, step)
    PROVE  /\ f \in [Nat -> S] /\ f[0] = a
           /\ \A k \in Nat : f[k + 1] = step[f[k]]
<1> DEFINE Part(n) == {g \in [0 .. n -> S] : g[0] = a /\ \A k \in 1 .. n : g[k] = step[g[k - 1]]}
           Parts == {n \in Nat : Part(n) # {}}
<1>1. \A n \in Nat : Part(n) # {}
  <2>1. 0 \in Parts
    <3>1. [k \in 0 .. 0 |-> a] \in Part(0)
      OBVIOUS
    <3> QED BY <3>1
  <2>2. ASSUME NEW n \in Nat, n \in Parts PROVE n + 1 \in Parts
    <3>1. PICK g : g \in Part(n)
      BY <2>2
    <3> DEFINE h == [k \in 0 .. n + 1 |-> IF k = n + 1 THEN step[g[n]] ELSE g[k]]
    <3>2. n \in 0 .. n /\ g[n] \in S /\ step[g[n]] \in S
      BY <3>1
    <3>3. h \in [0 .. n + 1 -> S]
      BY <3>1, <3>2
    <3>4. h[0] = a
      BY <3>1
    <3>5. ASSUME NEW k \in 1 .. n + 1 PROVE h[k] = step[h[k - 1]]
      <4>1. CASE k = n + 1
        BY <4>1
      <4>2. CASE k # n + 1
        <5>1. k \in 1 .. n /\ k - 1 \in 0 .. n + 1 /\ k - 1 # n + 1
          BY <4>2
        <5>2. g[k] = step[g[k - 1]]
          BY <3>1, <5>1
        <5> QED BY <4>2, <5>1, <5>2
      <4> QED BY <4>1, <4>2
    <3>6. h \in Part(n + 1)
      <4> HIDE DEF h
      <4> QED BY <3>3, <3>4, <3>5
    <3> QED BY <3>6
  <2> HIDE DEF Part
  <2>3. Nat \subseteq Parts
    <3> HIDE DEF Parts
    <3> QED BY <2>1, <2>2, NaturalsFromZero
  <2> QED BY <2>3
<1> DEFINE Same == {k \in Nat : \A m, n \in Nat : \A g \in Part(m), h \in Part(n) :
                                    k <= m /\ k <= n => g[k] = h[k]}
<1>2. \A k, m, n \in Nat : \A g \in Part(m), h \in Part(n) : k <= m /\ k <= n => g[k] = h[k]
  <2>1. 0 \in Same
    OBVIOUS
  <2>2. ASSUME NEW k \in Nat, k \in Same PROVE k + 1 \in Same
    <3>1. ASSUME NEW m \in Nat, NEW n \in Nat, NEW g \in Part(m), NEW h \in Part(n),
                 k + 1 <= m, k + 1 <= n
          PROVE  g[k + 1] = h[k + 1]
      <4>1. g[k] = h[k]
        <5> HIDE DEF Part
        <5> QED BY <2>2, <3>1
      <4>2. k + 1 \in 1 .. m /\ k + 1 \in 1 .. n /\ k + 1 - 1 = k
        BY <3>1
      <4>3. g[k + 1] = step[g[k]] /\ h[k + 1] = step[h[k]]
        BY <4>2
      <4> QED BY <4>1, <4>3
    <3> HIDE DEF Part
    <3> QED BY <3>1
  <2>3. Nat \subseteq Same
    <3> HIDE DEF Same
    <3> QED BY <2>1, <2>2, NaturalsFromZero
  <2> HIDE DEF Part
  <2> QED BY <2>3
<1> DEFINE whole == [n \in Nat |-> (CHOOSE g : g \in Part(n))[n]]
<1>3. \A n \in Nat : (CHOOSE g : g \in Part(n)) \in Part(n)
  <2> HIDE DEF Part
  <2> QED BY <1>1
<1>4. ASSUME NEW n \in Nat, NEW h \in Part(n), NEW k \in 0 .. n PROVE whole[k] = h[k]
  <2>1. k \in Nat /\ k <= k /\ k <= n
    OBVIOUS
  <2> HIDE DEF Part
  <2>2. whole[k] = (CHOOSE g : g \in Part(k))[k]
    BY <2>1
  <2> QED BY <1>2, <1>3, <2>1, <2>2
<1>5. whole[0] = a
  <2>1. PICK h : h \in Part(0)
    BY <1>1
  <2>2. h[0] = a /\ 0 \in 0 .. 0
    BY <2>1
  <2> HIDE DEF whole
  <2> QED BY <1>4, <2>1, <2>2
<1>6. ASSUME NEW n \in Nat PROVE whole[n + 1] = step[whole[n]] /\ whole[n] \in S
  <2>1. PICK h : h \in Part(n + 1)
    BY <1>1
  <2>2. n + 1 \in 1 .. n + 1 /\ n + 1 - 1 = n /\ n \in 0 .. n + 1 /\ n + 1 \in 0 .. n + 1
    OBVIOUS
  <2>3. h[n + 1] = step[h[n]] /\ h[n] \in S
    BY <2>1, <2>2
  <2>4. whole[n + 1] = h[n + 1] /\ whole[n] = h[n]
    <3> HIDE DEF whole, Part
    <3> QED BY <1>4, <2>1, <2>2
  <2> QED BY <2>3, <2>4
<1>7. whole = [k \in Nat |-> IF k = 0 THEN a ELSE step[whole[k - 1]]]
  <2>1. whole = [n \in Nat |-> whole[n]]
    OBVIOUS
  <2> HIDE DEF whole
  <2>2. ASSUME NEW k \in Nat PROVE whole[k] = IF k = 0 THEN a ELSE step[whole[k - 1]]
    <3>1. CASE k = 0
      BY <1>5, <3>1
    <3>2. CASE k # 0
      <4>1. k - 1 \in Nat /\ (k - 1) + 1 = k
        BY <3>2
      <4> QED BY <1>6, <3>2, <4>1
    <3> QED BY <3>1, <3>2
  <2> QED BY <2>1, <2>2
<1> HIDE DEF whole
<1>8. f = [k \in Nat |-> IF k = 0 THEN a ELSE step[f[k - 1]]]
  <2> DEFINE Solves(g) == g = [k \in Nat |-> IF k = 0 THEN a ELSE step[g[k - 1]]]
  <2>1. \E g : Solves(g)
    BY <1>7
  <2>2. f = CHOOSE g : Solves(g)
    BY DEF Iterates
  <2>3. Solves(f)
    <3> HIDE DEF Solves
    <3> QED BY <2>1, <2>2
  <2> QED BY <2>3
<1> DEFINE value(n) == IF n = 0 THEN a ELSE step[f[n - 1]]
<1>13. \A n \in Nat : f[n] = value(n)
  <2>1. f = [n \in Nat |-> value(n)]
    BY <1>8
  <2> HIDE DEF value
  <2> QED BY <2>1
<1>9. f[0] = a
  BY <1>13
<1>10. ASSUME NEW k \in Nat PROVE f[k + 1] = step[f[k]]
  <2>1. k + 1 \in Nat /\ k + 1 # 0 /\ k + 1 - 1 = k
    OBVIOUS
  <2> QED BY <1>13, <2>1
<1>11. \A k \in Nat : f[k] \in S
  <2> DEFINE Good == {k \in Nat : f[k] \in S}
  <2>1. 0 \in Good
    BY <1>9
  <2>2. \A k \in Nat : k \in Good => k + 1 \in Good
    BY <1>10
  <2>3. Nat \subseteq Good
    <3> HIDE DEF Good
    <3> QED BY <2>1, <2>2, NaturalsFromZero
  <2> QED BY <2>3
<1>12. f \in [Nat -> S]
  BY <1>8, <1>11
<1> QED BY <1>9, <1>10, <1>12

\* Powers of a base are what repeated multiplication gives.
LEMMA PowerSteps ==
  ASSUME NEW b \in Nat
  PROVE  /\ Power(b) \in [Nat -> Nat]
         /\ Power(b)[0] = 1
         /\ \A w \in Nat : Power(b)[w + 1] = b * Power(b)[w]
<1> DEFINE times == [x \in Nat |-> b * x]
           power == Power(b)
<1>1. Iterates(power, 1, times)
  BY DEF Power, Iterates
<1>2. times \in [Nat -> Nat]
  OBVIOUS
<1> HIDE DEF power
<1>3. /\ power \in [Nat -> Nat] /\ power[0] = 1
      /\ \A w \in Nat : power[w + 1] = times[power[w]]
  <2> DEFINE N == Nat
             one == 1
  <2>1. one \in N /\ times \in [N -> N] /\ Iterates(power, one, times)
    BY <1>1, <1>2
  <2>2. N = Nat /\ one = 1
    OBVIOUS
  <2> HIDE DEF times, N, one
  <2>3. power \in [Nat -> N] /\ power[0] = one
        /\ \A w \in Nat : power[w + 1] = times[power[w]]
    BY ONLY <2>1, Iteration
  <2> QED BY <2>2, <2>3
<1>4. \A w \in Nat : power[w + 1] = b * power[w]
  BY <1>3
<1> QED BY <1>3, <1>4 DEF power

\* Powers of two grow past every number.
LEMMA PowerFacts ==
  /\ PowerOf2 \in [Nat -> Nat]
  /\ PowerOf2[0] = 1
  /\ \A w \in Nat : PowerOf2[w + 1] = 2 * PowerOf2[w]
  /\ \A w \in Nat : PowerOf2[w] > w
<1>3. /\ PowerOf2 \in [Nat -> Nat] /\ PowerOf2[0] = 1
      /\ \A w \in Nat : PowerOf2[w + 1] = 2 * PowerOf2[w]
  <2>1. 2 \in Nat
    OBVIOUS
  <2> QED BY <2>1, PowerSteps DEF PowerOf2
<1>4. \A w \in Nat : PowerOf2[w] \in Nat /\ PowerOf2[w + 1] = 2 * PowerOf2[w]
  BY <1>3
<1> DEFINE S == {w \in Nat : PowerOf2[w] > w}
<1>5. Nat \subseteq S
  <2>1. 0 \in S
    BY <1>3
  <2>2. \A w \in Nat : w \in S => w + 1 \in S
    <3> SUFFICES ASSUME NEW w \in Nat, PowerOf2[w] > w PROVE PowerOf2[w + 1] > w + 1
      OBVIOUS
    <3>1. PowerOf2[w] \in Nat /\ PowerOf2[w + 1] = 2 * PowerOf2[w]
      BY <1>4
    <3>2. PowerOf2[w] >= w + 1
      BY <3>1
    <3>3. CASE w = 0
      BY <1>3, <1>4, <3>1, <3>3
    <3>4. CASE w # 0
      <4>1. 2 * PowerOf2[w] >= 2 * (w + 1)
        BY <3>1, <3>2
      <4> QED BY <3>1, <4>1
    <3> QED BY <3>3, <3>4
  <2> HIDE DEF S
  <2> QED BY <2>1, <2>2, NaturalsFromZero
<1> QED BY <1>3, <1>4, <1>5

LEMMA LeastFacts ==
  ASSUME NEW S, S \subseteq Nat, S # {}
  PROVE  Least(S) \in S /\ \A k \in S : Least(S) <= k
<1>1. \E m \in S : \A k \in S : m <= k
  BY LeastNatural
<1> QED BY <1>1 DEF Least

LEMMA DivisionFacts ==
  ASSUME NEW a \in Nat, NEW b \in Nat \ {0}
  PROVE  /\ a \div b \in Nat
         /\ a % b \in 0..(b - 1)
         /\ a = b * (a \div b) + (a % b)
OBVIOUS

\* The array has room for every cell, and its rows and columns tell cells
\* apart.
LEMMA ArrayFacts ==
  ASSUME NEW n \in Nat \ {0}
  PROVE  ArraySide(n) \in Nat \ {0} /\ ArraySide(n) * ArraySide(n) >= n
<1> DEFINE S == {s \in 1..n : s * s >= n}
<1>1. n * n >= n
  OBVIOUS
<1>2. n \in S /\ S \subseteq Nat
  BY <1>1
<1>3. Least(S) \in S
  <2> HIDE DEF S
  <2> QED BY <1>2, LeastFacts
<1>4. ArraySide(n) \in S
  BY <1>3 DEF ArraySide
<1> QED BY <1>4

LEMMA PlaceFacts ==
  ASSUME NEW side \in Nat \ {0}, NEW x \in 0..(side * side - 1)
  PROVE  Row(x, side) \in 0..(side - 1) /\ Column(x, side) \in 0..(side - 1)
<1> DEFINE q == x \div side
           r == x % side
<1>1. side * side \in Nat /\ x \in Nat /\ x < side * side
  OBVIOUS
<1>2. q \in Nat /\ r \in 0..(side - 1) /\ x = side * q + r
  BY <1>1, DivisionFacts
<1>3. q < side
  <2> SUFFICES ASSUME q >= side PROVE FALSE
    BY <1>2
  <2> HIDE DEF q, r
  <2>1. side * q >= side * side
    BY <1>2
  <2>2. side * q \in Nat
    BY <1>2
  <2> QED BY <1>1, <1>2, <2>1, <2>2
<1> QED BY <1>2, <1>3 DEF Row, Column

LEMMA PlacesDiffer ==
  ASSUME NEW side \in Nat \ {0}, NEW x \in Nat, NEW y \in Nat,
         Row(x, side) = Row(y, side), Column(x, side) = Column(y, side)
  PROVE  x = y
<1>1. x = side * (x \div side) + (x % side) /\ y = side * (y \div side) + (y % side)
  BY DivisionFacts
<1> QED BY <1>1 DEF Row, Column

\* The decoders are wide enough for every line.
LEMMA AddressFits ==
  ASSUME NEW n \in Nat \ {0}, NEW x \in 0..(n - 1)
  PROVE  Encode(x, DecoderSize(n)) = x
<1> DEFINE S == {w \in 0..n : PowerOf2[w] >= n}
<1>1. PowerOf2[n] \in Nat /\ PowerOf2[n] > n
  BY PowerFacts
<1>2. n \in S /\ S \subseteq Nat
  BY <1>1
<1>3. Least(S) \in S
  <2> HIDE DEF S
  <2> QED BY <1>2, LeastFacts
<1>4. DecoderSize(n) \in S
  BY <1>3 DEF DecoderSize
<1> DEFINE p == PowerOf2[DecoderSize(n)]
<1>5. p \in Nat \ {0} /\ x \in Nat /\ x < p
  BY <1>4, PowerFacts
<1>6. x % p = x
  <2> HIDE DEF p
  <2> QED BY <1>5
<1> QED BY <1>6 DEF Encode

\* The bits of a full list, each of a cell of its own, are written in the
\* order of their cells, under addresses no other cell of the array has.
LEMMA BankProgram ==
  ASSUME IsList(bits, memBit), memBit \in Nat \ {0},
         \A i \in 1..memBit : bits[i].addr = memBit - i
  PROVE  /\ Len(BankWrites) = memBit
         /\ \A x \in 0..(memBit - 1) :
              BankWrites[x + 1] = [bl |-> Column(x, ArraySide(memBit)),
                                   wl |-> Row(x, ArraySide(memBit)),
                                   val |-> bits[memBit - x].val]
<1> DEFINE side == ArraySide(memBit)
           width == DecoderSize(side)
           room == 0..(side * side - 1)
           held == {x \in room : Holders(x, side) # {}}
           Nth(k) == CHOOSE x \in held : Cardinality({y \in held : y < x}) = k - 1
           Greatest(S) == CHOOSE i \in S : \A j \in S : j <= i
           Write(x) == [bl |-> Encode(Column(x, side), width),
                        wl |-> Encode(Row(x, side), width),
                        val |-> bits[Greatest(Holders(x, side))].val]
<1>1. BankWrites = [k \in 1..Cardinality(held) |-> Write(Nth(k))]
  BY DEF BankWrites
<1>2. side \in Nat \ {0} /\ side * side >= memBit
  BY ArrayFacts
<1> HIDE DEF side
<1>3. DOMAIN bits = 1..memBit
  BY DEF IsList
<1>4. ASSUME NEW x \in room
      PROVE  Holders(x, side) = IF x < memBit THEN {memBit - x} ELSE {}
  <2>1. x \in Nat /\ side * side \in Nat
    BY <1>2
  <2>2. ASSUME NEW i \in Holders(x, side) PROVE i = memBit - x /\ x < memBit
    <3>1. i \in 1..memBit
      BY <1>3 DEF Holders
    <3>2. /\ bits[i].addr \in Nat /\ bits[i].addr = memBit - i
          /\ Row(bits[i].addr, side) = Row(x, side) /\ Column(bits[i].addr, side) = Column(x, side)
      BY <3>1 DEF Holders
    <3>3. bits[i].addr = x
      BY <1>2, <2>1, <3>2, PlacesDiffer
    <3> QED BY <3>1, <3>2, <3>3
  <2>3. ASSUME x < memBit PROVE memBit - x \in Holders(x, side)
    <3>1. memBit - x \in 1..memBit /\ memBit - (memBit - x) = x
      BY <2>1, <2>3
    <3>2. bits[memBit - x].addr = x
      BY <3>1
    <3> QED BY <1>3, <3>1, <3>2 DEF Holders
  <2> QED BY <2>2, <2>3
<1>5. held = 0..(memBit - 1)
  <2>1. 0..(memBit - 1) \subseteq room
    BY <1>2
  <2>2. ASSUME NEW x \in room PROVE Holders(x, side) # {} <=> x < memBit
    BY <1>4
  <2>3. \A x \in room : x < memBit <=> x \in 0..(memBit - 1)
    BY <1>2
  <2> QED BY <2>1, <2>2, <2>3
<1>6. Cardinality(held) = memBit
  <2>1. 0 \in Int /\ memBit - 1 \in Int /\ Cardinality(0..(memBit - 1)) = memBit
    BY FS_Interval
  <2> QED BY <1>5, <2>1
<1>7. ASSUME NEW x \in 0..(memBit - 1)
      PROVE  Nth(x + 1) = x
  <2>1. \A y \in 0..(memBit - 1) : Cardinality({z \in held : z < y}) = y
    <3> TAKE y \in 0..(memBit - 1)
    <3>1. {z \in held : z < y} = 0..(y - 1)
      BY <1>5
    <3>2. 0 \in Int /\ y - 1 \in Int /\ Cardinality(0..(y - 1)) = y
      BY FS_Interval
    <3> QED BY <3>1, <3>2
  <2>2. (x + 1) - 1 = x
    OBVIOUS
  <2> HIDE DEF held
  <2> DEFINE Rank(y) == Cardinality({z \in held : z < y})
  <2>3. \A y \in held : Rank(y) = y
    BY <1>5, <2>1
  <2>4. x \in held
    BY <1>5
  <2>5. \A y \in held : Rank(y) = (x + 1) - 1 <=> y = x
    BY <2>2, <2>3, <2>4
  <2> HIDE DEF Rank
  <2>6. (CHOOSE y \in held : Rank(y) = (x + 1) - 1) = x
    BY <2>4, <2>5
  <2> QED BY <2>6 DEF Rank
<1>8. ASSUME NEW x \in 0..(memBit - 1)
      PROVE  Write(x) = [bl |-> Column(x, side), wl |-> Row(x, side), val |-> bits[memBit - x].val]
  <2>1. x \in room /\ x < memBit
    BY <1>2
  <2>2. Row(x, side) \in 0..(side - 1) /\ Column(x, side) \in 0..(side - 1)
    BY <1>2, <2>1, PlaceFacts
  <2>3. Encode(Column(x, side), width) = Column(x, side) /\ Encode(Row(x, side), width) = Row(x, side)
    BY <1>2, <2>2, AddressFits
  <2>4. Holders(x, side) = {memBit - x}
    BY <1>4, <2>1
  <2>5. Greatest(Holders(x, side)) = memBit - x
    BY <2>4
  <2> QED BY <2>3, <2>5
<1> HIDE DEF held, Nth, Write
<1>9. Len(BankWrites) = memBit
  BY <1>1, <1>6
<1>10. ASSUME NEW x \in 0..(memBit - 1)
       PROVE  BankWrites[x + 1] = Write(x)
  <2>1. x + 1 \in 1..Cardinality(held)
    BY <1>6
  <2>2. BankWrites[x + 1] = Write(Nth(x + 1))
    BY <1>1, <2>1
  <2> QED BY <1>7, <2>2
<1> QED BY <1>8, <1>9, <1>10 DEF side

---------------------------------------------------------------------------
(* The steps. *)

LEMMA InitIInv == Init => IInv
<1> SUFFICES ASSUME Init PROVE IInv
  OBVIOUS
<1>1. Len(design) \in Nat \ {0} BY CircuitsOf DEF Init
<1>2. TypeOK BY <1>1 DEF Init, TypeOK, Phases
<1>3. Tiles BY DEF Init, Tiles, Top
<1>4. Files /\ Ready /\ Fresh /\ Shifts /\ Writes
  BY DEF Init, Files, Ready, Fresh, Shifts, Writes
<1> QED BY <1>2, <1>3, <1>4 DEF IInv

\* What every step may rely on about the next circuit.
LEMMA NextCircuit ==
  ASSUME IInv, done < Len(design)
  PROVE  LET e == design[done + 1]
         IN /\ done + 1 \in 1..Len(design)
            /\ IsCircuit(e)
            /\ NetlistBits(e) \in Nat \ {0}
            /\ BitstreamBits(e) = NetlistBits(e)
            /\ DOMAIN BitsOf(e) = 0..(NetlistBits(e) - 1)
<1>1. done + 1 \in 1..Len(design) BY CircuitsOf DEF IInv, TypeOK
<1>2. IsCircuit(design[done + 1]) BY <1>1, CircuitsOf DEF IInv, TypeOK
<1> QED BY <1>1, <1>2, SameCount, DecodedBits

LEMMA WireStep == ASSUME IInv, WireCircuit PROVE IInv'
<1> DEFINE e == design[done + 1]
<1> USE DEF IInv, WireCircuit
<1>1. /\ done + 1 \in 1..Len(design) /\ Len(design) \in Nat
      /\ NetlistBits(e) \in Nat
  BY NextCircuit, CircuitsOf DEF TypeOK
<1>2. Len(lsb) = done /\ lsb \in Seq(Nat) /\ memBit \in Nat /\ done \in Nat
  BY DEF TypeOK, Tiles
<1>3. /\ lsb' \in Seq(Nat) /\ Len(lsb') = done'
      /\ \A c \in 1..done : lsb'[c] = lsb[c]
      /\ lsb'[done + 1] = memBit
  BY <1>2
<1>4. TypeOK' BY <1>1, <1>2, <1>3 DEF TypeOK
<1>5. Tiles'
  <2>1. \A n \in 0..done : Top(n)' = Top(n) BY <1>2, <1>3 DEF Top
  <2>2. \A c \in 1..Len(lsb') : lsb'[c] = Top(c - 1)'
    <3> TAKE c \in 1..Len(lsb')
    <3>1. c - 1 \in 0..done BY <1>2, <1>3
    <3>2. CASE c \in 1..done BY <1>2, <1>3, <2>1, <3>1, <3>2 DEF Tiles
    <3>3. CASE c = done + 1 BY <1>2, <1>3, <2>1, <3>1, <3>3 DEF Tiles
    <3> QED BY <1>2, <1>3, <3>2, <3>3
  <2>3. memBit' = memBit + NetlistBits(e) /\ done' = done + 1 /\ done' # 0
    BY <1>2
  <2>4. lsb'[done'] = memBit /\ design' = design
    BY <1>3
  <2>5. memBit' = Top(done)'
    BY <2>3, <2>4 DEF Top
  <2> QED BY <1>3, <2>2, <2>5 DEF Tiles
<1>6. Files' BY DEF Files
<1>7. Ready' /\ Fresh' /\ Shifts' /\ Writes' BY DEF Ready, Fresh, Shifts, Writes
<1> QED BY <1>4, <1>5, <1>6, <1>7

LEMMA StartBitstreamStep == ASSUME IInv, StartBitstream PROVE IInv'
<1> USE DEF IInv, StartBitstream
<1>1. Len(design) \in Nat \ {0} BY CircuitsOf DEF TypeOK
<1>2. TypeOK' BY <1>1 DEF TypeOK, Phases
<1>3. Tiles'
  <2>1. \A n \in 0..Len(design) : Top(n)' = Top(n) BY DEF Top
  <2>2. Top(0) = 0 BY DEF Top
  <2>3. \A c \in 1..Len(lsb) : lsb[c] = Top(c - 1)' /\ Len(lsb) = Len(design)
    BY <1>1, <2>1 DEF Tiles
  <2> QED BY <1>1, <2>1, <2>2, <2>3 DEF Tiles
<1>4. Files' BY DEF Files, IsList
<1>5. Ready' BY DEF Ready, Reset
<1>6. Fresh' /\ Shifts' /\ Writes' BY DEF Fresh, Shifts, Writes
<1> QED BY <1>2, <1>3, <1>4, <1>5, <1>6

LEMMA EmitStep == ASSUME IInv, EmitCircuit PROVE IInv'
<1> DEFINE e == design[done + 1]
           n == NetlistBits(e)
           new == Filed(BitsOf(e), memBit, bits)
<1> USE DEF IInv, EmitCircuit
<1>1. /\ done + 1 \in 1..Len(design) /\ Len(design) \in Nat
      /\ n \in Nat \ {0}
      /\ BitstreamBits(e) = n
      /\ DOMAIN BitsOf(e) = 0..(n - 1)
  BY NextCircuit, CircuitsOf DEF TypeOK
<1>2. memBit \in Nat /\ memBit' = memBit + n /\ bits' = new
  BY <1>1 DEF TypeOK
<1>3. /\ IsList(new, memBit + n)
      /\ \A i \in 1..n : new[i] = [addr |-> memBit + n - i, val |-> BitsOf(e)[n - i]]
      /\ \A i \in 1..memBit : new[n + i] = bits[i]
  <2>1. IsList(bits, memBit) BY DEF Files
  <2>2. n \in Nat /\ DOMAIN BitsOf(e) = 0..(n - 1) /\ memBit \in Nat
    BY <1>1, <1>2
  <2> HIDE DEF n, e
  <2> QED BY ONLY <2>1, <2>2, FiledList DEF new
<1>4. TypeOK' BY <1>1, <1>2 DEF TypeOK
<1>5. Tiles'
  <2>1. \A k \in 0..Len(design) : Top(k)' = Top(k) BY DEF Top
  <2>2. lsb[done + 1] = memBit
    <3>1. lsb[done + 1] = Top((done + 1) - 1) BY <1>1 DEF Tiles
    <3>2. (done + 1) - 1 = done BY DEF TypeOK
    <3> QED BY <3>1, <3>2 DEF Tiles
  <2>3. Top(done + 1) = memBit + n
    BY <1>1, <2>2 DEF Top, TypeOK
  <2>4. \A c \in 1..Len(lsb) : c - 1 \in 0..Len(design)
    BY <1>1 DEF Tiles
  <2> QED BY <1>1, <1>2, <2>1, <2>3, <2>4 DEF Tiles
<1>6. Files'
  <2>1. \A i \in 1..(memBit + n) : new[i].addr = memBit + n - i
    <3> TAKE i \in 1..(memBit + n)
    <3> HIDE DEF n, new, e
    <3>1. CASE i <= n
      <4>1. i \in 1..n BY <1>1, <1>2, <3>1
      <4>2. new[i] = [addr |-> memBit + n - i, val |-> BitsOf(e)[n - i]] BY <1>3, <4>1
      <4> QED BY ONLY <4>2
    <3>2. CASE i > n
      <4>1. i - n \in 1..memBit /\ n + (i - n) = i BY <1>1, <1>2, <3>2
      <4>2. new[i] = bits[i - n] BY <1>3, <4>1
      <4>3. bits[i - n].addr = memBit - (i - n) BY <4>1 DEF Files
      <4> QED BY <1>1, <1>2, <4>2, <4>3
    <3> QED BY <1>1, <1>2, <3>1, <3>2
  <2>2. ASSUME NEW c \in 1..(done + 1), NEW j \in 0..(NetlistBits(design[c]) - 1)
        PROVE  /\ lsb[c] + j \in 0..(memBit + n - 1)
               /\ new[memBit + n - (lsb[c] + j)].val = BitsOf(design[c])[j]
    <3>1. CASE c \in 1..done
      <4> DEFINE x == lsb[c] + j
      <4>1. x \in 0..(memBit - 1) /\ bits[memBit - x].val = BitsOf(design[c])[j]
        BY <3>1 DEF Files
      <4> HIDE DEF n, new, e, x
      <4>2. memBit - x \in 1..memBit /\ n + (memBit - x) = memBit + n - x
        BY <1>1, <1>2, <4>1
      <4>3. new[memBit + n - x] = bits[memBit - x] BY <1>3, <4>2
      <4>4. x \in 0..(memBit + n - 1) BY <1>1, <1>2, <4>1
      <4> QED BY <4>1, <4>3, <4>4 DEF x
    <3>2. CASE c = done + 1
      <4>1. lsb[c] = memBit
        <5>1. lsb[done + 1] = Top((done + 1) - 1) BY <1>1 DEF Tiles
        <5>2. (done + 1) - 1 = done BY DEF TypeOK
        <5> QED BY <3>2, <5>1, <5>2 DEF Tiles
      <4>2. j \in 0..(n - 1) BY <3>2
      <4> HIDE DEF n, new
      <4>3. memBit + n - (lsb[c] + j) = n - j /\ n - j \in 1..n /\ n - (n - j) = j
        BY <1>1, <1>2, <4>1, <4>2
      <4>4. new[n - j].val = BitsOf(e)[j]
        <5>1. new[n - j] = [addr |-> memBit + n - (n - j), val |-> BitsOf(e)[n - (n - j)]]
          BY <1>3, <4>3
        <5>2. new[n - j].val = BitsOf(e)[n - (n - j)] BY ONLY <5>1
        <5> QED BY <4>3, <5>2
      <4>5. lsb[c] + j \in 0..(memBit + n - 1) BY <1>1, <1>2, <4>1, <4>2
      <4> QED BY <3>2, <4>3, <4>4, <4>5
    <3> QED BY <3>1, <3>2 DEF TypeOK
  <2>3. /\ phase' = "bitstream" /\ done' = done + 1
        /\ lsb' = lsb /\ design' = design
    OBVIOUS
  <2> HIDE DEF n, new, e
  <2>4. /\ IsList(bits', memBit')
        /\ \A i \in 1..memBit' : bits'[i].addr = memBit' - i
    <3>1. bits' = new /\ memBit' = memBit + n BY <1>2
    <3>2. IsList(new, memBit + n) BY <1>3
    <3>3. IsList(bits', memBit') BY ONLY <3>1, <3>2, Zenon
    <3>4. \A i \in 1..memBit' : bits'[i].addr = memBit' - i
      <4> TAKE i \in 1..memBit'
      <4>1. i \in 1..(memBit + n) BY ONLY <3>1
      <4>2. new[i].addr = memBit + n - i BY ONLY <2>1, <4>1
      <4>3. bits'[i] = new[i] BY ONLY <3>1
      <4>4. memBit' - i = memBit + n - i BY <1>1, <1>2, <4>1
      <4> QED BY ONLY <4>2, <4>3, <4>4, Zenon
    <3> QED BY ONLY <3>3, <3>4
  <2>5. \A c \in 1..done' : \A j \in 0..(NetlistBits(design'[c]) - 1) :
          /\ lsb'[c] + j \in 0..(memBit' - 1)
          /\ bits'[memBit' - (lsb'[c] + j)].val = BitsOf(design'[c])[j]
    <3>1. bits' = new /\ memBit' = memBit + n BY <1>2
    <3> TAKE c \in 1..done'
    <3>2. c \in 1..(done + 1) /\ design'[c] = design[c] /\ lsb'[c] = lsb[c] BY ONLY <2>3
    <3> TAKE j \in 0..(NetlistBits(design'[c]) - 1)
    <3>3. j \in 0..(NetlistBits(design[c]) - 1) BY ONLY <3>2
    <3>4. /\ lsb[c] + j \in 0..(memBit + n - 1)
          /\ new[memBit + n - (lsb[c] + j)].val = BitsOf(design[c])[j]
      BY ONLY <2>2, <3>2, <3>3
    <3>5. lsb'[c] + j \in 0..(memBit' - 1) BY <1>1, <1>2, <3>2, <3>4
    <3>6. memBit' - (lsb'[c] + j) = memBit + n - (lsb[c] + j)
      <4>1. lsb'[c] + j = lsb[c] + j BY ONLY <3>2, Zenon
      <4>2. lsb[c] + j \in Nat /\ n \in Nat BY ONLY <1>1, <3>4
      <4> QED BY ONLY <1>2, <4>1, <4>2
    <3>7. BitsOf(design'[c])[j] = BitsOf(design[c])[j] BY ONLY <3>2, Zenon
    <3>8. bits'[memBit' - (lsb'[c] + j)] = new[memBit + n - (lsb[c] + j)] BY ONLY <3>1, <3>6
    <3> QED BY ONLY <3>4, <3>5, <3>7, <3>8, Zenon
  <2> QED BY <2>3, <2>4, <2>5 DEF Files
<1>7. Ready' /\ Fresh' /\ Shifts' /\ Writes' BY DEF Ready, Fresh, Shifts, Writes
<1> QED BY <1>4, <1>5, <1>6, <1>7

LEMMA StartLoadStep == ASSUME IInv, StartLoad PROVE IInv'
<1> USE DEF IInv, StartLoad
<1>1. /\ Len(design) \in Nat \ {0} /\ done = Len(design)
      /\ memBit = total /\ memBit \in Nat
  BY CircuitsOf DEF TypeOK, Tiles
<1>2. memBit >= 1
  <2>1. IsCircuit(design[1]) BY <1>1, CircuitsOf DEF TypeOK
  <2>2. NetlistBits(design[1]) \in Nat \ {0} BY <2>1, SameCount
  <2>3. 1 \in 1..done /\ 0 \in 0..(NetlistBits(design[1]) - 1) BY <1>1, <2>2
  <2>4. lsb[1] + 0 \in 0..(memBit - 1) BY <2>3 DEF Files
  <2> QED BY <1>1, <2>4
<1>3. TypeOK' BY <1>1 DEF TypeOK, Phases
<1>4. Tiles'
  <2>1. \A k \in 0..Len(design) : Top(k)' = Top(k) BY DEF Top
  <2>2. Len(lsb) = Len(design) /\ \A c \in 1..Len(lsb) : c - 1 \in 0..Len(design)
    BY <1>1 DEF Tiles
  <2> QED BY <1>1, <2>1, <2>2 DEF Tiles
<1>5. Files' BY <1>1 DEF Files
<1>6. Ready' BY DEF Ready
<1>7. Shifts'
  <2> SUFFICES ASSUME orgz = ScanChain, startEdge PROVE Shifts'
    BY DEF Shifts
  <2>1. cycle = 0 /\ cycle' = 0
    BY DEF Fresh
  <2>2. fed' = 1 /\ head' = bits[1].val /\ bits' = bits /\ cells' = cells
    OBVIOUS
  <2> QED BY <1>1, <1>2, <2>1, <2>2 DEF Shifts, Ready
<1>8. Fresh' BY DEF Fresh
<1>9. Writes'
  <2> SUFFICES ASSUME orgz = MemoryBank PROVE Writes'
    BY DEF Writes
  <2>1. cycle = 0 /\ cycle' = 0
    BY DEF Fresh
  <2>2. fed' = 0 /\ bits' = bits /\ cells' = cells
    BY DEF ScanChain, MemoryBank
  <2> QED BY <1>1, <2>1, <2>2 DEF Writes, Ready
<1> QED BY <1>3, <1>4, <1>5, <1>6, <1>7, <1>8, <1>9

\* A cycle of the clock moves nothing but the chip.
LEMMA Kept ==
  ASSUME IInv, phase \in {"load", "run"}, phase' \in {"load", "run"},
         UNCHANGED <<orgz, design, done, lsb, memBit, total, bits, startEdge>>,
         cycle' \in Nat
  PROVE  TypeOK' /\ Tiles' /\ Files' /\ Ready' /\ Fresh'
<1> USE DEF IInv
<1>1. Len(design) \in Nat /\ done \in 0..Len(design) BY CircuitsOf DEF TypeOK
<1>2. TypeOK' BY DEF TypeOK, Phases
<1>3. Tiles'
  <2>1. \A k \in 0..Len(design) : Top(k)' = Top(k) BY DEF Top
  <2>2. Len(lsb) = Len(design) /\ \A c \in 1..Len(lsb) : c - 1 \in 0..Len(design)
    BY <1>1 DEF Tiles
  <2> QED BY <1>1, <2>1, <2>2 DEF Tiles
<1>4. Files' BY DEF Files
<1>5. Ready' /\ Fresh' BY DEF Ready, Fresh
<1> QED BY <1>2, <1>3, <1>4, <1>5

LEMMA ShiftStep == ASSUME IInv, ShiftCycle PROVE IInv'
<1> USE DEF IInv, ShiftCycle
<1>1. memBit \in Nat /\ cycle \in Nat /\ Len(bits) = memBit /\ total = memBit
  BY DEF TypeOK, Files, Tiles, IsList
<1>2. TypeOK' /\ Tiles' /\ Files' /\ Ready' /\ Fresh' BY <1>1, Kept
<1>3. Shifts'
  <2> SUFFICES ASSUME startEdge PROVE Shifts'
    BY DEF Shifts
  <2>1. /\ DOMAIN cells = 0..(memBit - 1)
        /\ cycle < memBit /\ fed = cycle + 1 /\ head = bits[cycle + 1].val
        /\ \A i \in 0..(cycle - 1) : cells[i] = bits[cycle - i].val
    BY <1>1 DEF Shifts
  <2>2. /\ DOMAIN cells' = 0..(memBit - 1)
        /\ cycle' = cycle + 1
        /\ bits' = bits /\ memBit' = memBit /\ total' = total
    BY <2>1
  <2>3. \A i \in 0..(cycle' - 1) : cells'[i] = bits[cycle' - i].val
    <3> TAKE i \in 0..(cycle' - 1)
    <3>1. i \in 0..cycle /\ i \in DOMAIN cells BY <1>1, <2>1, <2>2
    <3>2. CASE i = 0
      <4>1. cells'[i] = head BY <3>1, <3>2
      <4>2. cycle' - i = cycle + 1 BY <1>1, <2>2, <3>2
      <4> QED BY <2>1, <4>1, <4>2
    <3>3. CASE i # 0
      <4>1. cells'[i] = cells[i - 1] BY <3>1, <3>3
      <4>2. i - 1 \in 0..(cycle - 1) /\ cycle - (i - 1) = cycle' - i
        BY <1>1, <2>2, <3>1, <3>3
      <4> QED BY <2>1, <4>1, <4>2
    <3> QED BY <3>2, <3>3
  <2>4. CASE cycle + 1 < memBit
    <3>1. fed' = cycle + 2 /\ head' = bits[cycle + 2].val BY <1>1, <2>1, <2>4
    <3> QED BY <1>1, <2>1, <2>2, <2>3, <2>4, <3>1 DEF Shifts
  <2>5. CASE ~(cycle + 1 < memBit)
    <3>1. cycle + 1 = memBit BY <1>1, <2>1, <2>5
    <3>2. fed' = fed /\ head' = head BY <1>1, <2>1, <3>1
    <3> QED BY <1>1, <2>1, <2>2, <2>3, <3>1, <3>2 DEF Shifts
  <2> QED BY <2>4, <2>5
<1>4. Writes' BY DEF Writes, ScanChain, MemoryBank
<1> QED BY <1>2, <1>3, <1>4

LEMMA WriteStep == ASSUME IInv, WriteCycle PROVE IInv'
<1> USE DEF IInv, WriteCycle
<1>1. memBit \in Nat /\ cycle \in Nat /\ Len(bits) = memBit /\ total = memBit /\ orgz # ScanChain
  BY DEF TypeOK, Files, Tiles, IsList, ScanChain, MemoryBank
<1>2. TypeOK' /\ Tiles' /\ Files' /\ Ready' /\ Fresh' BY <1>1, Kept
<1>3. Shifts' BY DEF Shifts, ScanChain, MemoryBank
<1>4. Writes'
  <2>1. /\ DOMAIN cells = 0..(memBit - 1)
        /\ cycle < memBit /\ fed = cycle
        /\ \A i \in 0..(cycle - 1) : cells[i] = bits[memBit - i].val
    BY <1>1 DEF Writes
  <2>2. memBit \in Nat \ {0} /\ cycle \in 0..(memBit - 1)
    BY <1>1, <2>1
  <2>3. /\ Len(Program) = memBit
        /\ Program[cycle + 1] = [bl |-> Column(cycle, ArraySide(memBit)),
                                 wl |-> Row(cycle, ArraySide(memBit)),
                                 val |-> bits[memBit - cycle].val]
    BY <1>1, <2>2, BankProgram DEF Program, Files
  <2>4. fed' = cycle + 1 /\ cycle' = cycle + 1
    BY <1>1, <2>1, <2>3
  <2> DEFINE w == Program[cycle + 1]
  <2>5. cells' = [i \in DOMAIN cells |-> IF i \in Addressed(w) THEN w.val ELSE cells[i]]
    BY <2>4
  <2>6. \A i \in 0..(memBit - 1) : i \in Addressed(w) <=> i = cycle
    <3> TAKE i \in 0..(memBit - 1)
    <3>1. ArraySide(memBit) \in Nat \ {0}
      BY <2>2, ArrayFacts
    <3>2. i \in Addressed(w) <=> /\ Column(i, ArraySide(memBit)) = Column(cycle, ArraySide(memBit))
                                 /\ Row(i, ArraySide(memBit)) = Row(cycle, ArraySide(memBit))
      BY <1>1, <2>1, <2>3 DEF Addressed, Row, Column
    <3> QED BY <2>2, <3>1, <3>2, PlacesDiffer
  <2>7. w.val = bits[memBit - cycle].val
    BY <2>3
  <2> HIDE DEF w
  <2>8. DOMAIN cells' = 0..(memBit - 1)
    BY <2>1, <2>5
  <2>9. \A i \in 0..cycle : cells'[i] = bits[memBit - i].val
    <3> TAKE i \in 0..cycle
    <3>1. i \in 0..(memBit - 1) /\ (i = cycle \/ i \in 0..(cycle - 1))
      BY <2>2
    <3>2. cells'[i] = IF i = cycle THEN w.val ELSE cells[i]
      BY <2>1, <2>5, <2>6, <3>1
    <3> QED BY <2>1, <2>7, <3>1, <3>2
  <2>10. bits' = bits /\ memBit' = memBit /\ total' = total /\ phase' = "load" /\ (cycle + 1) - 1 = cycle
    BY <2>2
  <2>11. fed' = cycle' /\ cycle' <= memBit' /\ total' = memBit'
    BY <1>1, <2>2, <2>4, <2>10
  <2>12. \A i \in 0..(cycle' - 1) : cells'[i] = bits'[memBit' - i].val
    BY <2>4, <2>9, <2>10
  <2>13. DOMAIN cells' = 0..(total' - 1)
    BY <2>8, <2>11, <2>10
  <2> HIDE DEF WriteCycle
  <2> QED BY ONLY <2>10, <2>11, <2>12, <2>13 DEF Writes
<1> QED BY <1>2, <1>3, <1>4

LEMMA DoneStep == ASSUME IInv, ConfigDone PROVE IInv'
<1> USE DEF IInv, ConfigDone
<1>1. cycle \in Nat /\ Len(bits) = memBit BY DEF TypeOK, Files, IsList
<1>2. TypeOK' /\ Tiles' /\ Files' /\ Ready' /\ Fresh' BY <1>1, Kept
<1>3. Shifts' BY <1>1 DEF Shifts
<1>4. Writes' BY <1>1 DEF Writes
<1> QED BY <1>2, <1>3, <1>4

LEMMA StutterStep == ASSUME IInv, UNCHANGED vars PROVE IInv'
<1> USE DEF IInv, vars
<1>1. \A k : Top(k)' = Top(k) BY DEF Top
<1>2. TypeOK' BY DEF TypeOK
<1>3. Tiles' BY <1>1 DEF Tiles
<1>4. Files' BY DEF Files
<1>5. Ready' /\ Fresh' /\ Shifts' /\ Writes' BY DEF Ready, Fresh, Shifts, Writes
<1> QED BY <1>2, <1>3, <1>4, <1>5

\* The counters, the list and a scan chain's cells are as IInv says in every
\* reachable state of every design.
THEOREM InductiveInvariant == Spec => []IInv
<1>1. IInv /\ [Next]_vars => IInv'
  BY WireStep, StartBitstreamStep, EmitStep, StartLoadStep, ShiftStep, WriteStep,
     DoneStep, StutterStep DEF Next
<1> QED BY InitIInv, <1>1, PTL DEF Spec

---------------------------------------------------------------------------
(* The results. *)

\* The bitstream generator files each circuit's bits from the cell where the
\* netlist generator put the circuit, one bit a cell.
THEOREM CountersAgree == Spec => []CountersInStep
<1>1. IInv => CountersInStep
  <2> SUFFICES ASSUME IInv, phase = "bitstream" PROVE CountersInStep
    BY DEF CountersInStep
  <2> USE DEF IInv
  <2>1. Len(design) \in Nat /\ done \in 0..Len(design) BY CircuitsOf DEF TypeOK
  <2>2. memBit = IF done < Len(design) THEN lsb[done + 1] ELSE total
    <3>1. CASE done < Len(design)
      <4>1. done + 1 \in 1..Len(lsb) /\ (done + 1) - 1 = done BY <2>1, <3>1 DEF Tiles
      <4>2. lsb[done + 1] = Top((done + 1) - 1) BY <4>1 DEF Tiles
      <4> QED BY <3>1, <4>1, <4>2 DEF Tiles
    <3>2. CASE ~(done < Len(design)) BY <2>1, <3>2 DEF Tiles
    <3> QED BY <3>1, <3>2
  <2>3. DOMAIN bits = 1..memBit /\ Len(bits) = memBit BY DEF Files, IsList
  <2> QED BY <2>2, <2>3 DEF CountersInStep, Files
<1> QED BY InductiveInvariant, <1>1, PTL

\* When the clock stops, cell x holds the bit that was filed for it: in a scan
\* chain that caught the first edge, and in a memory bank.
LEMMA LoadedCells ==
  ASSUME IInv, phase = "run", StartSeen
  PROVE  memBit \in Nat /\ \A x \in 0..(memBit - 1) : cells[x] = bits[memBit - x].val
<1>1. memBit \in Nat /\ orgz \in {ScanChain, MemoryBank}
  BY DEF IInv, TypeOK
<1>2. CASE orgz = ScanChain
  BY <1>1, <1>2 DEF IInv, Shifts, StartSeen
<1>3. CASE orgz = MemoryBank
  BY <1>1, <1>3 DEF IInv, Writes
<1> QED BY <1>1, <1>2, <1>3

\* When config_done rises, every cell of every circuit holds the bit that was
\* decoded for it, whether the cells form a scan chain whose testbench caught
\* the first edge or a memory bank.
THEOREM CellsAreLoaded == Spec => []CellsHoldTheirBits
<1>1. IInv => CellsHoldTheirBits
  <2> SUFFICES ASSUME IInv, phase = "run", StartSeen,
                      NEW c \in DOMAIN design, NEW j \in DOMAIN BitsOf(design[c])
               PROVE  cells[lsb[c] + j] = BitsOf(design[c])[j]
    BY DEF CellsHoldTheirBits
  <2>1. design \in Designs BY DEF IInv, TypeOK
  <2>2. c \in 1..Len(design) /\ IsCircuit(design[c])
    BY <2>1, DesignsAssumption
  <2>3. done = Len(design) BY DEF IInv, Files
  <2>4. j \in 0..(NetlistBits(design[c]) - 1) BY <2>2, DecodedBits
  <2> DEFINE x == lsb[c] + j
  <2>5. x \in 0..(memBit - 1) /\ bits[memBit - x].val = BitsOf(design[c])[j]
    BY <2>2, <2>3, <2>4 DEF IInv, Files
  <2> QED BY <2>5, LoadedCells
<1> QED BY InductiveInvariant, <1>1, PTL

---------------------------------------------------------------------------
(* Networks: the value of a wire, and a path from an input to the output.  *)

\* The inputs a wire can get its value from, the deeper wires being `at`.
Source(a, sram, at, w) ==
  {i \in 0..(a.n - 1) : InputAt(a, i) = w}
    \cup {at[<<w[1] + 1, p>>] : p \in IF w[1] = a.level THEN {} ELSE Connected(a, sram, w[1], w[2])}

WireValue(a, sram, at, w) ==
  LET source == Source(a, sram, at, w)
  IN IF Cardinality(source) = 1 THEN CHOOSE s \in source : TRUE ELSE NoInput

Wired(at, a, sram, D) == at = [w \in D \X Nat |-> WireValue(a, sram, at, w)]

LEMMA NetworkIs ==
  ASSUME NEW a, NEW sram
  PROVE  Network(a, sram) = (CHOOSE at : Wired(at, a, sram, 0..a.level))[<<0, 0>>]
BY DEF Network, Wired, WireValue, Source

LEMMA WiredAt ==
  ASSUME NEW at, NEW a, NEW sram, NEW D, Wired(at, a, sram, D), NEW w \in D \X Nat
  PROVE  at[w] = WireValue(a, sram, at, w)
<1> DEFINE v(x) == WireValue(a, sram, at, x)
<1>1. at = [x \in D \X Nat |-> v(x)]
  BY DEF Wired
<1> HIDE DEF v
<1>2. at[w] = v(w)
  BY <1>1
<1> QED BY <1>2 DEF v

\* The deeper wires are all that counts for a wire.
LEMMA SameValue ==
  ASSUME NEW a, NEW sram, NEW at, NEW bt, NEW w, a.level \in Nat, w[1] \in 0..a.level,
         w[1] # a.level => \A p \in Connected(a, sram, w[1], w[2]) : at[<<w[1] + 1, p>>] = bt[<<w[1] + 1, p>>]
  PROVE  WireValue(a, sram, at, w) = WireValue(a, sram, bt, w)
<1> DEFINE F == IF w[1] = a.level THEN {} ELSE Connected(a, sram, w[1], w[2])
<1>1. \A p \in F : at[<<w[1] + 1, p>>] = bt[<<w[1] + 1, p>>]
  OBVIOUS
<1> HIDE DEF F
<1>2. {at[<<w[1] + 1, p>>] : p \in F} = {bt[<<w[1] + 1, p>>] : p \in F}
  BY <1>1
<1>3. Source(a, sram, at, w) = Source(a, sram, bt, w)
  BY <1>2 DEF Source, F
<1> QED BY <1>3 DEF WireValue

LEMMA ConnectedWires ==
  ASSUME NEW a, NEW sram, NEW l \in Nat, NEW o \in Nat, a.basis \in Nat
  PROVE  Connected(a, sram, l, o) \subseteq Nat
<1> DEFINE first == o * a.basis
           fits == first + a.basis <= Wires(a, l + 1)
           q == IF fits THEN a.basis ELSE SpecialBasis(a)
           nb == BasisBits(a.structure, q, ~fits)
           chosen == Selected(q, nb, [k \in 0..(nb - 1) |-> sram[FirstBit(a, l) + k]])
<1>1. first \in Nat
  OBVIOUS
<1>2. chosen \subseteq Nat
  <2>1. \A x, y, mem : Selected(x, y, mem) \subseteq Nat
    BY DEF Selected
  <2> HIDE DEF q, nb
  <2> QED BY <2>1
<1>3. Connected(a, sram, l, o) \subseteq {first + k : k \in chosen}
  BY DEF Connected
<1> HIDE DEF chosen, first
<1>4. {first + k : k \in chosen} \subseteq Nat
  BY <1>1, <1>2
<1> QED BY <1>3, <1>4

LEMMA WiresExist ==
  ASSUME NEW a, NEW sram, a.level \in Nat, a.basis \in Nat, NEW d \in Nat, d <= a.level
  PROVE  \E at : Wired(at, a, sram, (a.level - d)..a.level)
<1> DEFINE L == a.level
           Done == {k \in Nat : k <= L => \E at : Wired(at, a, sram, (L - k)..L)}
<1>1. 0 \in Done
  <2> DEFINE zero == [w \in {} |-> 0]
             at == [w \in (L..L) \X Nat |-> WireValue(a, sram, zero, w)]
  <2> HIDE DEF zero
  <2>1. ASSUME NEW w \in (L..L) \X Nat PROVE WireValue(a, sram, zero, w) = WireValue(a, sram, at, w)
    <3>1. w[1] = L
      OBVIOUS
    <3> HIDE DEF at
    <3> QED BY <3>1, SameValue
  <2>2. at = [w \in (L..L) \X Nat |-> WireValue(a, sram, at, w)]
    BY <2>1
  <2> HIDE DEF at
  <2>3. Wired(at, a, sram, (L - 0)..L)
    BY <2>2 DEF Wired
  <2> QED BY <2>3
<1>2. ASSUME NEW k \in Nat, k \in Done, k + 1 <= L PROVE \E at : Wired(at, a, sram, (L - (k + 1))..L)
  <2>1. PICK bt : Wired(bt, a, sram, (L - k)..L)
    BY <1>2
  <2> DEFINE D == ((L - (k + 1))..L) \X Nat
             at == [w \in D |-> WireValue(a, sram, bt, w)]
  <2>2. ASSUME NEW w \in ((L - k)..L) \X Nat PROVE at[w] = bt[w]
    <3>1. w \in D
      BY <1>2
    <3>2. at[w] = WireValue(a, sram, bt, w)
      BY <3>1
    <3> QED BY <2>1, <2>2, <3>2, WiredAt
  <2>3. ASSUME NEW w \in D PROVE WireValue(a, sram, bt, w) = WireValue(a, sram, at, w)
    <3>1. w[1] \in 0..L /\ w[2] \in Nat /\ w[1] \in (L - (k + 1))..L
      BY <1>2
    <3>2. ASSUME w[1] # L, NEW p \in Connected(a, sram, w[1], w[2])
          PROVE  bt[<<w[1] + 1, p>>] = at[<<w[1] + 1, p>>]
      <4>1. p \in Nat
        BY <3>1, ConnectedWires
      <4>2. <<w[1] + 1, p>> \in ((L - k)..L) \X Nat
        BY <1>2, <3>1, <3>2, <4>1
      <4> HIDE DEF at
      <4> QED BY <2>2, <4>2
    <3> HIDE DEF at
    <3> QED BY <3>1, <3>2, SameValue
  <2>4. at = [w \in D |-> WireValue(a, sram, at, w)]
    BY <2>3
  <2> HIDE DEF at
  <2>5. Wired(at, a, sram, (L - (k + 1))..L)
    BY <2>4 DEF Wired
  <2> QED BY <2>5
<1>3. Nat \subseteq Done
  <2>1. ASSUME NEW k \in Nat, k \in Done PROVE k + 1 \in Done
    <3>1. k + 1 <= L => \E at : Wired(at, a, sram, (L - (k + 1))..L)
      BY <1>2, <2>1
    <3>2. k + 1 \in Nat
      OBVIOUS
    <3> QED BY <3>1, <3>2
  <2> HIDE DEF Done
  <2> QED BY <1>1, <2>1, NaturalsFromZero
<1> QED BY <1>3

\* A path of wires, each the only one connected to the next, from the only
\* wire an input is tied to.
IsWay(a, sram, input, el, q) ==
  /\ a.level \in Nat /\ a.basis \in Nat /\ a.n \in Nat
  /\ input \in 0..(a.n - 1) /\ el \in 0..a.level
  /\ q \in [0..el -> Nat] /\ q[0] = 0
  /\ \A i \in 0..(a.n - 1) : InputAt(a, i) = <<el, q[el]>> <=> i = input
  /\ \A l \in 0..(el - 1) : \A i \in 0..(a.n - 1) : InputAt(a, i) # <<l, q[l]>>
  /\ el # a.level => Connected(a, sram, el, q[el]) = {}
  /\ \A l \in 0..(el - 1) : Connected(a, sram, l, q[l]) = {q[l + 1]}

\* It brings that input to the output.
LEMMA PathPasses ==
  ASSUME NEW a, NEW sram, NEW input, NEW el, NEW q, IsWay(a, sram, input, el, q)
  PROVE  Network(a, sram) = input
<1> USE DEF IsWay
<1> DEFINE L == a.level
           at == CHOOSE f : Wired(f, a, sram, 0..L)
           Done == {d \in Nat : d <= el => at[<<el - d, q[el - d]>>] = input}
<1>1. Wired(at, a, sram, 0..L)
  <2>1. L - L = 0 /\ L \in Nat /\ L <= L
    OBVIOUS
  <2>2. \E f : Wired(f, a, sram, (L - L)..L)
    BY <2>1, WiresExist
  <2> QED BY <2>1, <2>2
<1>2. Network(a, sram) = at[<<0, 0>>]
  BY NetworkIs
<1> HIDE DEF at
<1>3. ASSUME NEW l \in 0..el, Source(a, sram, at, <<l, q[l]>>) = {input} PROVE at[<<l, q[l]>>] = input
  <2> DEFINE w == <<l, q[l]>>
             s == Source(a, sram, at, w)
  <2>1. w \in (0..L) \X Nat
    OBVIOUS
  <2>2. at[w] = WireValue(a, sram, at, w)
    BY <1>1, <2>1, WiredAt
  <2>3. s = {input} /\ Cardinality(s) = 1
    <3>1. s = {input}
      BY <1>3
    <3> HIDE DEF s
    <3> QED BY <3>1, FS_Singleton
  <2>4. at[w] = CHOOSE x \in s : TRUE
    BY <2>2, <2>3 DEF WireValue
  <2> HIDE DEF s, w
  <2>5. at[w] = input
    BY <2>3, <2>4
  <2> QED BY <2>5 DEF w
<1>4. 0 \in Done
  <2> DEFINE w == <<el, q[el]>>
  <2>1. w[1] = el /\ w[2] = q[el]
    OBVIOUS
  <2>2. {i \in 0..(a.n - 1) : InputAt(a, i) = w} = {input}
    OBVIOUS
  <2>3. (IF w[1] = a.level THEN {} ELSE Connected(a, sram, w[1], w[2])) = {}
    BY <2>1
  <2> HIDE DEF w
  <2>4. Source(a, sram, at, w) = {input}
    BY <2>2, <2>3 DEF Source
  <2>5. at[<<el, q[el]>>] = input
    BY <1>3, <2>4 DEF w
  <2>6. el - 0 = el
    OBVIOUS
  <2>7. at[<<el - 0, q[el - 0]>>] = input
    BY <2>5, <2>6
  <2> QED BY <2>7
<1>5. ASSUME NEW d \in Nat, d \in Done, d + 1 <= el PROVE at[<<el - (d + 1), q[el - (d + 1)]>>] = input
  <2> DEFINE l == el - (d + 1)
             w == <<l, q[l]>>
  <2>1. l \in 0..(el - 1) /\ l \in 0..el /\ l + 1 = el - d /\ l # L
    BY <1>5
  <2>2. at[<<l + 1, q[l + 1]>>] = input
    BY <1>5, <2>1
  <2> HIDE DEF l
  <2>3. w[1] = l /\ w[2] = q[l] /\ {i \in 0..(a.n - 1) : InputAt(a, i) = w} = {}
    BY <2>1
  <2>4. (IF w[1] = a.level THEN {} ELSE Connected(a, sram, w[1], w[2])) = {q[l + 1]}
    BY <2>1, <2>3
  <2> HIDE DEF w
  <2>5. Source(a, sram, at, w) = {input}
    BY <2>2, <2>3, <2>4 DEF Source
  <2>6. at[<<l, q[l]>>] = input
    BY <1>3, <2>1, <2>5 DEF w
  <2> QED BY <2>6 DEF l
<1>6. Nat \subseteq Done
  <2>1. \A d \in Nat : d \in Done => d + 1 \in Done
    BY <1>5
  <2> HIDE DEF Done
  <2> QED BY <1>4, <2>1, NaturalsFromZero
<1>7. at[<<el - el, q[el - el]>>] = input
  BY <1>6
<1> QED BY <1>2, <1>7

---------------------------------------------------------------------------
(* Division by the powers of a base.                                       *)

LEMMA QuotientIs ==
  ASSUME NEW x \in Nat, NEW d \in Nat \ {0}, NEW q \in Nat, d * q <= x, x < d * q + d
  PROVE  x \div d = q
<1> DEFINE y == x \div d
<1>1. y \in Nat /\ d * y <= x /\ x < d * y + d
  <2>1. y \in Nat /\ x % d \in 0..(d - 1) /\ x = d * y + (x % d)
    BY DivisionFacts
  <2> HIDE DEF y
  <2> QED BY <2>1
<1> HIDE DEF y
<1>2. ~(y < q)
  <2> SUFFICES ASSUME y + 1 <= q PROVE FALSE
    BY <1>1
  <2>1. d * (y + 1) <= d * q /\ d * (y + 1) = d * y + d
    BY <1>1
  <2> QED BY <1>1, <2>1
<1>3. ~(q < y)
  <2> SUFFICES ASSUME q + 1 <= y PROVE FALSE
    BY <1>1
  <2>1. d * (q + 1) <= d * y /\ d * (q + 1) = d * q + d
    BY <1>1
  <2> QED BY <1>1, <2>1
<1>4. y = q
  BY <1>1, <1>2, <1>3
<1> QED BY <1>4 DEF y

LEMMA QuotientBelow ==
  ASSUME NEW x \in Nat, NEW d \in Nat \ {0}
  PROVE  x \div d \in Nat /\ d * (x \div d) <= x /\ x < d * (x \div d) + d
<1> DEFINE y == x \div d
<1>1. y \in Nat /\ x % d \in 0..(d - 1) /\ x = d * y + (x % d)
  BY DivisionFacts
<1> HIDE DEF y
<1>2. y \in Nat /\ d * y <= x /\ x < d * y + d
  BY <1>1
<1> QED BY <1>2 DEF y

\* Dividing twice is dividing by the product.
LEMMA DivDiv ==
  ASSUME NEW x \in Nat, NEW b \in Nat \ {0}, NEW p \in Nat \ {0}
  PROVE  x \div (b * p) = (x \div p) \div b
<1> DEFINE y == x \div p
           z == y \div b
<1>1. y \in Nat /\ p * y <= x /\ x < p * y + p
  BY QuotientBelow
<1>2. z \in Nat /\ b * z <= y /\ y < b * z + b
  <2> HIDE DEF y
  <2> QED BY <1>1, QuotientBelow
<1> HIDE DEF y, z
<1>3. b * p \in Nat \ {0}
  OBVIOUS
<1>4. (b * p) * z <= x
  <2>1. p * (b * z) <= p * y
    BY <1>1, <1>2
  <2>2. p * (b * z) = (b * p) * z
    BY <1>2
  <2> QED BY <1>1, <1>2, <1>3, <2>1, <2>2
<1>5. x < (b * p) * z + b * p
  <2>1. y + 1 <= b * z + b
    BY <1>1, <1>2
  <2>2. p * (y + 1) <= p * (b * z + b)
    BY <1>1, <1>2, <2>1
  <2>3. p * (y + 1) = p * y + p
    BY <1>1
  <2>4. p * (b * z + b) = (b * p) * z + b * p
    BY <1>2
  <2> QED BY <1>1, <1>2, <2>2, <2>3, <2>4
<1>6. x \div (b * p) = z
  <2> DEFINE d == b * p
  <2>1. d \in Nat \ {0} /\ d * z <= x /\ x < d * z + d
    BY <1>3, <1>4, <1>5
  <2> HIDE DEF d
  <2>2. x \div d = z
    BY <1>2, <2>1, QuotientIs
  <2> QED BY <2>2 DEF d
<1> QED BY <1>6 DEF y, z

LEMMA PowerPositive ==
  ASSUME NEW b \in Nat \ {0}
  PROVE  \A w \in Nat : Power(b)[w] \in Nat \ {0}
<1> DEFINE p == Power(b)
           S == {w \in Nat : p[w] \in Nat \ {0}}
<1>1. p \in [Nat -> Nat] /\ p[0] = 1 /\ \A w \in Nat : p[w + 1] = b * p[w]
  BY PowerSteps
<1> HIDE DEF p
<1>2. 0 \in S
  BY <1>1
<1>3. ASSUME NEW w \in Nat, w \in S PROVE w + 1 \in S
  <2> DEFINE x == p[w]
  <2>1. x \in Nat \ {0} /\ p[w + 1] = b * x
    BY <1>1, <1>3
  <2> HIDE DEF x
  <2>2. p[w + 1] \in Nat \ {0} /\ w + 1 \in Nat
    BY <2>1
  <2> QED BY <2>2
<1>4. Nat \subseteq S
  <2> HIDE DEF S
  <2> QED BY <1>2, <1>3, NaturalsFromZero
<1> QED BY <1>4 DEF p

LEMMA PowerMonotone ==
  ASSUME NEW b \in Nat, b >= 2
  PROVE  \A v \in Nat : \A w \in Nat : v < w => Power(b)[v] < Power(b)[w]
<1> DEFINE p == Power(b)
<1>1. p \in [Nat -> Nat] /\ \A w \in Nat : p[w + 1] = b * p[w] /\ p[w] \in Nat \ {0}
  <2>1. b \in Nat \ {0}
    OBVIOUS
  <2>2. p \in [Nat -> Nat] /\ \A w \in Nat : p[w + 1] = b * p[w]
    BY PowerSteps
  <2>3. \A w \in Nat : p[w] \in Nat \ {0}
    BY <2>1, PowerPositive
  <2> QED BY <2>2, <2>3
<1> HIDE DEF p
<1> SUFFICES ASSUME NEW v \in Nat PROVE \A w \in Nat : v < w => p[v] < p[w]
  BY DEF p
<1> DEFINE S == {w \in Nat : v < w => p[v] < p[w]}
<1>2. 0 \in S
  OBVIOUS
<1>3. ASSUME NEW w \in Nat, w \in S PROVE w + 1 \in S
  <2> DEFINE x == p[w]
             y == p[v]
  <2>1. x \in Nat \ {0} /\ y \in Nat \ {0} /\ p[w + 1] = b * x
    BY <1>1
  <2>2. v < w + 1 => y <= x
    BY <1>3, <2>1
  <2> HIDE DEF x, y
  <2>3. b * x >= 2 * x
    BY <2>1
  <2>4. x < p[w + 1]
    BY <2>1, <2>3
  <2>5. v < w + 1 => y < p[w + 1]
    BY <2>1, <2>2, <2>3
  <2>6. w + 1 \in Nat
    OBVIOUS
  <2> QED BY <2>5, <2>6 DEF y
<1>4. Nat \subseteq S
  <2> HIDE DEF S
  <2> QED BY <1>2, <1>3, NaturalsFromZero
<1> QED BY <1>4

\* One more digit of x in base b.
LEMMA NextDigit ==
  ASSUME NEW b \in Nat \ {0}, NEW x \in Nat, NEW w \in Nat
  PROVE  /\ x \div Power(b)[w] \in Nat
         /\ x \div Power(b)[w + 1] \in Nat
         /\ x \div Power(b)[w + 1] = (x \div Power(b)[w]) \div b
         /\ x \div Power(b)[w] = b * (x \div Power(b)[w + 1]) + ((x \div Power(b)[w]) % b)
         /\ (x \div Power(b)[w]) % b \in 0..(b - 1)
<1> DEFINE p == Power(b)[w]
           r == Power(b)[w + 1]
           y == x \div p
           z == x \div r
<1>1. p \in Nat \ {0} /\ r = b * p
  BY PowerPositive, PowerSteps
<1>2. y \in Nat
  <2> HIDE DEF p
  <2> QED BY <1>1, QuotientBelow
<1>3. z = y \div b
  <2> HIDE DEF p, r
  <2> QED BY <1>1, DivDiv
<1>4. z \in Nat /\ y = b * z + (y % b) /\ y % b \in 0..(b - 1)
  <2> HIDE DEF y, z
  <2> QED BY <1>2, <1>3, DivisionFacts
<1> QED BY <1>2, <1>3, <1>4

---------------------------------------------------------------------------
(* The way of an input through a network.                                  *)

\* The wires an input passes, level by level.
OnWay(a, i, l) == InputAt(a, i)[2] \div Power(a.basis)[InputAt(a, i)[1] - l]

\* A layout: the inputs tied to the deepest level fit there, and with the
\* wires they drive the others fit one level nearer to the output.
LaidOut(a) ==
  /\ a.level \in Nat \ {0} /\ a.basis \in Nat /\ a.basis >= 2
  /\ a.n \in Nat /\ a.last \in 1..a.n
  /\ a.last <= Power(a.basis)[a.level]
  /\ a.last < a.n => CeilDiv(a.last, a.basis) + (a.n - a.last) <= Power(a.basis)[a.level - 1]

LEMMA PowersOf ==
  ASSUME NEW b \in Nat, b >= 1
  PROVE  Power(b)[0] = 1 /\ \A w \in Nat : Power(b)[w] \in Nat \ {0} /\ Power(b)[w + 1] = b * Power(b)[w]
<1>1. b \in Nat \ {0}
  OBVIOUS
<1>2. \A w \in Nat : Power(b)[w] \in Nat \ {0}
  BY <1>1, PowerPositive
<1>3. Power(b)[0] = 1 /\ \A w \in Nat : Power(b)[w + 1] = b * Power(b)[w]
  BY PowerSteps
<1> QED BY <1>2, <1>3

LEMMA CeilFacts ==
  ASSUME NEW x \in Nat, NEW b \in Nat \ {0}
  PROVE  CeilDiv(x, b) \in Nat /\ b * CeilDiv(x, b) >= x /\ b * CeilDiv(x, b) < x + b
<1> DEFINE y == x + b - 1
           z == y \div b
<1>1. y \in Nat
  OBVIOUS
<1>2. z \in Nat /\ b * z <= y /\ y < b * z + b
  <2> HIDE DEF y
  <2> QED BY <1>1, QuotientBelow
<1>3. CeilDiv(x, b) = z
  BY DEF CeilDiv
<1> HIDE DEF z
<1> QED BY <1>2, <1>3

LEMMA WiresAre ==
  ASSUME NEW a, LaidOut(a), NEW l \in 0..a.level
  PROVE  Wires(a, l) = IF l = a.level THEN a.last ELSE Power(a.basis)[l]
<1>1. a.basis \in Nat \ {0}
  BY DEF LaidOut
<1>2. \A w \in Nat : Power(a.basis)[w] \in Nat \ {0}
  BY <1>1, PowerPositive
<1> QED BY <1>2 DEF Wires, LaidOut

\* Where an input is tied.
LEMMA TiedAt ==
  ASSUME NEW a, LaidOut(a), NEW i \in 0..(a.n - 1)
  PROVE  /\ InputAt(a, i) = IF i < a.last THEN <<a.level, i>>
                            ELSE <<a.level - 1, CeilDiv(a.last, a.basis) + (i - a.last)>>
         /\ InputAt(a, i)[1] \in 0..a.level
         /\ InputAt(a, i)[2] \in Nat
         /\ InputAt(a, i)[2] < Wires(a, InputAt(a, i)[1])
         /\ InputAt(a, i)[2] < Power(a.basis)[InputAt(a, i)[1]]
<1> DEFINE c == CeilDiv(a.last, a.basis)
<1>1. c \in Nat
  <2>1. a.last \in Nat /\ a.basis \in Nat \ {0}
    BY DEF LaidOut
  <2> QED BY <2>1, CeilFacts
<1>2. \A w \in Nat : Power(a.basis)[w] \in Nat \ {0}
  BY PowerPositive DEF LaidOut
<1>3. InputAt(a, i) = IF i < a.last THEN <<a.level, i>> ELSE <<a.level - 1, c + (i - a.last)>>
  BY DEF InputAt
<1> HIDE DEF c
<1>4. CASE i < a.last
  <2>1. InputAt(a, i)[1] = a.level /\ InputAt(a, i)[2] = i
    BY <1>3, <1>4
  <2>2. Wires(a, a.level) = a.last
    BY WiresAre DEF LaidOut
  <2> QED BY <1>2, <1>3, <1>4, <2>1, <2>2 DEF LaidOut, c
<1>5. CASE ~(i < a.last)
  <2>1. InputAt(a, i)[1] = a.level - 1 /\ InputAt(a, i)[2] = c + (i - a.last)
    BY <1>3, <1>5
  <2>2. Wires(a, a.level - 1) = Power(a.basis)[a.level - 1]
    BY WiresAre DEF LaidOut
  <2>3. a.last < a.n /\ c + (a.n - a.last) <= Power(a.basis)[a.level - 1]
    BY <1>5 DEF LaidOut, c
  <2>4. c + (i - a.last) < Power(a.basis)[a.level - 1]
    BY <1>1, <1>2, <1>5, <2>3 DEF LaidOut
  <2> QED BY <1>1, <1>3, <1>5, <2>1, <2>2, <2>4 DEF LaidOut, c
<1> QED BY <1>4, <1>5

\* From the output, which is wire 0, the way goes down one digit at a time.
LEMMA WaySteps ==
  ASSUME NEW a, LaidOut(a), NEW i \in 0..(a.n - 1)
  PROVE  /\ \A l \in 0..InputAt(a, i)[1] : OnWay(a, i, l) \in Nat
         /\ OnWay(a, i, 0) = 0
         /\ OnWay(a, i, InputAt(a, i)[1]) = InputAt(a, i)[2]
         /\ \A l \in 0..(InputAt(a, i)[1] - 1) :
              /\ OnWay(a, i, l) = OnWay(a, i, l + 1) \div a.basis
              /\ OnWay(a, i, l + 1) = a.basis * OnWay(a, i, l) + (OnWay(a, i, l + 1) % a.basis)
              /\ OnWay(a, i, l + 1) % a.basis \in 0..(a.basis - 1)
<1> DEFINE el == InputAt(a, i)[1]
           pos == InputAt(a, i)[2]
           b == a.basis
<1>1. el \in Nat /\ pos \in Nat /\ pos < Power(b)[el] /\ b \in Nat \ {0}
  BY TiedAt DEF LaidOut
<1>2. \A l : OnWay(a, i, l) = pos \div Power(b)[el - l]
  BY DEF OnWay
<1> HIDE DEF el, pos, b
<1>3. Power(b)[0] = 1 /\ Power(b)[el] \in Nat \ {0}
  BY <1>1, PowersOf
<1>4. ASSUME NEW l \in 0..el PROVE OnWay(a, i, l) \in Nat
  <2>1. el - l \in Nat
    BY <1>1
  <2>2. \A w \in Nat : pos \div Power(b)[w] \in Nat
    BY <1>1, NextDigit
  <2> QED BY <1>2, <2>1, <2>2
<1>5. OnWay(a, i, 0) = 0
  <2>1. pos \div Power(b)[el] = 0
    BY <1>1, <1>3, QuotientIs
  <2> QED BY <1>1, <1>2, <2>1
<1>6. OnWay(a, i, el) = pos
  <2>1. el - el = 0 /\ pos \div 1 = pos
    BY <1>1
  <2> QED BY <1>2, <1>3, <2>1
<1>7. ASSUME NEW l \in 0..(el - 1)
      PROVE  /\ OnWay(a, i, l) = OnWay(a, i, l + 1) \div b
             /\ OnWay(a, i, l + 1) = b * OnWay(a, i, l) + (OnWay(a, i, l + 1) % b)
             /\ OnWay(a, i, l + 1) % b \in 0..(b - 1)
  <2> DEFINE w == el - (l + 1)
  <2>1. w \in Nat /\ w + 1 = el - l
    BY <1>1
  <2>2. OnWay(a, i, l + 1) = pos \div Power(b)[w] /\ OnWay(a, i, l) = pos \div Power(b)[w + 1]
    BY <1>2, <2>1
  <2> HIDE DEF w
  <2> QED BY <1>1, <2>1, <2>2, NextDigit
<1> QED BY <1>4, <1>5, <1>6, <1>7 DEF el, pos, b

\* The wires of the way exist.
LEMMA WayInside ==
  ASSUME NEW a, LaidOut(a), NEW i \in 0..(a.n - 1), NEW l \in 0..InputAt(a, i)[1]
  PROVE  OnWay(a, i, l) < Wires(a, l)
<1> DEFINE el == InputAt(a, i)[1]
           b == a.basis
           q(k) == OnWay(a, i, k)
           S == {d \in Nat : d <= el => q(el - d) < Power(b)[el - d]}
<1>1. el \in Nat /\ el <= a.level /\ b \in Nat /\ b >= 2 /\ a.level \in Nat
  BY TiedAt DEF LaidOut
<1>2. /\ \A k \in 0..el : q(k) \in Nat
      /\ q(el) < Power(b)[el]
      /\ \A k \in 0..(el - 1) : q(k + 1) = b * q(k) + (q(k + 1) % b) /\ q(k + 1) % b \in 0..(b - 1)
  BY TiedAt, WaySteps
<1>3. \A w \in Nat : Power(b)[w] \in Nat \ {0} /\ Power(b)[w + 1] = b * Power(b)[w]
  BY <1>1, PowersOf
<1> HIDE DEF el, q, b
<1>4. 0 \in S
  BY <1>1, <1>2
<1>5. ASSUME NEW d \in Nat, d \in S PROVE d + 1 \in S
  <2> SUFFICES ASSUME d + 1 <= el PROVE q(el - (d + 1)) < Power(b)[el - (d + 1)]
    OBVIOUS
  <2> DEFINE k == el - (d + 1)
             x == q(k)
             y == q(k + 1)
             p == Power(b)[k]
             r == y % b
  <2>1. k \in Nat /\ k \in 0..(el - 1) /\ k \in 0..el /\ k + 1 \in 0..el /\ k + 1 = el - d
    BY <1>1
  <2>2. y < Power(b)[k + 1]
    BY <1>1, <1>5, <2>1
  <2> HIDE DEF k
  <2>3. x \in Nat /\ p \in Nat \ {0} /\ Power(b)[k + 1] = b * p /\ r \in 0..(b - 1) /\ y = b * x + r /\ y \in Nat
    BY <1>2, <1>3, <2>1
  <2> HIDE DEF x, p, y, r
  <2>4. b * x < b * p
    BY <1>1, <2>2, <2>3
  <2>5. ~(x >= p)
    <3> SUFFICES ASSUME x >= p PROVE FALSE
      OBVIOUS
    <3>1. b * x >= b * p
      BY <1>1, <2>3
    <3> QED BY <1>1, <2>3, <2>4, <3>1
  <2>6. x < p
    BY <2>3, <2>5
  <2> QED BY <2>6 DEF x, p, k
<1>6. Nat \subseteq S
  <2> HIDE DEF S
  <2> QED BY <1>4, <1>5, NaturalsFromZero
<1>7. q(l) < Power(b)[l]
  <2>1. el - l \in Nat /\ el - l <= el /\ el - (el - l) = l
    BY <1>1 DEF el
  <2> QED BY <1>6, <2>1
<1>8. CASE l # a.level
  <2>1. l \in 0..a.level
    BY <1>1 DEF el
  <2>2. Wires(a, l) = Power(b)[l]
    BY <1>8, <2>1, WiresAre DEF b
  <2> QED BY <1>7, <2>2 DEF q
<1>9. CASE l = a.level
  <2>1. l = el
    BY <1>1, <1>9 DEF el
  <2>2. q(l) = InputAt(a, i)[2]
    BY <2>1, WaySteps DEF q, el
  <2> QED BY <2>1, <2>2, TiedAt DEF q, el
<1> QED BY <1>8, <1>9 DEF q

\* An input whose way is connected reaches the output.
LEMMA InputPasses ==
  ASSUME NEW a, NEW sram, LaidOut(a), NEW i \in 0..(a.n - 1),
         \A l \in 0..(InputAt(a, i)[1] - 1) : Connected(a, sram, l, OnWay(a, i, l)) = {OnWay(a, i, l + 1)}
  PROVE  Network(a, sram) = i
<1> DEFINE el == InputAt(a, i)[1]
           pos == InputAt(a, i)[2]
           L == a.level
           b == a.basis
           c == CeilDiv(a.last, b)
           q == [l \in 0..el |-> OnWay(a, i, l)]
           F(k) == InputAt(a, k)
<1>1. /\ L \in Nat \ {0} /\ b \in Nat \ {0} /\ a.n \in Nat
      /\ a.last \in Nat
      /\ c \in Nat /\ b * c >= a.last
  <2>1. a.last \in Nat /\ b \in Nat \ {0} /\ L \in Nat \ {0} /\ a.n \in Nat
    BY DEF LaidOut
  <2> HIDE DEF b, L
  <2> QED BY <2>1, CeilFacts
<1>2. /\ el \in 0..L /\ el \in Nat /\ pos \in Nat
      /\ F(i) = <<el, pos>>
      /\ \A k \in 0..(a.n - 1) : F(k) = IF k < a.last THEN <<L, k>> ELSE <<L - 1, c + (k - a.last)>>
  BY TiedAt
<1>3. /\ q \in [0..el -> Nat] /\ q[0] = 0 /\ q[el] = pos
      /\ \A l \in 0..(el - 1) : q[l] = q[l + 1] \div b
  <2>1. \A l \in 0..el : OnWay(a, i, l) \in Nat
    BY WaySteps
  <2>2. OnWay(a, i, 0) = 0 /\ OnWay(a, i, el) = pos
    BY WaySteps
  <2>3. \A l \in 0..(el - 1) : OnWay(a, i, l) = OnWay(a, i, l + 1) \div b
    BY WaySteps
  <2> HIDE DEF el, pos, b
  <2> QED BY <1>2, <2>1, <2>2, <2>3
<1>4. \A l \in 0..(el - 1) : Connected(a, sram, l, q[l]) = {q[l + 1]}
  <2> HIDE DEF el
  <2>1. \A l \in 0..(el - 1) : l \in 0..el /\ l + 1 \in 0..el
    BY <1>2
  <2> QED BY <2>1 DEF el
<1> HIDE DEF el, pos, q, c, F, L, b
<1>5. ASSUME NEW k \in 0..(a.n - 1) PROVE F(k) = <<el, q[el]>> <=> k = i
  <2>1. F(k) = F(i) => k = i
    BY <1>1, <1>2
  <2> QED BY <1>2, <1>3, <2>1
<1>6. ASSUME NEW l \in 0..(el - 1), NEW k \in 0..(a.n - 1) PROVE F(k) # <<l, q[l]>>
  <2> SUFFICES ASSUME F(k) = <<l, q[l]>> PROVE FALSE
    OBVIOUS
  <2>1. ~(k < a.last) /\ l = L - 1 /\ q[l] = c + (k - a.last)
    BY <1>1, <1>2
  <2>2. el = L /\ pos < a.last
    BY <1>1, <1>2, <2>1
  <2>3. q[l] = pos \div b
    <3>1. l + 1 = el
      BY <1>1, <2>1, <2>2
    <3> QED BY <1>3, <3>1
  <2>4. q[l] \in Nat /\ b * q[l] <= pos
    BY <1>1, <1>2, <2>3, QuotientBelow
  <2> DEFINE x == q[l]
  <2>5. x \in Nat /\ x >= c /\ b * x <= pos
    BY <1>1, <2>1, <2>4
  <2> HIDE DEF x
  <2>6. b * x >= b * c
    BY <1>1, <2>5
  <2>7. b * x \in Nat /\ b * c \in Nat
    BY <1>1, <2>5
  <2>8. b * x >= a.last
    BY <1>1, <2>6, <2>7
  <2> QED BY <1>1, <1>2, <2>2, <2>5, <2>7, <2>8
<1>7. ASSUME el # L PROVE Connected(a, sram, el, q[el]) = {}
  <2>1. el = L - 1 /\ pos >= c
    BY <1>1, <1>2, <1>7
  <2>2. b * pos >= b * c /\ b * pos = pos * b /\ b * pos \in Nat /\ b * c \in Nat
    BY <1>1, <1>2, <2>1
  <2>3. pos * b >= a.last
    BY <1>1, <2>2
  <2>4. Wires(a, el + 1) = a.last
    <3>1. el + 1 = a.level /\ el + 1 \in 0..a.level
      BY <1>1, <2>1 DEF L
    <3> QED BY <3>1, WiresAre
  <2>5. pos * a.basis >= Wires(a, el + 1)
    BY <2>3, <2>4 DEF b
  <2>6. Connected(a, sram, el, pos) = {}
    BY <2>5 DEF Connected
  <2> QED BY <1>3, <2>6
<1> QED
  <2>1. a.level \in Nat /\ a.basis \in Nat /\ el \in 0..a.level
    BY <1>1, <1>2 DEF L, b
  <2>2. \A k \in 0..(a.n - 1) : InputAt(a, k) = <<el, q[el]>> <=> k = i
    BY <1>5 DEF F
  <2>3. \A l \in 0..(el - 1) : \A k \in 0..(a.n - 1) : InputAt(a, k) # <<l, q[l]>>
    BY <1>6 DEF F
  <2>4. el # a.level => Connected(a, sram, el, q[el]) = {}
    BY <1>7 DEF L
  <2>5. IsWay(a, sram, i, el, q)
    BY <1>1, <1>3, <1>4, <2>1, <2>2, <2>3, <2>4 DEF IsWay
  <2> QED BY <2>5, PathPasses

---------------------------------------------------------------------------
(* Steering: the bits that connect the way of an input.                    *)

LEMMA OneHotSelects ==
  ASSUME NEW q \in Nat, NEW nb \in Nat, nb # 1, NEW mem, NEW j \in 0..(nb - 1), j < q,
         \A k \in 0..(nb - 1) : mem[k] = 1 <=> k = j
  PROVE  Selected(q, nb, mem) = {j}
<1> DEFINE on == {k \in 0..(nb - 1) : mem[k] = 1}
<1>1. on = {j}
  OBVIOUS
<1>2. Cardinality(on) = 1 /\ on \subseteq 0..(q - 1)
  <2>1. {j} \subseteq 0..(q - 1)
    OBVIOUS
  <2>2. Cardinality({j}) = 1
    BY FS_Singleton
  <2> HIDE DEF on
  <2> QED BY <1>1, <2>1, <2>2
<1>3. Selected(q, nb, mem) = on
  BY <1>2 DEF Selected
<1> QED BY <1>1, <1>3

\* The basis multiplexer of level l with q inputs and nb bits selects
\* its input d.
Selects(a, sram, l, q, nb, d) ==
  Selected(q, nb, [k \in 0..(nb - 1) |-> sram[FirstBit(a, l) + k]]) = {d}

\* A whole or special basis multiplexer on the way that selects the right
\* input connects it.
LEMMA Steered ==
  ASSUME NEW a, NEW sram, LaidOut(a), NEW i \in 0..(a.n - 1), NEW l \in 0..(InputAt(a, i)[1] - 1),
         LET whole == OnWay(a, i, l) * a.basis + a.basis <= Wires(a, l + 1)
             q == IF whole THEN a.basis ELSE SpecialBasis(a)
         IN q # 0 /\ Selects(a, sram, l, q, BasisBits(a.structure, q, ~whole), OnWay(a, i, l + 1) % a.basis)
  PROVE  Connected(a, sram, l, OnWay(a, i, l)) = {OnWay(a, i, l + 1)}
<1> DEFINE whole == OnWay(a, i, l) * a.basis + a.basis <= Wires(a, l + 1)
           q == IF whole THEN a.basis ELSE SpecialBasis(a)
           nb == BasisBits(a.structure, q, ~whole)
           w == OnWay(a, i, l)
           x == OnWay(a, i, l + 1)
           b == a.basis
           d == x % b
           chosen == Selected(q, nb, [k \in 0..(nb - 1) |-> sram[FirstBit(a, l) + k]])
<1>1. l \in 0..InputAt(a, i)[1] /\ l + 1 \in 0..InputAt(a, i)[1]
  <2>1. InputAt(a, i)[1] \in Nat
    BY TiedAt DEF LaidOut
  <2> QED BY <2>1
<1>2. w \in Nat /\ x \in Nat /\ x = b * w + d /\ d \in 0..(b - 1) /\ b \in Nat
  BY <1>1, WaySteps DEF LaidOut
<1>3. x < Wires(a, l + 1)
  BY <1>1, WayInside
<1>4. Wires(a, l + 1) \in Nat
  <2>1. l + 1 \in 0..a.level
    BY <1>1, TiedAt DEF LaidOut
  <2>2. \A k \in Nat : Power(b)[k] \in Nat \ {0}
    <3>1. b \in Nat /\ b >= 1
      BY DEF LaidOut
    <3> HIDE DEF b
    <3> QED BY <3>1, PowersOf
  <2> QED BY <1>1, <2>1, <2>2, WiresAre DEF LaidOut
<1>5. Connected(a, sram, l, w) = IF w * b >= Wires(a, l + 1) \/ q = 0 THEN {} ELSE {w * b + k : k \in chosen}
  BY DEF Connected
<1>6. chosen = {d} /\ q # 0
  BY DEF Selects
<1> HIDE DEF w, x, d, b, chosen, q, nb
<1>7. w * b = b * w /\ w * b \in Nat
  BY <1>2
<1>8. ~(w * b >= Wires(a, l + 1))
  BY <1>2, <1>3, <1>4, <1>7
<1>9. Connected(a, sram, l, w) = {w * b + d}
  BY <1>5, <1>6, <1>8
<1>10. w * b + d = x
  BY <1>2, <1>7
<1> QED BY <1>9, <1>10 DEF w, x

\* Above the deepest level every basis multiplexer is whole.
LEMMA FitsAbove ==
  ASSUME NEW a, LaidOut(a), NEW i \in 0..(a.n - 1), NEW l \in 0..(InputAt(a, i)[1] - 1),
         l + 1 # a.level
  PROVE  OnWay(a, i, l) * a.basis + a.basis <= Wires(a, l + 1)
<1> DEFINE w == OnWay(a, i, l)
           b == a.basis
           p == Power(b)[l]
<1>1. InputAt(a, i)[1] \in 0..a.level /\ a.level \in Nat /\ b \in Nat /\ b >= 1
  BY TiedAt DEF LaidOut
<1>2. /\ l \in Nat /\ l \in 0..InputAt(a, i)[1]
      /\ l \in 0..a.level /\ l # a.level /\ l + 1 \in 0..a.level
  BY <1>1
<1>3. w \in Nat /\ w < p
  BY <1>2, WaySteps, WayInside, WiresAre
<1>4. p \in Nat /\ Wires(a, l + 1) = b * p
  BY <1>1, <1>2, WiresAre, PowersOf
<1> HIDE DEF w, b, p
<1>5. b * (w + 1) <= b * p
  BY <1>1, <1>3, <1>4
<1>6. b * (w + 1) = w * b + b
  BY <1>1, <1>3
<1>7. w * b + b <= Wires(a, l + 1)
  BY <1>4, <1>5, <1>6
<1> QED BY <1>7 DEF w, b

\* So is every one of a tree: its deepest level has an even number of wires.
LEMMA FitsTree ==
  ASSUME NEW a, LaidOut(a), a.basis = 2, NEW h \in Nat, a.last = 2 * h,
         NEW i \in 0..(a.n - 1), NEW l \in 0..(InputAt(a, i)[1] - 1)
  PROVE  OnWay(a, i, l) * 2 + 2 <= Wires(a, l + 1)
<1>1. CASE l + 1 # a.level
  BY <1>1, FitsAbove
<1>2. CASE l + 1 = a.level
  <2>1. InputAt(a, i)[1] \in 0..a.level /\ a.level \in Nat
    BY TiedAt DEF LaidOut
  <2>2. l + 1 \in 0..InputAt(a, i)[1] /\ l \in 0..InputAt(a, i)[1] /\ l + 1 \in 0..a.level
    BY <2>1
  <2>3. Wires(a, l + 1) = 2 * h
    BY <1>2, <2>2, WiresAre
  <2>4. OnWay(a, i, l + 1) < 2 * h
    BY <2>2, <2>3, WayInside
  <2> DEFINE w == OnWay(a, i, l)
             x == OnWay(a, i, l + 1)
  <2>5. w \in Nat /\ x \in Nat /\ x = a.basis * w + (x % a.basis) /\ x % a.basis \in 0..(a.basis - 1)
    BY <2>2, WaySteps
  <2> HIDE DEF w, x
  <2>6. 2 * w < 2 * h
    BY <2>4, <2>5 DEF x
  <2>7. w * 2 + 2 <= 2 * h
    BY <2>5, <2>6
  <2> QED BY <2>3, <2>7 DEF w
<1> QED BY <1>1, <1>2

\* In a tree the bit of each level says which half the way goes to.
LEMMA TreePasses ==
  ASSUME NEW a, NEW sram, LaidOut(a), a.structure = Tree, a.basis = 2, NEW h \in Nat, a.last = 2 * h,
         NEW i \in 0..(a.n - 1),
         \A l \in 0..(InputAt(a, i)[1] - 1) :
           sram[a.level - (l + 1)] = 1 <=> OnWay(a, i, l + 1) % 2 = 0
  PROVE  Network(a, sram) = i
<1> SUFFICES ASSUME NEW l \in 0..(InputAt(a, i)[1] - 1)
             PROVE  Connected(a, sram, l, OnWay(a, i, l)) = {OnWay(a, i, l + 1)}
  BY InputPasses
<1> DEFINE mem == [k \in 0..(1 - 1) |-> sram[FirstBit(a, l) + k]]
           d == OnWay(a, i, l + 1) % 2
<1>1. InputAt(a, i)[1] \in 0..a.level /\ a.level \in Nat
  BY TiedAt DEF LaidOut
<1>2. FirstBit(a, l) = a.level - (l + 1)
  BY DEF FirstBit, Tree, OneLevel, MultiLevel
<1>3. mem[0] = sram[a.level - (l + 1)]
  <2>1. mem[0] = sram[FirstBit(a, l) + 0] /\ a.level - (l + 1) + 0 = a.level - (l + 1)
    BY <1>1
  <2> QED BY <1>2, <2>1
<1>4. d \in 0..1
  <2>1. OnWay(a, i, l + 1) % a.basis \in 0..(a.basis - 1)
    BY WaySteps
  <2> QED BY <2>1
<1>5. mem[0] = 1 <=> d = 0
  BY <1>3
<1>6. Selected(2, 1, mem) = {d}
  <2>1. Selected(2, 1, mem) = {IF mem[0] = 1 THEN 0 ELSE 1}
    BY DEF Selected
  <2> HIDE DEF mem, d
  <2> QED BY <1>4, <1>5, <2>1
<1>7. OnWay(a, i, l) * a.basis + a.basis <= Wires(a, l + 1)
  BY FitsTree
<1>8. Selects(a, sram, l, 2, 1, OnWay(a, i, l + 1) % a.basis)
  BY <1>6 DEF Selects
<1> HIDE DEF mem, d
<1> DEFINE whole == OnWay(a, i, l) * a.basis + a.basis <= Wires(a, l + 1)
           q == IF whole THEN a.basis ELSE SpecialBasis(a)
<1>9. q = 2 /\ q # 0 /\ ~whole = FALSE
  BY <1>7
<1>10. Selects(a, sram, l, q, BasisBits(a.structure, q, ~whole), OnWay(a, i, l + 1) % a.basis)
  <2>1. BasisBits(a.structure, q, ~whole) = 1
    BY <1>7 DEF BasisBits
  <2> HIDE DEF q, whole
  <2> QED BY <1>8, <1>9, <2>1
<1> QED BY <1>9, <1>10, Steered

---------------------------------------------------------------------------
(* Trees. *)

LEMMA TreeLevelFacts ==
  ASSUME NEW n \in Nat, n >= 2
  PROVE  /\ TreeLevel(n) \in Nat \ {0}
         /\ Power(2)[TreeLevel(n)] >= n
         /\ Power(2)[TreeLevel(n) - 1] < n
<1> DEFINE S == {l \in 1..n : Power(2)[l] >= n}
           L == Least(S)
<1>1. \A w \in Nat : Power(2)[w] \in Nat /\ Power(2)[w] > w
  BY PowerFacts DEF PowerOf2
<1>2. n \in S /\ S \subseteq Nat
  BY <1>1
<1>3. L \in S /\ \A k \in S : L <= k
  <2> HIDE DEF S
  <2> QED BY <1>2, LeastFacts
<1>4. TreeLevel(n) = L
  BY DEF TreeLevel
<1> HIDE DEF L
<1>5. L \in 1..n /\ Power(2)[L] >= n
  BY <1>3
<1>6. Power(2)[L - 1] < n
  <2>1. CASE L = 1
    <3>1. L - 1 = 0 /\ Power(2)[0] = 1
      BY <2>1, PowerFacts DEF PowerOf2
    <3> QED BY <3>1
  <2>2. CASE L # 1
    <3>1. L - 1 \in 1..n /\ ~(L - 1 \in S)
      BY <1>3, <1>5, <2>2
    <3>2. Power(2)[L - 1] \in Nat
      BY <1>1, <3>1
    <3> QED BY <3>1, <3>2
  <2> QED BY <2>1, <2>2
<1> QED BY <1>4, <1>5, <1>6

\* The layout of a tree of n inputs.
IsTree(a, L, n) ==
  /\ a.structure = Tree /\ a.level = L /\ a.basis = 2 /\ a.n = n /\ a.last = TreeLast(L, n)
  /\ n \in Nat /\ n >= 2 /\ L \in Nat \ {0}
  /\ Power(2)[L] >= n /\ Power(2)[L - 1] < n

LEMMA TreeLaidOut ==
  ASSUME NEW a, NEW L, NEW n, IsTree(a, L, n)
  PROVE  /\ LaidOut(a)
         /\ \E h \in Nat : a.last = 2 * h /\ CeilDiv(a.last, 2) = h /\ a.last \div 2 = h
         /\ CeilDiv(a.last, 2) + (n - a.last) = Power(2)[L - 1]
<1> DEFINE p == Power(2)[L - 1]
           t == a.last
<1>1. n \in Nat /\ n >= 2 /\ L \in Nat \ {0} /\ p \in Nat \ {0} /\ p < n /\ Power(2)[L] = 2 * p /\ 2 * p >= n
  <2>1. L - 1 \in Nat /\ (L - 1) + 1 = L
    BY DEF IsTree
  <2>2. Power(2)[L - 1] \in Nat \ {0} /\ Power(2)[(L - 1) + 1] = 2 * Power(2)[L - 1]
    BY <2>1, PowersOf
  <2> QED BY <2>1, <2>2 DEF IsTree
<1>2. t = IF 2 * p > n THEN 2 * (n - p) ELSE n
  BY <1>1 DEF IsTree, TreeLast
<1> HIDE DEF p, t
<1>3. PICK h \in Nat : t = 2 * h /\ h >= 1 /\ h + (n - t) = p /\ t <= n
  <2>1. CASE 2 * p > n
    <3>1. n - p \in Nat /\ t = 2 * (n - p) /\ n - p >= 1 /\ (n - p) + (n - t) = p /\ t <= n
      BY <1>1, <1>2, <2>1
    <3> QED BY <3>1
  <2>2. CASE ~(2 * p > n)
    <3>1. t = 2 * p /\ p >= 1 /\ p + (n - t) = p /\ t <= n
      BY <1>1, <1>2, <2>2
    <3> QED BY <1>1, <3>1
  <2> QED BY <2>1, <2>2
<1>4. CeilDiv(t, 2) = h
  BY <1>3 DEF CeilDiv
<1>5. t \div 2 = h
  BY <1>3
<1>6. LaidOut(a)
  BY <1>1, <1>3, <1>4 DEF LaidOut, IsTree, p, t
<1> QED BY <1>1, <1>3, <1>4, <1>5, <1>6 DEF p, t

\* What the decoder of a tree computes is what steers its input, although it
\* believes the first input of the second group to be one of the first.
LEMMA TreeDecoded ==
  ASSUME NEW a, NEW L, NEW n, IsTree(a, L, n), NEW path \in 0..(n - 1), NEW sram,
         \A k \in 0..(L - 1) : sram[k] = DecodeTree(L, n, path)[k]
  PROVE  Network(a, sram) = path
<1> DEFINE t == a.last
           el == InputAt(a, path)[1]
           pos == InputAt(a, path)[2]
           e == Entry(L, 2, n, path, ~(t < n /\ path > t))
<1>1. LaidOut(a) /\ CeilDiv(t, 2) + (n - t) = Power(2)[L - 1]
  BY TreeLaidOut
<1>2. PICK h \in Nat : t = 2 * h /\ CeilDiv(t, 2) = h /\ t \div 2 = h
  BY TreeLaidOut
<1>3. n \in Nat /\ L \in Nat \ {0} /\ path \in 0..(a.n - 1) /\ a.n = n /\ t \in 1..n /\ a.level = L
  BY <1>1 DEF IsTree, LaidOut
<1>4. \A w \in Nat : Power(2)[w] \in Nat \ {0} /\ Power(2)[w + 1] = 2 * Power(2)[w]
  BY PowersOf
<1>5. el \in 0..L /\ pos \in Nat
  BY <1>1, <1>3, TiedAt
<1>6. IF path < t THEN el = L /\ pos = path ELSE el = L - 1 /\ pos = h + (path - t)
  BY <1>1, <1>2, <1>3, TiedAt DEF IsTree
<1>7. ASSUME NEW l \in 0..(el - 1)
      PROVE  /\ L - (l + 1) >= L - e.level
             /\ e.pos \div Power(2)[L - (l + 1) + e.level - L] = pos \div Power(2)[el - (l + 1)]
  <2> HIDE DEF t, el, pos
  <2>1. l \in Nat /\ el - (l + 1) \in Nat
    BY <1>5
  <2>2. CASE path < t
    <3>1. e.level = L /\ e.pos = path /\ el = L /\ pos = path
      BY <1>3, <1>6, <2>2 DEF Entry
    <3> HIDE DEF e
    <3>2. L - (l + 1) + e.level - L = el - (l + 1) /\ L - (l + 1) >= L - e.level
      BY <1>3, <2>1, <3>1
    <3> QED BY <3>1, <3>2
  <2>3. CASE path > t
    <3>1. e.level = L - 1 /\ e.pos = Power(2)[L - 1] - (n - path) /\ el = L - 1 /\ pos = h + (path - t)
      BY <1>3, <1>6, <2>3 DEF Entry
    <3> HIDE DEF e
    <3>2. e.pos = pos
      <4>1. Power(2)[L - 1] \in Nat
        BY <1>3, <1>4
      <4> QED BY <1>1, <1>2, <1>3, <3>1, <4>1 DEF t
    <3>3. L - (l + 1) + e.level - L = el - (l + 1) /\ L - (l + 1) >= L - e.level
      BY <1>3, <2>1, <3>1
    <3> QED BY <3>2, <3>3
  <2>4. CASE path = t
    <3>1. e.level = L /\ e.pos = t /\ el = L - 1 /\ pos = h
      BY <1>2, <1>3, <1>6, <2>4 DEF Entry
    <3> HIDE DEF e
    <3> DEFINE w == el - (l + 1)
               p == Power(2)[w]
    <3>2. L - (l + 1) + e.level - L = w + 1 /\ L - (l + 1) >= L - e.level
      BY <1>3, <2>1, <3>1
    <3>3. w \in Nat /\ p \in Nat \ {0} /\ Power(2)[w + 1] = p * 2
      BY <1>4, <2>1
    <3>4. t \in Nat
      BY <1>3
    <3> HIDE DEF w, p
    <3>5. t \div (p * 2) = (t \div 2) \div p
      <4> DEFINE two == 2
      <4>1. two \in Nat \ {0}
        OBVIOUS
      <4> HIDE DEF two
      <4>2. t \div (p * two) = (t \div two) \div p
        BY <3>3, <3>4, <4>1, DivDiv
      <4> QED BY <4>2 DEF two
    <3>6. t \div Power(2)[w + 1] = h \div p
      BY <1>2, <3>3, <3>5 DEF t
    <3> QED BY <3>1, <3>2, <3>6 DEF w, p
  <2> QED BY <1>3, <2>2, <2>3, <2>4
<1>8. ASSUME NEW l \in 0..(el - 1)
      PROVE  sram[a.level - (l + 1)] = 1 <=> OnWay(a, path, l + 1) % 2 = 0
  <2> DEFINE k == L - (l + 1)
             up(i) == (e.pos \div Power(2)[i + e.level - L]) % 2 = 0
  <2>1. k \in 0..(L - 1)
    BY <1>3, <1>5
  <2>2. DecodeTree(L, n, path) = [i \in 0..(L - 1) |-> IF i >= L - e.level /\ up(i) THEN 1 ELSE 0]
    BY DEF DecodeTree, IsTree
  <2>3. k >= L - e.level /\ (up(k) <=> (pos \div Power(2)[el - (l + 1)]) % 2 = 0)
    BY <1>7
  <2>4. OnWay(a, path, l + 1) = pos \div Power(2)[el - (l + 1)]
    BY DEF OnWay, IsTree
  <2> HIDE DEF e, up, k, el, pos
  <2>5. sram[k] = IF k >= L - e.level /\ up(k) THEN 1 ELSE 0
    BY <2>1, <2>2
  <2>6. sram[k] = 1 <=> OnWay(a, path, l + 1) % 2 = 0
    BY <2>3, <2>4, <2>5
  <2> QED BY <1>3, <2>6 DEF k
<1>9. a.structure = Tree /\ a.basis = 2
  BY DEF IsTree
<1> QED BY <1>1, <1>2, <1>3, <1>8, <1>9, TreePasses

---------------------------------------------------------------------------
(* One level. *)

\* A network of a single basis multiplexer.
IsFlat(a, n) ==
  /\ a.structure \in {OneLevel, MultiLevel} /\ a.level = 1 /\ a.basis = n /\ a.n = n /\ a.last = n
  /\ n \in Nat /\ n >= 2

LEMMA FlatPasses ==
  ASSUME NEW a, NEW n, IsFlat(a, n), NEW path \in 0..(n - 1), NEW sram,
         IF a.structure = OneLevel /\ n = 2 THEN sram[0] = 1 <=> path = 0
         ELSE \A k \in 0..(n - 1) : sram[k] = 1 <=> k = path
  PROVE  Network(a, sram) = path
<1>1. n \in Nat /\ n >= 2 /\ a.n = n /\ a.basis = n /\ a.level = 1 /\ a.last = n
  BY DEF IsFlat
<1>2. Power(n)[1] = n
  <2>1. Power(n)[0 + 1] = n * Power(n)[0] /\ Power(n)[0] = 1
    BY <1>1, PowersOf
  <2> QED BY <1>1, <2>1
<1>3. LaidOut(a)
  BY <1>1, <1>2 DEF LaidOut
<1>4. path \in 0..(a.n - 1) /\ InputAt(a, path) = <<1, path>>
  <2>1. path < a.last
    BY <1>1
  <2> QED BY <1>1, <2>1 DEF InputAt
<1>5. InputAt(a, path)[1] = 1 /\ InputAt(a, path)[2] = path
  BY <1>4
<1>6. OnWay(a, path, 0) = 0 /\ OnWay(a, path, 1) = path
  BY <1>3, <1>4, <1>5, WaySteps
<1>7. path % n = path
  BY <1>1
<1>8. Wires(a, 1) = n
  BY <1>1, <1>3, WiresAre
<1>9. FirstBit(a, 0) = 0
  BY <1>1 DEF FirstBit, IsFlat, Tree, OneLevel, MultiLevel
<1>10. OnWay(a, path, 0) * a.basis + a.basis <= Wires(a, 0 + 1)
  BY <1>1, <1>6, <1>8
<1> DEFINE nb == BasisBits(a.structure, n, FALSE)
<1>11. nb = IF a.structure = OneLevel /\ n = 2 THEN 1 ELSE n
  BY DEF BasisBits, IsFlat, Tree, OneLevel, MultiLevel
<1>12. Selects(a, sram, 0, n, nb, path)
  <2> DEFINE mem == [k \in 0..(nb - 1) |-> sram[FirstBit(a, 0) + k]]
  <2>1. CASE a.structure = OneLevel /\ n = 2
    <3>1. nb = 1
      BY <1>11, <2>1
    <3>2. mem[0] = sram[0]
      <4> HIDE DEF nb
      <4>1. 0 \in 0..(nb - 1)
        BY <3>1
      <4>2. mem[0] = sram[FirstBit(a, 0) + 0]
        BY <4>1
      <4> HIDE DEF mem
      <4> QED BY <1>9, <4>2
    <3>3. Selected(n, nb, mem) = {IF mem[0] = 1 THEN 0 ELSE 1}
      BY <3>1 DEF Selected
    <3>4. path \in 0..1 /\ (sram[0] = 1 <=> path = 0)
      BY <2>1
    <3> HIDE DEF mem, nb
    <3>5. Selected(n, nb, mem) = {path}
      BY <3>2, <3>3, <3>4
    <3> QED BY <3>5 DEF Selects, mem
  <2>2. CASE ~(a.structure = OneLevel /\ n = 2)
    <3>1. nb = n
      BY <1>11, <2>2
    <3> HIDE DEF nb
    <3>2. \A k \in 0..(nb - 1) : mem[k] = 1 <=> k = path
      BY <1>1, <1>9, <2>2, <3>1
    <3> HIDE DEF mem
    <3>3. Selected(n, nb, mem) = {path}
      BY <1>1, <3>1, <3>2, OneHotSelects
    <3> QED BY <3>3 DEF Selects, mem
  <2> QED BY <2>1, <2>2
<1> DEFINE whole == OnWay(a, path, 0) * a.basis + a.basis <= Wires(a, 0 + 1)
           q == IF whole THEN a.basis ELSE SpecialBasis(a)
<1>13. q = n /\ q # 0 /\ BasisBits(a.structure, q, ~whole) = nb
  BY <1>1, <1>10 DEF BasisBits
<1>14. Selects(a, sram, 0, q, BasisBits(a.structure, q, ~whole), OnWay(a, path, 0 + 1) % a.basis)
  <2>1. OnWay(a, path, 0 + 1) % a.basis = path
    BY <1>1, <1>6, <1>7
  <2> HIDE DEF q, whole, nb
  <2> QED BY <1>12, <1>13, <2>1
<1>15. Connected(a, sram, 0, OnWay(a, path, 0)) = {OnWay(a, path, 0 + 1)}
  <2>1. 0 \in 0..(InputAt(a, path)[1] - 1)
    BY <1>5
  <2> QED BY <1>3, <1>4, <1>13, <1>14, <2>1, Steered
<1>16. \A l \in 0..(InputAt(a, path)[1] - 1) : l = 0
  BY <1>5
<1> QED BY <1>3, <1>4, <1>15, <1>16, InputPasses

---------------------------------------------------------------------------
(* Several levels. *)

LEMMA BasisFacts ==
  ASSUME NEW n \in Nat, n > 2, NEW L \in Nat \ {0}
  PROVE  /\ Basis(n, L) \in 2..n
         /\ Power(Basis(n, L))[L] >= n
         /\ L # 1 => \A b \in 2..n : Power(b)[L] >= n => Basis(n, L) <= b
<1>1. Power(n)[L] >= n
  <2> DEFINE p == Power(n)[L - 1]
  <2>1. L - 1 \in Nat /\ (L - 1) + 1 = L
    OBVIOUS
  <2>2. p \in Nat \ {0} /\ Power(n)[L] = n * p
    BY <2>1, PowersOf
  <2> HIDE DEF p
  <2>3. n * p >= n * 1
    BY <2>2
  <2> QED BY <2>2, <2>3
<1>2. CASE L = 1
  BY <1>1, <1>2 DEF Basis
<1>3. CASE L # 1
  <2> DEFINE S == {b \in 2..n : Power(b)[L] >= n}
  <2>1. n \in S /\ S \subseteq Nat
    BY <1>1
  <2>2. Basis(n, L) = Least(S)
    BY <1>3 DEF Basis
  <2>3. Least(S) \in S /\ \A k \in S : Least(S) <= k
    <3> HIDE DEF S
    <3> QED BY <2>1, LeastFacts
  <2> QED BY <2>2, <2>3
<1> QED BY <1>2, <1>3

\* The inputs of the deepest level: as many whole basis multiplexers as n
\* fills, and fewer than a basis more.
LEMMA MultiLastFacts ==
  ASSUME NEW n \in Nat, n > 2, NEW L \in Nat \ {0}, NEW b \in 2..n, LayoutHolds(L, b, n)
  PROVE  /\ MultiLast(L, b, n) \in 1..n
         /\ n \div b \in Nat /\ n % b \in Nat /\ b * (n \div b) \in Nat
         /\ n - (n % b) = b * (n \div b)
         /\ MultiLast(L, b, n) - b * (n \div b) \in 0..(b - 1)
<1> DEFINE whole == n \div b
           rest == n % b
           p == Power(b)[L - 1]
           room == p - whole
<1>1. whole \in Nat /\ rest \in 0..(b - 1) /\ n = b * whole + rest /\ b * whole \in Nat
  BY DivisionFacts
<1>2. whole >= 1
  <2>1. CASE whole = 0
    BY <1>1, <2>1
  <2> QED BY <1>1, <2>1
<1>3. p \in Nat
  <2>1. L - 1 \in Nat
    OBVIOUS
  <2> QED BY <2>1, PowersOf
<1>4. MultiLast(L, b, n) = IF rest = 0 THEN n
                           ELSE (IF rest = room THEN 0 ELSE IF room = 1 THEN rest ELSE rest - 1) + whole * b
  BY DEF MultiLast
<1> HIDE DEF whole, rest, p
<1>5. whole * b = b * whole /\ b * whole >= 1
  <2>1. b * whole >= b * 1
    BY <1>1, <1>2
  <2> QED BY <1>1, <2>1
<1> DEFINE t == MultiLast(L, b, n)
           bw == b * whole
<1>6. t = IF rest = 0 THEN n ELSE (IF rest = room THEN 0 ELSE IF room = 1 THEN rest ELSE rest - 1) + bw
  BY <1>4, <1>5
<1>7. bw \in Nat /\ bw >= 1 /\ n = bw + rest /\ rest \in 0..(b - 1) /\ b \in Nat
  BY <1>1, <1>5
<1> HIDE DEF t, bw, room
<1>8. t \in 1..n /\ t - bw \in 0..(b - 1) /\ n - rest = bw
  BY <1>6, <1>7
<1> QED BY <1>1, <1>8 DEF t, bw, whole, rest

\* The layout of several levels.  Where it ties inputs to the level above the
\* deepest one, they fill it: the decoder counts on that.
IsMulti(a, L, n) ==
  /\ a.structure = MultiLevel /\ a.level = L /\ a.basis = Basis(n, L) /\ a.n = n
  /\ a.last = MultiLast(L, a.basis, n)
  /\ n \in Nat /\ n > 2 /\ L \in Nat \ {0}
  /\ LayoutHolds(L, a.basis, n)
  /\ a.last < n => CeilDiv(a.last, a.basis) + (n - a.last) = Power(a.basis)[L - 1]

LEMMA MultiLaidOut ==
  ASSUME NEW a, NEW L, NEW n, IsMulti(a, L, n)
  PROVE  LaidOut(a)
<1> DEFINE b == a.basis
           p == Power(b)[L - 1]
           c == CeilDiv(a.last, b)
<1>1. b \in 2..n /\ Power(b)[L] >= n /\ n \in Nat /\ L \in Nat \ {0}
  BY BasisFacts DEF IsMulti
<1>2. a.last \in 1..n
  BY <1>1, MultiLastFacts DEF IsMulti
<1>3. a.last < n => c + (n - a.last) = p
  BY DEF IsMulti
<1>4. p \in Nat /\ Power(b)[L] \in Nat
  <2>1. L - 1 \in Nat /\ L \in Nat /\ b \in Nat /\ b >= 1
    BY <1>1
  <2> HIDE DEF b
  <2> QED BY <2>1, PowersOf
<1> HIDE DEF c, p
<1>5. a.last < n => c + (n - a.last) <= p
  BY <1>3, <1>4
<1>6. a.last <= Power(b)[L]
  BY <1>1, <1>2, <1>4
<1> QED BY <1>1, <1>2, <1>5, <1>6 DEF LaidOut, IsMulti, c, p

\* The special basis multiplexer takes the inputs behind the whole ones.
LEMMA SpecialIs ==
  ASSUME NEW a, NEW L, NEW n, IsMulti(a, L, n)
  PROVE  SpecialBasis(a) = a.last - a.basis * (n \div a.basis)
<1> DEFINE b == a.basis
           f == b * (n \div b)
           t == a.last
           S == {i \in (n - (n % b))..(n - 1) : InputAt(a, i)[1] = a.level}
<1>1. b \in 2..n /\ n \in Nat /\ L \in Nat \ {0}
  BY BasisFacts DEF IsMulti
<1>2. t \in 1..n /\ f \in Nat /\ n - (n % b) = f /\ t - f \in 0..(b - 1)
  <2>1. n > 2 /\ LayoutHolds(L, b, n) /\ t = MultiLast(L, b, n)
    BY DEF IsMulti
  <2> HIDE DEF b, t
  <2> QED BY <1>1, <2>1, MultiLastFacts
<1>3. S = f..(t - 1)
  <2>1. LaidOut(a)
    BY MultiLaidOut
  <2>2. \A i \in 0..(n - 1) : InputAt(a, i)[1] = IF i < t THEN L ELSE L - 1
    <3> SUFFICES ASSUME NEW i \in 0..(n - 1) PROVE InputAt(a, i)[1] = IF i < t THEN L ELSE L - 1
      OBVIOUS
    <3>1. i \in 0..(a.n - 1)
      BY DEF IsMulti
    <3> QED BY <2>1, <3>1, TiedAt DEF IsMulti
  <2>3. a.level = L /\ L # L - 1
    BY <1>1 DEF IsMulti
  <2> HIDE DEF f, t, b
  <2> QED BY <1>1, <1>2, <2>2, <2>3
<1>4. Cardinality(S) = t - f
  <2> HIDE DEF S, t, f
  <2>1. f \in Int /\ t - 1 \in Int
    BY <1>2
  <2>2. Cardinality(f..(t - 1)) = IF f > t - 1 THEN 0 ELSE (t - 1) - f + 1
    BY <2>1, FS_Interval
  <2> QED BY <1>2, <1>3, <2>2
<1>5. SpecialBasis(a) = Cardinality(S)
  BY DEF SpecialBasis, IsMulti
<1> QED BY <1>4, <1>5

\* What the decoder computes for several levels steers its input.
LEMMA MultiDecoded ==
  ASSUME NEW a, NEW L, NEW n, IsMulti(a, L, n), NEW path \in 0..(n - 1), NEW sram,
         \A k \in 0..(a.basis * L - 1) : sram[k] = DecodeMulti(L, n, path)[k]
  PROVE  Network(a, sram) = path
<1> DEFINE t == a.last
           b == a.basis
           el == InputAt(a, path)[1]
           pos == InputAt(a, path)[2]
           f == b * (n \div b)
           e == Entry(L, b, n, path, ~(t < n /\ path > t - 1))
<1>1. LaidOut(a)
  BY MultiLaidOut
<1>2. b \in 2..n /\ n \in Nat /\ L \in Nat \ {0} /\ a.level = L /\ a.n = n /\ path \in 0..(a.n - 1)
  BY BasisFacts DEF IsMulti
<1>3. /\ t \in 1..n /\ f \in Nat /\ t - f \in 0..(b - 1)
      /\ SpecialBasis(a) = t - f
  <2>1. n > 2 /\ LayoutHolds(L, b, n) /\ t = MultiLast(L, b, n)
    BY DEF IsMulti
  <2>2. SpecialBasis(a) = t - f
    BY SpecialIs
  <2> HIDE DEF b, t
  <2>3. MultiLast(L, b, n) \in 1..n /\ f \in Nat /\ MultiLast(L, b, n) - f \in 0..(b - 1)
    BY <1>2, <2>1, MultiLastFacts
  <2> QED BY <2>1, <2>2, <2>3
<1>4. el \in 0..L /\ pos \in Nat
  BY <1>1, <1>2, TiedAt
<1>5. IF path < t THEN el = L /\ pos = path
      ELSE el = L - 1 /\ pos = CeilDiv(t, b) + (path - t)
  BY <1>1, <1>2, TiedAt
<1>6. e.level = el /\ e.pos = pos
  <2>1. t < n => CeilDiv(t, b) + (n - t) = Power(b)[L - 1]
    BY DEF IsMulti
  <2>2. CeilDiv(t, b) \in Nat
    <3>1. t \in Nat /\ b \in Nat \ {0}
      BY <1>2, <1>3
    <3> HIDE DEF t, b
    <3> QED BY <3>1, CeilFacts
  <2>3. Power(b)[L - 1] \in Nat
    <3>1. L - 1 \in Nat /\ b \in Nat /\ b >= 1
      BY <1>2
    <3> HIDE DEF b
    <3> QED BY <3>1, PowersOf
  <2>4. CASE path < t
    BY <1>2, <1>3, <1>5, <2>4 DEF Entry
  <2>5. CASE ~(path < t)
    <3>1. t < n /\ path > t - 1
      BY <1>2, <1>3, <2>5
    <3>2. e.level = L - 1 /\ e.pos = Power(b)[L - 1] - (n - path)
      BY <3>1 DEF Entry
    <3>3. el = L - 1 /\ pos = CeilDiv(t, b) + (path - t)
      BY <1>5, <2>5
    <3> HIDE DEF e, el, pos, b, t
    <3> QED BY <1>2, <1>3, <2>1, <2>2, <2>3, <3>1, <3>2, <3>3
  <2> QED BY <2>4, <2>5
<1>7. ASSUME NEW l \in 0..(el - 1), NEW r \in 0..(b - 1)
      PROVE  sram[l * b + r] = 1 <=> r = OnWay(a, path, l + 1) % b
  <2> DEFINE k == l * b + r
             digit(i) == (e.pos \div Power(b)[i + e.level - L]) % b
             set(j) == LET i == L - 1 - (j \div b) IN i >= L - e.level /\ j % b = digit(i)
  <2>1. l \in Nat /\ l + 1 <= L /\ b \in Nat \ {0}
    BY <1>2, <1>4
  <2>2. k \in 0..(b * L - 1)
    <3> HIDE DEF b
    <3>1. b * (l + 1) <= b * L /\ b * (l + 1) = l * b + b /\ b * L \in Nat /\ l * b \in Nat
      BY <1>2, <2>1
    <3> QED BY <2>1, <3>1
  <2>3. k \div b = l /\ k % b = r
    <3> HIDE DEF b
    <3>1. l * b = b * l /\ l * b \in Nat /\ k \in Nat
      BY <2>1
    <3>2. b * l <= k /\ k < b * l + b
      BY <2>1, <3>1
    <3> HIDE DEF k
    <3>3. k \div b = l
      BY <2>1, <3>1, <3>2, QuotientIs
    <3>4. k = b * l + (k % b) /\ k % b \in 0..(b - 1)
      BY <2>1, <3>1, <3>3, DivisionFacts
    <3>5. k = b * l + r
      BY <3>1 DEF k
    <3> QED BY <2>1, <3>1, <3>3, <3>4, <3>5
  <2>4. DecodeMulti(L, n, path) = [j \in 0..(b * L - 1) |-> IF set(j) THEN 1 ELSE 0]
    BY DEF DecodeMulti, IsMulti
  <2>5. sram[k] = IF set(k) THEN 1 ELSE 0
    <3> HIDE DEF set, k
    <3> QED BY <2>2, <2>4
  <2>6. OnWay(a, path, l + 1) = pos \div Power(b)[el - (l + 1)]
    BY DEF OnWay
  <2>7. set(k) <=> r = OnWay(a, path, l + 1) % b
    <3> DEFINE i == L - 1 - l
    <3>1. set(k) <=> (i >= L - e.level /\ r = digit(i))
      <4> HIDE DEF digit, e, k, b
      <4> QED BY <2>3
    <3> HIDE DEF e, el, pos, b
    <3>2. i >= L - e.level /\ i + e.level - L = el - (l + 1)
      BY <1>2, <1>4, <1>6, <2>1
    <3>3. digit(i) = (pos \div Power(b)[el - (l + 1)]) % b
      BY <1>6, <3>2
    <3> QED BY <2>6, <3>1, <3>2, <3>3
  <2> HIDE DEF set
  <2>8. sram[k] = 1 <=> r = OnWay(a, path, l + 1) % b
    BY <2>5, <2>7
  <2> QED BY <2>8
<1>8. ASSUME NEW l \in 0..(el - 1)
      PROVE  Connected(a, sram, l, OnWay(a, path, l)) = {OnWay(a, path, l + 1)}
  <2> DEFINE w == OnWay(a, path, l)
             x == OnWay(a, path, l + 1)
             d == x % b
             mem(nb) == [k \in 0..(nb - 1) |-> sram[FirstBit(a, l) + k]]
  <2>1. l \in 0..el /\ l + 1 \in 0..el /\ l \in Nat
    BY <1>4
  <2>2. w \in Nat /\ x \in Nat /\ x = b * w + d /\ d \in 0..(b - 1)
    BY <1>1, <1>2, <2>1, WaySteps
  <2>3. FirstBit(a, l) = l * b
    BY DEF FirstBit, IsMulti, Tree, OneLevel, MultiLevel
  <2>4. ASSUME NEW nb \in 1..b, d < nb PROVE Selects(a, sram, l, nb, nb, d)
    <3> HIDE DEF b, w, x, d, el
    <3>1. \A k \in 0..(nb - 1) : mem(nb)[k] = 1 <=> k = d
      <4> SUFFICES ASSUME NEW k \in 0..(nb - 1) PROVE mem(nb)[k] = 1 <=> k = d
        OBVIOUS
      <4>1. k \in 0..(b - 1)
        BY <1>2
      <4>2. sram[l * b + k] = 1 <=> k = d
        BY <1>7, <4>1 DEF d, x
      <4>3. mem(nb)[k] = sram[l * b + k]
        BY <2>3
      <4> QED BY <4>2, <4>3
    <3> DEFINE m == mem(nb)
    <3>2. \A k \in 0..(nb - 1) : m[k] = 1 <=> k = d
      BY <3>1
    <3>3. d \in 0..(nb - 1)
      BY <1>2, <2>2, <2>4
    <3> HIDE DEF m
    <3>4. Selected(nb, nb, m) = {d}
      <4>1. CASE nb = 1
        <5>1. d = 0 /\ m[0] = 1
          BY <3>2, <3>3, <4>1
        <5>2. Selected(nb, 1, m) = {IF m[0] = 1 THEN 0 ELSE 1}
          BY DEF Selected
        <5> QED BY <4>1, <5>1, <5>2
      <4>2. CASE nb # 1
        <5>1. nb \in Nat
          BY <1>2
        <5> QED BY <2>4, <3>2, <3>3, <4>2, <5>1, OneHotSelects
      <4> QED BY <4>1, <4>2
    <3> QED BY <3>4 DEF Selects, m
  <2> DEFINE whole == w * b + b <= Wires(a, l + 1)
             q == IF whole THEN b ELSE SpecialBasis(a)
  <2>5. BasisBits(a.structure, q, ~whole) = q
    BY DEF BasisBits, IsMulti, Tree, OneLevel, MultiLevel
  <2>6. q \in 1..b /\ d < q
    <3>1. CASE whole
      BY <1>2, <2>2, <3>1
    <3>2. CASE ~whole
      <4>1. l + 1 = L
        BY <1>1, <1>2, <3>2, FitsAbove
      <4>2. el = L /\ path < t /\ pos = path
        BY <1>2, <1>4, <1>5, <2>1, <4>1
      <4>3. x = path
        BY <1>1, <1>2, <4>1, <4>2, WaySteps
      <4>4. Wires(a, l + 1) = t
        BY <1>1, <1>2, <4>1, WiresAre
      <4>5. q = t - f
        BY <1>3, <3>2
      <4> DEFINE v == n \div b
      <4>6. v \in Nat
        <5>1. b \in Nat \ {0} /\ n \in Nat
          BY <1>2
        <5> HIDE DEF b
        <5> QED BY <5>1, DivisionFacts
      <4> HIDE DEF w, x, d, b, q, t, f, v, pos, el
      <4>7. ~(w * b + b <= t)
        BY <3>2, <4>4 DEF t
      <4>8. f = b * v
        BY DEF f, v
      <4>9. w * b = b * w /\ b * w \in Nat /\ b * v \in Nat
        BY <1>2, <2>2, <4>6
      <4>10. w = v
        <5>1. ~(w + 1 <= v)
          <6> SUFFICES ASSUME w + 1 <= v PROVE FALSE
            OBVIOUS
          <6>1. b * (w + 1) <= b * v /\ b * (w + 1) = b * w + b
            BY <1>2, <2>2, <4>6
          <6> QED BY <1>2, <1>3, <4>7, <4>8, <4>9, <6>1
        <5>2. ~(v + 1 <= w)
          <6> SUFFICES ASSUME v + 1 <= w PROVE FALSE
            OBVIOUS
          <6>1. b * (v + 1) <= b * w /\ b * (v + 1) = b * v + b
            BY <1>2, <2>2, <4>6
          <6> QED BY <1>2, <1>3, <2>2, <4>2, <4>3, <4>8, <4>9, <6>1
        <5> QED BY <2>2, <4>6, <5>1, <5>2
      <4>11. path = f + d /\ path < t
        BY <2>2, <4>2, <4>3, <4>8, <4>10
      <4> QED BY <1>2, <1>3, <2>2, <4>5, <4>11
    <3> QED BY <3>1, <3>2
  <2>7. Selects(a, sram, l, q, BasisBits(a.structure, q, ~whole), d)
    <3>1. Selects(a, sram, l, q, q, d)
      <4> HIDE DEF q, d, b
      <4> QED BY <2>4, <2>6
    <3> HIDE DEF q, d, whole
    <3> QED BY <2>5, <3>1
  <2>8. q # 0
    <3> HIDE DEF q
    <3> QED BY <1>2, <2>6
  <2> QED BY <1>1, <1>2, <2>7, <2>8, Steered
<1> QED BY <1>1, <1>2, <1>8, InputPasses

---------------------------------------------------------------------------
(* Multiplexers. *)

LEMMA InputOfIs ==
  ASSUME NEW e, IsCircuit(e), IsMux(e)
  PROVE  /\ Full(e.model, e.size) \in Nat /\ Full(e.model, e.size) >= 2
         /\ InputOf(e.model, e.size, e.path) \in 0..(Full(e.model, e.size) - 1)
BY DEF IsCircuit, Full, InputOf, DefaultInput, DefaultPath

\* A multiplexer that holds its bits passes its input.
LEMMA MuxPasses ==
  ASSUME NEW e, IsCircuit(e), IsMux(e), NEW sram,
         \A k \in 0..(NetlistBits(e) - 1) : sram[k] = BitsOf(e)[k],
         e.model.structure = MultiLevel => DecoderAgrees(e)
  PROVE  Passes(e.model, e.size, sram) = InputOf(e.model, e.size, e.path)
<1> DEFINE m == e.model
           n == Full(m, e.size)
           p == InputOf(m, e.size, e.path)
           a == Arch(IF n = 2 THEN [m EXCEPT !.structure = OneLevel] ELSE m, n)
           L == m.levels
<1>1. /\ m \in [structure : {Tree, OneLevel, MultiLevel}, levels : Nat \ {0}, const : BOOLEAN]
      /\ n \in Nat /\ n >= 2 /\ p \in 0..(n - 1)
      /\ m.structure = MultiLevel => n > 2 /\ LayoutHolds(L, Basis(n, L), n)
  BY InputOfIs DEF IsCircuit
<1>2. Passes(m, e.size, sram) = Network(a, sram)
  BY DEF Passes
<1>3. NetlistBits(e) = ConfBits(m, e.size) /\ BitsOf(e) = Decode(m, e.size, e.path)
  BY DEF NetlistBits, BitsOf
<1>4. m.structure = MultiLevel =>
        LET c == Arch(m, n)
        IN \A path \in c.last..(n - 1) : InputAt(c, path) = <<c.level - 1, Power(c.basis)[c.level - 1] - (n - path)>>
  BY DEF DecoderAgrees
<1>5. CASE n = 2
  <2>1. NetlistBits(e) = 1 /\ BitsOf(e) = DecodeTree(1, 2, p)
    BY <1>3, <1>5 DEF ConfBits, Decode
  <2>2. IsFlat(a, 2) /\ a.structure = OneLevel
    <3> DEFINE mm == [m EXCEPT !.structure = OneLevel]
    <3>1. mm.structure = OneLevel
      BY <1>1
    <3> HIDE DEF mm
    <3>2. a = Arch(mm, 2)
      BY <1>5 DEF mm
    <3>3. Levels(mm, 2) = 1
      BY <3>1 DEF Levels, Tree, OneLevel, MultiLevel
    <3> HIDE DEF a
    <3>4. a.structure = OneLevel /\ a.level = 1 /\ a.basis = 2 /\ a.n = 2 /\ a.last = 2
      BY <3>1, <3>2, <3>3 DEF Arch, Tree, OneLevel, MultiLevel
    <3> QED BY <3>4 DEF IsFlat
  <2>3. sram[0] = 1 <=> p = 0
    <3>1. TreeLast(1, 2) = 2
      <4>1. Power(2)[0 + 1] = 2 * Power(2)[0] /\ Power(2)[0] = 1
        BY PowersOf
      <4> QED BY <4>1 DEF TreeLast
    <3> DEFINE en == Entry(1, 2, 2, p, ~(TreeLast(1, 2) < 2 /\ p > TreeLast(1, 2)))
               up(i) == (en.pos \div Power(2)[i + en.level - 1]) % 2 = 0
    <3>2. en.level = 1 /\ en.pos = p
      BY <3>1 DEF Entry
    <3>3. DecodeTree(1, 2, p) = [i \in 0..(1 - 1) |-> IF i >= 1 - en.level /\ up(i) THEN 1 ELSE 0]
      BY DEF DecodeTree
    <3> HIDE DEF en
    <3>4. up(0) <=> p = 0
      <4>1. 0 + en.level - 1 = 0 /\ Power(2)[0] = 1
        BY <3>2, PowersOf
      <4>2. p \div 1 = p /\ p \in 0..1
        BY <1>1, <1>5
      <4> HIDE DEF p
      <4>3. up(0) <=> p % 2 = 0
        BY <3>2, <4>1, <4>2
      <4> QED BY <4>2, <4>3
    <3> HIDE DEF up, p
    <3>5. DecodeTree(1, 2, p)[0] = IF up(0) THEN 1 ELSE 0
      BY <3>2, <3>3
    <3>6. sram[0] = DecodeTree(1, 2, p)[0]
      BY <2>1
    <3> QED BY <3>4, <3>5, <3>6
  <2>4. p \in 0..(2 - 1)
    BY <1>1, <1>5
  <2> HIDE DEF a, p, m, n
  <2> QED BY <1>2, <2>2, <2>3, <2>4, FlatPasses DEF p, m
<1>6. CASE n # 2 /\ m.structure = Tree
  <2> DEFINE T == TreeLevel(n)
  <2>1. NetlistBits(e) = T /\ BitsOf(e) = DecodeTree(T, n, p)
    BY <1>3, <1>6 DEF ConfBits, Decode, Tree, OneLevel, MultiLevel
  <2>2. IsTree(a, T, n)
    <3>1. T \in Nat \ {0} /\ Power(2)[T] >= n /\ Power(2)[T - 1] < n
      BY <1>1, TreeLevelFacts
    <3> HIDE DEF T
    <3>2. Levels(m, n) = T
      BY <1>6 DEF Levels, T, Tree, OneLevel, MultiLevel
    <3>3. a.structure = Tree /\ a.level = T /\ a.basis = 2 /\ a.n = n /\ a.last = TreeLast(T, n)
      BY <1>6, <3>2 DEF Arch, Tree, OneLevel, MultiLevel
    <3> QED BY <1>1, <3>1, <3>3 DEF IsTree
  <2>3. \A k \in 0..(T - 1) : sram[k] = DecodeTree(T, n, p)[k]
    BY <2>1
  <2> HIDE DEF a, p, T, n
  <2>4. Network(a, sram) = p
    BY <1>1, <2>2, <2>3, TreeDecoded
  <2> QED BY <1>2, <2>4 DEF p, n
<1>7. CASE /\ n # 2
           /\ m.structure = OneLevel \/ (m.structure = MultiLevel /\ L = 1)
  <2>1. NetlistBits(e) = n /\ BitsOf(e) = DecodeOneLevel(n, p)
    <3>1. CASE m.structure = OneLevel
      BY <1>3, <1>7, <3>1 DEF ConfBits, Decode, Tree, OneLevel, MultiLevel
    <3>2. CASE m.structure = MultiLevel /\ L = 1
      <4>1. Basis(n, L) = n
        BY <3>2 DEF Basis
      <4>2. ConfBits(m, e.size) = Basis(n, L) * L
        BY <1>7, <3>2 DEF ConfBits, Tree, OneLevel, MultiLevel
      <4>3. Decode(m, e.size, e.path) = DecodeOneLevel(n, p)
        BY <1>7, <3>2 DEF Decode, Tree, OneLevel, MultiLevel
      <4> HIDE DEF m, n, p
      <4>4. n * 1 = n
        BY <1>1
      <4> QED BY <1>3, <3>2, <4>1, <4>2, <4>3, <4>4
    <3> QED BY <1>7, <3>1, <3>2
  <2>2. IsFlat(a, n)
    <3>1. a = Arch(m, n) /\ Levels(m, n) = 1
      BY <1>7 DEF Levels, Tree, OneLevel, MultiLevel
    <3>2. m.structure = MultiLevel => Basis(n, 1) = n /\ MultiLast(1, n, n) = n
      <4>1. n % n = 0
        <5> HIDE DEF n
        <5>1. n * 1 <= n /\ n < n * 1 + n
          BY <1>1
        <5>2. n \div n = 1
          BY <1>1, <5>1, QuotientIs
        <5>3. n = n * (n \div n) + (n % n) /\ n % n \in 0..(n - 1)
          BY <1>1, DivisionFacts
        <5> QED BY <1>1, <5>2, <5>3
      <4> QED BY <4>1 DEF Basis, MultiLast
    <3> HIDE DEF a, m, n
    <3>3. a.structure = m.structure /\ a.level = 1 /\ a.n = n
      BY <3>1 DEF Arch
    <3>4. a.basis = n /\ a.last = n
      BY <1>7, <3>1, <3>2 DEF Arch, Tree, OneLevel, MultiLevel
    <3> QED BY <1>1, <1>7, <3>3, <3>4 DEF IsFlat
  <2>3. \A k \in 0..(n - 1) : sram[k] = 1 <=> k = p
    <3> HIDE DEF n, p
    <3>1. \A k \in 0..(n - 1) : DecodeOneLevel(n, p)[k] = IF k = p THEN 1 ELSE 0
      BY DEF DecodeOneLevel
    <3> QED BY <2>1, <3>1
  <2> HIDE DEF a, p, n
  <2>4. Network(a, sram) = p
    BY <1>1, <1>7, <2>2, <2>3, FlatPasses
  <2> QED BY <1>2, <2>4 DEF p, n
<1>8. CASE n # 2 /\ m.structure = MultiLevel /\ L # 1
  <2>1. NetlistBits(e) = Basis(n, L) * L /\ BitsOf(e) = DecodeMulti(L, n, p)
    BY <1>1, <1>3, <1>8 DEF ConfBits, Decode, Tree, OneLevel, MultiLevel
  <2>2. IsMulti(a, L, n)
    <3>1. a = Arch(m, n) /\ Levels(m, n) = L
      BY <1>8 DEF Levels, Tree, OneLevel, MultiLevel
    <3> HIDE DEF a, m, n, L
    <3>2. /\ a.structure = MultiLevel /\ a.level = L /\ a.basis = Basis(n, L) /\ a.n = n
          /\ a.last = MultiLast(L, Basis(n, L), n)
      BY <1>8, <3>1 DEF Arch, Tree, OneLevel, MultiLevel
    <3>3. L \in Nat \ {0} /\ n > 2 /\ LayoutHolds(L, a.basis, n)
      BY <1>1, <1>8, <3>2 DEF L
    <3> DEFINE b == a.basis
               t == a.last
               c == CeilDiv(t, b)
               pw == Power(b)[L - 1]
    <3>4. ASSUME t < n PROVE c + (n - t) = pw
      <4>1. b \in 2..n
        BY <1>1, <3>2, <3>3, BasisFacts
      <4>2. t \in 1..n
        <5> HIDE DEF b
        <5>1. MultiLast(L, b, n) \in 1..n
          BY <1>1, <3>3, <4>1, MultiLastFacts DEF b
        <5> QED BY <3>2, <5>1 DEF b
      <4>3. n - 1 \in t..(n - 1) /\ ~(n - 1 < t)
        BY <1>1, <3>4, <4>2
      <4>4. InputAt(a, n - 1) = <<L - 1, pw - (n - (n - 1))>>
        BY <1>4, <1>8, <3>1, <3>2, <4>3
      <4>5. InputAt(a, n - 1) = <<L - 1, c + ((n - 1) - t)>>
        BY <3>2, <4>3 DEF InputAt
      <4>6. c \in Nat
        <5>1. t \in Nat /\ b \in Nat \ {0}
          BY <4>1, <4>2
        <5> HIDE DEF t, b
        <5> QED BY <5>1, CeilFacts
      <4>7. pw \in Nat
        <5>1. L - 1 \in Nat /\ b \in Nat /\ b >= 1
          BY <3>3, <4>1
        <5> HIDE DEF b
        <5> QED BY <5>1, PowersOf
      <4> HIDE DEF c, pw, t, b
      <4> QED BY <1>1, <4>2, <4>4, <4>5, <4>6, <4>7
    <3> QED BY <1>1, <3>2, <3>3, <3>4 DEF IsMulti
  <2>3. \A k \in 0..(a.basis * L - 1) : sram[k] = DecodeMulti(L, n, p)[k]
    <3>1. a.basis = Basis(n, L)
      BY <2>2 DEF IsMulti
    <3> HIDE DEF a, p, n, L
    <3> QED BY <2>1, <3>1
  <2> HIDE DEF a, p, n, L
  <2>4. Network(a, sram) = p
    BY <1>1, <2>2, <2>3, MultiDecoded
  <2> QED BY <1>2, <2>4 DEF p, n
<1>9. m.structure \in {Tree, OneLevel, MultiLevel}
  BY <1>1
<1> HIDE DEF a, n, L
<1>10. Passes(m, e.size, sram) = p
  BY <1>5, <1>6, <1>7, <1>8, <1>9
<1> QED BY <1>10

\* Two levels always agree: by the choice of the basis at most two wires of
\* the level above stay free for inputs.
LEMMA TwoLevelsAgree ==
  ASSUME NEW e, IsCircuit(e), IsMux(e), e.model.structure = MultiLevel, e.model.levels <= 2
  PROVE  DecoderAgrees(e)
<1> DEFINE m == e.model
           n == Full(m, e.size)
           L == m.levels
           a == Arch(m, n)
           b == a.basis
           t == a.last
           c == CeilDiv(t, b)
           pw == Power(b)[L - 1]
           whole == n \div b
           rest == n % b
           room == pw - whole
<1>1. m.structure = MultiLevel /\ n \in Nat /\ n > 2 /\ L \in {1, 2} /\ LayoutHolds(L, Basis(n, L), n)
  <2>1. m \in [structure : {Tree, OneLevel, MultiLevel}, levels : Nat \ {0}, const : BOOLEAN]
    BY DEF IsCircuit
  <2>2. L \in Nat \ {0} /\ L <= 2
    BY <2>1
  <2> QED BY <2>2, InputOfIs DEF IsCircuit
<1>2. a.level = L /\ b = Basis(n, L) /\ t = MultiLast(L, b, n)
  <2>1. Levels(m, n) = L
    BY <1>1 DEF Levels, Tree, OneLevel, MultiLevel
  <2> HIDE DEF m, n, L
  <2> QED BY <1>1, <2>1 DEF Arch, Tree, OneLevel, MultiLevel
<1> HIDE DEF m, L, a
<1>3. b \in 2..n /\ (L # 1 => \A x \in 2..n : Power(x)[L] >= n => b <= x)
  <2>1. L \in Nat \ {0}
    BY <1>1
  <2> HIDE DEF b, n
  <2> QED BY <1>1, <1>2, <2>1, BasisFacts
<1>4. t \in 1..n
  <2>1. L \in Nat \ {0}
    BY <1>1
  <2> HIDE DEF b, n, t
  <2> QED BY <1>1, <1>2, <1>3, <2>1, MultiLastFacts
<1> SUFFICES ASSUME NEW path \in t..(n - 1)
             PROVE  InputAt(a, path) = <<a.level - 1, pw - (n - path)>>
  BY <1>2 DEF DecoderAgrees, a, m
<1>5. t < n /\ ~(path < t) /\ path \in Nat
  <2> HIDE DEF t, n
  <2> QED BY <1>1, <1>4
<1>6. InputAt(a, path) = <<a.level - 1, c + (path - t)>>
  BY <1>5 DEF InputAt
<1>7. /\ whole \in Nat /\ rest \in 0..(b - 1) /\ n = b * whole + rest
      /\ b \in Nat \ {0}
  <2>1. b \in Nat \ {0}
    BY <1>1, <1>3
  <2> HIDE DEF b, n
  <2> QED BY <1>1, <2>1, DivisionFacts
<1>8. t = IF rest = 0 THEN n
          ELSE (IF rest = room THEN 0 ELSE IF room = 1 THEN rest ELSE rest - 1) + whole * b
  BY <1>1, <1>2 DEF MultiLast
<1>9. rest = 0 \/ (rest - room \in 0..(b - 1) /\ room >= 1)
  BY <1>1, <1>2 DEF LayoutHolds
<1> HIDE DEF whole, rest, t, b, n
<1>10. L = 2
  <2> SUFFICES ASSUME L = 1 PROVE FALSE
    BY <1>1
  <2>1. b = n
    BY <1>2 DEF Basis
  <2>2. n * 1 <= n /\ n < n * 1 + n
    BY <1>1
  <2>3. whole = 1
    BY <1>1, <2>1, <2>2, QuotientIs DEF whole
  <2>4. rest = 0
    BY <1>1, <1>7, <2>1, <2>3
  <2> QED BY <1>1, <1>5, <1>8, <2>4
<1>11. pw = b
  <2>1. L - 1 = 1 /\ b >= 1 /\ b \in Nat
    BY <1>1, <1>7, <1>10
  <2>2. Power(b)[0 + 1] = b * Power(b)[0] /\ Power(b)[0] = 1
    BY <2>1, PowersOf
  <2> QED BY <2>1, <2>2
<1>12. room <= 2
  <2> SUFFICES ASSUME whole <= b - 3 PROVE FALSE
    BY <1>7, <1>11
  <2> DEFINE x == b - 1
  <2>1. x \in 2..n /\ x \in Nat /\ x >= 1
    BY <1>1, <1>3, <1>7
  <2>2. Power(x)[2] = x * x
    <3> HIDE DEF x
    <3>1. Power(x)[0] = 1 /\ Power(x)[0 + 1] = x * Power(x)[0] /\ Power(x)[1 + 1] = x * Power(x)[1]
      BY <2>1, PowersOf
    <3> QED BY <2>1, <3>1
  <2>3. x * x < n
    <3>1. ~(b <= x)
      BY <1>7
    <3>2. x * x \in Nat
      BY <2>1
    <3> HIDE DEF x
    <3> QED BY <1>1, <1>3, <1>10, <2>1, <2>2, <3>1, <3>2
  <2>4. x * x = b * b - 2 * b + 1
    BY <1>7
  <2>5. b * whole <= b * (b - 3) /\ b * (b - 3) = b * b - 3 * b
    BY <1>7
  <2>6. b * b \in Nat /\ b * whole \in Nat /\ x * x \in Nat
    BY <1>7, <2>1
  <2> HIDE DEF x
  <2> QED BY <1>7, <2>3, <2>4, <2>5, <2>6
<1>13. whole * b = b * whole /\ b * whole \in Nat
  BY <1>7
<1> DEFINE bw == b * whole
<1>14. rest # 0 /\ room \in {1, 2} /\ room = b - whole
  BY <1>5, <1>7, <1>8, <1>9, <1>11, <1>12
<1>15. t = (IF rest = room THEN 0 ELSE IF room = 1 THEN rest ELSE rest - 1) + bw
  BY <1>8, <1>13, <1>14
<1>16. c \in Nat /\ b * c >= t /\ b * c < t + b
  <2>1. t \in Nat
    BY <1>4
  <2> QED BY <1>7, <2>1, CeilFacts
<1>17. c + (n - t) = b
  <2> HIDE DEF bw, c, room
  <2>1. bw \in Nat /\ n = bw + rest
    BY <1>7, <1>13 DEF bw
  <2>2. CASE rest = room
    <3>1. t = bw /\ n - t = room
      BY <1>7, <1>14, <1>15, <2>1, <2>2
    <3>2. c = whole
      <4>1. b * c >= b * whole /\ b * c < b * whole + b
        BY <1>16, <3>1 DEF bw
      <4>2. ~(c + 1 <= whole)
        <5> SUFFICES ASSUME c + 1 <= whole PROVE FALSE
          OBVIOUS
        <5>1. b * (c + 1) <= b * whole /\ b * (c + 1) = b * c + b /\ b * c \in Nat
          BY <1>7, <1>16
        <5> QED BY <1>7, <1>13, <4>1, <5>1
      <4>3. ~(whole + 1 <= c)
        <5> SUFFICES ASSUME whole + 1 <= c PROVE FALSE
          OBVIOUS
        <5>1. b * (whole + 1) <= b * c /\ b * (whole + 1) = b * whole + b /\ b * c \in Nat
          BY <1>7, <1>16
        <5> QED BY <1>7, <1>13, <4>1, <5>1
      <4> QED BY <1>7, <1>16, <4>2, <4>3
    <3> QED BY <1>7, <1>14, <3>1, <3>2
  <2>3. CASE rest # room
    <3>1. room = 2 /\ t = rest - 1 + bw /\ n - t = 1 /\ rest >= 2
      BY <1>5, <1>7, <1>9, <1>14, <1>15, <2>1, <2>3
    <3>2. c = whole + 1
      <4>1. b * c > b * whole /\ b * c < b * whole + b + b
        BY <1>7, <1>13, <1>16, <2>1, <3>1 DEF bw
      <4>2. ~(c <= whole)
        <5> SUFFICES ASSUME c <= whole PROVE FALSE
          OBVIOUS
        <5>1. b * c <= b * whole /\ b * c \in Nat
          BY <1>7, <1>16
        <5> QED BY <1>13, <4>1, <5>1
      <4>3. ~(whole + 2 <= c)
        <5> SUFFICES ASSUME whole + 2 <= c PROVE FALSE
          OBVIOUS
        <5>1. b * (whole + 2) <= b * c /\ b * (whole + 2) = b * whole + b + b /\ b * c \in Nat
          BY <1>7, <1>16
        <5> QED BY <1>7, <1>13, <4>1, <5>1
      <4> QED BY <1>7, <1>16, <4>2, <4>3
    <3> QED BY <1>7, <1>14, <3>1, <3>2
  <2> QED BY <2>2, <2>3
<1>18. c + (path - t) = pw - (n - path)
  <2> HIDE DEF c, pw
  <2> QED BY <1>1, <1>4, <1>5, <1>7, <1>11, <1>16, <1>17
<1> QED BY <1>6, <1>18

---------------------------------------------------------------------------
(* Look-up tables. *)

LEMMA TreeOf2ToThe ==
  ASSUME NEW k \in Nat \ {0}, NEW levels, NEW const
  PROVE  IsTree(Arch([structure |-> Tree, levels |-> levels, const |-> const], Power(2)[k]), k, Power(2)[k])
         /\ TreeLast(k, Power(2)[k]) = Power(2)[k]
<1> DEFINE n == Power(2)[k]
           T == TreeLevel(n)
           m == [structure |-> Tree, levels |-> levels, const |-> const]
           a == Arch(m, n)
<1>1. \A w \in Nat : Power(2)[w] \in Nat \ {0} /\ Power(2)[w + 1] = 2 * Power(2)[w]
  BY PowersOf
<1>2. \A v \in Nat : \A w \in Nat : v < w => Power(2)[v] < Power(2)[w]
  BY PowerMonotone
<1>3. n \in Nat /\ n >= 2
  <2>1. k - 1 \in Nat /\ (k - 1) + 1 = k
    OBVIOUS
  <2>2. Power(2)[k - 1] \in Nat \ {0} /\ n = 2 * Power(2)[k - 1]
    BY <1>1, <2>1
  <2> HIDE DEF n
  <2> QED BY <2>2
<1>4. T \in Nat \ {0} /\ Power(2)[T] >= n /\ Power(2)[T - 1] < n
  <2> HIDE DEF n
  <2> QED BY <1>3, TreeLevelFacts
<1> HIDE DEF T
<1>5. T = k
  <2>1. ~(T < k)
    BY <1>1, <1>2, <1>4
  <2>2. ~(k < T)
    <3> SUFFICES ASSUME k < T PROVE FALSE
      OBVIOUS
    <3>1. T - 1 \in Nat /\ (k = T - 1 \/ k < T - 1)
      BY <1>4
    <3>2. Power(2)[T - 1] \in Nat /\ Power(2)[T - 1] >= n
      BY <1>1, <1>2, <3>1
    <3> QED BY <1>3, <1>4, <3>2
  <2> QED BY <1>4, <2>1, <2>2
<1>6. TreeLast(k, n) = n
  BY <1>3 DEF TreeLast
<1>7. a.structure = Tree /\ a.level = k /\ a.basis = 2 /\ a.n = n /\ a.last = TreeLast(k, n)
  <2>1. m.structure = Tree
    OBVIOUS
  <2> HIDE DEF m, n
  <2>2. Levels(m, n) = k
    BY <1>5, <2>1 DEF Levels, T, Tree, OneLevel, MultiLevel
  <2> QED BY <2>1, <2>2 DEF Arch, Tree, OneLevel, MultiLevel
<1> HIDE DEF n
<1>8. IsTree(a, k, n)
  <2> HIDE DEF a
  <2> QED BY <1>3, <1>4, <1>5, <1>7 DEF IsTree
<1> QED BY <1>6, <1>8 DEF n

\* The digit of weight 2^i.
Digit(j, i) == (j \div Power(2)[i]) % 2

\* Every choice of k binary digits is that of a number below 2^k.
LEMMA DigitsExist ==
  ASSUME NEW k \in Nat, NEW ins \in [0..(k - 1) -> {0, 1}]
  PROVE  \E j \in 0..(Power(2)[k] - 1) : \A i \in 0..(k - 1) : Digit(j, i) = 1 - ins[i]
<1> DEFINE p == Power(2)
           Good(m, j) == \A i \in 0..(m - 1) : Digit(j, i) = 1 - ins[k - m + i]
           S == {m \in Nat : m <= k => \E j \in 0..(p[m] - 1) : Good(m, j)}
<1>1. p[0] = 1 /\ \A w \in Nat : p[w] \in Nat \ {0} /\ p[w + 1] = 2 * p[w]
  BY PowersOf
<1>2. 0 \in S
  <2>1. 0 \in 0..(p[0] - 1)
    BY <1>1
  <2>2. Good(0, 0)
    OBVIOUS
  <2> QED BY <2>1, <2>2
<1>3. ASSUME NEW m \in Nat, m \in S, m + 1 <= k
      PROVE  \E j \in 0..(p[m + 1] - 1) : Good(m + 1, j)
  <2>1. PICK j \in 0..(p[m] - 1) : Good(m, j)
    BY <1>3
  <2> DEFINE d == 1 - ins[k - (m + 1)]
             x == 2 * j + d
  <2>2. d \in {0, 1}
    <3>1. k - (m + 1) \in 0..(k - 1)
      BY <1>3
    <3> QED BY <3>1
  <2>3. j \in Nat /\ p[m] \in Nat /\ j < p[m] /\ p[m + 1] = 2 * p[m]
    BY <1>1
  <2> HIDE DEF d
  <2>4. x \in 0..(p[m + 1] - 1)
    BY <2>2, <2>3
  <2>5. x \in Nat /\ x \div 2 = j /\ x % 2 = d
    BY <2>2, <2>3
  <2>6. Good(m + 1, x)
    <3> SUFFICES ASSUME NEW i \in 0..((m + 1) - 1) PROVE Digit(x, i) = 1 - ins[k - (m + 1) + i]
      OBVIOUS
    <3> HIDE DEF x
    <3>1. CASE i = 0
      <4>1. Digit(x, i) = d
        <5>1. x \div 1 = x
          BY <2>5
        <5> QED BY <1>1, <2>5, <3>1, <5>1 DEF Digit
      <4>2. k - (m + 1) + i = k - (m + 1)
        BY <3>1
      <4> QED BY <4>1, <4>2 DEF d
    <3>2. CASE i # 0
      <4> DEFINE h == i - 1
                 r == p[h]
      <4>1. h \in Nat /\ h \in 0..(m - 1) /\ i = h + 1 /\ k - (m + 1) + i = k - m + h
        BY <1>3, <3>2
      <4>2. r \in Nat \ {0} /\ p[i] = r * 2
        <5> HIDE DEF h, p
        <5>1. r \in Nat \ {0} /\ p[h + 1] = 2 * r
          BY <1>1, <4>1
        <5>2. p[i] = 2 * r
          BY <4>1, <5>1
        <5> HIDE DEF r
        <5> QED BY <5>1, <5>2
      <4> HIDE DEF r, h
      <4>3. x \div (r * 2) = j \div r
        <5> DEFINE two == 2
        <5>1. two \in Nat \ {0}
          OBVIOUS
        <5> HIDE DEF two
        <5>2. x \div (r * two) = (x \div two) \div r
          BY <2>5, <4>2, <5>1, DivDiv
        <5> QED BY <2>5, <5>2 DEF two
      <4>4. x \div p[i] = j \div p[h]
        BY <4>2, <4>3 DEF r
      <4>5. Digit(x, i) = Digit(j, h)
        BY <4>4 DEF Digit
      <4>6. Digit(j, h) = 1 - ins[k - m + h]
        BY <2>1, <4>1
      <4> QED BY <4>1, <4>5, <4>6
    <3> QED BY <3>1, <3>2
  <2> QED BY <2>4, <2>6
<1>4. Nat \subseteq S
  <2>1. ASSUME NEW m \in Nat, m \in S PROVE m + 1 \in S
    <3>1. m + 1 <= k => \E j \in 0..(p[m + 1] - 1) : Good(m + 1, j)
      BY <1>3, <2>1
    <3>2. m + 1 \in Nat
      OBVIOUS
    <3> QED BY <3>1, <3>2
  <2> HIDE DEF S
  <2> QED BY <1>2, <2>1, NaturalsFromZero
<1>5. PICK j \in 0..(p[k] - 1) : Good(k, j)
  BY <1>4
<1>6. \A i \in 0..(k - 1) : Digit(j, i) = 1 - ins[i]
  <2>1. \A i \in 0..(k - 1) : k - k + i = i
    OBVIOUS
  <2> QED BY <1>5, <2>1
<1> QED BY <1>5, <1>6

\* The inputs of a LUT select the memory bit whose digits are theirs inverted.
LEMMA LutSelects ==
  ASSUME NEW k \in Nat \ {0}, NEW ins \in [0..(k - 1) -> {0, 1}]
  PROVE  \E j \in 0..(Power(2)[k] - 1) :
           /\ \A i \in 0..(k - 1) : Digit(j, i) = 1 - ins[i]
           /\ \A sram : LutOutput(k, sram, ins) = sram[j]
<1> DEFINE n == Power(2)[k]
           a == Arch([structure |-> Tree, levels |-> k, const |-> FALSE], n)
<1>1. PICK j \in 0..(n - 1) : \A i \in 0..(k - 1) : Digit(j, i) = 1 - ins[i]
  BY DigitsExist
<1>2. IsTree(a, k, n) /\ TreeLast(k, n) = n
  BY TreeOf2ToThe
<1>3. \A sram : LutOutput(k, sram, ins) = sram[Network(a, ins)]
  BY DEF LutOutput
<1> HIDE DEF a, n
<1>4. LaidOut(a) /\ \E h \in Nat : a.last = 2 * h
  BY <1>2, TreeLaidOut
<1>5. a.n = n /\ a.level = k /\ a.last = n /\ a.basis = 2 /\ a.structure = Tree /\ n \in Nat
  BY <1>2 DEF IsTree
<1>6. InputAt(a, j) = <<k, j>>
  BY <1>5 DEF InputAt
<1>7. ASSUME NEW l \in 0..(InputAt(a, j)[1] - 1)
      PROVE  ins[a.level - (l + 1)] = 1 <=> OnWay(a, j, l + 1) % 2 = 0
  <2>1. OnWay(a, j, l + 1) = j \div Power(2)[k - (l + 1)]
    BY <1>5, <1>6 DEF OnWay
  <2> DEFINE i == k - (l + 1)
  <2>2. i \in 0..(k - 1)
    BY <1>6
  <2>3. OnWay(a, j, l + 1) % 2 = 1 - ins[i]
    BY <1>1, <2>1, <2>2 DEF Digit
  <2> HIDE DEF i
  <2>4. ins[i] \in {0, 1}
    BY <2>2
  <2>5. ins[i] = 1 <=> OnWay(a, j, l + 1) % 2 = 0
    BY <2>3, <2>4
  <2> QED BY <1>5, <2>5 DEF i
<1>8. Network(a, ins) = j
  <2>1. j \in 0..(a.n - 1)
    BY <1>5
  <2> QED BY <1>4, <1>5, <1>7, <2>1, TreePasses
<1> QED BY <1>1, <1>3, <1>8 DEF n

LEMMA SequenceElements ==
  ASSUME NEW S, NEW s \in Seq(S)
  PROVE  Len(s) \in Nat /\ DOMAIN s = 1..Len(s) /\ \A i \in 1..Len(s) : s[i] \in S
OBVIOUS

\* The memory bits of a LUT hold its cover.
LEMMA LutHolds ==
  ASSUME NEW e, IsCircuit(e), ~IsMux(e), NEW ins \in [0..(e.k - 1) -> {0, 1}],
         NEW j \in 0..(Power(2)[e.k] - 1), \A i \in 0..(e.k - 1) : Digit(j, i) = 1 - ins[i]
  PROVE  LutBits(e.k, e.table, e.default)[j] = Cover(e, ins)
<1> DEFINE k == e.k
           table == e.table
           Matches(line) == \A i \in DOMAIN line.ins : line.ins[i] \in {Dash, ins[i - 1]}
           hits == {t \in DOMAIN table : j \in LineBits(k, table[t].ins)}
           lines == {table[t] : t \in DOMAIN table}
           bit == IF hits = {} THEN BaseBit(table, e.default)
                  ELSE table[CHOOSE t \in hits : \A u \in hits : u <= t].out
<1>1. /\ k \in Nat \ {0} /\ e.default \in {0, 1}
      /\ table \in Seq([ins : Seq({0, 1, Dash}), out : {0, 1}])
      /\ \A t \in DOMAIN table : Len(table[t].ins) <= k /\ table[t].out = table[1].out
  BY DEF IsCircuit, IsCover
<1>2. /\ DOMAIN table = 1..Len(table) /\ Len(table) \in Nat
      /\ \A t \in DOMAIN table : table[t].ins \in Seq({0, 1, Dash}) /\ table[t].out \in {0, 1}
  <2> DEFINE L == [ins : Seq({0, 1, Dash}), out : {0, 1}]
  <2>1. \A l \in L : l.ins \in Seq({0, 1, Dash}) /\ l.out \in {0, 1}
    OBVIOUS
  <2>2. table \in Seq(L)
    BY <1>1
  <2> HIDE DEF L, table
  <2>3. Len(table) \in Nat /\ DOMAIN table = 1..Len(table) /\ \A t \in 1..Len(table) : table[t] \in L
    BY <2>2, SequenceElements
  <2> QED BY <2>1, <2>3
<1>3. LutBits(k, table, e.default)[j] = bit
  BY DEF LutBits
<1>4. ASSUME NEW t \in DOMAIN table PROVE t \in hits <=> Matches(table[t])
  <2> DEFINE line == table[t].ins
             full == CompleteLine(k, line)
  <2>1. line \in Seq({0, 1, Dash}) /\ Len(line) \in 0..k /\ DOMAIN line = 1..Len(line)
    <3>1. line \in Seq({0, 1, Dash}) /\ Len(line) <= k
      BY <1>1, <1>2
    <3> HIDE DEF line
    <3> QED BY <1>1, <3>1, SequenceElements
  <2>2. t \in hits <=> \A i \in 1..k : full[i] # Dash => (j \div Power(2)[i - 1]) % 2 = 1 - full[i]
    BY DEF LineBits
  <2>3. \A i \in 1..k : full[i] = IF i <= Len(line) THEN line[i] ELSE Dash
    BY DEF CompleteLine
  <2>4. \A i \in 1..k : i - 1 \in 0..(k - 1) /\ ins[i - 1] \in {0, 1}
                        /\ (j \div Power(2)[i - 1]) % 2 = 1 - ins[i - 1]
    <3> SUFFICES ASSUME NEW i \in 1..k
                 PROVE  /\ i - 1 \in 0..(k - 1) /\ ins[i - 1] \in {0, 1}
                        /\ (j \div Power(2)[i - 1]) % 2 = 1 - ins[i - 1]
      OBVIOUS
    <3>1. i - 1 \in 0..(k - 1)
      BY <1>1
    <3>2. Digit(j, i - 1) = 1 - ins[i - 1]
      BY <3>1
    <3> QED BY <3>1, <3>2 DEF Digit
  <2>5. \A i \in 1..Len(line) : i \in 1..k /\ line[i] \in {0, 1, Dash}
    <3> HIDE DEF line
    <3>1. \A i \in 1..Len(line) : line[i] \in {0, 1, Dash}
      BY <2>1, SequenceElements
    <3> QED BY <1>1, <2>1, <3>1
  <2> HIDE DEF hits, full, line, k
  <2>6. ASSUME Matches(table[t]) PROVE t \in hits
    <3> SUFFICES ASSUME NEW i \in 1..k, full[i] # Dash PROVE 1 - ins[i - 1] = 1 - full[i]
      BY <2>2, <2>4
    <3>1. i \in 1..Len(line) /\ full[i] = line[i]
      BY <2>1, <2>3
    <3>2. line[i] \in {Dash, ins[i - 1]}
      BY <2>1, <2>6, <3>1 DEF line
    <3> QED BY <3>1, <3>2
  <2>7. ASSUME t \in hits PROVE Matches(table[t])
    <3> SUFFICES ASSUME NEW i \in 1..Len(line) PROVE line[i] \in {Dash, ins[i - 1]}
      BY <2>1 DEF line
    <3>1. i \in 1..k /\ line[i] \in {0, 1, Dash} /\ full[i] = line[i]
      BY <2>3, <2>5
    <3>2. CASE line[i] # Dash
      <4>1. 1 - ins[i - 1] = 1 - line[i] /\ ins[i - 1] \in {0, 1} /\ line[i] \in {0, 1}
        BY <2>2, <2>4, <2>7, <3>1, <3>2
      <4> QED BY <4>1
    <3> QED BY <3>2
  <2> QED BY <2>6, <2>7
<1> HIDE DEF hits, lines
<1>5. Cover(e, ins) = IF lines = {} THEN e.default
                      ELSE IF \E l \in lines : Matches(l) THEN (CHOOSE l \in lines : TRUE).out
                      ELSE 1 - (CHOOSE l \in lines : TRUE).out
  BY DEF Cover, lines
<1>6. (\E l \in lines : Matches(l)) <=> hits # {}
  <2>1. hits \subseteq DOMAIN table
    BY DEF hits
  <2> HIDE DEF Matches
  <2> QED BY <1>4, <2>1 DEF lines
<1>7. CASE table = <<>>
  <2>1. hits = {} /\ lines = {}
    <3>1. DOMAIN table = {}
      BY <1>7
    <3> QED BY <3>1 DEF hits, lines
  <2>2. bit = e.default
    BY <1>7, <2>1 DEF BaseBit
  <2> QED BY <1>3, <1>5, <2>1, <2>2
<1>8. CASE table # <<>>
  <2> DEFINE out == table[1].out
  <2>1. 1 \in DOMAIN table /\ out \in {0, 1} /\ \A t \in DOMAIN table : table[t].out = out
    <3>1. Len(table) # 0
      BY <1>1, <1>8
    <3> QED BY <1>1, <1>2, <3>1
  <2> HIDE DEF out
  <2>2. lines # {} /\ (CHOOSE l \in lines : TRUE).out = out
    <3>1. table[1] \in lines /\ \A l \in lines : l.out = out
      BY <2>1 DEF lines
    <3>2. (CHOOSE l \in lines : TRUE) \in lines
      BY <3>1
    <3> QED BY <3>1, <3>2
  <2>3. hits # {} => bit = out
    <3> SUFFICES ASSUME hits # {}
                 PROVE  table[CHOOSE t \in hits : \A u \in hits : u <= t].out = out
      OBVIOUS
    <3> DEFINE g == CHOOSE t \in hits : \A u \in hits : u <= t
               N == Len(table)
               back == {N - t : t \in hits}
    <3>1. hits \subseteq 1..N /\ N \in Nat
      BY <1>2 DEF hits
    <3>2. back \subseteq Nat /\ back # {}
      <4>1. \A u \in hits : N - u \in Nat
        BY <3>1
      <4> HIDE DEF N
      <4> QED BY <4>1
    <3>3. PICK m \in back : \A x \in back : m <= x
      <4> HIDE DEF back
      <4> QED BY <3>2, LeastNatural
    <3>4. PICK t \in hits : m = N - t
      BY <3>3
    <3>5. \A u \in hits : u <= t
      <4> SUFFICES ASSUME NEW u \in hits PROVE u <= t
        OBVIOUS
      <4>1. N - t <= N - u
        BY <3>3, <3>4
      <4> HIDE DEF N, back
      <4> QED BY <3>1, <4>1
    <3>6. g \in hits
      BY <3>4, <3>5
    <3> HIDE DEF g, N
    <3>7. table[g].out = out
      BY <1>2, <2>1, <3>1, <3>6 DEF N
    <3> QED BY <3>7 DEF g
  <2>4. hits = {} => bit = 1 - out
    <3>1. (\E t \in DOMAIN table : table[t].out = 1) <=> out = 1
      BY <2>1
    <3> QED BY <1>8, <2>1, <3>1 DEF BaseBit
  <2> HIDE DEF bit, Matches
  <2> QED BY <1>3, <1>5, <1>6, <2>2, <2>3, <2>4
<1> QED BY <1>7, <1>8

---------------------------------------------------------------------------
(* The whole chip. *)

\* What the bitstream generator decodes is what the netlist generator's
\* networks need: a circuit whose cells hold its bits does what the design
\* asks of it.
LEMMA CircuitDoes ==
  ASSUME NEW e, IsCircuit(e), EntersAsDecoded(e), NEW own,
         \A k \in 0..(NetlistBits(e) - 1) : own[k] = BitsOf(e)[k]
  PROVE  IF IsMux(e) THEN Passes(e.model, e.size, own) = InputOf(e.model, e.size, e.path)
         ELSE \A ins \in [0..(e.k - 1) -> {0, 1}] : LutOutput(e.k, own, ins) = Cover(e, ins)
<1>1. CASE IsMux(e)
  <2>1. e.model.structure = MultiLevel => DecoderAgrees(e)
    <3> SUFFICES ASSUME e.model.structure = MultiLevel, ~(e.model.levels > 2) PROVE DecoderAgrees(e)
      BY <1>1 DEF EntersAsDecoded
    <3>1. e.model \in [structure : {Tree, OneLevel, MultiLevel}, levels : Nat \ {0}, const : BOOLEAN]
      BY <1>1 DEF IsCircuit
    <3>2. e.model.levels <= 2
      BY <3>1
    <3> QED BY <1>1, <3>2, TwoLevelsAgree
  <2> QED BY <1>1, <2>1, MuxPasses
<1>2. CASE ~IsMux(e)
  <2> SUFFICES ASSUME NEW ins \in [0..(e.k - 1) -> {0, 1}] PROVE LutOutput(e.k, own, ins) = Cover(e, ins)
    BY <1>2
  <2>1. e.k \in Nat \ {0}
    BY <1>2 DEF IsCircuit
  <2>2. PICK j \in 0..(Power(2)[e.k] - 1) :
          /\ \A i \in 0..(e.k - 1) : Digit(j, i) = 1 - ins[i]
          /\ \A sram : LutOutput(e.k, sram, ins) = sram[j]
    BY <2>1, LutSelects
  <2>3. NetlistBits(e) = Power(2)[e.k] /\ BitsOf(e) = LutBits(e.k, e.table, e.default)
    BY <1>2 DEF NetlistBits, BitsOf
  <2>4. own[j] = BitsOf(e)[j]
    BY <2>3
  <2>5. BitsOf(e)[j] = Cover(e, ins)
    BY <1>2, <2>2, <2>3, LutHolds
  <2> QED BY <2>2, <2>4, <2>5
<1> QED BY <1>1, <1>2

\* The loaded chip is the routed design, for every design whose deep
\* multiplexers are entered where they are decoded: every multiplexer passes
\* the input routing chose and every LUT computes its cover.
THEOREM ChipIsDesign ==
  ASSUME \A d \in Designs : \A c \in DOMAIN d : EntersAsDecoded(d[c])
  PROVE  Spec => []ChipDoesDesign
<1>1. IInv /\ CellsHoldTheirBits => ChipDoesDesign
  <2> SUFFICES ASSUME IInv, CellsHoldTheirBits, phase = "run", StartSeen, NEW c \in DOMAIN design
               PROVE  Does(c)
    BY DEF ChipDoesDesign
  <2> DEFINE e == design[c]
             own == [j \in 0..(NetlistBits(e) - 1) |-> cells[lsb[c] + j]]
  <2>1. design \in Designs
    BY DEF IInv, TypeOK
  <2>2. IsCircuit(e) /\ EntersAsDecoded(e)
    BY <2>1, DesignsAssumption
  <2>3. \A k \in 0..(NetlistBits(e) - 1) : own[k] = BitsOf(e)[k]
    <3>1. DOMAIN BitsOf(e) = 0..(NetlistBits(e) - 1)
      BY <2>2, DecodedBits
    <3>2. \A k \in 0..(NetlistBits(e) - 1) : cells[lsb[c] + k] = BitsOf(e)[k]
      BY <3>1 DEF CellsHoldTheirBits
    <3> QED BY <3>2
  <2> HIDE DEF own
  <2>4. IF IsMux(e) THEN Passes(e.model, e.size, own) = InputOf(e.model, e.size, e.path)
        ELSE \A ins \in [0..(e.k - 1) -> {0, 1}] : LutOutput(e.k, own, ins) = Cover(e, ins)
    BY <2>2, <2>3, CircuitDoes
  <2> QED BY <2>4 DEF Does, own
<1> QED BY InductiveInvariant, CellsAreLoaded, <1>1, PTL
=============================================================================
