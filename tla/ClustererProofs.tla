-------------------------- MODULE ClustererProofs --------------------------
(***************************************************************************)
(* Proofs about Clusterer, for every netlist, every architecture and every *)
(* answer of the pin and routing checks: blocks, primitives and molecules  *)
(* agree after every failure, no seed is lost, no assertion of the packer  *)
(* fails but the one on the children of the top pb, and packing divides    *)
(* the molecules into complex blocks.                                      *)
(***************************************************************************)
EXTENDS Clusterer, FiniteSetTheorems, SequenceTheorems, TLAPS

Idle       == {"seed", "start", "type", "check", "done"}  \* no complex block is open
Attempting == {"place", "pins", "revert"}                 \* a molecule is part placed
Joining    == Attempting \cup {"update"}
Packing    == Joining \cup {"offer", "get", "close"}      \* a complex block is open

Trees     == [type : Types, holder : [Sites -> Blocks \cup {NoBlock}],
              inner : [Containers -> Nat]]
Packed(b) == clb_index[b] \in 1 .. Len(saved)
Mine(b)   == clb_index[b] = this
Left      == {m \in Molecules : \A b \in Members(m) : ~Packed(b)}

Shape ==
    /\ TypeOK
    /\ clb \in [type : Types \cup {"none"}, mode : Nat, layout : Nat]
    /\ critindexarray \in CritOrders
    /\ \A b \in Blocks : clb_index[b] <= this

(* Blocks and primitives name each other.                                  *)
Linked ==
    /\ \A b \in Blocks : (pb[b] = NoSite) <=> (clb_index[b] = 0)
    /\ \A s \in Sites, b \in Blocks : holder[s] = b <=> Mine(b) /\ pb[b] = s
    /\ \A c \in 1 .. Len(saved) : \A s \in Sites, b \in Blocks :
           saved[c].holder[s] = b <=> clb_index[b] = c /\ pb[b] = s

(* What is in the open complex block is counted, or is being placed.       *)
Counted ==
    /\ \A b \in counted : Mine(b)
    /\ pc \notin Joining \cup {"stop"} => \A b \in Blocks : Mine(b) => b \in counted
    /\ pc \in Joining => \A b \in Blocks : Mine(b) => b \in counted \/ b \in Members(candidate)
    /\ pc \in Joining => \A b \in Members(candidate) : b \notin counted
    /\ pc \in Idle \/ (pc \in Joining \cup {"offer"} /\ next_molecule = NoMolecule) => counted = {}

(* A molecule is packed as a whole.                                        *)
WholeMolecules ==
    \A m \in Molecules : \A b, x \in Members(m) :
        /\ b \in counted => x \in counted
        /\ Packed(b) => clb_index[x] = clb_index[b]

ValidMeansOpen ==
    /\ \A m \in Molecules : (pc \in Attempting \cup {"stop"} /\ m = candidate)
           \/ \A b \in Members(m) : valid[m] <=> clb_index[b] = 0
    /\ pc \in Attempting \cup {"offer"} => valid[candidate]
    /\ pc \in {"start", "type"} => valid[istart]

(* try_pack_molecule between its first and its last block.                 *)
AttemptInv ==
    pc \in Attempting =>
        /\ primitives_list \in Seq(Sites) /\ Len(primitives_list) = Len(BlocksOf[candidate])
        /\ \A i, j \in 1 .. Len(primitives_list) :
               primitives_list[i] = primitives_list[j] => i = j
        /\ failed_location \in 0 .. Len(primitives_list)
        /\ \A b \in Members(candidate) : clb_index[b] \in {0, this}
        /\ \A i \in 1 .. Len(primitives_list) : i > failed_location => clb_index[Block(i)] = 0
        /\ pc \in {"place", "pins"} => /\ failed_location > 0 => irevert = 1
                                       /\ \A i \in 1 .. failed_location : Mine(Block(i))
        /\ pc = "place" => /\ failed_location < Len(primitives_list)
                           /\ \A i \in 1 .. Len(primitives_list) :
                                  i > failed_location => holder[primitives_list[i]] = NoBlock
        /\ pc = "pins" => failed_location = Len(primitives_list)
        /\ pc = "revert" => /\ irevert \in 1 .. failed_location
                            /\ \A i \in 1 .. irevert - 1 : clb_index[Block(i)] = 0

(* The seed is in the open complex block from its commitment on.           *)
ControlInv ==
    /\ pc \in Idle => next_molecule = NoMolecule
    /\ pc \in Packing \cup {"start", "type"} => istart \in Molecules
    /\ pc \in Packing => clb.type \in Types /\ itype <= Len(TypeSeq)
    /\ pc \in {"get", "close"} \/ next_molecule # NoMolecule =>
           /\ istart \in Molecules /\ clb.type \in Types
           /\ \A b \in Members(istart) : b \in counted
           /\ used[clb.type] > 0
    /\ pc = "update" => \A b \in Members(candidate) : Mine(b)
    /\ count < itype

FeasibleInv ==
    /\ \A m \in feasible : valid[m]
    /\ next_molecule = NoMolecule /\ pc # "get" => feasible = {}
    /\ pc \in Joining \cup {"offer"} => next_molecule \notin feasible

SeedOrder ==
    /\ cluster_seed_type = "timing" =>
           \A j \in 1 .. indexofcrit - 1 :
               \/ Packed(critindexarray[j])
               \/ pc \notin {"seed", "check", "done"} /\ critindexarray[j] \in Members(istart)
    /\ pc \in {"check", "done"} => \A b \in Blocks : clb_index[b] # 0

Bounded == Len(saved) + Cardinality(Left) <= Cardinality(Molecules)

(* A container has children exactly while it holds a block, and then those *)
(* of the mode all its blocks are in.                                      *)
Nests(tree, modes) ==
    /\ \A s \in Sites : tree[s] # NoBlock /\ SiteParent[s] # Top =>
                          modes[SiteParent[s]] = InnerMode[s]
    /\ \A x \in Containers : modes[x] # 0 => \E s \in Under(x) : tree[s] # NoBlock

Nested ==
    /\ Nests(holder, inner)
    /\ \A c \in 1 .. Len(saved) : /\ Nests(saved[c].holder, saved[c].inner)
                                   /\ \E s \in Sites : saved[c].holder[s] # NoBlock

(* The primitives still to be filled are of enabled modes, and the         *)
(* containers they lie in have the children of their modes or none yet.    *)
Fits ==
    pc = "place" =>
        /\ \A i \in 1 .. Len(primitives_list) : i > failed_location =>
               /\ primitives_list[i] \notin Disabled
               /\ SiteParent[primitives_list[i]] # Top =>
                      inner[SiteParent[primitives_list[i]]] \in {0, InnerMode[primitives_list[i]]}
        /\ \A i, j \in 1 .. Len(primitives_list) :
               Mates(primitives_list[i], primitives_list[j]) =>
                   InnerMode[primitives_list[i]] = InnerMode[primitives_list[j]]

Base == /\ Shape /\ Linked /\ Counted /\ WholeMolecules /\ ValidMeansOpen /\ AttemptInv
        /\ ControlInv /\ FeasibleInv /\ SeedOrder /\ Bounded /\ AssertionsHold

IInv == Base /\ Nested /\ Fits
-----------------------------------------------------------------------------
LEMMA MemberFacts ==
    ASSUME NEW m \in Molecules
    PROVE  /\ Members(m) \subseteq Blocks /\ Members(m) # {}
           /\ Len(BlocksOf[m]) \in Nat \ {0} /\ DOMAIN BlocksOf[m] = 1 .. Len(BlocksOf[m])
           /\ \A i \in 1 .. Len(BlocksOf[m]) :
                  BlocksOf[m][i] \in Blocks /\ BlocksOf[m][i] \in Members(m)
           /\ \A b \in Members(m) : \E i \in 1 .. Len(BlocksOf[m]) : b = BlocksOf[m][i]
           /\ \A i, j \in 1 .. Len(BlocksOf[m]) : BlocksOf[m][i] = BlocksOf[m][j] => i = j
<1>1. BlocksOf[m] \in Seq(Blocks) /\ BlocksOf[m] # <<>>
  BY MoleculesAssumption
<1>2. Len(BlocksOf[m]) \in Nat \ {0} /\ DOMAIN BlocksOf[m] = 1 .. Len(BlocksOf[m])
  BY <1>1, EmptySeq, LenProperties
<1>3. \A i \in 1 .. Len(BlocksOf[m]) : BlocksOf[m][i] \in Blocks
  BY <1>1, ElementOfSeq
<1>4. 1 \in 1 .. Len(BlocksOf[m])
  BY <1>2
<1>5. Members(m) = {BlocksOf[m][i] : i \in 1 .. Len(BlocksOf[m])}
  BY <1>2 DEF Members
<1>6. \A i, j \in 1 .. Len(BlocksOf[m]) : BlocksOf[m][i] = BlocksOf[m][j] => i = j
  BY <1>2, MoleculesAssumption
<1>7. \A b \in Members(m) : \E i \in 1 .. Len(BlocksOf[m]) : b = BlocksOf[m][i]
  BY <1>5
<1>8. \A i \in 1 .. Len(BlocksOf[m]) : BlocksOf[m][i] \in Members(m)
  BY <1>5
<1>9. Members(m) \subseteq Blocks /\ Members(m) # {}
  BY <1>3, <1>4, <1>7, <1>8
<1> QED BY <1>2, <1>3, <1>6, <1>7, <1>8, <1>9

LEMMA OfBlock ==
    ASSUME NEW b \in Blocks
    PROVE  MoleculeOf(b) \in Molecules /\ b \in Members(MoleculeOf(b))
  BY MoleculesAssumption DEF MoleculeOf

LEMMA Apart ==
    ASSUME NEW m \in Molecules, NEW n \in Molecules, m # n, NEW b \in Members(m)
    PROVE  b \notin Members(n)
  BY MoleculesAssumption

LEMMA CritFacts ==
    ASSUME Shape
    PROVE  /\ Len(critindexarray) = Cardinality(Blocks) /\ Cardinality(Blocks) \in Nat
           /\ DOMAIN critindexarray = 1 .. Cardinality(Blocks)
           /\ \A j \in 1 .. Cardinality(Blocks) : critindexarray[j] \in Blocks
           /\ \A b \in Blocks : \E j \in 1 .. Cardinality(Blocks) : critindexarray[j] = b
<1>1. critindexarray \in Seq(Blocks) /\ Len(critindexarray) = Cardinality(Blocks)
  BY MoleculesAssumption DEF Shape
<1>2. Cardinality(Blocks) \in Nat
  BY MoleculesAssumption, FS_CardinalityType
<1>3. DOMAIN critindexarray = 1 .. Cardinality(Blocks)
  BY <1>1, LenProperties
<1> QED BY <1>1, <1>2, <1>3, ElementOfSeq, MoleculesAssumption DEF Shape

LEMMA SeedBlocks ==
    ASSUME Shape
    PROVE  \A j \in 1 .. indexofcrit - 1 : critindexarray[j] \in Blocks
<1>1. indexofcrit \in 1 .. Cardinality(Blocks) + 1
  BY DEF Shape, TypeOK
<1> QED BY <1>1, CritFacts

LEMMA LeftFinite == IsFiniteSet(Left) /\ Cardinality(Left) \in Nat
<1>1. Left \in SUBSET Molecules
  BY DEF Left
<1> QED BY <1>1, MoleculesAssumption, FS_Subset, FS_CardinalityType

LEMMA SavedFacts ==
    ASSUME TypeOK
    PROVE  /\ saved \in Seq(Trees) /\ Len(saved) \in Nat /\ DOMAIN saved = 1 .. Len(saved)
           /\ this \in Nat \ {0} /\ this = Len(saved) + 1
           /\ \A c \in 1 .. Len(saved) : saved[c] \in Trees
<1>1. saved \in Seq(Trees)
  BY DEF TypeOK, Trees
<1>2. Len(saved) \in Nat /\ DOMAIN saved = 1 .. Len(saved)
  BY <1>1, LenProperties
<1> QED BY <1>1, <1>2, ElementOfSeq DEF this

LEMMA InitBase == Init => Base
<1> SUFFICES ASSUME Init PROVE Base
  OBVIOUS
<1> USE DEF Init
<1>1. Len(saved) = 0 /\ saved \in Seq(Trees) /\ this = 1
  BY DEF this
<1>2. \A c \in CritOrders : Len(c) = Cardinality(Blocks) /\ Cardinality(Blocks) \in Nat
  BY MoleculesAssumption, FS_CardinalityType
<1>3. TypeOK
  <2>1. Len(TypeSeq) \in Nat /\ MaxSize \in Nat
    BY TypesAssumption, LenProperties
  <2>2. Cardinality(Molecules) \in Nat /\ Cardinality(Blocks) \in Nat
    BY MoleculesAssumption, FS_CardinalityType
  <2> QED BY <1>1, <2>1, <2>2 DEF TypeOK, NoCluster, NoChildren, Empty, Trees
<1>4. Shape
  BY <1>1, <1>3 DEF Shape, NoCluster
<1>5. Linked
  BY <1>1, MoleculesAssumption DEF Linked, Mine, Empty
<1>6. Counted /\ WholeMolecules
  BY <1>1, MemberFacts DEF Counted, WholeMolecules, Mine, Packed, Joining, Attempting
<1>7. ValidMeansOpen
  BY <1>1, MemberFacts DEF ValidMeansOpen, Attempting
<1>8. AttemptInv /\ ControlInv /\ FeasibleInv
  BY DEF AttemptInv, ControlInv, FeasibleInv, Attempting, Packing, Joining, Idle
<1>9. SeedOrder
  BY DEF SeedOrder
<1>10. Bounded
  <2>1. Left \in SUBSET Molecules
    BY DEF Left
  <2> QED BY <2>1, <1>1, MoleculesAssumption, FS_Subset, LeftFinite, FS_CardinalityType
             DEF Bounded
<1>11. AssertionsHold
  BY DEF AssertionsHold
<1> QED BY <1>4, <1>5, <1>6, <1>7, <1>8, <1>9, <1>10, <1>11 DEF IInv, Base
-----------------------------------------------------------------------------
(* Between complex blocks every block is unclustered or packed for good.   *)
LEMMA Settled ==
    ASSUME IInv, pc \in Idle, NEW b \in Blocks
    PROVE  ~Mine(b) /\ (clb_index[b] # 0 => Packed(b))
<1>1. TypeOK /\ clb_index[b] <= this /\ clb_index[b] \in Nat
  <2>1. Cardinality(Molecules) \in Nat
    BY MoleculesAssumption, FS_CardinalityType
  <2> QED BY <2>1 DEF IInv, Base, Shape, TypeOK
<1>2. ~Mine(b)
  BY DEF IInv, Base, Counted, Idle, Joining, Attempting
<1>3. QED BY <1>1, <1>2, SavedFacts DEF Mine, Packed

(* What a step that moves no block keeps.                                  *)
LEMMA Frame ==
    ASSUME IInv, UNCHANGED <<links, saved, counted>>
    PROVE  Linked' /\ WholeMolecules' /\ Bounded'
  BY DEF IInv, Base, links, Linked, WholeMolecules, Bounded, Left, Packed, Mine, this

LEMMA MostCriticalSeedStep == ASSUME IInv, MostCriticalSeed PROVE Base'
<1> USE DEF IInv, Base
<1>1. pc = "seed" /\ cluster_seed_type = "timing" /\ pc \in Idle
  BY DEF MostCriticalSeed, Idle
<1>2. UNCHANGED <<links, valid, saved, clb, stats, critindexarray, cluster_seed_type,
                  prev_molecule, next_molecule, attempts, grid, attempt>>
  BY DEF MostCriticalSeed
<1>3. Linked' /\ WholeMolecules' /\ Bounded'
  BY <1>2, Frame DEF stats
<1>4. this' = this /\ \A b : Packed(b)' = Packed(b) /\ Mine(b)' = Mine(b)
  BY <1>2 DEF this, Packed, Mine, links
<1> DEFINE N == Cardinality(Blocks)
<1>c. /\ N \in Nat /\ Len(critindexarray) = N /\ DOMAIN critindexarray = 1 .. N
      /\ \A j \in 1 .. N : critindexarray[j] \in Blocks
      /\ \A b \in Blocks : \E j \in 1 .. N : critindexarray[j] = b
      /\ indexofcrit \in 1 .. N + 1
  BY CritFacts DEF Shape, TypeOK
<1>d. \A i : i \in OpenFrom(indexofcrit) <=>
              i \in indexofcrit .. N /\ clb_index[critindexarray[i]] = 0
  BY <1>c DEF OpenFrom
<1> HIDE DEF N
<1>5. CASE OpenFrom(indexofcrit) = {}
  <2>1. pc' = "check" /\ indexofcrit' = Len(critindexarray) + 1 /\ UNCHANGED <<istart, stage, stop>>
    BY <1>5, <1>1 DEF MostCriticalSeed
  <2>2. \A j \in 1 .. N : Packed(critindexarray[j])
    <3>1. TAKE j \in 1 .. N
    <3>2. CASE j < indexofcrit
      BY <3>2, <1>1, <1>c DEF SeedOrder
    <3>3. CASE j >= indexofcrit
      <4>1. clb_index[critindexarray[j]] # 0
        BY <3>3, <1>5, <1>c, <1>d
      <4> QED BY <4>1, <1>1, <1>c, Settled
    <3> QED BY <3>2, <3>3, <1>c
  <2>3. SeedOrder'
    <3>1. \A b \in Blocks : clb_index[b] # 0
      BY <2>2, <1>c, SavedFacts DEF Packed, Shape
    <3> QED BY <2>1, <2>2, <3>1, <1>2, <1>4, <1>c DEF SeedOrder, links
  <2>4. Shape'
    BY <1>2, <1>4, <2>1, <1>c DEF N, Shape, TypeOK, links, stats, grid, attempt
  <2>5. Counted' /\ ValidMeansOpen' /\ AttemptInv'
    BY <1>1, <1>2, <1>4, <2>1
       DEF Counted, ValidMeansOpen, AttemptInv, Idle, Joining, Attempting, links, stats
  <2>6. ControlInv' /\ FeasibleInv' /\ AssertionsHold'
    BY <1>1, <1>2, <1>4, <2>1
       DEF ControlInv, FeasibleInv, AssertionsHold, Idle, Packing, Joining, Attempting, links,
           stats, grid
  <2> QED BY <1>3, <2>3, <2>4, <2>5, <2>6
<1>6. ASSUME NEW j \in DOMAIN critindexarray, FirstOpen(j), istart' = MoleculeOf(critindexarray[j]),
             indexofcrit' = j + 1, stage' = 1,
             IF valid[istart'] THEN pc' = "start" /\ stop' = "no" ELSE pc' = "stop" /\ stop' = "no seed"
      PROVE  Base'
  <2>1. /\ j \in 1 .. N /\ j >= indexofcrit /\ clb_index[critindexarray[j]] = 0
        /\ \A i \in indexofcrit .. N : i < j => clb_index[critindexarray[i]] # 0
    <3>1. j \in OpenFrom(indexofcrit) /\ \A i \in OpenFrom(indexofcrit) : j <= i
      BY <1>6 DEF FirstOpen
    <3>2. j \in indexofcrit .. N /\ clb_index[critindexarray[j]] = 0
      BY <3>1, <1>d
    <3>3. \A i \in indexofcrit .. N : i < j => clb_index[critindexarray[i]] # 0
      BY <3>1, <3>2, <1>c, <1>d
    <3> QED BY <3>2, <3>3, <1>c
  <2>2. istart' \in Molecules /\ critindexarray[j] \in Members(istart')
    BY <1>6, <2>1, <1>c, OfBlock
  <2>3. valid[istart']
    BY <1>1, <2>1, <2>2 DEF ValidMeansOpen, Attempting
  <2>4. pc' = "start" /\ stop' = "no"
    BY <1>6, <2>3
  <2>5. SeedOrder'
    <3>1. \A i \in 1 .. j - 1 : Packed(critindexarray[i])
      <4>1. TAKE i \in 1 .. j - 1
      <4>2. CASE i < indexofcrit
        BY <4>2, <1>1, <1>c DEF SeedOrder
      <4>3. CASE i >= indexofcrit
        BY <4>3, <1>1, <1>c, <2>1, Settled
      <4> QED BY <4>2, <4>3, <1>c
    <3> QED BY <1>2, <1>4, <1>6, <2>1, <2>2, <2>4, <3>1, <1>c DEF SeedOrder
  <2>6. Shape'
    <3>1. indexofcrit' \in 1 .. N + 1 /\ pc' = "start" /\ stage' \in {1, 2}
      BY <1>6, <1>c, <2>1, <2>4
    <3>2. {istart, prev_molecule, next_molecule}' \subseteq Molecules \cup {NoMolecule}
      BY <1>2, <2>2 DEF Shape, TypeOK
    <3> QED BY <1>2, <1>4, <3>1, <3>2 DEF N, Shape, TypeOK, links, stats, grid, attempt
  <2>7. Counted' /\ ValidMeansOpen' /\ AttemptInv'
    BY <1>1, <1>2, <1>4, <2>2, <2>3, <2>4
       DEF Counted, ValidMeansOpen, AttemptInv, Idle, Joining, Attempting, links, stats
  <2>8. ControlInv' /\ FeasibleInv' /\ AssertionsHold'
    BY <1>1, <1>2, <1>4, <2>2, <2>4
       DEF ControlInv, FeasibleInv, AssertionsHold, Idle, Packing, Joining, Attempting, links,
           stats, grid
  <2> QED BY <1>3, <2>5, <2>6, <2>7, <2>8
<1> QED BY <1>5, <1>6 DEF MostCriticalSeed
LEMMA SameBlocks ==
    ASSUME UNCHANGED <<links, saved>>
    PROVE  this' = this /\ \A b : Packed(b)' = Packed(b) /\ Mine(b)' = Mine(b)
  BY DEF links, this, Packed, Mine

LEMMA MostInputsSeedStep == ASSUME IInv, MostInputsSeed PROVE Base'
<1> USE DEF IInv, Base
<1> DEFINE open == {m \in Molecules : valid[m]}
<1>1. pc = "seed" /\ cluster_seed_type # "timing" /\ pc \in Idle
  BY DEF MostInputsSeed, Idle
<1>2. UNCHANGED <<links, valid, saved, clb, stats, seeds, prev_molecule, next_molecule,
                  attempts, grid, attempt, stop>>
  BY DEF MostInputsSeed
<1>3. Linked' /\ WholeMolecules' /\ Bounded'
  BY <1>2, Frame DEF stats
<1>4. this' = this /\ \A b : Packed(b)' = Packed(b) /\ Mine(b)' = Mine(b)
  BY <1>2, SameBlocks
<1>5. \/ open = {} /\ pc' = "check" /\ UNCHANGED <<istart, stage>>
      \/ istart' \in Molecules /\ valid[istart'] /\ pc' = "start" /\ stage' = 1
  BY DEF MostInputsSeed
<1>6. Shape'
  BY <1>2, <1>4, <1>5 DEF Shape, TypeOK, links, stats, seeds, grid, attempt
<1>7. Counted' /\ ValidMeansOpen' /\ AttemptInv'
  BY <1>1, <1>2, <1>4, <1>5
     DEF Counted, ValidMeansOpen, AttemptInv, Idle, Joining, Attempting, links, stats
<1>8. ControlInv' /\ FeasibleInv' /\ AssertionsHold'
  BY <1>1, <1>2, <1>4, <1>5
     DEF ControlInv, FeasibleInv, AssertionsHold, Idle, Packing, Joining, Attempting, links,
         stats, grid
<1>9. SeedOrder'
  <2>1. ASSUME open = {}, NEW b \in Blocks PROVE clb_index[b] # 0
    BY <1>1, <2>1, OfBlock DEF ValidMeansOpen, Attempting
  <2> QED BY <1>1, <1>2, <1>5, <2>1 DEF SeedOrder, seeds, links
<1> QED BY <1>3, <1>6, <1>7, <1>8, <1>9

LEMMA StartClusterStep == ASSUME IInv, StartCluster PROVE Base'
<1> USE DEF IInv, Base
<1>1. pc = "start" /\ pc' = "type" /\ itype' = 1 /\ count' = 0
  BY DEF StartCluster
<1>2. UNCHANGED <<links, valid, saved, clb, stats, seeds, cands, stage, size, used, attempt, stop>>
  BY DEF StartCluster
<1>3. Linked' /\ WholeMolecules' /\ Bounded'
  BY <1>2, Frame DEF stats
<1>4. this' = this /\ \A b : Packed(b)' = Packed(b) /\ Mine(b)' = Mine(b)
  BY <1>2, SameBlocks
<1>5. Len(TypeSeq) \in Nat
  BY TypesAssumption, LenProperties
<1>6. Shape'
  BY <1>1, <1>2, <1>4, <1>5 DEF Shape, TypeOK, links, stats, seeds, cands, attempt
<1>7. Counted' /\ ValidMeansOpen' /\ AttemptInv'
  BY <1>1, <1>2, <1>4
     DEF Counted, ValidMeansOpen, AttemptInv, Idle, Joining, Attempting, links, stats, cands
<1>9. SeedOrder'
  BY <1>1, <1>2, <1>4 DEF SeedOrder, seeds, links, cands
<1>8. ControlInv'
  BY <1>1, <1>2 DEF ControlInv, Idle, Packing, Joining, Attempting, cands
<1>10. FeasibleInv' /\ AssertionsHold'
  BY <1>1, <1>2 DEF FeasibleInv, AssertionsHold, Joining, Attempting, stats, cands
<1> QED BY <1>3, <1>6, <1>7, <1>8, <1>9, <1>10

LEMMA OpenTypeStep == ASSUME IInv, OpenType PROVE Base'
<1> USE DEF IInv, Base
<1>1. pc = "type" /\ pc \in Idle /\ itype <= Len(TypeSeq) /\ itype \in Nat \ {0} /\ count \in Nat
  BY TypesAssumption, LenProperties DEF OpenType, Idle, Shape, TypeOK
<1>2. UNCHANGED <<clb_index, pb, valid, saved, seeds, cands, stage, size, used, count,
                  primitives_list, failed_location, irevert, stop>>
  BY DEF OpenType
<1>3. counted = {} /\ counted' = {} /\ feasible = {} /\ feasible' = {} /\ next_molecule = NoMolecule
      /\ istart \in Molecules /\ valid[istart]
  BY <1>1 DEF OpenType, Counted, ControlInv, FeasibleInv, ValidMeansOpen, stats, Idle
<1>4. \A s \in Sites : holder[s] = NoBlock
  <2>1. \A s \in Sites : holder[s] \in Blocks => Mine(holder[s])
    BY DEF Linked
  <2> QED BY <1>1, <2>1, Settled DEF Shape, TypeOK
<1>5. UNCHANGED <<holder, inner>>
  <2>1. holder = [s \in Sites |-> NoBlock]
    BY <1>4 DEF Shape, TypeOK
  <2>2. \A x \in Containers : inner[x] = 0
    BY <1>4 DEF Nested, Nests, Under
  <2>3. inner = [x \in Containers |-> 0]
    BY <2>2 DEF Shape, TypeOK
  <2> QED BY <2>1, <2>3 DEF OpenType, Empty, NoChildren
<1>6. Linked' /\ WholeMolecules' /\ Bounded'
  BY <1>2, <1>3, <1>5, Frame DEF links
<1>7. this' = this /\ \A b : Packed(b)' = Packed(b) /\ Mine(b)' = Mine(b)
  BY <1>2, <1>5, SameBlocks DEF links
<1>8. \/ pc' = "offer" /\ clb' = [type |-> TypeSeq[itype], mode |-> 1, layout |-> 0] /\ itype' = itype
         /\ marked' = {} /\ tie' = {} /\ fresh' = TRUE
      \/ pc' = pc /\ clb' = clb /\ itype' = itype + 1 /\ UNCHANGED <<marked, tie, fresh>>
  BY DEF OpenType, stats
<1>9. TypeSeq[itype] \in Types
  BY <1>1, TypesAssumption, ElementOfSeq
<1>10. Shape'
  <2>1. Len(TypeSeq) \in Nat
    BY TypesAssumption, LenProperties
  <2>2. /\ clb' \in [type : Types \cup {"none"}, mode : Nat, layout : Nat]
        /\ itype' \in 1 .. Len(TypeSeq) + 1 /\ pc' \in {"offer", "type"}
        /\ marked' \subseteq Blocks /\ tie' \subseteq Blocks /\ fresh' \in BOOLEAN
    <3>1. clb \in [type : Types \cup {"none"}, mode : Nat, layout : Nat]
      BY DEF Shape
    <3>2. clb' \in [type : Types \cup {"none"}, mode : Nat, layout : Nat]
      BY <1>8, <1>9, <3>1
    <3>3. itype' \in 1 .. Len(TypeSeq) + 1 /\ pc' \in {"offer", "type"}
      BY <1>1, <1>8, <2>1
    <3>4. marked' \subseteq Blocks /\ tie' \subseteq Blocks /\ fresh' \in BOOLEAN
      BY <1>8 DEF Shape, TypeOK
    <3> QED BY <3>2, <3>3, <3>4
  <2> QED BY <1>2, <1>3, <1>5, <1>7, <2>2 DEF Shape, TypeOK, seeds, cands
<1>11. Counted' /\ ValidMeansOpen' /\ AttemptInv'
  BY <1>1, <1>2, <1>3, <1>7, <1>8
     DEF Counted, ValidMeansOpen, AttemptInv, Idle, Joining, Attempting, cands, candidate
<1>12. FeasibleInv' /\ AssertionsHold'
  BY <1>2, <1>3 DEF FeasibleInv, AssertionsHold
<1>13. SeedOrder'
  BY <1>1, <1>2, <1>7, <1>8 DEF SeedOrder, seeds, cands
<1>14. ControlInv'
  <2>1. pc' \in {"offer", "type"} /\ next_molecule' = NoMolecule /\ istart' \in Molecules
    BY <1>1, <1>2, <1>3, <1>8 DEF cands
  <2>2. count' < itype'
    BY <1>1, <1>2, <1>8 DEF ControlInv
  <2>3. pc' = "offer" => clb'.type \in Types /\ itype' <= Len(TypeSeq)
    BY <1>1, <1>8, <1>9
  <2> QED BY <2>1, <2>2, <2>3 DEF ControlInv, Idle, Packing, Joining, Attempting
<1> QED BY <1>6, <1>10, <1>11, <1>12, <1>13, <1>14


(* The two ways the program may still give up: no type takes a seed, and   *)
(* the children of the top pb belong to another mode.                      *)
LEMMA StopStep ==
    ASSUME IInv, NEW why, Stop(why), pc \in {"type", "place"},
           why \notin {"no seed", "placed twice", "container in another mode", "split molecule",
                       "molecule is not valid", "check_clustering"}
    PROVE  Base'
<1> USE DEF IInv, Base
<1>1. pc' = "stop" /\ stop' = why
      /\ UNCHANGED <<links, valid, saved, clb, stats, seeds, cands, stage, grid, attempt>>
  BY DEF Stop
<1>2. Linked' /\ WholeMolecules' /\ Bounded'
  BY <1>1, Frame DEF stats
<1>3. this' = this /\ \A b : Packed(b)' = Packed(b) /\ Mine(b)' = Mine(b)
  BY <1>1, SameBlocks
<1>4. Shape'
  BY <1>1, <1>3 DEF Shape, TypeOK, links, stats, seeds, cands, grid, attempt
<1>5. Counted'
  BY <1>1, <1>3 DEF Counted, Joining, Attempting, Idle, stats
<1>6. ValidMeansOpen' /\ AttemptInv'
  BY <1>1 DEF ValidMeansOpen, AttemptInv, Attempting, candidate, links, cands
<1>7. ControlInv'
  BY <1>1, <1>3 DEF ControlInv, Packing, Joining, Attempting, Idle, stats, cands, grid
<1>8. FeasibleInv' /\ AssertionsHold'
  BY <1>1 DEF FeasibleInv, AssertionsHold, Joining, Attempting, stats, cands
<1>9. SeedOrder'
  BY <1>1, <1>3 DEF SeedOrder, seeds, links, cands
<1> QED BY <1>2, <1>4, <1>5, <1>6, <1>7, <1>8, <1>9

LEMMA NoTypeLeftStep == ASSUME IInv, NoTypeLeft PROVE Base'
<1> USE DEF IInv, Base
<1>1. pc = "type"
  BY DEF NoTypeLeft
<1>2. ASSUME NEW why \in {"no logic block can implement the molecule",
                           "architecture size exceeds packer range"}, Stop(why)
      PROVE  Base'
  BY <1>1, <1>2, StopStep
<1>3. CASE /\ size' = size + 1 /\ pc' = "start" /\ size # MaxSize
           /\ UNCHANGED <<links, valid, saved, clb, stats, seeds, cands, stage, used, itype,
                          count, attempt, stop>>
  <2>1. Linked' /\ WholeMolecules' /\ Bounded'
    BY <1>3, Frame DEF stats
  <2>2. this' = this /\ \A b : Packed(b)' = Packed(b) /\ Mine(b)' = Mine(b)
    BY <1>3, SameBlocks
  <2>3. Shape'
    BY <1>3, <2>2, TypesAssumption DEF Shape, TypeOK, links, stats, seeds, cands, attempt
  <2>4. Counted' /\ ValidMeansOpen' /\ AttemptInv'
    BY <1>1, <1>3, <2>2
       DEF Counted, ValidMeansOpen, AttemptInv, Idle, Joining, Attempting, links, stats, cands
  <2>5. ControlInv' /\ FeasibleInv' /\ AssertionsHold'
    BY <1>1, <1>3, <2>2
       DEF ControlInv, FeasibleInv, AssertionsHold, Idle, Packing, Joining, Attempting, links,
           stats, cands
  <2>6. SeedOrder'
    BY <1>1, <1>3, <2>2 DEF SeedOrder, seeds, links, cands
  <2> QED BY <2>1, <2>3, <2>4, <2>5, <2>6
<1> QED BY <1>2, <1>3 DEF NoTypeLeft

(* What get_next_primitive_list offers is free, of enabled modes, and fits *)
(* the modes its containers are in: between two molecules every block in   *)
(* the open complex block is counted.                                      *)
LEMMA OfferedFits ==
    ASSUME IInv, pc = "offer", candidate \in Molecules, NEW p \in Placements[candidate],
           Unoccupied(p), NEW i \in 1 .. Len(p)
    PROVE  /\ p[i] \in Sites /\ holder[p[i]] = NoBlock /\ p[i] \notin Disabled
           /\ SiteParent[p[i]] # Top => inner[SiteParent[p[i]]] \in {0, InnerMode[p[i]]}
<1> USE DEF IInv, Base
<1> DEFINE s == p[i]
<1>1. s \in Sites /\ i \in DOMAIN p
  BY PlacementsAssumption, ElementOfSeq, LenProperties
<1>2. s \notin Disabled /\ ValidPrimitive(s)
  BY <1>1 DEF Unoccupied, PrimitiveTypeFeasible
<1>3. \A r \in Sites : holder[r] # NoBlock => holder[r] \in counted
  BY DEF Counted, Joining, Attempting, Linked, Shape, TypeOK
<1>4. \A r \in Sites : holder[r] # NoBlock => r # s /\ (Mates(r, s) => InnerMode[r] = InnerMode[s])
  BY <1>2, <1>3 DEF ValidPrimitive
<1>5. ASSUME SiteParent[s] # Top, inner[SiteParent[s]] # 0
      PROVE  inner[SiteParent[s]] = InnerMode[s]
  <2>1. SiteParent[s] \in Containers
    BY <1>1, <1>5 DEF Containers
  <2>2. PICK r \in Under(SiteParent[s]) : holder[r] # NoBlock
    BY <1>5, <2>1 DEF Nested, Nests
  <2>3. r \in Sites /\ SiteParent[r] = SiteParent[s] /\ Mates(r, s)
    BY <1>5, <2>2 DEF Under, Mates
  <2>4. inner[SiteParent[r]] = InnerMode[r]
    BY <1>5, <2>2, <2>3 DEF Nested, Nests
  <2> QED BY <1>4, <2>2, <2>3, <2>4
<1> QED BY <1>1, <1>2, <1>4, <1>5

LEMMA OfferStep == ASSUME IInv, Offer PROVE Base'
<1> USE DEF IInv, Base
<1>1. pc = "offer" /\ pc' = "place" /\ failed_location' = 0
      /\ UNCHANGED <<links, valid, saved, clb, stats, seeds, cands, stage, grid, irevert, stop>>
  BY DEF Offer
<1>2. Linked' /\ WholeMolecules' /\ Bounded'
  BY <1>1, Frame DEF stats
<1>3. this' = this /\ \A b : Packed(b)' = Packed(b) /\ Mine(b)' = Mine(b)
  BY <1>1, SameBlocks
<1>4. candidate \in Molecules /\ candidate' = candidate
  BY <1>1 DEF candidate, ControlInv, Packing, Joining, Shape, TypeOK, cands
<1>5. PICK p \in Placements[candidate] : Unoccupied(p) /\ primitives_list' = p
  BY DEF Offer
<1>6. /\ p \in Seq(Sites) /\ Len(p) = Len(BlocksOf[candidate]) /\ Len(p) \in Nat \ {0}
      /\ DOMAIN p = 1 .. Len(p)
      /\ \A i, j \in 1 .. Len(p) : p[i] = p[j] => i = j
      /\ \A i \in 1 .. Len(p) : holder[p[i]] = NoBlock
  BY <1>1, <1>4, <1>5, PlacementsAssumption, MemberFacts, LenProperties, OfferedFits
<1>7. \A b \in Members(candidate) : clb_index[b] = 0 /\ b \notin counted
  <2>1. \A b \in Members(candidate) : clb_index[b] = 0
    BY <1>1, <1>4 DEF ValidMeansOpen, Attempting
  <2> QED BY <2>1, <1>4, MemberFacts, SavedFacts DEF Counted, Mine, Shape
<1>8. Shape'
  BY <1>1, <1>3 DEF Shape, TypeOK, links, stats, seeds, cands, grid
<1>9. Counted'
  BY <1>1, <1>3, <1>4, <1>7 DEF Counted, Idle, Joining, Attempting, stats, cands
<1>10. ValidMeansOpen'
  BY <1>1, <1>4 DEF ValidMeansOpen, Attempting, links
<1>11. AttemptInv'
  BY <1>1, <1>4, <1>5, <1>6, <1>7, MemberFacts DEF AttemptInv, Attempting, Block, Mine, links
<1>12. ControlInv' /\ FeasibleInv' /\ AssertionsHold'
  BY <1>1, <1>3
     DEF ControlInv, FeasibleInv, AssertionsHold, Idle, Packing, Joining, Attempting, stats,
         cands, grid
<1>13. SeedOrder'
  BY <1>1, <1>3 DEF SeedOrder, seeds, links, cands
<1> QED BY <1>2, <1>8, <1>9, <1>10, <1>11, <1>12, <1>13
LEMMA NoOfferStep == ASSUME IInv, NoOffer PROVE Base'
<1> USE DEF IInv, Base
<1>1. /\ pc = "offer"
      /\ UNCHANGED <<links, valid, saved, stats, seeds, istart, next_molecule, attempts, stage,
                     size, used, primitives_list, failed_location, irevert, stop>>
  BY DEF NoOffer
<1>2. Linked' /\ WholeMolecules' /\ Bounded'
  BY <1>1, Frame DEF stats
<1>3. this' = this /\ \A b : Packed(b)' = Packed(b) /\ Mine(b)' = Mine(b)
  BY <1>1, SameBlocks
<1>4. /\ istart \in Molecules /\ clb.type \in Types /\ itype <= Len(TypeSeq) /\ count < itype
      /\ itype \in Nat \ {0} /\ count \in Nat /\ Len(TypeSeq) \in Nat
  BY <1>1, TypesAssumption, LenProperties DEF ControlInv, Packing, Shape, TypeOK
<1>5. clb \in [type : Types \cup {"none"}, mode : Nat, layout : Nat]
  BY DEF Shape
<1>6. SeedOrder' /\ AssertionsHold'
  <2>1. pc' \in {"offer", "type", "get"}
    BY <1>1 DEF NoOffer, SeedFails
  <2> QED BY <1>1, <1>3, <2>1 DEF SeedOrder, AssertionsHold, seeds, links
<1>7. CASE next_molecule = NoMolecule
  <2>1. prev_molecule' = prev_molecule /\ SeedFails /\ counted = {} /\ feasible = {} /\ valid[istart]
    BY <1>1, <1>7 DEF NoOffer, Counted, FeasibleInv, ValidMeansOpen, candidate
  <2>2. /\ pc' \in {"offer", "type"} /\ count' < itype' /\ count' \in 0 .. Len(TypeSeq)
        /\ itype' \in 1 .. Len(TypeSeq) + 1
        /\ clb' \in [type : Types \cup {"none"}, mode : Nat, layout : Nat]
        /\ pc' = "offer" => clb'.type \in Types /\ itype' <= Len(TypeSeq)
    <3>1. CASE clb.mode < NumModes[clb.type]
      <4>1. clb' = [clb EXCEPT !.mode = @ + 1] /\ pc' = "offer" /\ UNCHANGED <<itype, count>>
        BY <2>1, <3>1 DEF SeedFails
      <4>2. clb' \in [type : Types \cup {"none"}, mode : Nat, layout : Nat] /\ clb'.type = clb.type
        BY <4>1, <1>5
      <4> QED BY <4>1, <4>2, <1>4
    <3>2. CASE ~(clb.mode < NumModes[clb.type])
      <4>1. clb' = NoCluster /\ itype' = itype + 1 /\ count' = count + 1 /\ pc' = "type"
        BY <2>1, <3>2 DEF SeedFails
      <4> QED BY <4>1, <1>4 DEF NoCluster
    <3> QED BY <3>1, <3>2
  <2>3. Shape'
    BY <1>1, <1>3, <2>1, <2>2 DEF Shape, TypeOK, links, stats, seeds
  <2>4. Counted' /\ AttemptInv'
    BY <1>1, <1>3, <2>1, <2>2 DEF Counted, AttemptInv, Idle, Joining, Attempting, stats
  <2>5. ValidMeansOpen'
    BY <1>1, <1>7, <2>1, <2>2 DEF ValidMeansOpen, Attempting, candidate, links
  <2>6. ControlInv'
    BY <1>1, <1>4, <1>7, <2>2 DEF ControlInv, Idle, Packing, Joining, Attempting
  <2>7. FeasibleInv'
    BY <1>1, <1>7, <2>1, <2>2 DEF FeasibleInv, Joining, Attempting, stats
  <2> QED BY <1>2, <1>6, <2>3, <2>4, <2>5, <2>6, <2>7
<1>8. CASE next_molecule # NoMolecule
  <2>1. pc' = "get" /\ prev_molecule' = next_molecule /\ UNCHANGED <<clb, tried, itype, count>>
    BY <1>8 DEF NoOffer
  <2>2. Shape'
    BY <1>1, <1>3, <2>1 DEF Shape, TypeOK, links, stats, seeds
  <2>3. Counted' /\ ValidMeansOpen' /\ AttemptInv'
    BY <1>1, <1>3, <2>1
       DEF Counted, ValidMeansOpen, AttemptInv, Idle, Joining, Attempting, links, stats
  <2>4. ControlInv'
    BY <1>1, <1>4, <1>8, <2>1 DEF ControlInv, Idle, Packing, Joining, Attempting, stats
  <2>5. FeasibleInv'
    BY <1>1, <2>1 DEF FeasibleInv, Joining, Attempting, stats
  <2> QED BY <1>2, <1>6, <2>2, <2>3, <2>4, <2>5
<1> QED BY <1>7, <1>8

LEMMA RefuseStep == ASSUME IInv, Refuse PROVE Base'
<1> USE DEF IInv, Base
<1>1. pc = "pins" /\ pc' = "revert"
      /\ UNCHANGED <<links, valid, saved, clb, stats, seeds, cands, stage, grid, attempt, stop>>
  BY DEF Refuse
<1>2. Linked' /\ WholeMolecules' /\ Bounded'
  BY <1>1, Frame DEF stats
<1>3. this' = this /\ \A b : Packed(b)' = Packed(b) /\ Mine(b)' = Mine(b)
  BY <1>1, SameBlocks
<1>4. candidate \in Molecules /\ candidate' = candidate
  BY <1>1 DEF candidate, ControlInv, Packing, Joining, Attempting, Shape, TypeOK, cands
<1>5. Shape'
  BY <1>1, <1>3 DEF Shape, TypeOK, links, stats, seeds, cands, grid, attempt
<1>6. Counted' /\ ValidMeansOpen'
  BY <1>1, <1>3, <1>4
     DEF Counted, ValidMeansOpen, Idle, Joining, Attempting, links, stats, cands
<1>7. AttemptInv'
  <2>1. Len(primitives_list) \in Nat \ {0}
    BY <1>1, <1>4, MemberFacts DEF AttemptInv, Attempting
  <2> QED BY <1>1, <1>3, <1>4, <2>1 DEF AttemptInv, Attempting, Block, links, attempt
<1>8. ControlInv' /\ FeasibleInv' /\ AssertionsHold'
  BY <1>1, <1>3
     DEF ControlInv, FeasibleInv, AssertionsHold, Idle, Packing, Joining, Attempting, stats,
         cands, grid
<1>9. SeedOrder'
  BY <1>1, <1>3 DEF SeedOrder, seeds, links, cands
<1> QED BY <1>2, <1>5, <1>6, <1>7, <1>8, <1>9

LEMMA PlaceBlockStep == ASSUME IInv, PlaceBlock PROVE Base'
<1> USE DEF IInv, Base
<1> DEFINE i == failed_location + 1
           n == Len(primitives_list)
           x == Block(i)
           s == primitives_list[i]
<1>1. pc = "place" /\ pc \in Attempting /\ candidate \in Molecules
  BY DEF PlaceBlock, Attempting, candidate, ControlInv, Packing, Joining, Shape, TypeOK
<1>2. /\ primitives_list \in Seq(Sites) /\ n = Len(BlocksOf[candidate]) /\ n \in Nat
      /\ \A k, l \in 1 .. n : primitives_list[k] = primitives_list[l] => k = l
      /\ failed_location \in 0 .. n - 1
      /\ \A k \in 1 .. n : k > failed_location =>
             clb_index[Block(k)] = 0 /\ holder[primitives_list[k]] = NoBlock
      /\ \A k \in 1 .. failed_location : Mine(Block(k))
      /\ \A b \in Members(candidate) : clb_index[b] \in {0, this}
  BY <1>1, LenProperties DEF AttemptInv
<1>3. i \in 1 .. n /\ x \in Blocks /\ x \in Members(candidate) /\ s \in Sites
  BY <1>1, <1>2, MemberFacts, ElementOfSeq DEF Block
<1>4. holder[s] = NoBlock /\ clb_index[x] = 0 /\ pb[x] = NoSite
  BY <1>2, <1>3 DEF Linked
<1>5. CASE clb.layout \notin {0, clb.mode}
  <2>1. Stop("children of another mode")
    BY <1>5 DEF PlaceBlock
  <2> QED BY <1>1, <2>1, StopStep
<1>6. CASE clb.layout \in {0, clb.mode}
  <2>0. s \notin Disabled /\ ~(SiteParent[s] # Top /\ inner[SiteParent[s]] \notin {0, InnerMode[s]})
    BY <1>1, <1>2, <1>3 DEF Fits
  <2>1. /\ clb' = [clb EXCEPT !.layout = clb.mode]
        /\ inner' = [y \in Containers |-> IF y = SiteParent[s] THEN InnerMode[s] ELSE inner[y]]
        /\ clb_index' = [clb_index EXCEPT ![x] = this]
        /\ pb' = [pb EXCEPT ![x] = s]
        /\ holder' = [holder EXCEPT ![s] = x]
        /\ failed_location' = i /\ irevert' = 1
        /\ pc' \in {"place", "pins", "revert"}
        /\ pc' = "place" => i # n
        /\ pc' = "pins" => i = n
        /\ UNCHANGED <<valid, saved, stats, seeds, cands, stage, grid, tried, primitives_list, stop>>
    BY <1>4, <1>6, <2>0 DEF PlaceBlock
  <2> HIDE DEF i, n, x, s
  <2>2. saved \in Seq(Trees) /\ this \in Nat \ {0} /\ this = Len(saved) + 1 /\ Len(saved) \in Nat
    BY SavedFacts DEF Shape
  <2>3. this <= Cardinality(Molecules)
    <3>1. candidate \in Left
      BY <1>1, <1>2, <2>2 DEF Left, Packed
    <3>2. Cardinality(Left) # 0
      BY <3>1, LeftFinite, FS_EmptySet
    <3>3. Cardinality(Molecules) \in Nat
      BY MoleculesAssumption, FS_CardinalityType
    <3> QED BY <2>2, <3>2, <3>3, LeftFinite DEF Bounded
  <2>4. /\ clb_index \in [Blocks -> Nat] /\ pb \in [Blocks -> Sites \cup {NoSite}]
        /\ holder \in [Sites -> Blocks \cup {NoBlock}]
    <3>1. Cardinality(Molecules) \in Nat
      BY MoleculesAssumption, FS_CardinalityType
    <3> QED BY <3>1 DEF Shape, TypeOK
  <2>5. /\ clb_index'[x] = this /\ \A b \in Blocks : b # x => clb_index'[b] = clb_index[b]
        /\ pb'[x] = s /\ \A b \in Blocks : b # x => pb'[b] = pb[b]
        /\ holder'[s] = x /\ \A r \in Sites : r # s => holder'[r] = holder[r]
    BY <1>3, <2>1, <2>4
  <2>6. /\ this' = this
        /\ \A b \in Blocks : Packed(b)' = Packed(b) /\ Mine(b)' = (Mine(b) \/ b = x)
    BY <1>4, <2>1, <2>2, <2>5 DEF this, Packed, Mine
  <2>7. candidate' = candidate
    BY <2>1 DEF candidate, cands
  <2>8. Shape'
    <3>1. Cardinality(Molecules) \in Nat /\ n \in Nat /\ i \in Nat
      BY <1>2, <1>3, MoleculesAssumption, FS_CardinalityType
    <3>2. clb_index' \in [Blocks -> 0 .. Cardinality(Molecules)] /\ \A b \in Blocks : clb_index'[b] <= this
      BY <1>3, <2>1, <2>2, <2>3, <2>5, <3>1 DEF Shape, TypeOK
    <3>3. pb' \in [Blocks -> Sites \cup {NoSite}] /\ holder' \in [Sites -> Blocks \cup {NoBlock}]
      BY <1>3, <2>1, <2>4
    <3>4. clb' \in [type : Types \cup {"none"}, mode : Nat, layout : Nat] /\ failed_location' \in Nat
          /\ irevert' \in Nat
      BY <2>1, <3>1 DEF Shape
    <3>5. inner' \in [Containers -> Nat]
      BY <1>3, <2>1, TypesAssumption DEF Shape, TypeOK
    <3> QED BY <2>1, <2>6, <3>2, <3>3, <3>4, <3>5 DEF Shape, TypeOK, stats, seeds, cands, grid
  <2>9. Linked'
    <3>1. \A b \in Blocks : (pb'[b] = NoSite) <=> (clb_index'[b] = 0)
      BY <1>3, <2>2, <2>5, MoleculesAssumption DEF Linked
    <3>2. ASSUME NEW r \in Sites, NEW b \in Blocks
          PROVE  holder'[r] = b <=> Mine(b)' /\ pb'[b] = r
      <4>1. CASE r = s
        <5>1. CASE b = x
          BY <1>3, <2>5, <2>6, <4>1, <5>1
        <5>2. CASE b # x
          <6>1. ~(Mine(b) /\ pb[b] = s)
            BY <1>3, <1>4, MoleculesAssumption DEF Linked
          <6> QED BY <2>5, <2>6, <4>1, <5>2, <6>1
        <5> QED BY <5>1, <5>2
      <4>2. CASE r # s
        BY <1>4, <2>2, <2>5, <2>6, <4>2 DEF Linked, Mine
      <4> QED BY <4>1, <4>2
    <3>3. ASSUME NEW c \in 1 .. Len(saved), NEW r \in Sites, NEW b \in Blocks
          PROVE  saved[c].holder[r] = b <=> clb_index'[b] = c /\ pb'[b] = r
      BY <1>4, <2>2, <2>5 DEF Linked
    <3> QED BY <2>1, <3>1, <3>2, <3>3 DEF Linked
  <2>10. Counted'
    <3>1. counted' = counted /\ counted \subseteq Blocks /\ next_molecule' = next_molecule
          /\ pc' \in Joining /\ pc' \notin Idle /\ pc \in Joining
      BY <1>1, <2>1 DEF Idle, Joining, Attempting, stats, cands, Shape, TypeOK
    <3>2. \A b \in counted : Mine(b)'
      BY <2>6, <3>1 DEF Counted
    <3>3. \A b \in Blocks : Mine(b)' => b \in counted \/ b \in Members(candidate)
      BY <1>3, <2>6, <3>1 DEF Counted
    <3> QED BY <2>7, <3>1, <3>2, <3>3 DEF Counted
  <2>11. WholeMolecules'
    <3>1. ASSUME NEW m \in Molecules, NEW b \in Members(m), NEW y \in Members(m), Packed(b)
          PROVE  clb_index'[y] = clb_index'[b]
      <4>1. clb_index[y] = clb_index[b] /\ clb_index[b] # 0 /\ b \in Blocks /\ y \in Blocks
        BY <3>1, MemberFacts DEF WholeMolecules, Packed
      <4> QED BY <1>4, <2>5, <4>1
    <3> QED BY <2>1, <2>6, <3>1, MemberFacts DEF WholeMolecules, stats
  <2>12. ValidMeansOpen'
    <3>1. ASSUME NEW m \in Molecules, m # candidate, NEW b \in Members(m)
          PROVE  valid'[m] <=> clb_index'[b] = 0
      <4>1. b # x /\ b \in Blocks
        BY <1>1, <1>3, <3>1, Apart, MemberFacts
      <4> QED BY <1>1, <2>1, <2>5, <3>1, <4>1 DEF ValidMeansOpen
    <3> QED BY <1>1, <2>1, <2>7, <3>1 DEF ValidMeansOpen, Attempting
  <2>13. AttemptInv'
    <3>1. \A k \in 1 .. n : k # i => Block(k) # x /\ Block(k) \in Blocks
      BY <1>1, <1>2, <1>3, MemberFacts DEF Block, x
    <3>2. \A k \in 1 .. n : Block(k)' = Block(k)
      BY <2>7 DEF Block
    <3>3. \A k \in 1 .. n : k > i => clb_index'[Block(k)] = 0 /\ holder'[primitives_list[k]] = NoBlock
      <4>1. TAKE k \in 1 .. n
      <4>2. HAVE k > i
      <4>3. k # i /\ k > failed_location /\ primitives_list[k] # s /\ primitives_list[k] \in Sites
        BY <1>2, <1>3, <4>2, ElementOfSeq DEF i, n, s
      <4> QED BY <1>2, <2>5, <3>1, <4>3
    <3>4. \A k \in 1 .. i : Mine(Block(k))'
      <4>1. TAKE k \in 1 .. i
      <4>2. CASE k = i
        BY <1>3, <2>6, <3>2, <4>2 DEF x, Mine
      <4>3. CASE k # i
        BY <1>2, <1>3, <2>6, <3>1, <3>2, <4>3 DEF i, Mine
      <4> QED BY <4>2, <4>3
    <3>5. \A b \in Members(candidate) : clb_index'[b] \in {0, this}
      BY <1>1, <1>2, <2>5, MemberFacts
    <3> QED BY <1>2, <1>3, <2>1, <2>6, <2>7, <3>2, <3>3, <3>4, <3>5
               DEF AttemptInv, Attempting, n
  <2>14. ControlInv'
    <3>1. clb'.type = clb.type
      BY <2>1 DEF Shape
    <3> QED BY <1>1, <2>1, <3>1
               DEF ControlInv, Idle, Packing, Joining, Attempting, stats, cands, grid
  <2>15. FeasibleInv' /\ AssertionsHold'
    BY <1>1, <2>1 DEF FeasibleInv, AssertionsHold, Joining, Attempting, stats, cands
  <2>16. SeedOrder'
    BY <1>1, <2>1, <2>6, SeedBlocks DEF SeedOrder, seeds, cands
  <2>17. Bounded'
    BY <2>1, <2>6, MemberFacts DEF Bounded, Left
  <2> QED BY <2>8, <2>9, <2>10, <2>11, <2>12, <2>13, <2>14, <2>15, <2>16, <2>17
<1> QED BY <1>5, <1>6
(* Commit takes the molecule just placed out of the candidates, no other.  *)
LEMMA CommitStep == ASSUME IInv, Commit PROVE Base'
<1> USE DEF IInv, Base
<1>1. /\ pc = "pins" /\ pc' = "update"
      /\ valid' = [m \in Molecules |-> valid[m] /\ Members(m) \cap Members(candidate) = {}]
      /\ UNCHANGED <<links, saved, clb, stats, seeds, cands, stage, grid, attempt, stop>>
  BY DEF Commit
<1>2. Linked' /\ WholeMolecules' /\ Bounded'
  BY <1>1, Frame DEF stats
<1>3. this' = this /\ \A b : Packed(b)' = Packed(b) /\ Mine(b)' = Mine(b)
  BY <1>1, SameBlocks
<1>4. candidate \in Molecules /\ candidate' = candidate
  BY <1>1 DEF candidate, ControlInv, Packing, Joining, Attempting, Shape, TypeOK, cands
<1>5. ~valid'[candidate] /\ \A m \in Molecules : m # candidate => valid'[m] = valid[m]
  <2>1. Members(candidate) # {}
    BY <1>4, MemberFacts
  <2>2. \A m \in Molecules : m # candidate => Members(m) \cap Members(candidate) = {}
    BY <1>4, MoleculesAssumption
  <2>3. valid \in [Molecules -> BOOLEAN]
    BY DEF Shape, TypeOK
  <2> QED BY <1>1, <1>4, <2>1, <2>2, <2>3
<1>6. Shape'
  BY <1>1, <1>3 DEF Shape, TypeOK, links, stats, seeds, cands, grid, attempt
<1>7. \A b \in Members(candidate) : Mine(b)
  BY <1>1, <1>4, MemberFacts DEF AttemptInv, Attempting, Block
<1>8. Counted' /\ AttemptInv'
  BY <1>1, <1>3, <1>4 DEF Counted, AttemptInv, Idle, Joining, Attempting, stats, cands
<1>9. ValidMeansOpen'
  <2>1. \A b \in Members(candidate) : clb_index[b] # 0
    BY <1>7, SavedFacts DEF Mine, Shape
  <2> QED BY <1>1, <1>4, <1>5, <2>1 DEF ValidMeansOpen, Attempting, links
<1>10. ControlInv'
  BY <1>1, <1>3, <1>4, <1>7
     DEF ControlInv, Idle, Packing, Joining, Attempting, stats, cands, grid
<1>11. FeasibleInv'
  <2>1. candidate \notin feasible
    BY <1>1 DEF FeasibleInv, candidate, Joining, Attempting
  <2> QED BY <1>1, <1>5, <2>1 DEF FeasibleInv, Joining, Attempting, stats, cands, Shape, TypeOK
<1>12. SeedOrder' /\ AssertionsHold'
  BY <1>1, <1>3 DEF SeedOrder, AssertionsHold, seeds, links, cands
<1> QED BY <1>2, <1>6, <1>8, <1>9, <1>10, <1>11, <1>12

(* Freeing blocks of the open complex block leaves the finished ones alone *)
(* and no primitive that holds one of them.                                *)
LEMMA Freed ==
    ASSUME IInv, NEW S \in SUBSET Blocks, \A b \in S : Mine(b), saved' = saved,
           clb_index' = [b \in Blocks |-> IF b \in S THEN 0 ELSE clb_index[b]],
           pb' = [b \in Blocks |-> IF b \in S THEN NoSite ELSE pb[b]],
           holder' = [s \in Sites |-> IF holder[s] \in S THEN NoBlock ELSE holder[s]]
    PROVE  /\ this' = this /\ Linked' /\ Bounded'
           /\ \A b \in Blocks : Packed(b)' = Packed(b) /\ Mine(b)' = (Mine(b) /\ b \notin S)
           /\ \A b \in Blocks : clb_index'[b] = IF b \in S THEN 0 ELSE clb_index[b]
           /\ clb_index' \in [Blocks -> 0 .. Cardinality(Molecules)]
           /\ pb' \in [Blocks -> Sites \cup {NoSite}]
           /\ holder' \in [Sites -> Blocks \cup {NoBlock}]
           /\ \A b \in Blocks : clb_index'[b] <= this
<1> USE DEF IInv, Base
<1>1. Len(saved) \in Nat /\ this = Len(saved) + 1 /\ this' = this
  BY SavedFacts DEF Shape, this
<1>2. /\ Cardinality(Molecules) \in Nat /\ clb_index \in [Blocks -> 0 .. Cardinality(Molecules)]
      /\ pb \in [Blocks -> Sites \cup {NoSite}] /\ holder \in [Sites -> Blocks \cup {NoBlock}]
      /\ \A b \in Blocks : clb_index[b] <= this
  BY MoleculesAssumption, FS_CardinalityType DEF Shape, TypeOK
<1>3. \A b \in Blocks : clb_index'[b] = IF b \in S THEN 0 ELSE clb_index[b]
  OBVIOUS
<1>4. \A b \in Blocks : Packed(b)' = Packed(b) /\ Mine(b)' = (Mine(b) /\ b \notin S)
  BY <1>1, <1>2, <1>3 DEF Packed, Mine
<1>5. /\ clb_index' \in [Blocks -> 0 .. Cardinality(Molecules)]
      /\ \A b \in Blocks : clb_index'[b] <= this
  BY <1>1, <1>2
<1>6. pb' \in [Blocks -> Sites \cup {NoSite}] /\ holder' \in [Sites -> Blocks \cup {NoBlock}]
  BY <1>2
<1>7. Linked'
  <2>1. \A b \in Blocks : (pb'[b] = NoSite) <=> (clb_index'[b] = 0)
    BY <1>3 DEF Linked
  <2>2. ASSUME NEW s \in Sites, NEW b \in Blocks
        PROVE  holder'[s] = b <=> Mine(b)' /\ pb'[b] = s
    <3>1. CASE b \in S
      <4>1. holder'[s] # b
        BY <3>1, MoleculesAssumption
      <4> QED BY <1>4, <3>1, <4>1
    <3>2. CASE b \notin S
      <4>1. holder'[s] = b <=> holder[s] = b
        BY <3>2, MoleculesAssumption
      <4>2. Mine(b)' <=> Mine(b)
        BY <1>4, <3>2
      <4>3. pb'[b] = pb[b]
        BY <3>2
      <4> QED BY <4>1, <4>2, <4>3 DEF Linked
    <3> QED BY <3>1, <3>2
  <2>3. ASSUME NEW c \in 1 .. Len(saved), NEW s \in Sites, NEW b \in Blocks
        PROVE  saved[c].holder[s] = b <=> clb_index'[b] = c /\ pb'[b] = s
    <3>1. b \in S => clb_index[b] # c
      BY <1>1 DEF Mine
    <3> QED BY <1>1, <1>3, <3>1 DEF Linked
  <2> QED BY <2>1, <2>2, <2>3 DEF Linked
<1>8. Bounded'
  BY <1>4, MemberFacts DEF Bounded, Left
<1> QED BY <1>1, <1>3, <1>4, <1>5, <1>6, <1>7, <1>8

(* Reverting one block frees blocks of its own molecule only.              *)
LEMMA RevertBlockStep == ASSUME IInv, RevertBlock PROVE Base'
<1> USE DEF IInv, Base
<1> DEFINE y == Block(irevert)
           S == IF pb[y] = NoSite THEN {} ELSE {y} \cup FreedWith(pb[y])
           n == Len(primitives_list)
<1>1. /\ pc = "revert" /\ pc \in Attempting
      /\ clb_index' = [b \in Blocks |-> IF b \in S \cup {y} THEN 0 ELSE clb_index[b]]
      /\ Release(S) /\ Close(IF pb[y] = NoSite THEN {} ELSE Emptied(pb[y]))
      /\ irevert' = irevert + 1
      /\ pc' = IF irevert = failed_location THEN "offer" ELSE "revert"
      /\ UNCHANGED <<saved, clb, stats, seeds, cands, stage, grid, tried, primitives_list,
                     failed_location, stop>>
  BY DEF RevertBlock, Attempting
<1>2. candidate \in Molecules /\ candidate' = candidate
  BY <1>1 DEF candidate, ControlInv, Packing, Joining, Attempting, Shape, TypeOK, cands
<1>3. /\ primitives_list \in Seq(Sites) /\ n = Len(BlocksOf[candidate]) /\ n \in Nat
      /\ \A k, l \in 1 .. n : primitives_list[k] = primitives_list[l] => k = l
      /\ failed_location \in 0 .. n /\ irevert \in 1 .. failed_location
      /\ \A b \in Members(candidate) : clb_index[b] \in {0, this}
      /\ \A k \in 1 .. n : k > failed_location => clb_index[Block(k)] = 0
      /\ \A k \in 1 .. irevert - 1 : clb_index[Block(k)] = 0
  BY <1>1, LenProperties DEF AttemptInv
<1>4. irevert \in 1 .. n /\ y \in Members(candidate) /\ y \in Blocks
  BY <1>2, <1>3, MemberFacts DEF Block
<1>5. S \subseteq Members(candidate) /\ \A b \in S : Mine(b)
  <2>1. \A r \in Sites : holder[r] # NoBlock => holder[r] \in Blocks /\ Mine(holder[r])
    BY DEF Linked, Shape, TypeOK
  <2>2. ASSUME pb[y] # NoSite PROVE Mine(y)
    BY <1>3, <1>4, <2>2 DEF Linked, Mine
  <2>3. \A b \in FreedWith(pb[y]) : \E r \in Sites : holder[r] = b /\ b # NoBlock /\ b \notin counted
    BY DEF FreedWith, Emptied, Under
  <2>4. \A b \in FreedWith(pb[y]) : Mine(b) /\ b \in Members(candidate)
    BY <1>1, <2>1, <2>3 DEF Counted, Joining
  <2> QED BY <1>4, <2>2, <2>4
<1>6. clb_index' = [b \in Blocks |-> IF b \in S THEN 0 ELSE clb_index[b]]
  <2>1. y \notin S => clb_index[y] = 0
    BY <1>4 DEF Linked
  <2> QED BY <1>1, <2>1
<1>7. S \in SUBSET Blocks
  BY <1>2, <1>5, MemberFacts
<1> HIDE DEF S
<1>8. /\ this' = this /\ Linked' /\ Bounded'
      /\ \A b \in Blocks : Packed(b)' = Packed(b) /\ Mine(b)' = (Mine(b) /\ b \notin S)
      /\ \A b \in Blocks : clb_index'[b] = IF b \in S THEN 0 ELSE clb_index[b]
      /\ clb_index' \in [Blocks -> 0 .. Cardinality(Molecules)]
      /\ pb' \in [Blocks -> Sites \cup {NoSite}]
      /\ holder' \in [Sites -> Blocks \cup {NoBlock}]
      /\ \A b \in Blocks : clb_index'[b] <= this
  BY <1>1, <1>5, <1>6, <1>7, Freed DEF Release
<1>9. clb_index'[y] = 0
  BY <1>1, <1>4
<1>10. \A m \in Molecules : m # candidate => \A b \in Members(m) : b \notin S /\ b \in Blocks
  BY <1>2, <1>5, Apart, MemberFacts
<1>11. valid' \in [Molecules -> BOOLEAN] /\ \A m \in Molecules : valid'[m] = valid[m]
  <2>1. \A m \in Molecules : m # candidate => Members(m) \cap S = {}
    BY <1>10
  <2>2. valid[candidate] /\ valid \in [Molecules -> BOOLEAN]
    BY <1>1 DEF ValidMeansOpen, Shape, TypeOK
  <2> QED BY <1>1, <2>1, <2>2 DEF Release
<1>12. Shape'
  <2>1. irevert' \in Nat /\ pc' \in {"offer", "revert"}
    BY <1>1, <1>3
  <2>2. inner' \in [Containers -> Nat]
    BY <1>1 DEF Close, Shape, TypeOK
  <2> QED BY <2>2,  <1>1, <1>8, <1>11, <2>1 DEF Shape, TypeOK, stats, seeds, cands, grid
<1>13. pc' = "offer" => \A b \in Members(candidate) : clb_index'[b] = 0
  <2> SUFFICES ASSUME pc' = "offer", NEW k \in 1 .. n PROVE clb_index'[Block(k)] = 0
    BY <1>2, <1>3, MemberFacts DEF Block
  <2>1. irevert = failed_location
    BY <1>1
  <2>2. Block(k) \in Blocks
    BY <1>2, <1>3, MemberFacts DEF Block
  <2>3. CASE k = irevert
    BY <2>3, <1>9
  <2>4. CASE k # irevert
    <3>1. clb_index[Block(k)] = 0
      BY <1>3, <2>1, <2>4
    <3> QED BY <1>8, <2>2, <3>1
  <2> QED BY <2>3, <2>4
<1>14. Counted'
  <2>1. counted' = counted /\ counted \subseteq Blocks /\ next_molecule' = next_molecule
    BY <1>1 DEF stats, cands, Shape, TypeOK
  <2>2. \A b \in counted : Mine(b)'
    BY <1>1, <1>5, <1>8, <2>1 DEF Counted, Joining
  <2>3. \A b \in Blocks : Mine(b)' => b \in counted \/ b \in Members(candidate)
    BY <1>1, <1>8 DEF Counted, Joining
  <2>4. pc' = "offer" => \A b \in Members(candidate) : ~Mine(b)'
    BY <1>8, <1>13, SavedFacts DEF Mine, Shape
  <2>5. pc' \in {"offer", "revert"} /\ (next_molecule = NoMolecule => counted = {})
    BY <1>1 DEF Counted, Joining
  <2>6. \A b \in Members(candidate) : b \notin counted
    BY <1>1 DEF Counted, Joining
  <2> QED BY <1>2, <2>1, <2>2, <2>3, <2>4, <2>5, <2>6 DEF Counted, Idle, Joining, Attempting
<1>15. WholeMolecules'
  <2>1. ASSUME NEW m \in Molecules, NEW b \in Members(m), NEW x \in Members(m), Packed(b)
        PROVE  clb_index'[x] = clb_index'[b]
    <3>1. b \in Blocks /\ x \in Blocks /\ clb_index[x] = clb_index[b]
      BY <2>1, MemberFacts DEF WholeMolecules
    <3>2. b \notin S /\ x \notin S
      BY <1>5, <2>1, <3>1, SavedFacts DEF Packed, Mine, Shape
    <3> QED BY <1>8, <3>1, <3>2
  <2>2. counted' = counted
    BY <1>1 DEF stats
  <2>3. \A m \in Molecules : \A b \in Members(m) : Packed(b)' <=> Packed(b)
    BY <1>8, MemberFacts
  <2> QED BY <2>1, <2>2, <2>3 DEF WholeMolecules
<1>16. ValidMeansOpen'
  <2>1. ASSUME NEW m \in Molecules, m # candidate, NEW b \in Members(m)
        PROVE  valid'[m] <=> clb_index'[b] = 0
    BY <1>1, <1>8, <1>10, <1>11, <2>1 DEF ValidMeansOpen
  <2>2. valid'[candidate]
    BY <1>1, <1>2, <1>11 DEF ValidMeansOpen
  <2>3. pc' \in {"offer", "revert"}
    BY <1>1
  <2> QED BY <1>2, <1>13, <2>1, <2>2, <2>3 DEF ValidMeansOpen, Attempting
<1>17. AttemptInv'
  <2> SUFFICES ASSUME pc' = "revert" PROVE AttemptInv'
    BY <1>1 DEF AttemptInv, Attempting
  <2>1. irevert' \in 1 .. failed_location
    BY <1>1, <1>3
  <2>2. \A k \in 1 .. n : Block(k)' = Block(k) /\ Block(k) \in Blocks
    BY <1>2, <1>3, MemberFacts DEF Block
  <2>3. \A k \in 1 .. n : k > failed_location => clb_index'[Block(k)] = 0
    BY <1>3, <1>8, <2>2
  <2>4. \A k \in 1 .. irevert' - 1 : clb_index'[Block(k)] = 0
    <3> SUFFICES ASSUME NEW k \in 1 .. irevert PROVE clb_index'[Block(k)] = 0
      BY <1>1, <1>3
    <3>1. CASE k = irevert
      BY <3>1, <1>9
    <3>2. CASE k # irevert
      BY <1>3, <1>8, <2>2, <3>2
    <3> QED BY <3>1, <3>2
  <2>5. \A b \in Members(candidate) : clb_index'[b] \in {0, this}
    BY <1>2, <1>3, <1>8, MemberFacts
  <2>6. \A k \in 1 .. irevert' - 1 : k \in 1 .. n
    BY <1>1, <1>3
  <2>7. primitives_list' = primitives_list /\ failed_location' = failed_location /\ this' = this
    BY <1>1, <1>8
  <2>8. /\ \A k \in 1 .. n : k > failed_location => clb_index'[Block(k)'] = 0
        /\ \A k \in 1 .. irevert' - 1 : clb_index'[Block(k)'] = 0
    BY <2>2, <2>3, <2>4, <2>6
  <2> QED BY <1>2, <1>3, <2>1, <2>5, <2>7, <2>8 DEF AttemptInv
<1>18. ControlInv'
  BY <1>1 DEF ControlInv, Idle, Packing, Joining, Attempting, stats, cands, grid
<1>19. FeasibleInv' /\ AssertionsHold'
  BY <1>1, <1>11
     DEF FeasibleInv, AssertionsHold, Joining, Attempting, stats, cands, Shape, TypeOK
<1>20. SeedOrder'
  BY <1>1, <1>8, SeedBlocks DEF SeedOrder, seeds, cands
<1> QED BY <1>8, <1>12, <1>14, <1>15, <1>16, <1>17, <1>18, <1>19, <1>20
LEMMA UpdateStep == ASSUME IInv, Update PROVE Base'
<1> USE DEF IInv, Base
<1>1. /\ pc = "update" /\ pc' = "get" /\ counted' = counted \cup Members(candidate)
      /\ fresh' = FALSE /\ feasible' = feasible /\ attempts' = 0
      /\ UNCHANGED <<links, valid, saved, clb, seeds, istart, next_molecule, stage, size, itype,
                     count, attempt, stop>>
  BY DEF Update
<1>2. this' = this /\ \A b : Packed(b)' = Packed(b) /\ Mine(b)' = Mine(b)
  BY <1>1, SameBlocks
<1>3. candidate \in Molecules /\ istart \in Molecules /\ clb.type \in Types
  BY <1>1 DEF candidate, ControlInv, Packing, Joining, Attempting, Shape, TypeOK
<1>4. Linked' /\ Bounded'
  BY <1>1 DEF Linked, Bounded, Left, links, Packed, Mine, this
<1>5. \A b \in Members(candidate) : Mine(b) /\ b \in Blocks
  BY <1>1, <1>3, MemberFacts DEF ControlInv
<1>6. prev_molecule' \in Molecules \cup {NoMolecule} /\ used' \in [Types -> Nat] /\ used'[clb.type] > 0
  <2>1. used \in [Types -> Nat] /\ next_molecule \in Molecules \cup {NoMolecule}
    BY DEF Shape, TypeOK
  <2>2. CASE next_molecule = NoMolecule
    <3>1. prev_molecule' = istart /\ used' = [used EXCEPT ![clb.type] = @ + 1]
      BY <2>2 DEF Update
    <3> QED BY <1>3, <2>1, <3>1
  <2>3. CASE next_molecule # NoMolecule
    <3>1. prev_molecule' = next_molecule /\ used' = used /\ used[clb.type] > 0
      BY <2>3 DEF Update, ControlInv
    <3> QED BY <2>1, <3>1
  <2> QED BY <2>2, <2>3
<1>7. marked' \subseteq Blocks /\ tie' \subseteq Blocks
  <2>1. marked \subseteq Blocks /\ tie \subseteq Blocks /\ LowNets \subseteq SUBSET Blocks
        /\ HighNets \subseteq SUBSET Blocks
    BY MoleculesAssumption DEF Shape, TypeOK
  <2> QED BY <2>1 DEF Update
<1>8. Shape'
  BY <1>1, <1>2, <1>5, <1>6, <1>7 DEF Shape, TypeOK, links, seeds, attempt
<1>9. Counted'
  <2>1. \A b \in counted' : Mine(b)'
    BY <1>1, <1>2, <1>5 DEF Counted
  <2>2. \A b \in Blocks : Mine(b)' => b \in counted'
    BY <1>1, <1>2 DEF Counted, Joining
  <2> QED BY <1>1, <2>1, <2>2 DEF Counted, Idle, Joining, Attempting
<1>10. WholeMolecules'
  <2>1. ASSUME NEW m \in Molecules, NEW b \in Members(m), NEW x \in Members(m), b \in counted'
        PROVE  x \in counted'
    <3>1. CASE b \in counted
      BY <1>1, <3>1 DEF WholeMolecules
    <3>2. CASE b \in Members(candidate)
      BY <1>1, <1>3, <3>2, Apart
    <3> QED BY <1>1, <2>1, <3>1, <3>2
  <2>2. \A m \in Molecules : \A b, x \in Members(m) : Packed(b) => clb_index[x] = clb_index[b]
    BY DEF WholeMolecules
  <2>3. clb_index' = clb_index
    BY <1>1 DEF links
  <2> QED BY <1>2, <2>1, <2>2, <2>3 DEF WholeMolecules
<1>11. ValidMeansOpen' /\ AttemptInv'
  BY <1>1 DEF ValidMeansOpen, AttemptInv, Attempting, links
<1>12. ControlInv'
  <2>1. \A b \in Members(istart) : b \in counted'
    BY <1>1 DEF ControlInv, candidate
  <2>2. itype <= Len(TypeSeq) /\ count < itype
    BY <1>1 DEF ControlInv, Packing, Joining
  <2> QED BY <1>1, <1>3, <1>6, <2>1, <2>2 DEF ControlInv, Idle
<1>13. FeasibleInv' /\ AssertionsHold'
  BY <1>1 DEF FeasibleInv, AssertionsHold, Joining, Attempting
<1>14. SeedOrder'
  BY <1>1, <1>2 DEF SeedOrder, seeds, links
<1> QED BY <1>4, <1>8, <1>9, <1>10, <1>11, <1>12, <1>13, <1>14

(* No molecule is split when candidates are collected, and only valid ones *)
(* are.                                                                    *)
LEMMA CandidatesAreValid == \A S : Candidates(S) \subseteq {m \in Molecules : valid[m]}
  BY DEF Candidates

LEMMA NotSplit == ASSUME IInv, pc = "get" PROVE ~SplitMolecule
  BY DEF IInv, Base, ValidMeansOpen, Attempting, SplitMolecule

LEMMA CollectStep ==
    ASSUME IInv, pc = "get", pc' = "get", feasible' \in SUBSET {m \in Molecules : valid[m]},
           tie' \in {tie, {}}, fresh' \in BOOLEAN,
           UNCHANGED <<links, valid, saved, clb, counted, marked, seeds, cands, stage, grid,
                       attempt, stop>>
    PROVE  Base'
<1> USE DEF IInv, Base
<1>1. Linked' /\ WholeMolecules' /\ Bounded'
  BY Frame
<1>2. this' = this /\ \A b : Packed(b)' = Packed(b) /\ Mine(b)' = Mine(b)
  BY SameBlocks
<1>3. Shape'
  <2>1. tie' \subseteq Blocks /\ feasible' \subseteq Molecules
    BY DEF Shape, TypeOK
  <2> QED BY <1>2, <2>1 DEF Shape, TypeOK, links, seeds, cands, grid, attempt
<1>4. Counted' /\ ValidMeansOpen' /\ AttemptInv'
  BY <1>2 DEF Counted, ValidMeansOpen, AttemptInv, Idle, Joining, Attempting, links
<1>5. ControlInv'
  BY <1>2 DEF ControlInv, Idle, Packing, Joining, Attempting, cands, grid
<1>6. FeasibleInv' /\ AssertionsHold'
  BY DEF FeasibleInv, AssertionsHold, Joining, Attempting
<1>7. SeedOrder'
  BY <1>2 DEF SeedOrder, seeds, links, cands
<1> QED BY <1>1, <1>3, <1>4, <1>5, <1>6, <1>7

LEMMA RebuildStep == ASSUME IInv, Rebuild PROVE Base'
<1>1. pc = "get" /\ ~SplitMolecule
  BY NotSplit DEF Rebuild
<1> QED BY <1>1, CollectStep, CandidatesAreValid DEF Rebuild

LEMMA ExploreHighFanoutStep == ASSUME IInv, ExploreHighFanout PROVE Base'
<1>1. fresh \in BOOLEAN
  BY DEF IInv, Base, Shape, TypeOK
<1> QED BY <1>1, CollectStep, CandidatesAreValid DEF ExploreHighFanout

(* A molecule is proposed, or none.                                        *)
LEMMA ProposeStep ==
    ASSUME IInv, pc = "get", NEW m,
           (m \in Molecules /\ valid[m]) \/ (m = NoMolecule /\ feasible = {}),
           Next_(m), feasible' = feasible \ {m}, attempts' \in {0, 1},
           UNCHANGED <<links, valid, saved, clb, counted, marked, tie, fresh, seeds, istart,
                       prev_molecule, stage, grid, primitives_list, failed_location, irevert, stop>>
    PROVE  Base'
<1> USE DEF IInv, Base
<1>1. Linked' /\ WholeMolecules' /\ Bounded'
  BY Frame
<1>2. this' = this /\ \A b : Packed(b)' = Packed(b) /\ Mine(b)' = Mine(b)
  BY SameBlocks
<1>3. /\ next_molecule' = m /\ pc' \in {"close", "offer"} /\ (m = NoMolecule => pc' = "close")
      /\ NoMolecule \notin Molecules
  BY MoleculesAssumption DEF Next_
<1>4. Shape'
  BY <1>2, <1>3 DEF Shape, TypeOK, links, seeds, grid
<1>5. Counted' /\ AttemptInv'
  BY <1>2, <1>3 DEF Counted, AttemptInv, Idle, Joining, Attempting
<1>6. ValidMeansOpen'
  <2>1. pc' = "offer" => candidate' = m /\ valid[m]
    BY <1>3 DEF candidate
  <2>2. \A n \in Molecules : \A b \in Members(n) : valid[n] <=> clb_index[b] = 0
    BY DEF ValidMeansOpen, Attempting
  <2> QED BY <1>3, <2>1, <2>2 DEF ValidMeansOpen, Attempting, links
<1>7. ControlInv'
  BY <1>2, <1>3 DEF ControlInv, Idle, Packing, Joining, Attempting, grid
<1>8. FeasibleInv' /\ AssertionsHold'
  BY <1>3 DEF FeasibleInv, AssertionsHold, Joining, Attempting
<1>9. SeedOrder'
  BY <1>2, <1>3 DEF SeedOrder, seeds, links
<1> QED BY <1>1, <1>4, <1>5, <1>6, <1>7, <1>8, <1>9

LEMMA PopFeasibleStep == ASSUME IInv, PopFeasible PROVE Base'
<1>1. PICK m \in feasible :
         IF ~valid[m] THEN Stop("molecule is not valid")
         ELSE /\ feasible' = feasible \ {m}
              /\ attempts' = IF AllowUnrelated THEN 0 ELSE attempts
              /\ Next_(m)
              /\ UNCHANGED <<links, valid, saved, clb, counted, marked, tie, fresh, seeds, istart,
                             prev_molecule, stage, grid, primitives_list, failed_location,
                             irevert, stop>>
  BY DEF PopFeasible
<1>2. pc = "get" /\ valid[m] /\ m \in Molecules /\ attempts \in {0, 1}
  BY DEF PopFeasible, IInv, Base, FeasibleInv, Shape, TypeOK
<1>3. /\ feasible' = feasible \ {m} /\ attempts' \in {0, 1} /\ Next_(m)
      /\ UNCHANGED <<links, valid, saved, clb, counted, marked, tie, fresh, seeds, istart,
                     prev_molecule, stage, grid, primitives_list, failed_location, irevert, stop>>
  BY <1>1, <1>2
<1> QED BY <1>2, <1>3, ProposeStep

LEMMA NoRelatedStep == ASSUME IInv, NoRelated PROVE Base'
<1>1. /\ pc = "get" /\ feasible = {} /\ attempts' \in {0, 1}
      /\ UNCHANGED <<links, valid, saved, clb, stats, seeds, istart, prev_molecule, stage, grid,
                     primitives_list, failed_location, irevert, stop>>
  BY DEF NoRelated, IInv, Base, Shape, TypeOK
<1>2. CASE Next_(NoMolecule)
  BY <1>1, <1>2, ProposeStep DEF stats
<1>3. ASSUME NEW m \in Candidates(Blocks), Next_(m) PROVE Base'
  BY <1>1, <1>3, ProposeStep, CandidatesAreValid DEF stats
<1> QED BY <1>2, <1>3 DEF NoRelated
-----------------------------------------------------------------------------
(* At the end of a complex block its blocks are the counted ones: whole    *)
(* molecules, that of the seed among them.                                 *)
LEMMA Closing ==
    ASSUME IInv, pc = "close"
    PROVE  /\ \A b \in Blocks : Mine(b) <=> b \in counted
           /\ \A m \in Molecules : \A b, x \in Members(m) : Mine(b) => Mine(x)
           /\ istart \in Molecules /\ clb.type \in Types /\ used[clb.type] > 0
           /\ \A b \in Members(istart) : Mine(b)
           /\ Held = {b \in Blocks : Mine(b)}
<1> USE DEF IInv, Base
<1>1. \A b \in Blocks : Mine(b) <=> b \in counted
  BY DEF Counted, Joining, Attempting
<1>2. \A m \in Molecules : \A b, x \in Members(m) : Mine(b) => Mine(x)
  BY <1>1, MemberFacts DEF WholeMolecules
<1>3. /\ istart \in Molecules /\ clb.type \in Types /\ used[clb.type] > 0
      /\ \A b \in Members(istart) : b \in counted
  BY DEF ControlInv
<1>4. \A b \in Members(istart) : Mine(b)
  BY <1>1, <1>3, MemberFacts
<1>5. Held = {b \in Blocks : Mine(b)}
  <2>1. ASSUME NEW b \in Blocks, Mine(b) PROVE b \in Held
    <3>1. pb[b] \in Sites
      BY <2>1, SavedFacts DEF Linked, Mine, Shape, TypeOK
    <3>2. holder[pb[b]] = b
      BY <2>1, <3>1 DEF Linked
    <3> QED BY <3>1, <3>2, MoleculesAssumption DEF Held
  <2>2. \A s \in Sites : holder[s] # NoBlock => holder[s] \in Blocks /\ Mine(holder[s])
    BY DEF Linked, Shape, TypeOK
  <2> QED BY <2>1, <2>2 DEF Held
<1> QED BY <1>1, <1>2, <1>3, <1>4, <1>5

LEMMA SaveStep == ASSUME IInv, Save PROVE Base'
<1> USE DEF IInv, Base
<1> DEFINE tree == [type |-> clb.type, holder |-> holder, inner |-> inner]
<1>1. /\ pc = "close" /\ pc' = "seed" /\ saved' = Append(saved, tree)
      /\ holder' = Empty /\ inner' = NoChildren
      /\ clb' = NoCluster /\ next_molecule' = NoMolecule
      /\ counted' = {} /\ marked' = {} /\ tie' = {} /\ feasible' = {} /\ fresh' = TRUE
      /\ UNCHANGED <<clb_index, pb, valid, seeds, istart, prev_molecule, attempts, stage, grid,
                     attempt, stop>>
  BY DEF Save, Closed
<1>2. /\ saved \in Seq(Trees) /\ Len(saved) \in Nat /\ this = Len(saved) + 1
      /\ \A c \in 1 .. Len(saved) : saved[c] \in Trees
  BY SavedFacts DEF Shape
<1>3. tree \in Trees
  BY <1>1, Closing DEF Trees, Shape, TypeOK
<1>4. /\ saved' \in Seq(Trees) /\ Len(saved') = Len(saved) + 1 /\ saved'[this] = tree
      /\ \A c \in 1 .. Len(saved) : saved'[c] = saved[c]
  BY <1>1, <1>2, <1>3, AppendProperties
<1>5. this' = this + 1
  BY <1>2, <1>4 DEF this
<1>6. /\ clb_index \in [Blocks -> Nat] /\ \A b \in Blocks : clb_index[b] <= this
      /\ clb_index' = clb_index
  BY <1>1, MoleculesAssumption, FS_CardinalityType DEF Shape, TypeOK
<1>7. \A b \in Blocks : ~Mine(b)' /\ (Packed(b)' <=> Packed(b) \/ Mine(b))
  BY <1>2, <1>4, <1>5, <1>6 DEF Mine, Packed
<1>8. Shape'
  <2>1. \A b \in Blocks : clb_index'[b] <= this'
    BY <1>2, <1>5, <1>6
  <2>2. saved' \in Seq([type : Types, holder : [Sites -> Blocks \cup {NoBlock}],
                        inner : [Containers -> Nat]])
    BY <1>4 DEF Trees
  <2> QED BY <1>1, <2>1, <2>2 DEF Shape, TypeOK, NoCluster, NoChildren, Empty, seeds, grid,
                                      attempt
<1>9. Linked'
  <2>1. ASSUME NEW s \in Sites, NEW b \in Blocks PROVE holder'[s] = b <=> Mine(b)' /\ pb'[b] = s
    BY <1>1, <1>7, MoleculesAssumption DEF Empty
  <2>2. ASSUME NEW c \in 1 .. Len(saved'), NEW s \in Sites, NEW b \in Blocks
        PROVE  saved'[c].holder[s] = b <=> clb_index[b] = c /\ pb[b] = s
    <3>1. CASE c = this
      BY <1>4, <3>1 DEF Linked, Mine
    <3>2. CASE c # this
      BY <1>2, <1>4, <3>2 DEF Linked
    <3> QED BY <3>1, <3>2
  <2> QED BY <1>1, <2>1, <2>2 DEF Linked
<1>10. Counted' /\ AttemptInv'
  BY <1>1, <1>7 DEF Counted, AttemptInv, Idle, Joining, Attempting
<1>11. WholeMolecules'
  <2>1. ASSUME NEW m \in Molecules, NEW b \in Members(m), NEW x \in Members(m), Packed(b)'
        PROVE  clb_index[x] = clb_index[b]
    <3>1. b \in Blocks /\ x \in Blocks
      BY MemberFacts
    <3>2. CASE Packed(b)
      BY <3>2 DEF WholeMolecules
    <3>3. CASE Mine(b)
      BY <1>1, <3>1, <3>3, Closing DEF Mine
    <3> QED BY <1>7, <2>1, <3>1, <3>2, <3>3
  <2> QED BY <1>1, <1>6, <2>1 DEF WholeMolecules
<1>12. ValidMeansOpen' /\ ControlInv' /\ FeasibleInv' /\ AssertionsHold'
  BY <1>1, <1>6
     DEF ValidMeansOpen, ControlInv, FeasibleInv, AssertionsHold, Idle, Packing, Joining,
         Attempting, grid
<1>13. SeedOrder'
  <2>1. ASSUME cluster_seed_type = "timing", NEW j \in 1 .. indexofcrit - 1
        PROVE  Packed(critindexarray[j])'
    <3>1. critindexarray[j] \in Blocks /\ critindexarray' = critindexarray
      BY <1>1, SeedBlocks DEF seeds
    <3>2. Packed(critindexarray[j]) \/ critindexarray[j] \in Members(istart)
      BY <2>1 DEF SeedOrder
    <3>3. Packed(critindexarray[j]) \/ Mine(critindexarray[j])
      BY <1>1, <3>2, Closing
    <3>4. \A b \in Blocks : (Packed(b) \/ Mine(b)) => clb_index'[b] \in 1 .. Len(saved')
      BY <1>7 DEF Packed
    <3> QED BY <3>1, <3>3, <3>4 DEF Packed
  <2> QED BY <1>1, <2>1 DEF SeedOrder, seeds
<1>14. Bounded'
  <2>1. istart \in Left /\ istart \notin Left'
    <3>1. istart \in Molecules /\ \A b \in Members(istart) : b \in Blocks /\ Mine(b)
      BY <1>1, Closing, MemberFacts
    <3>2. \A b \in Members(istart) : ~Packed(b)
      BY <1>2, <3>1 DEF Mine, Packed
    <3>3. Members(istart) # {} /\ \A b \in Members(istart) : Packed(b)'
      BY <1>7, <3>1, MemberFacts
    <3> QED BY <3>1, <3>2, <3>3 DEF Left
  <2>2. Left' \subseteq Left
    BY <1>7, MemberFacts DEF Left
  <2>3. IsFiniteSet(Left \ {istart}) /\ Cardinality(Left \ {istart}) = Cardinality(Left) - 1
    BY <2>1, LeftFinite, FS_RemoveElement
  <2>4. Left' \in SUBSET (Left \ {istart})
    BY <2>1, <2>2
  <2>5. Cardinality(Left') <= Cardinality(Left) - 1 /\ Cardinality(Left') \in Nat
    BY <2>3, <2>4, FS_Subset, FS_CardinalityType
  <2>6. Cardinality(Molecules) \in Nat /\ Cardinality(Left) \in Nat
    BY LeftFinite, MoleculesAssumption, FS_CardinalityType
  <2> QED BY <1>2, <1>4, <2>5, <2>6 DEF Bounded
<1> QED BY <1>8, <1>9, <1>10, <1>11, <1>12, <1>13, <1>14

LEMMA DiscardStep == ASSUME IInv, Discard PROVE Base'
<1> USE DEF IInv, Base
<1>1. /\ pc = "close" /\ pc' = "start" /\ stage' = 2
      /\ clb_index' = [b \in Blocks |-> IF b \in Held THEN 0 ELSE clb_index[b]]
      /\ Release(Held) /\ inner' = NoChildren
      /\ used' = [used EXCEPT ![clb.type] = @ - 1]
      /\ clb' = NoCluster /\ next_molecule' = NoMolecule
      /\ counted' = {} /\ marked' = {} /\ tie' = {} /\ feasible' = {} /\ fresh' = TRUE
      /\ UNCHANGED <<saved, seeds, istart, prev_molecule, attempts, size, itype, count,
                     attempt, stop>>
  BY DEF Discard, Closed
<1>2. /\ istart \in Molecules /\ clb.type \in Types /\ used[clb.type] > 0
      /\ \A b \in Members(istart) : Mine(b) /\ b \in Blocks
      /\ Held = {b \in Blocks : Mine(b)}
      /\ \A m \in Molecules : \A b, x \in Members(m) : Mine(b) => Mine(x)
  BY <1>1, Closing, MemberFacts
<1>3. /\ this' = this /\ Linked' /\ Bounded'
      /\ \A b \in Blocks : Packed(b)' = Packed(b) /\ Mine(b)' = (Mine(b) /\ b \notin Held)
      /\ \A b \in Blocks : clb_index'[b] = IF b \in Held THEN 0 ELSE clb_index[b]
      /\ clb_index' \in [Blocks -> 0 .. Cardinality(Molecules)]
      /\ pb' \in [Blocks -> Sites \cup {NoSite}]
      /\ holder' \in [Sites -> Blocks \cup {NoBlock}]
      /\ \A b \in Blocks : clb_index'[b] <= this
  <2>1. Held \in SUBSET Blocks /\ \A b \in Held : Mine(b)
    BY <1>2
  <2> QED BY <1>1, <2>1, Freed DEF Release
<1>4. \A b \in Blocks : ~Mine(b)'
  BY <1>2, <1>3
<1>5. valid' \in [Molecules -> BOOLEAN]
      /\ \A m \in Molecules : valid'[m] <=> valid[m] \/ Members(m) \subseteq Held
  <2>1. valid \in [Molecules -> BOOLEAN]
    BY DEF Shape, TypeOK
  <2>2. valid' = [m \in Molecules |-> valid[m] \/ (/\ Members(m) \cap Held # {}
                                                  /\ \A b \in Members(m) : clb_index'[b] = 0)]
    BY <1>1 DEF Release
  <2>3. ASSUME NEW m \in Molecules
        PROVE  (Members(m) \cap Held # {} /\ \A b \in Members(m) : clb_index'[b] = 0)
                  <=> Members(m) \subseteq Held
    BY <1>2, <1>3, MemberFacts
  <2> QED BY <2>1, <2>2, <2>3
<1>6. Shape'
  <2>1. used' \in [Types -> Nat]
    BY <1>1, <1>2 DEF Shape, TypeOK
  <2> QED BY <1>1, <1>3, <1>5, <2>1 DEF Shape, TypeOK, NoCluster, NoChildren, seeds, attempt
<1>7. Counted' /\ AttemptInv'
  BY <1>1, <1>4 DEF Counted, AttemptInv, Idle, Joining, Attempting
<1>8. WholeMolecules'
  <2>1. ASSUME NEW m \in Molecules, NEW b \in Members(m), NEW x \in Members(m), Packed(b)'
        PROVE  clb_index'[x] = clb_index'[b]
    <3>1. b \in Blocks /\ x \in Blocks /\ Packed(b)
      BY <1>3, <2>1, MemberFacts
    <3>2. clb_index[x] = clb_index[b] /\ ~Mine(b) /\ ~Mine(x)
      BY <3>1, SavedFacts DEF WholeMolecules, Packed, Mine, Shape
    <3> QED BY <1>2, <1>3, <3>1, <3>2
  <2> QED BY <1>1, <2>1 DEF WholeMolecules
<1>9. ValidMeansOpen'
  <2>1. ASSUME NEW m \in Molecules, NEW b \in Members(m) PROVE valid'[m] <=> clb_index'[b] = 0
    <3>1. b \in Blocks /\ (valid[m] <=> clb_index[b] = 0)
      BY <1>1, MemberFacts DEF ValidMeansOpen, Attempting
    <3>2. CASE b \in Held
      <4>1. Members(m) \subseteq Held
        BY <1>2, <3>2, MemberFacts
      <4> QED BY <1>3, <1>5, <3>1, <3>2, <4>1
    <3>3. CASE b \notin Held
      BY <1>3, <1>5, <3>1, <3>3
    <3> QED BY <3>2, <3>3
  <2>2. valid'[istart]
    BY <1>2, <1>5
  <2> QED BY <1>1, <2>1, <2>2 DEF ValidMeansOpen, Attempting
<1>10. ControlInv' /\ FeasibleInv' /\ AssertionsHold'
  BY <1>1, <1>2 DEF ControlInv, FeasibleInv, AssertionsHold, Idle, Packing, Joining, Attempting
<1>11. SeedOrder'
  BY <1>1, <1>3, SeedBlocks DEF SeedOrder, seeds
<1> QED BY <1>3, <1>6, <1>7, <1>8, <1>9, <1>10, <1>11

(* check_clustering finds every block, once, where it says it is.          *)
LEMMA CheckSucceeds ==
    ASSUME IInv, pc = "check"
    PROVE  /\ \A c \in DOMAIN saved :
                  /\ HasChild(c, Sites)
                  /\ \A x \in Containers : saved[c].inner[x] # 0 => HasChild(c, Under(x))
           /\ \A x, y \in Found : At(x) = At(y) => x = y
           /\ \A x \in Found : pb[At(x)] = x[2] /\ clb_index[At(x)] = x[1]
           /\ Blocks = {At(x) : x \in Found}
<1> USE DEF IInv, Base
<1>1. /\ Len(saved) \in Nat /\ DOMAIN saved = 1 .. Len(saved)
      /\ \A c \in 1 .. Len(saved) : saved[c] \in Trees
  BY SavedFacts DEF Shape
<1>0. \A c \in 1 .. Len(saved), s \in Sites :
          <<c, s>> \in Found <=> saved[c].holder[s] # NoBlock
  BY <1>1 DEF Found, At, Named, Nested, Nests
<1>2. ASSUME NEW x \in Found
      PROVE  /\ x \in (1 .. Len(saved)) \X Sites /\ At(x) \in Blocks
             /\ pb[At(x)] = x[2] /\ clb_index[At(x)] = x[1]
  <2>1. x \in (1 .. Len(saved)) \X Sites /\ At(x) # NoBlock
    BY <1>1 DEF Found
  <2>2. At(x) \in Blocks
    BY <1>1, <2>1 DEF At, Trees
  <2> QED BY <2>1, <2>2 DEF Linked, At
<1>3. \A x, y \in Found : At(x) = At(y) => x = y
  BY <1>2
<1>4. ASSUME NEW b \in Blocks PROVE \E x \in Found : b = At(x)
  <2>1. clb_index[b] # 0
    BY DEF SeedOrder
  <2>2. clb_index[b] \in 1 .. Len(saved)
    BY <2>1, Settled DEF Packed, Idle
  <2>3. pb[b] \in Sites
    BY <2>1 DEF Linked, Shape, TypeOK
  <2>4. saved[clb_index[b]].holder[pb[b]] = b
    BY <2>2, <2>3 DEF Linked
  <2>5. At(<<clb_index[b], pb[b]>>) = b
    BY <2>4 DEF At
  <2>6. <<clb_index[b], pb[b]>> \in Found
    BY <1>0, <2>2, <2>3, <2>4, MoleculesAssumption
  <2> QED BY <2>5, <2>6
<1>5. ASSUME NEW c \in DOMAIN saved
      PROVE  /\ HasChild(c, Sites)
             /\ \A x \in Containers : saved[c].inner[x] # 0 => HasChild(c, Under(x))
  BY <1>0, <1>1 DEF HasChild, Nested, Nests, Under
<1> QED BY <1>2, <1>3, <1>4, <1>5

LEMMA CheckStep == ASSUME IInv, Check PROVE Base'
<1> USE DEF IInv, Base
<1>1. /\ pc = "check" /\ pc' = "done"
      /\ UNCHANGED <<links, valid, saved, clb, stats, seeds, cands, stage, grid, attempt, stop>>
  BY CheckSucceeds DEF Check
<1>2. Linked' /\ WholeMolecules' /\ Bounded'
  BY <1>1, Frame DEF stats
<1>3. this' = this /\ \A b : Packed(b)' = Packed(b) /\ Mine(b)' = Mine(b)
  BY <1>1, SameBlocks
<1>4. Shape'
  BY <1>1, <1>3 DEF Shape, TypeOK, links, stats, seeds, cands, grid, attempt
<1>5. Counted' /\ ValidMeansOpen' /\ AttemptInv'
  BY <1>1, <1>3 DEF Counted, ValidMeansOpen, AttemptInv, Idle, Joining, Attempting, links, stats
<1>6. ControlInv' /\ FeasibleInv' /\ AssertionsHold'
  BY <1>1
     DEF ControlInv, FeasibleInv, AssertionsHold, Idle, Packing, Joining, Attempting, stats,
         cands, grid
<1>7. SeedOrder'
  BY <1>1, <1>3 DEF SeedOrder, seeds, links, cands
<1> QED BY <1>2, <1>4, <1>5, <1>6, <1>7

LEMMA StutterStep == ASSUME IInv, UNCHANGED vars PROVE Base'
<1> USE DEF IInv, Base, vars
<1>1. Linked' /\ WholeMolecules' /\ Bounded'
  BY Frame DEF stats
<1>2. this' = this /\ \A b : Packed(b)' = Packed(b) /\ Mine(b)' = Mine(b)
  BY SameBlocks
<1>3. Shape'
  BY <1>2 DEF Shape, TypeOK, links, stats, seeds, cands, grid, attempt
<1>4. Counted' /\ ValidMeansOpen'
  BY <1>2 DEF Counted, ValidMeansOpen, candidate, links, stats, cands
<1>5. AttemptInv'
  BY <1>2 DEF AttemptInv, Block, candidate, links, cands, attempt
<1>6. ControlInv' /\ FeasibleInv' /\ AssertionsHold'
  BY <1>2 DEF ControlInv, FeasibleInv, AssertionsHold, candidate, stats, cands, grid
<1>7. SeedOrder'
  BY <1>2 DEF SeedOrder, seeds, links, cands
<1> QED BY <1>1, <1>3, <1>4, <1>5, <1>6, <1>7
(* Only Save adds a finished complex block.                                *)
LEMMA SavedSteps ==
    ASSUME Next, ~Save
    PROVE  saved' = saved
  BY
     DEF Next, MostCriticalSeed, MostInputsSeed, StartCluster, OpenType, NoTypeLeft, Offer,
         NoOffer,
         PlaceBlock, Refuse, Commit, RevertBlock, Update, Rebuild, ExploreHighFanout, PopFeasible,
         NoRelated, Discard, Check, Ended, Stop, vars

(* A container is given children with the first block placed in it and     *)
(* freed with the last one.                                                *)
LEMMA NestsAfterPlace ==
    ASSUME IInv, PlaceBlock
    PROVE  Nests(holder, inner)'
<1> USE DEF IInv, Base
<1> DEFINE i == failed_location + 1
           s == primitives_list[i]
           x == SiteParent[s]
<1>1. CASE UNCHANGED <<holder, inner>>
  BY <1>1 DEF Nested, Nests
<1>2. CASE ~UNCHANGED <<holder, inner>>
  <2>1. pc = "place" /\ candidate \in Molecules
    BY DEF PlaceBlock, candidate, ControlInv, Packing, Joining, Attempting, Shape, TypeOK
  <2>2. i \in 1 .. Len(primitives_list) /\ i > failed_location /\ s \in Sites
    BY <2>1, LenProperties, ElementOfSeq DEF AttemptInv, Attempting
  <2>3. s \notin Disabled /\ (x # Top => inner[x] \in {0, InnerMode[s]})
    BY <2>1, <2>2 DEF Fits
  <2>4. Block(i) \in Blocks
    BY <2>1, <2>2, MemberFacts DEF AttemptInv, Attempting, Block
  <2>5. /\ inner' = [y \in Containers |-> IF y = x THEN InnerMode[s] ELSE inner[y]]
        /\ holder' = [holder EXCEPT ![s] = Block(i)]
    <3>1. \A why : ~Stop(why)
      BY <1>2 DEF Stop, links
    <3>2. s \notin Disabled /\ ~(x # Top /\ inner[x] \notin {0, InnerMode[s]})
      BY <2>3
    <3> QED BY <3>1, <3>2 DEF PlaceBlock
  <2>6. /\ holder \in [Sites -> Blocks \cup {NoBlock}] /\ inner \in [Containers -> Nat]
        /\ holder'[s] # NoBlock
        /\ \A r \in Sites : r # s => holder'[r] = holder[r]
    <3>1. holder \in [Sites -> Blocks \cup {NoBlock}] /\ inner \in [Containers -> Nat]
      BY DEF Shape, TypeOK
    <3>2. holder'[s] = Block(i) /\ Block(i) # NoBlock
      BY <2>2, <2>4, <2>5, <3>1, MoleculesAssumption
    <3>3. \A r \in Sites : r # s => holder'[r] = holder[r]
      BY <2>5, <3>1
    <3> QED BY <3>1, <3>2, <3>3
  <2>7. \A y \in Containers : inner'[y] = IF y = x THEN InnerMode[s] ELSE inner[y]
    BY <2>5
  <2> HIDE DEF i, s, x
  <2>8. ASSUME NEW r \in Sites, holder'[r] # NoBlock, SiteParent[r] # Top
        PROVE  inner'[SiteParent[r]] = InnerMode[r]
    <3>1. SiteParent[r] \in Containers
      BY <2>8 DEF Containers
    <3>2. CASE r = s
      BY <2>7, <3>1, <3>2 DEF x
    <3>3. CASE r # s
      <4>1. inner[SiteParent[r]] = InnerMode[r] /\ InnerMode[r] # 0
        BY <2>6, <2>8, <3>3, TypesAssumption DEF Nested, Nests
      <4> QED BY <2>3, <2>7, <2>8, <3>1, <4>1
    <3> QED BY <3>2, <3>3
  <2>9. ASSUME NEW y \in Containers, inner'[y] # 0
        PROVE  \E r \in Under(y) : holder'[r] # NoBlock
    <3>1. CASE y = x
      BY <2>2, <2>6, <3>1 DEF Under, x
    <3>2. CASE y # x
      <4>1. PICK r \in Under(y) : holder[r] # NoBlock
        BY <2>7, <2>9, <3>2 DEF Nested, Nests
      <4> QED BY <2>6, <4>1 DEF Under
    <3> QED BY <3>1, <3>2
  <2> QED BY <2>8, <2>9 DEF Nests
<1> QED BY <1>1, <1>2

LEMMA NestsAfterRevert ==
    ASSUME IInv, RevertBlock
    PROVE  Nests(holder, inner)'
<1> USE DEF IInv, Base
<1> DEFINE b == Block(irevert)
           S == IF pb[b] = NoSite THEN {} ELSE {b} \cup FreedWith(pb[b])
           X == IF pb[b] = NoSite THEN {} ELSE Emptied(pb[b])
<1>1. /\ pc = "revert" /\ candidate \in Molecules
      /\ holder' = [s \in Sites |-> IF holder[s] \in S THEN NoBlock ELSE holder[s]]
      /\ inner' = [x \in Containers |-> IF x \in X THEN 0 ELSE inner[x]]
  BY DEF RevertBlock, Release, Close, candidate, ControlInv, Packing, Joining, Attempting, Shape,
         TypeOK
<1>2. b \in Members(candidate) /\ b \in Blocks
  <2>1. irevert \in 1 .. Len(BlocksOf[candidate])
    BY <1>1, LenProperties DEF AttemptInv, Attempting
  <2> QED BY <1>1, <2>1, MemberFacts DEF Block
<1>3. /\ b \notin counted /\ clb_index[b] \in {0, this}
      /\ holder \in [Sites -> Blocks \cup {NoBlock}] /\ pb \in [Blocks -> Sites \cup {NoSite}]
  BY <1>1, <1>2 DEF Counted, Joining, Attempting, AttemptInv, Shape, TypeOK
<1>4. CASE pb[b] = NoSite
  <2>1. \A s \in Sites : holder'[s] = holder[s]
    BY <1>1, <1>4
  <2>2. \A x \in Containers : inner'[x] = inner[x]
    BY <1>1, <1>4
  <2> QED BY <2>1, <2>2 DEF Nested, Nests, Under, Containers
<1>5. CASE pb[b] # NoSite
  <2> DEFINE p == pb[b]
  <2>1. p \in Sites /\ holder[p] = b /\ \A s \in Sites : holder[s] = b => s = p
    BY <1>2, <1>3, <1>5 DEF Linked, Mine
  <2>2. S = {b} \cup FreedWith(p) /\ X = Emptied(p)
    BY <1>5
  <2> HIDE DEF b, S, X, p
  <2>3. \A r, s \in Sites : holder[r] # NoBlock /\ holder[r] = holder[s] => r = s
    BY <1>3 DEF Linked
  <2>4. ASSUME NEW s \in Sites, holder[s] # NoBlock
        PROVE  holder[s] \in S <=> s = p \/ SiteParent[s] \in X
    <3>1. holder[s] = b <=> s = p
      BY <2>1, <2>4
    <3>2. holder[s] \in FreedWith(p) <=> \E x \in X : s \in Under(x)
      <4>1. holder[s] \in FreedWith(p) <=> \E x \in X : \E r \in Under(x) : holder[r] = holder[s]
        BY <2>2, <2>4 DEF FreedWith
      <4> QED BY <2>3, <2>4, <4>1 DEF Under
    <3> QED BY <2>2, <3>1, <3>2 DEF Under
  <2>5. ASSUME NEW s \in Sites, holder'[s] # NoBlock, SiteParent[s] # Top
        PROVE  inner'[SiteParent[s]] = InnerMode[s]
    <3>1. holder[s] # NoBlock /\ SiteParent[s] \notin X /\ SiteParent[s] \in Containers
      BY <1>1, <2>4, <2>5 DEF Containers
    <3>2. inner[SiteParent[s]] = InnerMode[s]
      BY <2>5, <3>1 DEF Nested, Nests
    <3> QED BY <1>1, <3>1, <3>2
  <2>6. ASSUME NEW x \in Containers, inner'[x] # 0
        PROVE  \E r \in Under(x) : holder'[r] # NoBlock
    <3>1. x \notin X /\ inner[x] # 0
      BY <1>1, <2>6
    <3>2. CASE x = SiteParent[p]
      <4>1. x # Top
        BY DEF Containers
      <4>2. PICK r \in Under(x) : holder[r] \in counted
        BY <2>2, <3>1, <3>2, <4>1 DEF Emptied
      <4>3. r \in Sites /\ SiteParent[r] \notin X
        BY <3>1, <4>2 DEF Under
      <4>4. r # p
        BY <1>3, <2>1, <4>2
      <4>5. holder[r] # NoBlock
        BY <4>2, MoleculesAssumption DEF Shape, TypeOK
      <4> QED BY <1>1, <2>4, <4>2, <4>3, <4>4, <4>5
    <3>3. CASE x # SiteParent[p]
      <4>1. PICK r \in Under(x) : holder[r] # NoBlock
        BY <3>1 DEF Nested, Nests
      <4>2. r \in Sites /\ r # p /\ SiteParent[r] \notin X
        BY <3>1, <3>3, <4>1 DEF Under
      <4> QED BY <1>1, <2>4, <4>1, <4>2
    <3> QED BY <3>2, <3>3
  <2> QED BY <2>5, <2>6 DEF Nests
<1> QED BY <1>4, <1>5

LEMMA NestedStep == ASSUME IInv, Next PROVE Nested'
<1> USE DEF IInv, Base
<1> DEFINE Finished_ == \A c \in 1 .. Len(saved) :
                            /\ Nests(saved[c].holder, saved[c].inner)
                            /\ \E s \in Sites : saved[c].holder[s] # NoBlock
<1>1. Nests(Empty, NoChildren)
  BY DEF Nests, Empty, NoChildren
<1>2. CASE Save
  <2> DEFINE tree == [type |-> clb.type, holder |-> holder, inner |-> inner]
  <2>1. pc = "close" /\ saved' = Append(saved, tree) /\ holder' = Empty /\ inner' = NoChildren
    BY <1>2 DEF Save
  <2>2. saved \in Seq(Trees) /\ Len(saved) \in Nat /\ tree \in Trees
    BY <2>1, SavedFacts, Closing DEF Trees, Shape, TypeOK
  <2>3. /\ Len(saved') = Len(saved) + 1 /\ saved'[Len(saved) + 1] = tree
        /\ \A c \in 1 .. Len(saved) : saved'[c] = saved[c]
    BY <2>1, <2>2, AppendProperties
  <2>4. \E s \in Sites : holder[s] # NoBlock
    <3>1. PICK b \in Members(istart) : Mine(b) /\ b \in Blocks
      BY <2>1, Closing, MemberFacts
    <3>2. pb[b] \in Sites
      BY <3>1, SavedFacts DEF Linked, Mine, Shape, TypeOK
    <3> QED BY <3>1, <3>2, MoleculesAssumption DEF Linked
  <2>5. ASSUME NEW c \in 1 .. Len(saved')
        PROVE  /\ Nests(saved'[c].holder, saved'[c].inner)
               /\ \E s \in Sites : saved'[c].holder[s] # NoBlock
    <3>1. CASE c = Len(saved) + 1
      BY <2>3, <2>4, <3>1 DEF Nested
    <3>2. CASE c # Len(saved) + 1
      BY <2>2, <2>3, <3>2 DEF Nested
    <3> QED BY <3>1, <3>2
  <2> QED BY <1>1, <2>1, <2>5 DEF Nested
<1>3. CASE ~Save
  <2>1. saved' = saved
    BY <1>3, SavedSteps
  <2>2. Nests(holder, inner)'
    <3>1. CASE PlaceBlock
      BY <3>1, NestsAfterPlace
    <3>2. CASE RevertBlock
      BY <3>2, NestsAfterRevert
    <3>3. CASE OpenType
      <4>1. UNCHANGED <<holder, inner>> \/ (holder' = Empty /\ inner' = NoChildren)
        BY <3>3 DEF OpenType
      <4> QED BY <1>1, <4>1 DEF Nested
    <3>4. CASE Discard
      <4>1. \A s \in Sites : holder'[s] = NoBlock
        BY <3>4 DEF Discard, Release, Held
      <4>2. \A x \in Containers : inner'[x] = 0
        BY <3>4 DEF Discard, NoChildren
      <4> QED BY <4>1, <4>2 DEF Nests
    <3>5. CASE ~(PlaceBlock \/ RevertBlock \/ OpenType \/ Discard)
      <4>1. UNCHANGED <<holder, inner>>
        BY <1>3, <3>5
           DEF Next, MostCriticalSeed, MostInputsSeed, StartCluster, NoTypeLeft, Offer, NoOffer,
               Refuse, Commit, Update, Rebuild, ExploreHighFanout, PopFeasible, NoRelated, Check,
               Ended, Stop, vars, links
      <4> QED BY <4>1 DEF Nested, Nests
    <3> QED BY <3>1, <3>2, <3>3, <3>4, <3>5
  <2> QED BY <2>1, <2>2 DEF Nested
<1> QED BY <1>2, <1>3

(* Placing a block gives its container the mode the others of the molecule *)
(* in that container need too.                                             *)
LEMMA FitsStep == ASSUME IInv, Next PROVE Fits'
<1> USE DEF IInv, Base
<1> SUFFICES ASSUME pc' = "place" PROVE Fits'
  BY DEF Fits
<1>1. CASE Offer
  <2>1. pc = "offer" /\ failed_location' = 0 /\ UNCHANGED <<links, cands>> /\ candidate \in Molecules
    BY <1>1 DEF Offer, candidate, ControlInv, Packing, Joining, Attempting, Shape, TypeOK
  <2>2. PICK p \in Placements[candidate] : Unoccupied(p) /\ primitives_list' = p
    BY <1>1 DEF Offer
  <2>3. DOMAIN p = 1 .. Len(p)
    BY <2>1, PlacementsAssumption, LenProperties
  <2>4. \A i, j \in 1 .. Len(p) : Mates(p[i], p[j]) => InnerMode[p[i]] = InnerMode[p[j]]
    BY <2>1, <2>3, PlacementsAssumption
  <2>5. \A i \in 1 .. Len(p) :
            /\ p[i] \notin Disabled
            /\ SiteParent[p[i]] # Top => inner[SiteParent[p[i]]] \in {0, InnerMode[p[i]]}
    BY <2>1, <2>2, OfferedFits
  <2> QED BY <2>1, <2>2, <2>4, <2>5 DEF Fits, links
<1>2. CASE PlaceBlock
  <2> DEFINE i == failed_location + 1
             s == primitives_list[i]
             n == Len(primitives_list)
  <2>0. pc = "place" /\ candidate \in Molecules
    BY <1>2 DEF PlaceBlock, candidate, ControlInv, Packing, Joining, Attempting, Shape, TypeOK
  <2>1. /\ pc = "place" /\ candidate \in Molecules /\ n \in Nat /\ n = Len(BlocksOf[candidate])
        /\ failed_location \in 0 .. n - 1 /\ primitives_list \in Seq(Sites)
    BY <2>0, LenProperties DEF AttemptInv, Attempting
  <2>2. i \in 1 .. n /\ s \in Sites
    BY <2>1, ElementOfSeq
  <2>3. s \notin Disabled
    BY <2>1, <2>2 DEF Fits
  <2>4. /\ inner' = [y \in Containers |-> IF y = SiteParent[s] THEN InnerMode[s] ELSE inner[y]]
        /\ failed_location' = i /\ primitives_list' = primitives_list
    BY <1>2, <2>3 DEF PlaceBlock, Stop
  <2>5. \A k, l \in 1 .. n : Mates(primitives_list[k], primitives_list[l]) =>
            InnerMode[primitives_list[k]] = InnerMode[primitives_list[l]]
    BY <2>1 DEF Fits
  <2> HIDE DEF i, s, n
  <2>6. ASSUME NEW k \in 1 .. n, k > i
        PROVE  /\ primitives_list[k] \notin Disabled
               /\ SiteParent[primitives_list[k]] # Top =>
                      inner'[SiteParent[primitives_list[k]]] \in {0, InnerMode[primitives_list[k]]}
    <3> DEFINE r == primitives_list[k]
    <3>1. r \in Sites /\ k > failed_location
      BY <2>1, <2>6, ElementOfSeq DEF i, n
    <3>2. r \notin Disabled /\ (SiteParent[r] # Top => inner[SiteParent[r]] \in {0, InnerMode[r]})
      BY <2>1, <3>1 DEF Fits, n
    <3>3. ASSUME SiteParent[r] # Top, SiteParent[r] = SiteParent[s] PROVE InnerMode[r] = InnerMode[s]
      BY <2>2, <2>5, <3>3 DEF Mates, s
    <3>4. SiteParent[r] # Top => SiteParent[r] \in Containers
      BY <3>1 DEF Containers
    <3> QED BY <2>4, <3>2, <3>3, <3>4
  <2> QED BY <2>4, <2>5, <2>6 DEF Fits, n
<1>3. CASE ~(Offer \/ PlaceBlock)
  <2>1. FALSE
    BY <1>3
       DEF Next, MostCriticalSeed, MostInputsSeed, StartCluster, OpenType, NoTypeLeft, NoOffer,
           SeedFails, Refuse, Commit, RevertBlock, Update, Rebuild, ExploreHighFanout,
           PopFeasible, NoRelated, Next_, Save, Discard, Check, Ended, Stop, vars
  <2> QED BY <2>1
<1> QED BY <1>1, <1>2, <1>3
-----------------------------------------------------------------------------
LEMMA BaseStep == ASSUME IInv, Next PROVE Base'
<1>1. CASE MostCriticalSeed BY <1>1, MostCriticalSeedStep
<1>2. CASE MostInputsSeed BY <1>2, MostInputsSeedStep
<1>3. CASE StartCluster BY <1>3, StartClusterStep
<1>4. CASE OpenType BY <1>4, OpenTypeStep
<1>5. CASE NoTypeLeft BY <1>5, NoTypeLeftStep
<1>6. CASE Offer BY <1>6, OfferStep
<1>7. CASE NoOffer BY <1>7, NoOfferStep
<1>8. CASE PlaceBlock BY <1>8, PlaceBlockStep
<1>9. CASE Refuse BY <1>9, RefuseStep
<1>10. CASE Commit BY <1>10, CommitStep
<1>11. CASE RevertBlock BY <1>11, RevertBlockStep
<1>12. CASE Update BY <1>12, UpdateStep
<1>13. CASE Rebuild BY <1>13, RebuildStep
<1>14. CASE ExploreHighFanout BY <1>14, ExploreHighFanoutStep
<1>15. CASE PopFeasible BY <1>15, PopFeasibleStep
<1>16. CASE NoRelated BY <1>16, NoRelatedStep
<1>17. CASE Save BY <1>17, SaveStep
<1>18. CASE Discard BY <1>18, DiscardStep
<1>19. CASE Check BY <1>19, CheckStep
<1>20. CASE Ended BY <1>20, StutterStep DEF Ended
<1> QED BY <1>1, <1>2, <1>3, <1>4, <1>5, <1>6, <1>7, <1>8, <1>9, <1>10, <1>11, <1>12, <1>13,
           <1>14, <1>15, <1>16, <1>17, <1>18, <1>19, <1>20 DEF Next

LEMMA StepIInv == IInv /\ [Next]_vars => IInv'
<1>1. ASSUME IInv, Next PROVE IInv'
  BY <1>1, BaseStep, NestedStep, FitsStep DEF IInv
<1>2. ASSUME IInv, UNCHANGED vars PROVE IInv'
  <2>1. Base'
    BY <1>2, StutterStep
  <2>2. Nested' /\ Fits'
    BY <1>2 DEF IInv, Nested, Nests, Fits, vars, links, attempt
  <2> QED BY <2>1, <2>2 DEF IInv
<1> QED BY <1>1, <1>2

LEMMA InitIInv == Init => IInv
<1> SUFFICES ASSUME Init PROVE IInv
  OBVIOUS
<1>1. Base
  BY InitBase
<1>2. Nested
  BY DEF Init, Nested, Nests, Empty, NoChildren
<1>3. Fits
  BY DEF Init, Fits
<1> QED BY <1>1, <1>2, <1>3 DEF IInv

(* The strengthened invariant: it holds at first and every step of the     *)
(* packer keeps it.                                                        *)
THEOREM Invariance == Spec => []IInv
<1>1. Init => IInv
  BY InitIInv
<1>2. IInv /\ [Next]_vars => IInv'
  BY StepIInv
<1> QED BY <1>1, <1>2, PTL DEF Spec

LEMMA IInvLinksAgree == IInv => LinksAgree
<1> SUFFICES ASSUME IInv PROVE LinksAgree
  OBVIOUS
<1> USE DEF IInv, Base
<1> DEFINE open == [type |-> clb.type, holder |-> holder, inner |-> inner]
           trees == saved \o <<open>>
<1>1. /\ saved \in Seq(Trees) /\ Len(saved) \in Nat /\ this = Len(saved) + 1
  BY SavedFacts DEF Shape
<1>2. /\ DOMAIN trees = 1 .. this /\ trees[this].holder = holder
      /\ \A c \in 1 .. Len(saved) : trees[c] = saved[c]
  <2> DEFINE E == Trees \cup {open}
  <2>1. saved \in Seq(E) /\ <<open>> \in Seq(E) /\ Len(<<open>>) = 1
    BY <1>1, SeqDef, LenProperties, ElementOfSeq
  <2>2. Len(trees) = this /\ trees \in Seq(E)
    BY <1>1, <2>1, ConcatProperties
  <2>3. trees[this] = open /\ \A c \in 1 .. Len(saved) : trees[c] = saved[c]
    BY <1>1, <2>1, ConcatProperties
  <2> QED BY <2>2, <2>3, LenProperties
<1>3. ASSUME NEW c \in DOMAIN trees, NEW s \in Sites, NEW b \in Blocks
      PROVE  trees[c].holder[s] = b <=> clb_index[b] = c /\ pb[b] = s
  <2>1. CASE c = this
    BY <1>2, <2>1 DEF Linked, Mine
  <2>2. CASE c # this
    BY <1>1, <1>2, <2>2 DEF Linked
  <2> QED BY <2>1, <2>2
<1>4. ASSUME NEW b \in counted PROVE clb_index[b] = this /\ holder[pb[b]] = b
  <2>1. b \in Blocks /\ Mine(b)
    BY DEF Counted, Shape, TypeOK
  <2>2. pb[b] \in Sites
    BY <1>1, <2>1 DEF Linked, Mine, Shape, TypeOK
  <2> QED BY <2>1, <2>2 DEF Linked, Mine
<1>5. pc \notin {"place", "pins", "revert", "stop"} =>
          \A m \in Molecules : \A b \in Members(m) : valid[m] <=> clb_index[b] = 0
  BY DEF ValidMeansOpen, Attempting
<1>6. TypeOK /\ \A b \in Blocks : (pb[b] = NoSite) <=> (clb_index[b] = 0)
  BY DEF Shape, Linked
<1> QED BY <1>3, <1>4, <1>5, <1>6 DEF LinksAgree

(* Whatever molecules fail, at whichever block, and whatever complex blocks *)
(* are emptied: blocks and primitives name each other and a molecule is a  *)
(* candidate exactly when all its blocks are unclustered.                  *)
THEOREM BlocksAndMoleculesAgree == Spec => []LinksAgree
<1>1. IInv => LinksAgree
  BY IInvLinksAgree
<1> QED BY <1>1, Invariance, PTL

(* indexofcrit only moves forward and yet no block is passed over.         *)
THEOREM NoSeedIsLost == Spec => []SeedsLeaveNothing
<1>1. IInv => SeedsLeaveNothing
  <2> SUFFICES ASSUME IInv PROVE SeedsLeaveNothing
    OBVIOUS
  <2>1. \A b : Packed(b) => clb_index[b] # 0
    BY DEF Packed
  <2> QED BY <2>1 DEF IInv, Base, SeedOrder, SeedsLeaveNothing
<1> QED BY <1>1, Invariance, PTL

(* No assertion about seeds, placements, the modes of containers, split or *)
(* invalid molecules fails, and check_clustering always succeeds: no       *)
(* container is left without a child, whichever modes are disabled.        *)
THEOREM NoAssertionFails == Spec => []AssertionsHold
<1>1. IInv => AssertionsHold
  BY DEF IInv, Base
<1> QED BY <1>1, Invariance, PTL

-----------------------------------------------------------------------------
(* What the finished complex blocks hold, in terms of the blocks' links.   *)
PartsAre ==
    /\ \A c \in 1 .. Len(saved) :
           /\ Contents(c) = {m \in Molecules : \E b \in Members(m) : clb_index[b] = c}
           /\ Whole(c) = Contents(c)
    /\ Molecules \ UNION {Contents(c) : c \in DOMAIN saved} = Left

LEMMA ContentsFacts == IInv => PartsAre
<1> SUFFICES ASSUME IInv PROVE PartsAre
  OBVIOUS
<1> USE DEF IInv, Base
<1>1. /\ Len(saved) \in Nat /\ DOMAIN saved = 1 .. Len(saved)
  BY SavedFacts DEF Shape
<1>2. ASSUME NEW c \in 1 .. Len(saved), NEW b \in Blocks
      PROVE  (\E s \in Sites : saved[c].holder[s] = b) <=> clb_index[b] = c
  <2>1. clb_index[b] = c => pb[b] \in Sites
    BY <1>1 DEF Linked, Shape, TypeOK
  <2> QED BY <2>1 DEF Linked
<1>3. ASSUME NEW c \in 1 .. Len(saved)
      PROVE  /\ Contents(c) = {m \in Molecules : \E b \in Members(m) : clb_index[b] = c}
             /\ Whole(c) = Contents(c)
  <2>1. Contents(c) = {m \in Molecules : \E b \in Members(m) : clb_index[b] = c}
    BY <1>2, MemberFacts DEF Contents
  <2>2. Whole(c) = {m \in Molecules : \A b \in Members(m) : clb_index[b] = c}
    BY <1>2, MemberFacts DEF Whole
  <2>3. \A m \in Molecules :
            (\E b \in Members(m) : clb_index[b] = c) <=> \A b \in Members(m) : clb_index[b] = c
    BY MemberFacts DEF WholeMolecules, Packed
  <2> QED BY <2>1, <2>2, <2>3
<1>4. Molecules \ UNION {Contents(c) : c \in DOMAIN saved} = Left
  <2>1. \A m \in Molecules :
            m \in UNION {Contents(c) : c \in DOMAIN saved} <=> \E b \in Members(m) : Packed(b)
    BY <1>1, <1>3 DEF Packed
  <2> QED BY <2>1 DEF Left
<1> QED BY <1>3, <1>4 DEF PartsAre

LEMMA ContentsFactsNext == IInv' => PartsAre'
  BY ContentsFacts, PTL

(* The variables of MoleculePartition, as Clusterer maps them.             *)
Remaining == Molecules \ UNION {Contents(c) : c \in DOMAIN saved}
Finished  == [c \in DOMAIN saved |-> Whole(c)]
Outcome   == CASE pc = "done" -> "packed" [] pc = "stop" -> "failed" [] OTHER -> "packing"

(* A step that finishes no complex block.                                  *)
LEMMA SameParts == ASSUME saved' = saved PROVE UNCHANGED <<Remaining, Finished>>
  BY DEF Remaining, Finished, Contents, Whole

(* Save moves the molecules of the open complex block, whole, from those   *)
(* left into a new complex block.                                          *)
LEMMA SaveFinishes ==
    ASSUME IInv, Save
    PROVE  \E S \in SUBSET Remaining :
               /\ S # {} /\ Remaining' = Remaining \ S /\ Finished' = Append(Finished, S)
<1>1. IInv' /\ PartsAre /\ PartsAre'
  BY StepIInv, ContentsFacts, ContentsFactsNext DEF Next
<1>2. /\ pc = "close" /\ clb_index' = clb_index
      /\ saved' = Append(saved, [type |-> clb.type, holder |-> holder, inner |-> inner])
  BY DEF Save
<1>3. /\ saved \in Seq(Trees) /\ Len(saved) \in Nat /\ this = Len(saved) + 1
      /\ DOMAIN saved = 1 .. Len(saved)
  BY SavedFacts DEF IInv, Base, Shape
<1>4. /\ Len(saved') = this /\ DOMAIN saved' = 1 .. this
      /\ \A c \in 1 .. Len(saved) : saved'[c] = saved[c]
  <2>1. [type |-> clb.type, holder |-> holder, inner |-> inner] \in Trees
    BY <1>2, Closing DEF Trees, IInv, Base, Shape, TypeOK
  <2>2. saved' \in Seq(Trees) /\ Len(saved') = this
        /\ \A c \in 1 .. Len(saved) : saved'[c] = saved[c]
    BY <1>2, <1>3, <2>1, AppendProperties
  <2> QED BY <2>2, LenProperties
<1> DEFINE n == this
           S == {m \in Molecules : \E b \in Members(m) : clb_index[b] = n}
           W(c) == {m \in Molecules : \E b \in Members(m) : clb_index[b] = c}
<1>5. \A c \in 1 .. Len(saved) : Whole(c) = W(c)
  BY <1>1 DEF PartsAre
<1>6. \A c \in 1 .. n : Whole(c)' = W(c)
  BY <1>1, <1>2, <1>4 DEF PartsAre
<1>7. Finished' = Append(Finished, S)
  <2> DEFINE T == SUBSET Molecules
  <2>1. Finished = [c \in 1 .. Len(saved) |-> W(c)]
    BY <1>3, <1>5 DEF Finished
  <2>2. Finished' = [c \in 1 .. n |-> W(c)]
    BY <1>4, <1>6 DEF Finished
  <2>3. Finished \in Seq(T) /\ Len(Finished) = Len(saved)
    BY <1>3, <2>1, LenProperties, SeqDef
  <2>4. Finished' \in Seq(T) /\ Len(Finished') = n
    BY <1>3, <2>2, SeqDef
  <2>5. /\ Append(Finished, S) \in Seq(T) /\ Len(Append(Finished, S)) = n
        /\ \A c \in 1 .. Len(saved) : Append(Finished, S)[c] = W(c)
        /\ Append(Finished, S)[n] = S
    BY <1>3, <2>1, <2>3, AppendProperties
  <2>6. \A c \in 1 .. n : Finished'[c] = Append(Finished, S)[c]
    <3>1. TAKE c \in 1 .. n
    <3>2. CASE c = n
      BY <2>2, <2>5, <3>2
    <3>3. CASE c # n
      BY <1>3, <2>2, <2>5, <3>3
    <3> QED BY <3>2, <3>3
  <2> QED BY <2>4, <2>5, <2>6, SeqEqual
<1>8. Remaining = Left /\ Remaining' = Left'
  BY <1>1 DEF PartsAre, Remaining
<1>9. S \subseteq Left
  <2>1. ASSUME NEW m \in S PROVE m \in Left
    <3>1. \A b \in Members(m) : Mine(b)
      BY <1>2, Closing, MemberFacts DEF Mine
    <3> QED BY <1>3, <3>1 DEF Left, Packed, Mine
  <2> QED BY <2>1
<1>10. Left' = Left \ S
  <2>1. ASSUME NEW m \in Molecules
        PROVE  m \in Left' <=> m \in Left /\ m \notin S
    <3>1. m \in Left' <=> \A b \in Members(m) : ~(clb_index[b] \in 1 .. n)
      BY <1>2, <1>4 DEF Left, Packed
    <3>2. m \in Left <=> \A b \in Members(m) : ~(clb_index[b] \in 1 .. Len(saved))
      BY DEF Left, Packed
    <3>3. \A b \in Members(m) : clb_index[b] \in 1 .. n <=>
              clb_index[b] \in 1 .. Len(saved) \/ clb_index[b] = n
      BY <1>3
    <3> QED BY <3>1, <3>2, <3>3
  <2> QED BY <2>1 DEF Left
<1>11. S # {}
  BY <1>2, Closing, MemberFacts DEF Mine
<1> QED BY <1>7, <1>8, <1>9, <1>10, <1>11

(* Only the end of the check ends packing with success.                    *)
LEMMA OutcomeSteps ==
    ASSUME Next, UNCHANGED saved, pc' = "done"
    PROVE  pc = "check" \/ pc = "done"
  BY
     DEF Next, MostCriticalSeed, MostInputsSeed, StartCluster, OpenType, NoTypeLeft, Offer,
         NoOffer,
         PlaceBlock, Refuse, Commit, RevertBlock, Update, Rebuild, ExploreHighFanout, PopFeasible,
         NoRelated, Discard, Save, Check, Ended, Stop, vars, SeedFails, Next_

LEMMA EndIsFinal ==
    ASSUME Next, pc \in {"done", "stop"}
    PROVE  UNCHANGED vars
  BY
     DEF Next, MostCriticalSeed, MostInputsSeed, StartCluster, OpenType, NoTypeLeft, Offer,
         NoOffer,
         PlaceBlock, Refuse, Commit, RevertBlock, Update, Rebuild, ExploreHighFanout, PopFeasible,
         NoRelated, Discard, Save, Check, Ended

LEMMA PartitionStep == IInv /\ [Next]_vars => [Partition!PartNext]_Partition!partVars
<1> SUFFICES ASSUME IInv, [Next]_vars PROVE [Partition!PartNext]_Partition!partVars
  OBVIOUS
<1> USE DEF Partition!PartNext, Partition!partVars
<1>1. CASE UNCHANGED vars
  <2>1. UNCHANGED <<Remaining, Finished, Outcome>>
    BY <1>1, SameParts DEF vars, Outcome
  <2> QED BY <2>1 DEF Remaining, Finished, Outcome
<1>2. CASE Save
  <2>1. Outcome = "packing" /\ Outcome' = "packing"
    BY <1>2 DEF Save, Outcome
  <2>2. PICK S \in SUBSET Remaining :
            S # {} /\ Remaining' = Remaining \ S /\ Finished' = Append(Finished, S)
    BY <1>2, SaveFinishes
  <2>3. Partition!Finish(S)
    BY <2>1, <2>2 DEF Partition!Finish, Remaining, Finished, Outcome
  <2> QED BY <2>2, <2>3 DEF Remaining
<1>3. CASE Next /\ ~Save /\ ~UNCHANGED vars
  <2>1. UNCHANGED <<Remaining, Finished>> /\ saved' = saved
    BY <1>3, SavedSteps, SameParts
  <2>2. Outcome = "packing"
    BY <1>3, EndIsFinal DEF Outcome
  <2>3. CASE pc' = "done"
    <3>1. pc = "check"
      BY <1>3, <2>1, <2>3, OutcomeSteps, EndIsFinal
    <3>2. Remaining = {}
      <4>1. Remaining = Left
        BY ContentsFacts DEF PartsAre, Remaining
      <4>2. \A b \in Blocks : Packed(b)
        BY <3>1, Settled DEF IInv, Base, SeedOrder, Idle
      <4> QED BY <4>1, <4>2, MemberFacts DEF Left
    <3>3. Outcome' = "packed"
      BY <2>3 DEF Outcome
    <3>4. Partition!Succeed
      BY <2>1, <2>2, <3>2, <3>3 DEF Partition!Succeed, Remaining, Finished, Outcome
    <3> QED BY <3>4
  <2>4. CASE pc' = "stop"
    <3>1. Outcome' = "failed"
      BY <2>4 DEF Outcome
    <3>2. Partition!Fail
      BY <2>1, <2>2, <3>1 DEF Partition!Fail, Remaining, Finished, Outcome
    <3> QED BY <3>2
  <2>5. CASE pc' \notin {"done", "stop"}
    <3>1. Outcome' = Outcome
      BY <2>2, <2>5 DEF Outcome
    <3> QED BY <2>1, <3>1 DEF Remaining, Finished, Outcome
  <2> QED BY <2>3, <2>4, <2>5
<1> QED BY <1>1, <1>2, <1>3

LEMMA PartitionInit == Init => Partition!PartInit
<1> SUFFICES ASSUME Init PROVE Partition!PartInit
  OBVIOUS
<1>1. saved = <<>> /\ pc = "seed" /\ DOMAIN saved = {}
  BY DEF Init
<1>2. Remaining = Molecules
  BY <1>1 DEF Remaining
<1>3. Finished = <<>>
  BY <1>1 DEF Finished
<1>4. Outcome = "packing"
  BY <1>1 DEF Outcome
<1> QED BY <1>2, <1>3, <1>4 DEF Partition!PartInit, Remaining, Finished, Outcome

(* Packing divides the molecules into complex blocks, each molecule whole  *)
(* in one of them, and succeeds only when none is left.                    *)
THEOREM PackingPartitions == Spec => ImplementsPartition
<1>1. Init => Partition!PartInit
  BY PartitionInit
<1>2. IInv /\ [Next]_vars => [Partition!PartNext]_Partition!partVars
  BY PartitionStep
<1> QED BY <1>1, <1>2, Invariance, PTL DEF Spec, ImplementsPartition, Partition!PartSpec
=============================================================================
