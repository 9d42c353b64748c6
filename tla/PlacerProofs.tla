---------------------------- MODULE PlacerProofs ----------------------------
(***************************************************************************)
(* Proofs about Placer, for every array, every netlist, every set of       *)
(* macros and every pad file: blocks and grid agree all along, macros keep *)
(* their shape, the lists of free positions are exact while blocks are put *)
(* down one by one, and the pins of a block follow the site it got.        *)
(* About PlacerCosts, for every set of nets, delays and criticalities: the *)
(* costs changed swap by swap are those of the placement.                  *)
(***************************************************************************)
EXTENDS PlacerCosts, DeviceGrid, SequenceTheorems, FiniteSetTheorems, WellFoundedInduction, TLAPS

Triples   == Int \X Int \X Int
CoreSites == {<<c[1], c[2], 0>> : c \in Core}

Initial  == {"macros", "compact", "blocks"}
Swapping == {"anneal", "freeze"}
Over     == {"placed", "synced"}

(* Blocks and grid, seen from either side.                                 *)
BlocksStand ==
    /\ \A b \in Blocks \ fixed :
        Placed(b) => Held(b) \in Sites /\ grid[Held(b)] = b
    /\ \A b \in fixed :
        /\ Placed(b)
        /\ \E s \in Sites : grid[s] = b /\ CellOf(s) = CellOf(Held(b))
GridHolds ==
    /\ \A s \in Sites : grid[s] # Empty =>
        Placed(grid[s]) /\ (grid[s] \notin fixed => Held(grid[s]) = s)
    /\ \A s, r \in Sites : grid[s] # Empty /\ grid[s] = grid[r] => s = r

(* Macros stand in the core, in their shape, at locations l.               *)
ShapesAt(l) ==
    \A m \in DOMAIN Macros : m < imacro => \A k \in Members(m) :
        /\ l[Macros[m][k].blk] \in CoreSites
        /\ l[Macros[m][k].blk] = MemberSite(m, k, l[Macros[m][1].blk])
Shapes == ShapesAt(loc) /\ ShapesAt(OldLoc)

(* Only pads are ever fixed, all of them or none.                          *)
Fixity ==
    /\ fixed # {} => pad_loc_type = "USER"
    /\ \A b \in fixed : BlockType[b] = IoType
    /\ \A s \in Sites : grid[s] \in fixed => TypeAt(s) = IoType
    /\ pad_loc_type = "USER" =>
        \A b \in Blocks : Placed(b) /\ BlockType[b] = IoType => b \in fixed
    /\ pc \in Initial => fixed = {}

Phases ==
    /\ pc = "macros" =>
        /\ itype = 1 /\ ichoice = 1
        /\ \A b \in Blocks : Placed(b) =>
            \E m \in DOMAIN Macros : m < imacro /\ b \in BlocksOf(m)
    /\ pc \in {"compact", "blocks", "pads"} \cup Swapping =>
            imacro > Len(Macros)
    /\ pc \in Initial \cup {"pads"} =>
        \A s \in Sites : grid[s] # Empty => TypeAt(s) = BlockType[grid[s]]
    /\ pc = "pads" => pad_loc_type = "USER"
    /\ pc = "pads" => \A s \in Sites : TypeAt(s) = IoType /\ grid[s] # Empty =>
            \E i \in DOMAIN PadFile : i < iline /\ PadFile[i].site = s
    /\ pc \in Swapping \cup Over => \A b \in Blocks : Placed(b)
    /\ moved # {} => pc \in Swapping

(* The entries still worth considering, and those known to be free.        *)
ListOK(t) ==
    /\ free[t] \in 0 .. Len(legal[t])
    /\ \A i \in 1 .. free[t] : legal[t][i] \in LegalSites(t)
    /\ \A i, j \in 1 .. free[t] : legal[t][i] = legal[t][j] => i = j
    /\ \A s \in LegalSites(t) :
            grid[s] = Empty => \E i \in 1 .. free[t] : legal[t][i] = s
AllFree(t, n) == \A i \in 1 .. free[t] : i <= n => grid[legal[t][i]] = Empty
Lists ==
    /\ pc \in Initial => \A t \in Types : ListOK(t)
    /\ pc = "compact" =>
        /\ itype \in Types /\ ichoice >= 1
        /\ \A t \in Types : t < itype => AllFree(t, free[t])
        /\ AllFree(itype, ichoice - 1)
    /\ pc = "blocks" => \A t \in Types : AllFree(t, free[t])

(* A proposed swap: who goes where.                                        *)
SwapOK ==
    /\ \A m \in moved :
        /\ m.blk \notin fixed /\ m.old \in Sites /\ m.new \in Sites
        /\ grid[m.old] = m.blk /\ loc[m.blk] = m.new
        /\ IF m.to_empty
           THEN grid[m.new] = Empty /\ \A n \in moved : n.new # m.old
           ELSE /\ \E n \in moved : n.old = m.new
                /\ \E n \in moved : n.new = m.old
    /\ \A m, n \in moved : m.blk = n.blk \/ m.new = n.new => m = n

IInv ==
    /\ TypeOK /\ BlocksStand /\ GridHolds /\ Shapes /\ Fixity /\ Phases
    /\ Lists /\ SwapOK /\ UsageExact
-----------------------------------------------------------------------------
(* Sites.                                                                  *)
LEMMA SiteFacts ==
    ASSUME NEW s \in Sites
    PROVE  /\ s \in Triples /\ CellOf(s) \in Cells /\ s[1] # -1 /\ s[3] >= 0
           /\ s = <<s[1], s[2], s[3]>>
           /\ CellOf(s) \in Core => s \in CoreSites
           /\ TypeAt(s) # IoType => s \in CoreSites
<1>1. \/ \E c \in Core : s = <<c[1], c[2], 0>>
      \/ \E c \in Ring, z \in 0 .. IoCapacity - 1 : s = <<c[1], c[2], z>>
  BY DEF Sites
<1>2. CASE \E c \in Core : s = <<c[1], c[2], 0>>
  BY <1>2, GridAssumption DEF Core, Cells, CellOf, Triples, CoreSites
<1>3. CASE \E c \in Ring, z \in 0 .. IoCapacity - 1 : s = <<c[1], c[2], z>>
  <2>1. PICK c \in Ring, z \in 0 .. IoCapacity - 1 : s = <<c[1], c[2], z>>
    BY <1>3
  <2>2. CellOf(s) = c /\ c \in Int \X Int /\ c[1] # -1 /\ c \notin Core
    BY <2>1, GridAssumption DEF CellOf, Ring, Core
  <2>3. TypeAt(s) = IoType
    BY <2>2, GridAssumption DEF TypeAt
  <2> QED BY <2>1, <2>2, <2>3, GridAssumption DEF Triples, Cells
<1> QED BY <1>1, <1>2, <1>3

LEMMA CoreSiteFacts ==
    ASSUME NEW s \in CoreSites
    PROVE  /\ s \in Sites /\ CellOf(s) \in Core /\ TypeAt(s) # IoType
           /\ s \in Triples /\ s = <<s[1], s[2], 0>>
           /\ s[1] \in 1 .. NX /\ s[2] \in 1 .. NY /\ s[3] = 0
<1>1. PICK c \in Core : s = <<c[1], c[2], 0>>
  BY DEF CoreSites
<1>2. CellOf(s) = c /\ c[1] \in 1 .. NX /\ c[2] \in 1 .. NY
  BY <1>1 DEF CellOf, Core
<1> QED BY <1>1, <1>2, GridAssumption DEF Sites, TypeAt, Triples

LEMMA CoreSiteOf ==
    ASSUME NEW x \in 1 .. NX, NEW y \in 1 .. NY
    PROVE  <<x, y, 0>> \in CoreSites
<1>1. <<x, y>> \in Core
  BY DEF Core
<1> QED BY <1>1 DEF CoreSites

(* Arithmetic of positions.                                                *)
LEMMA TripleFacts ==
    ASSUME NEW a \in Triples
    PROVE  a[1] \in Int /\ a[2] \in Int /\ a[3] \in Int /\ a = <<a[1], a[2], a[3]>>
BY DEF Triples

LEMMA ShiftFacts ==
    ASSUME NEW a \in Triples, NEW b \in Triples
    PROVE  Shift(a, b) \in Triples /\ Minus(a, b) \in Triples
BY TripleFacts DEF Shift, Minus, Triples

LEMMA ShiftInjective ==
    ASSUME NEW a \in Triples, NEW b \in Triples, NEW c \in Triples
    PROVE  /\ Shift(a, b) = Shift(a, c) => b = c
           /\ Shift(b, a) = Shift(c, a) => b = c
<1>1. /\ a[1] \in Int /\ a[2] \in Int /\ a[3] \in Int
      /\ b[1] \in Int /\ b[2] \in Int /\ b[3] \in Int
      /\ c[1] \in Int /\ c[2] \in Int /\ c[3] \in Int
  BY TripleFacts
<1>0. b = <<b[1], b[2], b[3]>> /\ c = <<c[1], c[2], c[3]>>
  BY TripleFacts
<1>2. ASSUME Shift(a, b) = Shift(a, c) PROVE b = c
  <2>1. a[1] + b[1] = a[1] + c[1] /\ a[2] + b[2] = a[2] + c[2] /\ a[3] + b[3] = a[3] + c[3]
    BY <1>2 DEF Shift
  <2>2. \A i, j, k \in Int : i + j = i + k \/ j + i = k + i => j = k
    OBVIOUS
  <2>3. b[1] = c[1]
    BY <1>1, <2>1, <2>2
  <2>4. b[2] = c[2]
    BY <1>1, <2>1, <2>2
  <2>5. b[3] = c[3]
    BY <1>1, <2>1, <2>2
  <2> QED BY <1>0, <2>3, <2>4, <2>5
<1>3. ASSUME Shift(b, a) = Shift(c, a) PROVE b = c
  <2>1. b[1] + a[1] = c[1] + a[1] /\ b[2] + a[2] = c[2] + a[2] /\ b[3] + a[3] = c[3] + a[3]
    BY <1>3 DEF Shift
  <2>2. \A i, j, k \in Int : i + j = i + k \/ j + i = k + i => j = k
    OBVIOUS
  <2>3. b[1] = c[1]
    BY <1>1, <2>1, <2>2
  <2>4. b[2] = c[2]
    BY <1>1, <2>1, <2>2
  <2>5. b[3] = c[3]
    BY <1>1, <2>1, <2>2
  <2> QED BY <1>0, <2>3, <2>4, <2>5
<1> QED BY <1>2, <1>3

LEMMA NonemptySeq ==
    ASSUME NEW S, NEW q \in Seq(S), q # <<>>
    PROVE  /\ Len(q) \in Nat /\ Len(q) >= 1 /\ DOMAIN q = 1 .. Len(q)
           /\ \A k \in 1 .. Len(q) : q[k] \in S
<1>1. Len(q) \in Nat /\ DOMAIN q = 1 .. Len(q) /\ \A k \in 1 .. Len(q) : q[k] \in S
  OBVIOUS
<1>2. Len(q) # 0
  BY EmptySeq
<1> QED BY <1>1, <1>2

(* Macros.                                                                 *)
LEMMA MacroFacts ==
    /\ DOMAIN Macros = 1 .. Len(Macros) /\ Len(Macros) \in Nat
    /\ \A m \in DOMAIN Macros :
        /\ Members(m) = DOMAIN Macros[m] /\ Members(m) \subseteq Nat
        /\ 1 \in Members(m)
        /\ BlocksOf(m) \subseteq Blocks
        /\ \A k \in Members(m) : /\ Macros[m][k].blk \in BlocksOf(m)
                                 /\ Macros[m][k].offset \in Triples
<1> DEFINE Member == [blk : Blocks, offset : Triples]
<1>1. Macros \in Seq(Seq(Member))
  BY MacrosAssumption DEF Triples
<1>2. ASSUME NEW m \in DOMAIN Macros
      PROVE  /\ Members(m) = DOMAIN Macros[m] /\ Members(m) \subseteq Nat
             /\ 1 \in Members(m)
             /\ \A k \in Members(m) : Macros[m][k] \in Member
  <2>1. Macros[m] \in Seq(Member) /\ Macros[m] # <<>>
    BY <1>1, MacrosAssumption
  <2> HIDE DEF Member
  <2> QED BY <2>1, NonemptySeq DEF Members
<1>3. DOMAIN Macros = 1 .. Len(Macros) /\ Len(Macros) \in Nat
  BY <1>1
<1> QED BY <1>2, <1>3 DEF BlocksOf

(* Empty is no block.                                                      *)
LEMMA EmptyFacts == Empty \notin Blocks /\ Empty \in Int
BY BlocksAssumption DEF Empty

(* Outside a swap, a block is where its coordinates say.                   *)
LEMMA StillLoc ==
    ASSUME TypeOK, moved = {}
    PROVE  OldLoc = loc
BY DEF TypeOK, OldLoc

LEMMA StillLocNext ==
    ASSUME TypeOK', moved' = {}
    PROVE  OldLoc' = loc' /\ SwapOK'
BY DEF TypeOK, OldLoc, SwapOK

LEMMA LegalSiteFacts ==
    ASSUME NEW t \in Types, NEW s \in LegalSites(t)
    PROVE  s \in Sites /\ TypeAt(s) = t
BY DEF LegalSites

(* Everything counted is finite.                                           *)
LEMMA SitesFinite == IsFiniteSet(Sites)
<1> DEFINE Dom == (0 .. NX + 1) \X (0 .. NY + 1)
           Src == Dom \X (0 .. IoCapacity)
           f   == [p \in Src |-> <<p[1][1], p[1][2], p[2]>>]
           Img == {f[p] : p \in Src}
<1>1. IsFiniteSet(0 .. NX + 1) /\ IsFiniteSet(0 .. NY + 1) /\ IsFiniteSet(0 .. IoCapacity)
  BY GridAssumption, FS_Interval
<1>2. IsFiniteSet(Src)
  <2>1. IsFiniteSet(Dom)
    BY <1>1, FS_Product
  <2> QED BY <1>1, <2>1, FS_Product
<1>3. f \in Surjection(Src, Img)
  BY DEF Surjection
<1>4. IsFiniteSet(Img)
  BY <1>2, <1>3, FS_Surjection
<1>5. ASSUME NEW s \in Sites PROVE s \in Img
  <2>1. PICK c \in Cells, z \in 0 .. IoCapacity : s = <<c[1], c[2], z>>
    BY GridAssumption DEF Sites, Cells
  <2>2. c \in Dom
    BY GridAssumption DEF Cells, Core, Ring
  <2>3. <<c, z>> \in Src /\ f[<<c, z>>] = s
    BY <2>1, <2>2
  <2> QED BY <2>3
<1> QED BY <1>4, <1>5, FS_Subset

LEMMA UsedInFinite ==
    ASSUME NEW c PROVE IsFiniteSet(UsedIn(c)) /\ Cardinality(UsedIn(c)) \in Nat
BY SitesFinite, FS_Subset, FS_CardinalityType DEF UsedIn

-----------------------------------------------------------------------------
(* The inductive invariant, one lemma per kind of step.                    *)

LEMMA InitIInv == Init => IInv
<1> SUFFICES ASSUME Init PROVE IInv
  OBVIOUS
<1> USE DEF Init
<1>1. TypeOK
  <2>1. Unplaced \in Int \X Int \X Int
    BY DEF Unplaced
  <2>2. LegalPos \in [Types -> Seq(Sites)]
    BY LegalPosAssumption
  <2>3. free \in [Types -> Int]
    BY <2>2 DEF NumLegalPos
  <2>4. loc \in [Blocks -> Int \X Int \X Int] /\ grid \in [Sites -> Blocks \cup {Empty}]
    BY <2>1
  <2>5. usage \in [Cells -> Int] /\ sub \in [Blocks -> Int]
    OBVIOUS
  <2> QED BY <2>2, <2>3, <2>4, <2>5 DEF TypeOK
<1>2. OldLoc = loc /\ \A b \in Blocks : ~Placed(b)
  BY <1>1, StillLoc DEF Placed, Unplaced
<1>3. BlocksStand /\ GridHolds
  BY <1>2 DEF BlocksStand, GridHolds
<1>4. Shapes /\ Fixity /\ Phases /\ SwapOK
  <2>1. Shapes
    BY MacroFacts DEF Shapes, ShapesAt
  <2>2. Fixity
    BY <1>2, EmptyFacts DEF Fixity
  <2> QED BY <1>2, <2>1, <2>2 DEF Phases, Swapping, Initial, Over, SwapOK
<1>5. ASSUME NEW t \in Types PROVE ListOK(t)
  <2>1. legal[t] = LegalPos[t] /\ free[t] = Len(LegalPos[t]) /\ LegalPos[t] \in Seq(Sites)
    BY <1>5, LegalPosAssumption DEF NumLegalPos
  <2>2. /\ {LegalPos[t][i] : i \in 1 .. Len(LegalPos[t])} = LegalSites(t)
        /\ \A i, j \in 1 .. Len(LegalPos[t]) : LegalPos[t][i] = LegalPos[t][j] => i = j
    BY <1>5, LegalPosAssumption DEF NumLegalPos
  <2> QED BY <2>1, <2>2 DEF ListOK
<1>6. Lists
  BY <1>5 DEF Lists
<1>7. UsageExact
  <2>1. ASSUME NEW c \in Cells PROVE UsedIn(c) = {}
    BY DEF UsedIn
  <2> QED BY <2>1, FS_EmptySet DEF UsageExact
<1> QED BY <1>1, <1>3, <1>4, <1>6, <1>7 DEF IInv

(* A step that moves nothing.                                              *)
LEMMA FrameStep ==
    ASSUME IInv, UNCHANGED <<loc, grid, usage, fixed, moved, imacro>>
    PROVE  BlocksStand' /\ GridHolds' /\ Shapes' /\ SwapOK' /\ UsageExact'
<1>1. OldLoc' = OldLoc /\ (\A b \in Blocks : Placed(b)' = Placed(b))
  BY DEF OldLoc, Placed
<1>2. BlocksStand'
  BY <1>1 DEF IInv, TypeOK, BlocksStand, Held
<1>3. GridHolds'
  BY <1>1, EmptyFacts DEF IInv, TypeOK, GridHolds, Held
<1>4. Shapes'
  BY <1>1 DEF IInv, Shapes, ShapesAt
<1>5. SwapOK'
  BY DEF IInv, SwapOK
<1>6. UsageExact'
  BY DEF IInv, UsageExact, UsedIn
<1> QED BY <1>2, <1>3, <1>4, <1>5, <1>6

(* The program stops: nothing but pc changes.                              *)
LEMMA StopStep ==
    ASSUME IInv, moved = {}, NEW why \in {"no_room", "bad_pad_file", "assert", "check_failed"}, Stop(why)
    PROVE  IInv'
<1> USE DEF Stop, lists, file
<1>1. TypeOK'
  BY DEF IInv, TypeOK
<1>2. BlocksStand' /\ GridHolds' /\ Shapes' /\ SwapOK' /\ UsageExact'
  BY FrameStep
<1>3. Fixity'
  BY DEF IInv, Fixity, Placed, Initial, TypeAt
<1>4. Phases' /\ Lists'
  BY DEF Phases, Lists, Initial, Swapping, Over
<1> QED BY <1>1, <1>2, <1>3, <1>4 DEF IInv

(* Unplaced blocks are put on empty sites.                                 *)
LEMMA AddBlocks ==
    ASSUME IInv, TypeOK', moved = {}, moved' = {}, fixed' = fixed,
           NEW N \in SUBSET (Blocks \ fixed), \A b \in N : ~Placed(b),
           NEW at \in [N -> Sites],
           \A b, c \in N : at[b] = at[c] => b = c,
           \A b \in N : grid[at[b]] = Empty /\ loc'[b] = at[b] /\ grid'[at[b]] = b,
           \A b \in Blocks \ N : loc'[b] = loc[b],
           \A s \in Sites : (\A b \in N : at[b] # s) => grid'[s] = grid[s]
    PROVE  BlocksStand' /\ GridHolds'
<1>1. OldLoc = loc /\ OldLoc' = loc'
  BY StillLoc, StillLocNext DEF IInv
<1>2. \A b \in N : Placed(b)' /\ at[b] \in Sites
  BY SiteFacts DEF Placed
<1>3. \A b \in Blocks \ N : Placed(b)' = Placed(b) /\ Held(b)' = Held(b)
  BY <1>1 DEF Placed, Held
<1>4. \A b \in N : Held(b)' = at[b]
  BY <1>1 DEF Held
<1>5. ASSUME NEW s \in Sites, grid[s] # Empty
      PROVE  grid[s] \in Blocks \ N /\ grid'[s] = grid[s]
  <2>1. Placed(grid[s]) /\ grid[s] \in Blocks
    BY <1>5 DEF IInv, TypeOK, GridHolds
  <2> QED BY <1>5, <2>1
<1>6. ASSUME NEW s \in Sites, grid'[s] # Empty
      PROVE  \/ \E b \in N : at[b] = s /\ grid'[s] = b
             \/ grid[s] # Empty /\ grid'[s] = grid[s]
  BY <1>6
<1>7. BlocksStand'
  <2>1. ASSUME NEW b \in Blocks \ fixed, Placed(b)'
        PROVE  Held(b)' \in Sites /\ grid'[Held(b)'] = b
    <3>1. CASE b \in N BY <3>1, <1>2, <1>4
    <3>2. CASE b \notin N
      <4>1. Held(b) \in Sites /\ grid[Held(b)] = b
        BY <2>1, <3>2, <1>3 DEF IInv, BlocksStand
      <4> QED BY <3>2, <4>1, <1>3, <1>5, EmptyFacts
    <3> QED BY <3>1, <3>2
  <2>2. ASSUME NEW b \in fixed
        PROVE  Placed(b)' /\ \E s \in Sites : grid'[s] = b /\ CellOf(s) = CellOf(Held(b)')
    <3>1. b \in Blocks \ N /\ Placed(b)
      BY DEF IInv, TypeOK, BlocksStand
    <3>2. PICK s \in Sites : grid[s] = b /\ CellOf(s) = CellOf(Held(b))
      BY DEF IInv, BlocksStand
    <3> QED BY <3>1, <3>2, <1>3, <1>5, EmptyFacts
  <2> QED BY <2>1, <2>2 DEF BlocksStand
<1>8. GridHolds'
  <2>1. ASSUME NEW s \in Sites, grid'[s] # Empty
        PROVE  Placed(grid[s])' /\ (grid'[s] \notin fixed => Held(grid[s])' = s)
    <3>1. CASE \E b \in N : at[b] = s /\ grid'[s] = b
      BY <3>1, <1>2, <1>4 DEF Placed, Held
    <3>2. CASE grid[s] # Empty /\ grid'[s] = grid[s]
      <4>1. Placed(grid[s]) /\ (grid[s] \notin fixed => Held(grid[s]) = s) /\ grid[s] \in Blocks \ N
        BY <3>2, <1>5 DEF IInv, GridHolds
      <4> QED BY <3>2, <4>1, <1>3 DEF Placed, Held
    <3> QED BY <2>1, <1>6, <3>1, <3>2
  <2>2. ASSUME NEW s \in Sites, NEW r \in Sites, grid'[s] # Empty, grid'[s] = grid'[r]
        PROVE  s = r
    BY <2>2, <1>5, <1>6 DEF IInv, GridHolds
  <2> QED BY <2>1, <2>2 DEF GridHolds
<1> QED BY <1>7, <1>8

(* usage follows when the sites taken were empty.                          *)
LEMMA UsageAdds ==
    ASSUME IInv, TypeOK', NEW T \in SUBSET Sites,
           \A s \in T : grid[s] = Empty /\ grid'[s] # Empty,
           \A s \in Sites \ T : grid'[s] = grid[s],
           \A c \in Cells :
                usage'[c] = usage[c] + Cardinality({s \in T : CellOf(s) = c})
    PROVE  UsageExact'
<1> SUFFICES ASSUME NEW c \in Cells
             PROVE  usage'[c] = Cardinality(UsedIn(c)')
  BY DEF UsageExact
<1> DEFINE new == {s \in T : CellOf(s) = c}
<1>1. UsedIn(c)' = UsedIn(c) \cup new /\ UsedIn(c) \cap new = {}
  BY DEF UsedIn
<1>2. IsFiniteSet(new) /\ IsFiniteSet(UsedIn(c))
  BY SitesFinite, FS_Subset, UsedInFinite
<1>3. Cardinality(UsedIn(c)') = Cardinality(UsedIn(c)) + Cardinality(new) - Cardinality(UsedIn(c) \cap new)
  BY <1>1, <1>2, FS_Union
<1>4. Cardinality(UsedIn(c) \cap new) = 0
  BY <1>1, FS_EmptySet
<1>5. usage[c] = Cardinality(UsedIn(c)) /\ Cardinality(UsedIn(c)) \in Nat /\ Cardinality(new) \in Nat
  BY <1>2, FS_CardinalityType DEF IInv, UsageExact
<1> QED BY <1>3, <1>4, <1>5

(* Where macro m lands when its head is put at head, and who stands where  *)
(* afterwards.                                                             *)
Blk(m, k) == Macros[m][k].blk

Landed(m, head) ==
    /\ \A k \in Members(m) :
        /\ MemberSite(m, k, head) \in CoreSites
        /\ MemberSite(m, k, head) \in Sites
        /\ TypeAt(MemberSite(m, k, head)) = BlockType[Blk(m, k)]
        /\ grid[MemberSite(m, k, head)] = Empty
        /\ loc'[Blk(m, k)] = MemberSite(m, k, head)
        /\ grid'[MemberSite(m, k, head)] = Blk(m, k)
    /\ \A k, l \in Members(m) :
        /\ Blk(m, k) = Blk(m, l) => k = l
        /\ MemberSite(m, k, head) = MemberSite(m, l, head) => k = l
    /\ MemberSite(m, 1, head) = head
    /\ \A b \in Blocks \ BlocksOf(m) : loc'[b] = loc[b]
    /\ \A s \in Sites : (\A k \in Members(m) : MemberSite(m, k, head) # s)
                                => grid'[s] = grid[s]
    /\ loc' \in [Blocks -> Triples]
    /\ grid' \in [Sites -> Blocks \cup {Empty}]

LEMMA PutMacroEffect ==
    ASSUME TypeOK, NEW m \in DOMAIN Macros, NEW head \in Sites,
           MacroCanBePlaced(m, head), PutMacro(m, head)
    PROVE  Landed(m, head)
<1> DEFINE Spot(k) == MemberSite(m, k, head)
<1> USE DEF Blk
<1>1. /\ Members(m) \subseteq Nat /\ 1 \in Members(m)
      /\ \A k \in Members(m) : /\ Blk(m, k) \in BlocksOf(m) /\ Blk(m, k) \in Blocks
                               /\ Macros[m][k].offset \in Triples
      /\ BlocksOf(m) = {Blk(m, k) : k \in Members(m)}
  BY MacroFacts DEF BlocksOf
<1>2. \A k, l \in Members(m) : Blk(m, k) = Blk(m, l) => k = l
  BY MacrosAssumption
<1>3. ASSUME NEW k \in Members(m), NEW l \in Members(m), Spot(k) = Spot(l)
      PROVE  k = l
  <2>1. Macros[m][k].offset \in Triples /\ Macros[m][l].offset \in Triples /\ head \in Triples
    BY <1>1, SiteFacts
  <2>2. Macros[m][k].offset = Macros[m][l].offset
    BY <1>3, <2>1, ShiftInjective DEF MemberSite
  <2> QED BY <2>2, MacrosAssumption
<1>4. Spot(1) = head
  <2>1. Macros[m][1].offset = <<0, 0, 0>> /\ head \in Triples /\ head = <<head[1], head[2], head[3]>>
    BY MacrosAssumption, SiteFacts
  <2> QED BY <2>1 DEF MemberSite, Shift, Triples
<1>5. ASSUME NEW k \in Members(m)
      PROVE  Spot(k) \in CoreSites /\ TypeAt(Spot(k)) = BlockType[Blk(m, k)] /\ grid[Spot(k)] = Empty
  <2>1. Spot(k) \in Sites /\ TypeAt(Spot(k)) = BlockType[Blk(m, 1)] /\ grid[Spot(k)] = Empty
    BY DEF MacroCanBePlaced
  <2>2. BlockType[Blk(m, k)] = BlockType[Blk(m, 1)] /\ BlockType[Blk(m, k)] # IoType
    BY MacrosAssumption
  <2> QED BY <2>1, <2>2, SiteFacts
<1>6. ASSUME NEW k \in Members(m) PROVE loc'[Blk(m, k)] = Spot(k)
  <2>1. (CHOOSE j \in Members(m) : Blk(m, j) = Blk(m, k)) = k
    BY <1>2
  <2> QED BY <1>1, <2>1 DEF PutMacro
<1>7. ASSUME NEW k \in Members(m) PROVE grid'[Spot(k)] = Blk(m, k)
  <2>1. (CHOOSE j \in Members(m) : Spot(j) = Spot(k)) = k
    BY <1>3
  <2>2. MemberAt(m, head, Spot(k)) = Blk(m, k)
    BY <2>1 DEF MemberAt
  <2>3. Spot(k) \in Sites
    BY <1>5, CoreSiteFacts
  <2> QED BY <2>2, <2>3 DEF PutMacro
<1>8. \A b \in Blocks \ BlocksOf(m) : loc'[b] = loc[b]
  BY DEF PutMacro
<1>9. ASSUME NEW s \in Sites, \A k \in Members(m) : Spot(k) # s
      PROVE  grid'[s] = grid[s]
  BY <1>9 DEF PutMacro
<1>10. loc' \in [Blocks -> Triples]
  <2>1. \A b \in BlocksOf(m) : loc'[b] \in Triples
    BY <1>1, <1>5, <1>6, CoreSiteFacts
  <2>2. \A b \in Blocks \ BlocksOf(m) : loc'[b] \in Triples
    BY <1>8 DEF TypeOK, Triples
  <2>3. DOMAIN loc' = Blocks /\ loc' = [b \in Blocks |-> loc'[b]]
    BY DEF PutMacro
  <2> QED BY <2>1, <2>2, <2>3
<1>11. grid' \in [Sites -> Blocks \cup {Empty}]
  <2>1. ASSUME NEW s \in Sites PROVE grid'[s] \in Blocks \cup {Empty}
    <3>1. CASE \E k \in Members(m) : Spot(k) = s BY <3>1, <1>1, <1>7
    <3>2. CASE \A k \in Members(m) : Spot(k) # s BY <3>2, <1>9 DEF TypeOK
    <3> QED BY <3>1, <3>2
  <2>2. grid' = [s \in Sites |-> grid'[s]]
    BY DEF PutMacro
  <2> QED BY <2>1, <2>2
<1>12. \A k \in Members(m) : Spot(k) \in Sites
  BY <1>5, CoreSiteFacts
<1> HIDE DEF Blk
<1> QED BY <1>2, <1>3, <1>4, <1>5, <1>6, <1>7, <1>8, <1>9, <1>10, <1>11, <1>12 DEF Landed

(* Facts about one macro.                                                  *)
LEMMA MembersOf ==
    ASSUME NEW m \in DOMAIN Macros
    PROVE  /\ BlocksOf(m) = {Blk(m, k) : k \in Members(m)}
           /\ BlocksOf(m) \subseteq Blocks /\ 1 \in Members(m)
           /\ m \in Nat /\ m >= 1 /\ m <= Len(Macros) /\ Len(Macros) \in Nat
           /\ \A k \in Members(m) : Blk(m, k) \in BlocksOf(m)
           /\ \A n \in DOMAIN Macros : n # m => BlocksOf(n) \cap BlocksOf(m) = {}
<1>1. BlocksOf(m) = {Blk(m, k) : k \in Members(m)}
  BY DEF BlocksOf, Blk
<1>2. BlocksOf(m) \subseteq Blocks /\ 1 \in Members(m)
  BY MacroFacts
<1>3. m \in Nat /\ m >= 1 /\ m <= Len(Macros) /\ Len(Macros) \in Nat
  BY MacroFacts
<1>4. \A n \in DOMAIN Macros : n # m => BlocksOf(n) \cap BlocksOf(m) = {}
  BY MacrosAssumption
<1> QED BY <1>1, <1>2, <1>3, <1>4

LEMMA MacroLands ==
    ASSUME IInv, NEW m \in DOMAIN Macros, m = imacro, pc = "macros",
           NEW head \in Sites, MacroCanBePlaced(m, head), PutMacro(m, head),
           imacro' = m + 1, UNCHANGED <<pc, lists, file, fixed, moved, sub>>
    PROVE  IInv'
<1> DEFINE T == {MemberSite(m, k, head) : k \in Members(m)}
<1>1. moved = {} /\ fixed = {} /\ moved' = {} /\ fixed' = {} /\ pc' = "macros"
  BY DEF IInv, Phases, Fixity, Initial, Swapping
<1>2. Landed(m, head)
  BY PutMacroEffect DEF IInv
<1>3. T \in SUBSET Sites /\ \A s \in T : grid[s] = Empty /\ grid'[s] \in Blocks
  BY <1>2, MembersOf DEF Landed
<1>4. \A s \in Sites \ T : grid'[s] = grid[s]
  BY <1>2 DEF Landed
<1>5. usage' \in [Cells -> Int]
      /\ \A c \in Cells : usage'[c] = usage[c] + Cardinality({s \in T : CellOf(s) = c})
  <2>1. \A c \in Cells : Cardinality({s \in T : CellOf(s) = c}) \in Nat
    BY <1>3, SitesFinite, FS_Subset, FS_CardinalityType
  <2>2. usage' = [c \in Cells |-> usage[c] + Cardinality({s \in T : CellOf(s) = c})]
    BY DEF PutMacro
  <2>3. \A c \in Cells : usage[c] \in Int
    BY DEF IInv, TypeOK
  <2> HIDE DEF T
  <2> QED BY <2>1, <2>2, <2>3
<1> HIDE DEF T
<1>6. TypeOK'
  <2>1. loc' \in [Blocks -> Triples] /\ grid' \in [Sites -> Blocks \cup {Empty}]
    BY <1>2 DEF Landed
  <2>2. imacro' \in Nat \ {0}
    BY MembersOf
  <2> QED BY <2>1, <2>2, <1>1, <1>5 DEF IInv, TypeOK, Triples, lists, file
<1>7. \A b \in BlocksOf(m) : b \in Blocks /\ ~Placed(b)
  <2> SUFFICES ASSUME NEW b \in BlocksOf(m), Placed(b) PROVE FALSE
    BY MembersOf
  <2>1. PICK n \in DOMAIN Macros : n < m /\ b \in BlocksOf(n)
    BY MembersOf DEF IInv, Phases
  <2>2. n # m
    BY <2>1, MembersOf
  <2> QED BY <2>1, <2>2, MembersOf
<1>8. BlocksStand' /\ GridHolds'
  <2> DEFINE at == [b \in BlocksOf(m) |-> loc'[b]]
  <2>1. ASSUME NEW b \in BlocksOf(m)
        PROVE  \E k \in Members(m) : /\ b = Blk(m, k) /\ at[b] = MemberSite(m, k, head)
                                     /\ at[b] \in Sites /\ grid[at[b]] = Empty /\ grid'[at[b]] = b
    <3>1. PICK k \in Members(m) : b = Blk(m, k)
      BY MembersOf
    <3> QED BY <3>1, <1>2 DEF Landed
  <2>2. at \in [BlocksOf(m) -> Sites] /\ \A b \in BlocksOf(m) : loc'[b] = at[b]
    BY <2>1
  <2> HIDE DEF at
  <2>3. \A b, c \in BlocksOf(m) : at[b] = at[c] => b = c
    BY <2>1
  <2>4. ASSUME NEW s \in Sites, \A b \in BlocksOf(m) : at[b] # s
        PROVE  grid'[s] = grid[s]
    <3>1. ASSUME NEW k \in Members(m) PROVE MemberSite(m, k, head) # s
      <4>1. Blk(m, k) \in BlocksOf(m)
        BY MembersOf
      <4>2. loc'[Blk(m, k)] = MemberSite(m, k, head)
        BY <1>2 DEF Landed
      <4> QED BY <2>2, <2>4, <4>1, <4>2
    <3> QED BY <3>1, <1>2 DEF Landed
  <2>5. BlocksOf(m) \in SUBSET (Blocks \ fixed) /\ moved' = {} /\ fixed' = fixed
    BY <1>1, <1>7
  <2>6. \A b \in Blocks \ BlocksOf(m) : loc'[b] = loc[b]
    BY <1>2 DEF Landed
  <2>7. \A b \in BlocksOf(m) : grid[at[b]] = Empty /\ loc'[b] = at[b] /\ grid'[at[b]] = b
    BY <2>1, <2>2
  <2> QED BY <1>1, <1>6, <1>7, <2>2, <2>3, <2>4, <2>5, <2>6, <2>7, AddBlocks
<1>9. UsageExact'
  BY <1>3, <1>4, <1>5, <1>6, UsageAdds, EmptyFacts
<1>10. ShapesAt(loc)'
  <2> SUFFICES ASSUME NEW n \in DOMAIN Macros, n < m + 1, NEW k \in Members(n)
               PROVE  /\ loc'[Blk(n, k)] \in CoreSites
                      /\ loc'[Blk(n, k)] = MemberSite(n, k, loc'[Blk(n, 1)])
    BY DEF ShapesAt, Blk
  <2>1. CASE n = m
    <3>1. 1 \in Members(m) /\ k \in Members(m)
      BY <2>1, MembersOf
    <3> QED BY <1>2, <2>1, <3>1 DEF Landed
  <2>2. CASE n # m
    <3>1. n < m
      BY <2>2, MembersOf
    <3>2. loc[Blk(n, k)] \in CoreSites /\ loc[Blk(n, k)] = MemberSite(n, k, loc[Blk(n, 1)])
      BY <3>1 DEF IInv, Shapes, ShapesAt, Blk
    <3>3. Blk(n, k) \in Blocks \ BlocksOf(m) /\ Blk(n, 1) \in Blocks \ BlocksOf(m)
      BY <2>2, MembersOf
    <3> QED BY <1>2, <3>2, <3>3 DEF Landed
  <2> QED BY <2>1, <2>2
<1>11. Shapes' /\ SwapOK'
  BY <1>1, <1>6, <1>10, StillLocNext DEF Shapes
<1>12. \A s \in Sites : grid'[s] # Empty => TypeAt(s) = BlockType[grid'[s]]
  <2> SUFFICES ASSUME NEW s \in Sites, grid'[s] # Empty
               PROVE  TypeAt(s) = BlockType[grid'[s]]
    OBVIOUS
  <2>1. CASE s \in T
    BY <2>1, <1>2 DEF Landed, T
  <2>2. CASE s \notin T
    BY <2>2, <1>4 DEF IInv, Phases, Initial
  <2> QED BY <2>1, <2>2
<1>13. ASSUME NEW b \in Blocks, Placed(b)'
       PROVE  \E n \in DOMAIN Macros : n < m + 1 /\ b \in BlocksOf(n)
  <2>1. CASE b \in BlocksOf(m)
    BY <2>1, MembersOf
  <2>2. CASE b \notin BlocksOf(m)
    <3>1. Placed(b)
      BY <2>2, <1>2, <1>13 DEF Placed, Landed
    <3>2. PICK n \in DOMAIN Macros : n < m /\ b \in BlocksOf(n)
      BY <3>1 DEF IInv, Phases
    <3> QED BY <3>2, MembersOf
  <2> QED BY <2>1, <2>2
<1>14. Phases'
  BY <1>1, <1>12, <1>13 DEF IInv, Phases, Initial, Swapping, Over, lists
<1>15. Fixity'
  <2>1. ASSUME NEW b \in Blocks, Placed(b)', BlockType[b] = IoType
        PROVE  FALSE
    <3>1. PICK n \in DOMAIN Macros : b \in BlocksOf(n)
      BY <1>13, <2>1
    <3>2. PICK k \in Members(n) : b = Macros[n][k].blk
      BY <3>1 DEF BlocksOf
    <3> QED BY <2>1, <3>2, MacrosAssumption
  <2> QED BY <1>1, <2>1 DEF Fixity
<1>16. Lists'
  <2>1. ASSUME NEW u \in Types PROVE ListOK(u)'
    <3>1. \A s \in Sites : grid'[s] = Empty => grid[s] = Empty
      BY <1>3, <1>4, EmptyFacts
    <3>2. ListOK(u) /\ legal' = legal /\ free' = free
      BY DEF IInv, Lists, Initial, lists
    <3> QED BY <3>1, <3>2, LegalSiteFacts DEF ListOK
  <2> QED BY <1>1, <2>1 DEF Lists, Initial
<1> QED BY <1>6, <1>8, <1>9, <1>11, <1>14, <1>15, <1>16 DEF IInv

LEMMA PlaceMacroStep ==
    ASSUME IInv, PlaceMacro
    PROVE  IInv'
<1>1. pc = "macros" /\ imacro \in DOMAIN Macros /\ moved = {}
  BY MacroFacts DEF PlaceMacro, IInv, TypeOK, Phases, Swapping
<1> DEFINE t == BlockType[Macros[imacro][1].blk]
<1>2. CASE Stop("no_room")
  BY <1>1, <1>2, StopStep
<1>3. CASE /\ \E i \in HeadChoices(imacro) : PutMacro(imacro, legal[t][i])
           /\ imacro' = imacro + 1
           /\ UNCHANGED <<pc, lists, file, fixed, moved, sub>>
  <2>1. PICK i \in HeadChoices(imacro) : PutMacro(imacro, legal[t][i])
    BY <1>3
  <2>2. t \in Types
    BY <1>1, MembersOf, BlocksAssumption DEF Blk
  <2> HIDE DEF t
  <2>3. ListOK(t)
    BY <1>1, <2>2 DEF IInv, Lists, Initial
  <2>4. i \in 1 .. free[t] /\ MacroCanBePlaced(imacro, legal[t][i])
    BY DEF HeadChoices, t
  <2>5. legal[t][i] \in Sites
    BY <2>2, <2>3, <2>4, LegalSiteFacts DEF ListOK
  <2> QED BY <1>1, <1>3, <2>1, <2>4, <2>5, MacroLands
<1> QED BY <1>2, <1>3 DEF PlaceMacro

LEMMA MacrosPlacedStep ==
    ASSUME IInv, MacrosPlaced
    PROVE  IInv'
<1> USE DEF MacrosPlaced, lists, file
<1>1. TypeOK'
  BY DEF IInv, TypeOK
<1>2. BlocksStand' /\ GridHolds' /\ Shapes' /\ SwapOK' /\ UsageExact'
  BY FrameStep
<1>3. Fixity'
  BY DEF IInv, Fixity, Placed, Initial
<1>4. Phases'
  BY DEF IInv, Phases, Initial, Swapping, Over, Placed
<1>5. Lists'
  <2>1. 1 \in Types /\ itype' = 1 /\ ichoice' = 1
    BY GridAssumption DEF IInv, Phases, Types
  <2>2. \A t \in Types : ListOK(t)'
    BY DEF IInv, Lists, Initial, ListOK
  <2> QED BY <2>1, <2>2 DEF Lists, AllFree, Types
<1> QED BY <1>1, <1>2, <1>3, <1>4, <1>5 DEF IInv


(* An entry of the list that is not free any more is overwritten by the    *)
(* last one: the others stay, each once.                                   *)
LEMMA DropEntry ==
    ASSUME NEW t \in Types, ListOK(t), legal[t] \in Seq(Sites), free[t] \in Int,
           NEW c \in 1 .. free[t],
           legal'[t] = [legal[t] EXCEPT ![c] = legal[t][free[t]]],
           free'[t] = free[t] - 1,
           grid'[legal[t][c]] # Empty,
           \A s \in Sites : grid'[s] = Empty => grid[s] = Empty
    PROVE  /\ ListOK(t)' /\ legal'[t] \in Seq(Sites)
           /\ \A i \in 1 .. free[t] - 1 : \E j \in 1 .. free[t] :
                /\ j # c /\ legal'[t][i] = legal[t][j]
                /\ (i # c => j = i) /\ (i = c => j = free[t])
<1> DEFINE n == free[t]
<1>1. /\ n \in Nat /\ n >= 1 /\ n - 1 \in Nat /\ n <= Len(legal[t]) /\ Len(legal[t]) \in Nat
      /\ free'[t] = n - 1 /\ c \in 1 .. n
  BY DEF ListOK
<1>2. /\ legal'[t] \in Seq(Sites) /\ Len(legal'[t]) = Len(legal[t])
      /\ legal'[t][c] = legal[t][n]
      /\ \A i \in 1 .. Len(legal[t]) : i # c => legal'[t][i] = legal[t][i]
  <2>1. legal[t] \in Seq(Sites) /\ n \in 1 .. Len(legal[t]) /\ c \in 1 .. Len(legal[t])
    BY <1>1
  <2> QED BY <2>1
<1>3. /\ \A i \in 1 .. n : legal[t][i] \in LegalSites(t)
      /\ \A i, j \in 1 .. n : legal[t][i] = legal[t][j] => i = j
      /\ \A s \in LegalSites(t) : grid[s] = Empty => \E i \in 1 .. n : legal[t][i] = s
  BY DEF ListOK
<1> HIDE DEF n
<1>4. ASSUME NEW i \in 1 .. n - 1
      PROVE  \E j \in 1 .. n : /\ j # c /\ legal'[t][i] = legal[t][j]
                               /\ (i # c => j = i) /\ (i = c => j = n)
  <2>1. CASE i = c BY <2>1, <1>1, <1>2
  <2>2. CASE i # c
    <3>1. i \in 1 .. Len(legal[t]) /\ i \in 1 .. n
      BY <1>1
    <3> QED BY <2>2, <3>1, <1>2
  <2> QED BY <2>1, <2>2
<1>5. \A i \in 1 .. n - 1 : legal'[t][i] \in LegalSites(t)
  BY <1>3, <1>4
<1>6. ASSUME NEW i \in 1 .. n - 1, NEW j \in 1 .. n - 1, legal'[t][i] = legal'[t][j]
      PROVE  i = j
  <2>1. PICK k \in 1 .. n : /\ k # c /\ legal'[t][i] = legal[t][k]
                            /\ (i # c => k = i) /\ (i = c => k = n)
    BY <1>4
  <2>2. PICK l \in 1 .. n : /\ l # c /\ legal'[t][j] = legal[t][l]
                            /\ (j # c => l = j) /\ (j = c => l = n)
    BY <1>4
  <2>3. k = l
    BY <1>3, <1>6, <2>1, <2>2
  <2> QED BY <1>1, <2>1, <2>2, <2>3
<1>7. ASSUME NEW s \in LegalSites(t), grid'[s] = Empty
      PROVE  \E i \in 1 .. n - 1 : legal'[t][i] = s
  <2>1. PICK j \in 1 .. n : legal[t][j] = s
    BY <1>3, <1>7, LegalSiteFacts
  <2>2. j # c
    BY <1>7, <2>1
  <2>3. CASE j = n
    <3>1. c \in 1 .. n - 1
      BY <1>1, <2>2, <2>3
    <3> QED BY <3>1, <1>2, <2>1, <2>3
  <2>4. CASE j # n
    <3>1. j \in 1 .. n - 1 /\ j \in 1 .. Len(legal[t])
      BY <1>1, <2>4
    <3> QED BY <3>1, <1>2, <2>1, <2>2
  <2> QED BY <2>3, <2>4
<1>8. n - 1 \in 0 .. Len(legal'[t])
  BY <1>1, <1>2
<1>9. ListOK(t)'
  BY <1>1, <1>5, <1>6, <1>7, <1>8 DEF ListOK
<1> QED BY <1>2, <1>4, <1>9 DEF n

LEMMA CompactEntryStep ==
    ASSUME IInv, CompactEntry
    PROVE  IInv'
<1> USE DEF lists, file
<1>1. /\ pc = "compact" /\ pc' = pc /\ itype \in Types /\ ichoice \in 1 .. free[itype]
      /\ UNCHANGED <<loc, grid, usage, itype, imacro, file, fixed, moved, sub>>
  BY DEF CompactEntry, IInv, TypeOK, Lists
<1>2. \A t \in Types : /\ ListOK(t) /\ legal[t] \in Seq(Sites) /\ Len(legal[t]) \in Nat
                       /\ free[t] \in Nat /\ free[t] <= Len(legal[t])
                       /\ DOMAIN legal[t] = 1 .. Len(legal[t])
  BY <1>1 DEF IInv, TypeOK, Lists, Initial, ListOK
<1>3. BlocksStand' /\ GridHolds' /\ Shapes' /\ SwapOK' /\ UsageExact'
  BY <1>1, FrameStep
<1>4. Fixity' /\ Phases'
  BY <1>1 DEF IInv, Fixity, Phases, Placed, Initial, Swapping, Over
<1>5. CASE grid[legal[itype][ichoice]] # Empty
  <2> DEFINE n == free[itype]
  <2>1. /\ legal' = [legal EXCEPT ![itype][ichoice] = legal[itype][n]]
        /\ free' = [free EXCEPT ![itype] = n - 1] /\ ichoice' = ichoice
    BY <1>1, <1>5 DEF CompactEntry
  <2>2. /\ free'[itype] = n - 1 /\ n \in Nat /\ n >= 1 /\ n - 1 \in Nat
        /\ \A t \in Types \ {itype} : free'[t] = free[t] /\ legal'[t] = legal[t]
        /\ free' \in [Types -> Int] /\ DOMAIN legal' = Types
        /\ legal'[itype] = [legal[itype] EXCEPT ![ichoice] = legal[itype][n]]
    BY <1>1, <1>2, <2>1 DEF IInv, TypeOK
  <2>3. /\ \A t \in Types : t = itype => ListOK(t)'
        /\ legal'[itype] \in Seq(Sites)
        /\ \A i \in 1 .. n - 1 : i # ichoice => legal'[itype][i] = legal[itype][i]
    <3>1. PICK t \in Types, c \in 1 .. free[itype] : t = itype /\ c = ichoice
      BY <1>1
    <3>2. /\ ListOK(t) /\ legal[t] \in Seq(Sites) /\ free[t] \in Int /\ c \in 1 .. free[t]
          /\ free'[t] = free[t] - 1
          /\ legal'[t] = [legal[t] EXCEPT ![c] = legal[t][free[t]]]
          /\ grid'[legal[t][c]] # Empty
          /\ \A s \in Sites : grid'[s] = Empty => grid[s] = Empty
      BY <1>1, <1>2, <1>5, <2>2, <3>1
    <3>3. /\ ListOK(t)' /\ legal'[t] \in Seq(Sites)
          /\ \A i \in 1 .. free[t] - 1 : \E j \in 1 .. free[t] :
                /\ j # c /\ legal'[t][i] = legal[t][j]
                /\ (i # c => j = i) /\ (i = c => j = free[t])
      BY <3>2, DropEntry
    <3> QED BY <3>1, <3>3
  <2> HIDE DEF n
  <2>4. TypeOK'
    <3>1. \A t \in Types : legal'[t] \in Seq(Sites)
      BY <1>2, <2>2, <2>3
    <3>2. legal' \in [Types -> Seq(Sites)]
      BY <2>1, <3>1 DEF IInv, TypeOK
    <3> QED BY <1>1, <2>1, <2>2, <3>2 DEF IInv, TypeOK
  <2>6. ASSUME NEW t \in Types PROVE ListOK(t)'
    <3>1. CASE t = itype BY <3>1, <2>3 DEF ListOK
    <3>2. CASE t # itype
      <4>1. ListOK(t) /\ legal'[t] = legal[t] /\ free'[t] = free[t] /\ grid' = grid
        BY <3>2, <1>1, <1>2, <2>2
      <4> QED BY <4>1 DEF ListOK
    <3> QED BY <3>1, <3>2
  <2>7. ASSUME NEW t \in Types, t < itype PROVE AllFree(t, free[t])'
    <3>1. AllFree(t, free[t]) /\ t # itype
      BY <1>1, <2>7, GridAssumption DEF IInv, Lists, Types
    <3> QED BY <1>1, <2>2, <3>1 DEF AllFree
  <2>8. AllFree(itype, ichoice - 1)'
    <3> SUFFICES ASSUME NEW i \in 1 .. n - 1, i <= ichoice - 1
                 PROVE  grid[legal'[itype][i]] = Empty
      BY <1>1, <2>1, <2>2 DEF AllFree
    <3>1. i # ichoice /\ i \in 1 .. n /\ i \in 1 .. Len(legal[itype])
      BY <1>1, <1>2, <2>2 DEF n
    <3>2. AllFree(itype, ichoice - 1)
      BY <1>1 DEF IInv, Lists
    <3> QED BY <3>1, <3>2, <2>3 DEF AllFree, n
  <2>9. Lists'
    BY <1>1, <2>1, <2>6, <2>7, <2>8 DEF Lists, IInv
  <2> QED BY <1>3, <1>4, <2>4, <2>9 DEF IInv
<1>6. CASE grid[legal[itype][ichoice]] = Empty
  <2>1. ichoice' = ichoice + 1 /\ legal' = legal /\ free' = free
    BY <1>6 DEF CompactEntry
  <2>2. TypeOK'
    <3>1. ichoice' \in Nat \ {0}
      BY <2>1 DEF IInv, TypeOK
    <3> QED BY <1>1, <2>1, <3>1 DEF IInv, TypeOK
  <2>3. ASSUME NEW t \in Types PROVE ListOK(t)'
    <3>1. ListOK(t) /\ legal' = legal /\ free' = free /\ grid' = grid
      BY <1>1, <1>2, <2>1
    <3> QED BY <3>1 DEF ListOK
  <2>4. AllFree(itype, ichoice - 1)'
    BY <1>1, <1>6, <2>1 DEF AllFree, IInv, Lists
  <2>5. Lists'
    BY <1>1, <2>1, <2>3, <2>4 DEF Lists, AllFree, IInv
  <2> QED BY <1>3, <1>4, <2>2, <2>5 DEF IInv
<1> QED BY <1>5, <1>6

LEMMA CompactNextTypeStep ==
    ASSUME IInv, CompactNextType
    PROVE  IInv'
<1> USE DEF CompactNextType, lists, file
<1>1. TypeOK'
  <2>1. itype' \in Nat \ {0} /\ ichoice' \in Nat \ {0}
    BY DEF IInv, TypeOK
  <2>2. pc' \in {"compact", "blocks"}
    OBVIOUS
  <2> QED BY <2>1, <2>2 DEF IInv, TypeOK
<1>2. BlocksStand' /\ GridHolds' /\ Shapes' /\ SwapOK' /\ UsageExact'
  BY FrameStep
<1>3. Fixity' /\ Phases'
  BY DEF IInv, Fixity, Phases, Placed, Initial, Swapping, Over
<1>4. Lists'
  <2>1. \A t \in Types : ListOK(t)'
    BY DEF IInv, Lists, Initial, ListOK
  <2>2. itype \in Types /\ ichoice > free[itype] /\ free[itype] \in Int /\ ichoice \in Nat
    BY DEF IInv, TypeOK, Lists
  <2>3. AllFree(itype, free[itype])
    BY <2>2 DEF IInv, Lists, AllFree
  <2>4. \A t \in Types : t < itype + 1 => AllFree(t, free[t])
    BY <2>2, <2>3, GridAssumption DEF IInv, Lists, Types
  <2>5. \A t \in Types : t < itype' => AllFree(t, free[t])'
    BY <2>4 DEF AllFree
  <2>6. CASE itype = NumTypes
    BY <2>1, <2>5, <2>6, GridAssumption DEF Lists, Types
  <2>7. CASE itype # NumTypes
    <3>1. itype + 1 \in Types
      BY <2>2, <2>7, GridAssumption DEF Types
    <3>2. AllFree(itype, ichoice - 1)'
      BY DEF AllFree
    <3> QED BY <2>1, <2>5, <2>7, <3>1, <3>2 DEF Lists
  <2> QED BY <2>6, <2>7
<1> QED BY <1>1, <1>2, <1>3, <1>4 DEF IInv

(* usage of one cell goes up by one.                                       *)
LEMMA OneMore ==
    ASSUME TypeOK, NEW s \in Sites, usage' = [usage EXCEPT ![CellOf(s)] = @ + 1]
    PROVE  /\ usage' \in [Cells -> Int]
           /\ \A c \in Cells :
                usage'[c] = usage[c] + Cardinality({r \in {s} : CellOf(r) = c})
<1>1. usage \in [Cells -> Int] /\ CellOf(s) \in Cells
  BY SiteFacts DEF TypeOK
<1>2. ASSUME NEW c \in Cells
      PROVE  usage'[c] = usage[c] + Cardinality({r \in {s} : CellOf(r) = c})
  <2>1. CASE c = CellOf(s)
    <3>1. {r \in {s} : CellOf(r) = c} = {s}
      BY <2>1
    <3>2. usage'[c] = usage[c] + 1
      BY <1>1, <2>1
    <3> QED BY <3>1, <3>2, FS_Singleton
  <2>2. CASE c # CellOf(s)
    <3>1. {r \in {s} : CellOf(r) = c} = {}
      BY <2>2
    <3>2. usage'[c] = usage[c] + 0
      BY <1>1, <2>2
    <3> QED BY <3>1, <3>2, FS_EmptySet
  <2> QED BY <2>1, <2>2
<1> QED BY <1>1, <1>2

(* A block that has no place is in no macro put down so far.               *)
LEMMA UnplacedIsSingle ==
    ASSUME IInv, moved = {}, NEW b \in Blocks, ~Placed(b),
           NEW m \in DOMAIN Macros, m < imacro, NEW k \in Members(m)
    PROVE  Macros[m][k].blk # b
<1>1. loc[Macros[m][k].blk] \in CoreSites
  BY DEF IInv, Shapes, ShapesAt
<1> QED BY <1>1, CoreSiteFacts, SiteFacts DEF Placed

LEMMA PlaceBlockStep ==
    ASSUME IInv, PlaceBlock
    PROVE  IInv'
<1> USE DEF lists, file
<1>1. /\ pc = "blocks" /\ moved = {} /\ fixed = {}
      /\ \A t \in Types : ListOK(t) /\ AllFree(t, free[t])
  BY DEF PlaceBlock, IInv, Phases, Swapping, Fixity, Initial, Lists
<1>2. PICK b \in LeftToPlace :
        IF free[BlockType[b]] <= 0 THEN Stop("no_room")
        ELSE \E i \in 1 .. free[BlockType[b]] :
            IF grid[legal[BlockType[b]][i]] # Empty THEN Stop("assert")
            ELSE /\ grid' = [grid EXCEPT ![legal[BlockType[b]][i]] = b]
                 /\ usage' = [usage EXCEPT ![CellOf(legal[BlockType[b]][i])] = @ + 1]
                 /\ loc' = [loc EXCEPT ![b] = legal[BlockType[b]][i]]
                 /\ legal' = [legal EXCEPT ![BlockType[b]][i] = legal[BlockType[b]][free[BlockType[b]]]]
                 /\ free' = [free EXCEPT ![BlockType[b]] = @ - 1]
                 /\ UNCHANGED <<pc, itype, ichoice, imacro, file, fixed, moved, sub>>
  BY DEF PlaceBlock
<1>3. PICK t \in Types : t = BlockType[b]
  BY BlocksAssumption DEF LeftToPlace
<1>4. CASE Stop("no_room") \/ Stop("assert")
  BY <1>1, <1>4, StopStep
<1>5. ASSUME NEW i \in 1 .. free[t], NEW s \in Sites, s = legal[t][i], grid[s] = Empty,
             grid' = [grid EXCEPT ![s] = b], usage' = [usage EXCEPT ![CellOf(s)] = @ + 1],
             loc' = [loc EXCEPT ![b] = s],
             legal' = [legal EXCEPT ![t][i] = legal[t][free[t]]],
             free' = [free EXCEPT ![t] = @ - 1],
             UNCHANGED <<pc, itype, ichoice, imacro, file, fixed, moved, sub>>
      PROVE  IInv'
  <2>1. /\ b \in Blocks /\ ~Placed(b) /\ b # Empty /\ ~(BlockType[b] = IoType /\ pad_loc_type = "USER")
        /\ TypeAt(s) = t
    <3>1. legal[t][i] \in LegalSites(t)
      BY <1>1 DEF ListOK
    <3> QED BY <1>5, <3>1, LegalSiteFacts, EmptyFacts DEF LeftToPlace
  <2>2. /\ loc'[b] = s /\ \A d \in Blocks \ {b} : loc'[d] = loc[d]
        /\ grid'[s] = b /\ \A r \in Sites \ {s} : grid'[r] = grid[r]
        /\ loc' \in [Blocks -> Triples] /\ grid' \in [Sites -> Blocks \cup {Empty}]
    BY <1>5, <2>1, SiteFacts DEF IInv, TypeOK, Triples
  <2>3. /\ legal'[t] = [legal[t] EXCEPT ![i] = legal[t][free[t]]] /\ free'[t] = free[t] - 1
        /\ \A u \in Types \ {t} : free'[u] = free[u] /\ legal'[u] = legal[u]
        /\ free' \in [Types -> Int] /\ DOMAIN legal' = Types
        /\ legal[t] \in Seq(Sites) /\ free[t] \in Int
    BY <1>5 DEF IInv, TypeOK
  <2>4. \A r \in Sites : grid'[r] = Empty => grid[r] = Empty
    BY <2>1, <2>2
  <2>5. /\ ListOK(t)' /\ legal'[t] \in Seq(Sites)
        /\ \A k \in 1 .. free[t] - 1 : \E j \in 1 .. free[t] :
             /\ j # i /\ legal'[t][k] = legal[t][j]
             /\ (k # i => j = k) /\ (k = i => j = free[t])
    <3>1. ListOK(t) /\ grid'[legal[t][i]] # Empty
      BY <1>1, <1>5, <2>1, <2>2
    <3> QED BY <2>3, <2>4, <3>1, DropEntry
  <2>6. usage' \in [Cells -> Int]
        /\ \A c \in Cells : usage'[c] = usage[c] + Cardinality({r \in {s} : CellOf(r) = c})
    BY <1>5, OneMore DEF IInv
  <2>7. TypeOK'
    <3>1. \A u \in Types : legal'[u] \in Seq(Sites)
      BY <2>3, <2>5 DEF IInv, TypeOK
    <3>2. legal' \in [Types -> Seq(Sites)]
      BY <2>3, <3>1, <1>5 DEF IInv, TypeOK
    <3> QED BY <1>5, <2>2, <2>3, <2>6, <3>2 DEF IInv, TypeOK, Triples
  <2>8. BlocksStand' /\ GridHolds'
    <3> DEFINE at == [d \in {b} |-> s]
    <3>1. at \in [{b} -> Sites] /\ at[b] = s /\ {b} \in SUBSET (Blocks \ fixed)
      BY <1>1, <2>1
    <3> HIDE DEF at
    <3>2. /\ moved' = {} /\ fixed' = fixed
          /\ \A d \in {b} : ~Placed(d)
          /\ \A d, e \in {b} : at[d] = at[e] => d = e
          /\ \A d \in {b} : grid[at[d]] = Empty /\ loc'[d] = at[d] /\ grid'[at[d]] = d
          /\ \A d \in Blocks \ {b} : loc'[d] = loc[d]
          /\ \A r \in Sites : (\A d \in {b} : at[d] # r) => grid'[r] = grid[r]
      BY <1>1, <1>5, <2>1, <2>2, <3>1
    <3> QED BY <1>1, <2>7, <3>1, <3>2, AddBlocks
  <2>9. UsageExact'
    <3>1. /\ {s} \in SUBSET Sites
          /\ \A r \in {s} : grid[r] = Empty /\ grid'[r] # Empty
          /\ \A r \in Sites \ {s} : grid'[r] = grid[r]
      BY <1>5, <2>1, <2>2
    <3> QED BY <2>6, <2>7, <3>1, UsageAdds
  <2>10. Shapes' /\ SwapOK'
    <3>1. ShapesAt(loc)'
      <4> SUFFICES ASSUME NEW m \in DOMAIN Macros, m < imacro, NEW k \in Members(m)
                   PROVE  /\ loc'[Blk(m, k)] \in CoreSites
                          /\ loc'[Blk(m, k)] = MemberSite(m, k, loc'[Blk(m, 1)])
        BY <1>5 DEF ShapesAt, Blk
      <4>1. 1 \in Members(m) /\ Blk(m, k) \in Blocks /\ Blk(m, 1) \in Blocks
        BY MembersOf
      <4>2. Blk(m, k) # b /\ Blk(m, 1) # b
        BY <1>1, <2>1, <4>1, UnplacedIsSingle DEF Blk
      <4>3. loc[Blk(m, k)] \in CoreSites /\ loc[Blk(m, k)] = MemberSite(m, k, loc[Blk(m, 1)])
        BY DEF IInv, Shapes, ShapesAt, Blk
      <4> QED BY <2>2, <4>1, <4>2, <4>3
    <3> QED BY <1>1, <1>5, <2>7, <3>1, StillLocNext DEF Shapes
  <2>11. Fixity'
    <3>1. ASSUME NEW d \in Blocks, pad_loc_type = "USER", Placed(d)', BlockType[d] = IoType
          PROVE  d \in fixed
      BY <2>1, <2>2, <3>1 DEF IInv, Fixity, Placed
    <3> QED BY <1>1, <1>5, <2>1, <2>4, <2>2, <3>1 DEF Fixity
  <2>12. Phases'
    <3>1. \A r \in Sites : grid'[r] # Empty => TypeAt(r) = BlockType[grid'[r]]
      BY <1>1, <1>3, <2>1, <2>2 DEF IInv, Phases, Initial
    <3>2. pc' = "blocks" /\ imacro' > Len(Macros) /\ moved' = {}
      BY <1>1, <1>5 DEF IInv, Phases
    <3> QED BY <3>1, <3>2 DEF Phases, Swapping, Over
  <2>13. ASSUME NEW u \in Types PROVE ListOK(u)' /\ AllFree(u, free[u])'
    <3>1. CASE u = t
      <4>1. ListOK(u)'
        BY <3>1, <2>5 DEF ListOK
      <4>2. ASSUME NEW k \in 1 .. free[t] - 1 PROVE grid'[legal'[t][k]] = Empty
        <5>1. PICK j \in 1 .. free[t] : j # i /\ legal'[t][k] = legal[t][j]
          BY <2>5
        <5>2. /\ legal[t][j] \in LegalSites(t) /\ legal[t][j] # legal[t][i]
              /\ grid[legal[t][j]] = Empty
          <6>1. ListOK(t) /\ AllFree(t, free[t])
            BY <1>1
          <6>2. legal[t][j] \in LegalSites(t) /\ legal[t][j] # legal[t][i]
            BY <5>1, <6>1 DEF ListOK
          <6>3. grid[legal[t][j]] = Empty
            BY <2>3, <6>1 DEF AllFree
          <6> QED BY <6>2, <6>3
        <5> QED BY <1>5, <2>2, <5>1, <5>2, LegalSiteFacts
      <4> QED BY <3>1, <2>3, <4>1, <4>2 DEF AllFree
    <3>2. CASE u # t
      <4>1. ListOK(u) /\ AllFree(u, free[u]) /\ free'[u] = free[u] /\ legal'[u] = legal[u] /\ free[u] \in Int
        BY <1>1, <2>3, <3>2 DEF IInv, TypeOK
      <4>2. ListOK(u)'
        BY <2>4, <4>1, LegalSiteFacts DEF ListOK
      <4>3. ASSUME NEW k \in 1 .. free[u] PROVE grid'[legal[u][k]] = Empty
        <5>1. legal[u][k] \in LegalSites(u) /\ grid[legal[u][k]] = Empty
          BY <4>1 DEF ListOK, AllFree
        <5> QED BY <2>1, <2>2, <3>2, <5>1, LegalSiteFacts
      <4> QED BY <4>1, <4>2, <4>3 DEF AllFree
    <3> QED BY <3>1, <3>2
  <2>14. Lists'
    BY <1>1, <1>5, <2>13 DEF Lists
  <2> QED BY <2>7, <2>8, <2>9, <2>10, <2>11, <2>12, <2>14 DEF IInv
<1>6. CASE \E i \in 1 .. free[t] :
             /\ grid[legal[t][i]] = Empty
             /\ grid' = [grid EXCEPT ![legal[t][i]] = b]
             /\ usage' = [usage EXCEPT ![CellOf(legal[t][i])] = @ + 1]
             /\ loc' = [loc EXCEPT ![b] = legal[t][i]]
             /\ legal' = [legal EXCEPT ![t][i] = legal[t][free[t]]]
             /\ free' = [free EXCEPT ![t] = @ - 1]
             /\ UNCHANGED <<pc, itype, ichoice, imacro, file, fixed, moved, sub>>
  <2>1. \A i \in 1 .. free[t] : legal[t][i] \in Sites
    BY <1>1, LegalSiteFacts DEF ListOK
  <2> QED BY <1>5, <1>6, <2>1
<1> QED BY <1>2, <1>3, <1>4, <1>6

(* No pad is placed yet when the pad file is opened: nothing is undone.    *)
LEMMA OpenPadFileStep ==
    ASSUME IInv, OpenPadFile
    PROVE  IInv'
<1> USE DEF lists, file
<1>1. /\ pc = "blocks" /\ pc' = "pads" /\ pad_loc_type = "USER"
      /\ UNCHANGED <<usage, lists, imacro, file, fixed, moved, sub>>
      /\ moved = {} /\ fixed = {} /\ imacro > Len(Macros)
      /\ \A s \in Sites : grid[s] # Empty => TypeAt(s) = BlockType[grid[s]]
  BY DEF OpenPadFile, IInv, Phases, Swapping, Fixity, Initial
<1>2. ASSUME NEW b \in Blocks, BlockType[b] = IoType PROVE ~Placed(b)
  BY <1>1, <1>2 DEF IInv, Fixity
<1>3. ASSUME NEW s \in Sites, TypeAt(s) = IoType PROVE grid[s] = Empty
  BY <1>1, <1>2, <1>3 DEF IInv, TypeOK, GridHolds
<1>4. grid' = grid
  <2>1. grid' = [s \in Sites |-> IF TypeAt(s) = IoType THEN Empty ELSE grid[s]]
    BY DEF OpenPadFile
  <2> QED BY <1>3, <2>1 DEF IInv, TypeOK
<1>5. loc' = loc
  <2>1. loc' = [b \in Blocks |-> IF BlockType[b] = IoType THEN <<-1, loc[b][2], loc[b][3]>> ELSE loc[b]]
    BY DEF OpenPadFile
  <2>2. ASSUME NEW b \in Blocks PROVE loc'[b] = loc[b]
    <3>1. loc[b] \in Triples
      BY DEF IInv, TypeOK, Triples
    <3>2. loc[b] = <<loc[b][1], loc[b][2], loc[b][3]>>
      BY <3>1, TripleFacts
    <3> QED BY <1>2, <2>1, <3>2 DEF Placed
  <2> QED BY <2>1, <2>2 DEF IInv, TypeOK
<1>6. TypeOK'
  BY <1>1, <1>4, <1>5 DEF IInv, TypeOK
<1>7. BlocksStand' /\ GridHolds' /\ Shapes' /\ SwapOK' /\ UsageExact'
  BY <1>1, <1>4, <1>5, FrameStep
<1>8. Fixity'
  BY <1>1, <1>4, <1>5 DEF IInv, Fixity, Placed, Initial
<1>9. Phases' /\ Lists'
  BY <1>1, <1>3, <1>4 DEF Phases, Lists, Initial, Swapping, Over
<1> QED BY <1>6, <1>7, <1>8, <1>9 DEF IInv

LEMMA PadFileFacts ==
    /\ DOMAIN PadFile = 1 .. Len(PadFile) /\ Len(PadFile) \in Nat
    /\ \A i \in DOMAIN PadFile :
        /\ i \in Nat /\ PadFile[i].blk \in Blocks
        /\ BlockType[PadFile[i].blk] = IoType /\ PadFile[i].site \in Sites
<1> DEFINE Line == [blk : {b \in Blocks : BlockType[b] = IoType}, site : Sites]
<1>1. PadFile \in Seq(Line)
  BY PadAssumption
<1> HIDE DEF Line
<1>2. /\ DOMAIN PadFile = 1 .. Len(PadFile) /\ Len(PadFile) \in Nat
      /\ \A i \in DOMAIN PadFile : PadFile[i] \in Line /\ i \in Nat
  BY <1>1
<1>3. \A l \in Line : l.blk \in Blocks /\ BlockType[l.blk] = IoType /\ l.site \in Sites
  BY DEF Line
<1> QED BY <1>2, <1>3

(* A line of the pad file fixes one more pad.                              *)
LEMMA ReadPadLineStep ==
    ASSUME IInv, ReadPadLine
    PROVE  IInv'
<1> USE DEF lists, file
<1> DEFINE B == PadFile[iline].blk
           S == PadFile[iline].site
<1>1. /\ pc = "pads" /\ moved = {} /\ imacro > Len(Macros) /\ pad_loc_type = "USER"
      /\ \A r \in Sites : grid[r] # Empty => TypeAt(r) = BlockType[grid[r]]
  BY DEF ReadPadLine, IInv, Phases, Swapping
<1>2. iline \in DOMAIN PadFile /\ B \in Blocks /\ BlockType[B] = IoType /\ S \in Sites
  <2>1. DOMAIN PadFile = 1 .. Len(PadFile) /\ iline \in Nat /\ iline >= 1 /\ Len(PadFile) \in Nat
    BY PadFileFacts DEF IInv, TypeOK
  <2>2. iline <= Len(PadFile)
    BY DEF ReadPadLine
  <2>3. iline \in DOMAIN PadFile
    BY <2>1, <2>2
  <2> QED BY <2>3, PadFileFacts
<1>3. PICK b \in Blocks, s \in Sites : b = B /\ s = S /\ BlockType[b] = IoType
  BY <1>2
<1>4. CASE Stop("bad_pad_file")
  BY <1>1, <1>4, StopStep
<1>5. CASE ~Stop("bad_pad_file")
  <2>1. /\ ~Placed(b) /\ TypeAt(s) = IoType /\ pc' = pc
        /\ loc' = [loc EXCEPT ![b] = <<s[1], s[2], @[3]>>]
        /\ fixed' = fixed \cup {b} /\ grid' = [grid EXCEPT ![s] = b]
        /\ usage' = [usage EXCEPT ![CellOf(s)] = @ + 1] /\ iline' = iline + 1
        /\ UNCHANGED <<legal, free, itype, ichoice, pad_loc_type, imacro, moved, sub>>
    BY <1>3, <1>5 DEF ReadPadLine
  <2>2. grid[s] = Empty
    <3>1. ASSUME NEW i \in DOMAIN PadFile, i < iline, PadFile[i].site = s PROVE FALSE
      <4>1. PadFile[i].site = PadFile[iline].site
        BY <1>3, <3>1
      <4>2. i = iline
        BY <1>2, <4>1, PadAssumption
      <4>3. i \in Nat /\ iline \in Nat
        BY PadFileFacts DEF IInv, TypeOK
      <4> QED BY <3>1, <4>2, <4>3
    <3> QED BY <1>1, <2>1, <3>1 DEF IInv, Phases
  <2>3. /\ loc'[b] = <<s[1], s[2], loc[b][3]>> /\ \A d \in Blocks \ {b} : loc'[d] = loc[d]
        /\ grid'[s] = b /\ \A r \in Sites \ {s} : grid'[r] = grid[r]
        /\ loc' \in [Blocks -> Triples] /\ grid' \in [Sites -> Blocks \cup {Empty}]
    BY <2>1, SiteFacts DEF IInv, TypeOK, Triples
  <2>4. /\ usage' \in [Cells -> Int]
        /\ \A c \in Cells : usage'[c] = usage[c] + Cardinality({r \in {s} : CellOf(r) = c})
    BY <2>1, OneMore DEF IInv
  <2>5. TypeOK'
    <3>1. iline' \in Nat \ {0}
      BY <2>1 DEF IInv, TypeOK
    <3> QED BY <1>1, <2>1, <2>3, <2>4, <3>1 DEF IInv, TypeOK, Triples
  <2>6. /\ b # Empty /\ b \notin fixed /\ moved' = {}
        /\ CellOf(s) = CellOf(loc'[b]) /\ Placed(b)'
        /\ \A r \in Sites : grid[r] # b
    <3>1. b # Empty /\ b \notin fixed /\ moved' = {} /\ \A r \in Sites : grid[r] # b
      BY <1>1, <2>1, EmptyFacts DEF IInv, BlocksStand, GridHolds
    <3>2. loc'[b][1] = s[1] /\ loc'[b][2] = s[2]
      BY <2>3
    <3>3. CellOf(s) = CellOf(loc'[b]) /\ Placed(b)'
      BY <3>2, SiteFacts DEF CellOf, Placed
    <3> QED BY <3>1, <3>3
  <2>7. OldLoc = loc /\ OldLoc' = loc'
    BY <1>1, <2>5, <2>6, StillLoc, StillLocNext DEF IInv
  <2>8. \A d \in Blocks \ {b} : Placed(d)' = Placed(d) /\ Held(d)' = Held(d)
    BY <2>3, <2>7 DEF Placed, Held
  <2>9. BlocksStand'
    <3>1. ASSUME NEW d \in Blocks \ fixed', Placed(d)'
          PROVE  Held(d)' \in Sites /\ grid'[Held(d)'] = d
      <4>1. d # b /\ d \in Blocks \ fixed
        BY <2>1
      <4>2. Held(d) \in Sites /\ grid[Held(d)] = d
        BY <3>1, <4>1, <2>8 DEF IInv, BlocksStand
      <4>3. Held(d) # s
        BY <2>2, <4>2, EmptyFacts
      <4> QED BY <2>3, <2>8, <4>1, <4>2, <4>3
    <3>2. ASSUME NEW d \in fixed'
          PROVE  Placed(d)' /\ \E r \in Sites : grid'[r] = d /\ CellOf(r) = CellOf(Held(d)')
      <4>1. CASE d = b
        BY <4>1, <2>3, <2>6, <2>7 DEF Held
      <4>2. CASE d # b
        <5>1. d \in fixed /\ d \in Blocks \ {b}
          BY <2>1, <4>2 DEF IInv, TypeOK
        <5>2. PICK r \in Sites : grid[r] = d /\ CellOf(r) = CellOf(Held(d))
          BY <5>1 DEF IInv, BlocksStand
        <5>3. r # s
          BY <2>2, <5>1, <5>2, EmptyFacts
        <5>4. grid'[r] = d /\ CellOf(r) = CellOf(Held(d)')
          BY <2>3, <2>8, <5>1, <5>2, <5>3
        <5> QED BY <2>8, <5>1, <5>4 DEF IInv, BlocksStand
      <4> QED BY <4>1, <4>2
    <3> QED BY <3>1, <3>2 DEF BlocksStand
  <2>10. GridHolds'
    <3>1. ASSUME NEW r \in Sites, grid'[r] # Empty
          PROVE  Placed(grid[r])' /\ (grid'[r] \notin fixed' => Held(grid[r])' = r)
      <4>1. CASE r = s
        BY <4>1, <2>1, <2>3, <2>6 DEF Placed
      <4>2. CASE r # s
        <5>1. grid'[r] = grid[r] /\ grid[r] # Empty /\ grid[r] \in Blocks \ {b}
          BY <3>1, <4>2, <2>3, <2>6 DEF IInv, TypeOK
        <5>2. Placed(grid[r]) /\ (grid[r] \notin fixed => Held(grid[r]) = r)
          BY <5>1 DEF IInv, GridHolds
        <5> QED BY <2>1, <2>8, <5>1, <5>2 DEF Placed, Held
      <4> QED BY <4>1, <4>2
    <3>2. \A r, q \in Sites : grid'[r] # Empty /\ grid'[r] = grid'[q] => r = q
      BY <2>3, <2>6 DEF IInv, GridHolds
    <3> QED BY <3>1, <3>2 DEF GridHolds
  <2>11. UsageExact'
    <3>1. /\ {s} \in SUBSET Sites
          /\ \A r \in {s} : grid[r] = Empty /\ grid'[r] # Empty
          /\ \A r \in Sites \ {s} : grid'[r] = grid[r]
      BY <2>2, <2>3, <2>6
    <3> QED BY <2>4, <2>5, <3>1, UsageAdds
  <2>12. Shapes' /\ SwapOK'
    <3>1. ShapesAt(loc)'
      <4> SUFFICES ASSUME NEW m \in DOMAIN Macros, m < imacro, NEW k \in Members(m)
                   PROVE  /\ loc'[Blk(m, k)] \in CoreSites
                          /\ loc'[Blk(m, k)] = MemberSite(m, k, loc'[Blk(m, 1)])
        BY <2>1 DEF ShapesAt, Blk
      <4>1. 1 \in Members(m) /\ Blk(m, k) \in Blocks /\ Blk(m, 1) \in Blocks
        BY MembersOf
      <4>2. Blk(m, k) # b /\ Blk(m, 1) # b
        BY <1>1, <2>1, <4>1, UnplacedIsSingle DEF Blk
      <4>3. loc[Blk(m, k)] \in CoreSites /\ loc[Blk(m, k)] = MemberSite(m, k, loc[Blk(m, 1)])
        BY DEF IInv, Shapes, ShapesAt, Blk
      <4> QED BY <2>3, <4>1, <4>2, <4>3
    <3> QED BY <2>5, <2>6, <2>7, <3>1, StillLocNext DEF Shapes
  <2>13. Fixity'
    <3>1. \A r \in Sites : grid'[r] \in fixed' => TypeAt(r) = IoType
      BY <2>1, <2>3, <2>6 DEF IInv, Fixity
    <3>2. \A d \in Blocks : Placed(d)' /\ BlockType[d] = IoType => d \in fixed'
      BY <1>1, <2>1, <2>8 DEF IInv, Fixity
    <3>3. \A d \in fixed' : BlockType[d] = IoType
      BY <1>3, <2>1 DEF IInv, Fixity
    <3> QED BY <1>1, <2>1, <3>1, <3>2, <3>3 DEF Fixity, Initial
  <2>14. Phases'
    <3>1. \A r \in Sites : grid'[r] # Empty => TypeAt(r) = BlockType[grid'[r]]
      BY <1>1, <1>3, <2>1, <2>3
    <3>2. ASSUME NEW r \in Sites, TypeAt(r) = IoType, grid'[r] # Empty
          PROVE  \E i \in DOMAIN PadFile : i < iline' /\ PadFile[i].site = r
      <4>1. CASE r = s
        BY <4>1, <1>2, <1>3, <2>1 DEF IInv, TypeOK
      <4>2. CASE r # s
        <5>1. PICK i \in DOMAIN PadFile : i < iline /\ PadFile[i].site = r
          BY <1>1, <2>3, <3>2, <4>2 DEF IInv, Phases
        <5>2. i \in Nat /\ iline \in Nat /\ iline' = iline + 1
          BY <2>1, PadFileFacts DEF IInv, TypeOK
        <5> QED BY <5>1, <5>2
      <4> QED BY <4>1, <4>2
    <3> QED BY <1>1, <2>1, <2>6, <3>1, <3>2 DEF Phases, Swapping, Over
  <2>15. Lists'
    BY <1>1, <2>1 DEF Lists, Initial
  <2> QED BY <2>5, <2>9, <2>10, <2>11, <2>12, <2>13, <2>14, <2>15 DEF IInv
<1> QED BY <1>4, <1>5

LEMMA LoadLegalPlacementsStep ==
    ASSUME IInv, LoadLegalPlacements
    PROVE  IInv'
<1> USE DEF lists, file
<1>1. moved = {} /\ imacro > Len(Macros) /\ pc \in {"blocks", "pads"}
  BY DEF LoadLegalPlacements, PadsRead, IInv, Phases, Swapping
<1>2. CASE Stop("bad_pad_file")
  BY <1>1, <1>2, StopStep
<1>3. CASE ~Stop("bad_pad_file")
  <2>1. /\ \A b \in Blocks : Placed(b)
        /\ pc' = "anneal" /\ legal' = LegalPos /\ free' = [t \in Types |-> NumLegalPos(t)]
        /\ itype' = 1 /\ ichoice' = 1
        /\ UNCHANGED <<loc, grid, usage, imacro, file, fixed, moved, sub>>
    BY <1>3 DEF LoadLegalPlacements
  <2>2. TypeOK'
    <3>1. legal' \in [Types -> Seq(Sites)]
      BY <2>1, LegalPosAssumption
    <3>2. free' \in [Types -> Int]
      BY <2>1, LegalPosAssumption DEF NumLegalPos
    <3> QED BY <2>1, <3>1, <3>2 DEF IInv, TypeOK
  <2>3. BlocksStand' /\ GridHolds' /\ Shapes' /\ SwapOK' /\ UsageExact'
    BY <2>1, FrameStep
  <2>4. Fixity'
    BY <2>1 DEF IInv, Fixity, Placed, Initial
  <2>5. Phases' /\ Lists'
    BY <1>1, <2>1 DEF Phases, Lists, Initial, Swapping, Over, Placed
  <2> QED BY <2>2, <2>3, <2>4, <2>5 DEF IInv
<1> QED BY <1>2, <1>3

-----------------------------------------------------------------------------
(* Swaps.                                                                  *)

(* Between swaps, blocks that are not fixed and grid name one another.     *)
LEMMA AtRest ==
    ASSUME IInv, pc \in Swapping, moved = {}
    PROVE  /\ OldLoc = loc /\ imacro > Len(Macros)
           /\ \A b \in Blocks : Placed(b) /\ loc[b] \in Triples
           /\ \A b \in Blocks \ fixed : loc[b] \in Sites /\ grid[loc[b]] = b
           /\ \A s \in Sites : grid[s] # Empty =>
                grid[s] \in Blocks /\ (grid[s] \notin fixed => loc[grid[s]] = s)
           /\ fixed # {} => \A b \in Blocks : BlockType[b] = IoType => b \in fixed
<1>1. OldLoc = loc
  BY StillLoc DEF IInv
<1>2. imacro > Len(Macros) /\ \A b \in Blocks : Placed(b) /\ loc[b] \in Triples
  BY DEF IInv, TypeOK, Phases, Triples
<1>3. \A b \in Blocks \ fixed : loc[b] \in Sites /\ grid[loc[b]] = b
  BY <1>1, <1>2 DEF IInv, BlocksStand, Held
<1>4. \A s \in Sites : grid[s] # Empty =>
                grid[s] \in Blocks /\ (grid[s] \notin fixed => loc[grid[s]] = s)
  BY <1>1 DEF IInv, TypeOK, GridHolds, Held
<1>5. fixed # {} => \A b \in Blocks : BlockType[b] = IoType => b \in fixed
  BY <1>2 DEF IInv, Fixity
<1> QED BY <1>1, <1>2, <1>3, <1>4, <1>5

(* A macro at rest: in the core, in shape, and not fixed.                  *)
LEMMA MacroAtRest ==
    ASSUME IInv, pc \in Swapping, moved = {}, NEW m \in DOMAIN Macros
    PROVE  /\ \A k \in Members(m) :
                /\ Blk(m, k) \in Blocks \ fixed /\ loc[Blk(m, k)] \in CoreSites
                /\ loc[Blk(m, k)] = Shift(loc[Blk(m, 1)], Macros[m][k].offset)
                /\ Macros[m][k].offset \in Triples
           /\ \A c \in BlocksOf(m) : c \in Blocks \ fixed /\ loc[c] \in CoreSites
                                     /\ InMacro(c) /\ BlockType[c] # IoType
<1>1. m < imacro
  BY AtRest, MembersOf DEF IInv, TypeOK
<1>2. ASSUME NEW k \in Members(m)
      PROVE  /\ Blk(m, k) \in Blocks \ fixed /\ loc[Blk(m, k)] \in CoreSites
             /\ loc[Blk(m, k)] = Shift(loc[Blk(m, 1)], Macros[m][k].offset)
             /\ BlockType[Blk(m, k)] # IoType
  <2>1. Blk(m, k) \in Blocks /\ BlockType[Blk(m, k)] # IoType
    BY MembersOf, MacrosAssumption DEF Blk
  <2>2. loc[Blk(m, k)] \in CoreSites /\ loc[Blk(m, k)] = Shift(loc[Blk(m, 1)], Macros[m][k].offset)
    BY <1>1 DEF IInv, Shapes, ShapesAt, MemberSite, Blk
  <2> QED BY <2>1, <2>2 DEF IInv, Fixity
<1>3. \A c \in BlocksOf(m) : InMacro(c) /\ \E k \in Members(m) : c = Blk(m, k)
  BY MembersOf DEF InMacro
<1>4. \A k \in Members(m) : Macros[m][k].offset \in Triples
  BY MacroFacts
<1> QED BY <1>2, <1>3, <1>4

(* Who moves in a swap that is not aborted, and where to.                  *)
Going(b, to) ==
    /\ Movers(b) \subseteq Blocks \ fixed /\ b \in Movers(b)
    /\ \A c \in Movers(b) :
        /\ loc[c] \in Sites /\ grid[loc[c]] = c /\ Target(b, to, c) \in Sites
        /\ \A d \in Movers(b) :
            /\ Target(b, to, c) = Target(b, to, d) => c = d
            /\ Target(b, to, c) # loc[d]
        /\ grid[Target(b, to, c)] # Empty =>
            /\ grid[Target(b, to, c)] \in Blocks \ fixed
            /\ grid[Target(b, to, c)] \notin Movers(b)
            /\ ~InMacro(grid[Target(b, to, c)])
            /\ loc[grid[Target(b, to, c)]] = Target(b, to, c)

LEMMA TargetOfPicked ==
    ASSUME NEW p \in Triples, NEW q \in Triples
    PROVE  Shift(p, Minus(q, p)) = q
<1>1. \A i, j \in Int : i + (j - i) = j
  OBVIOUS
<1>2. /\ p[1] \in Int /\ p[2] \in Int /\ p[3] \in Int
      /\ q[1] \in Int /\ q[2] \in Int /\ q[3] \in Int /\ q = <<q[1], q[2], q[3]>>
  BY TripleFacts
<1>3. p[1] + (q[1] - p[1]) = q[1] /\ p[2] + (q[2] - p[2]) = q[2] /\ p[3] + (q[3] - p[3]) = q[3]
  BY <1>1, <1>2
<1> QED BY <1>2, <1>3 DEF Shift, Minus

(* A target of a macro member that is on the chip is a core site.          *)
LEMMA TargetInCore ==
    ASSUME NEW p \in CoreSites, NEW q \in CoreSites, NEW l \in CoreSites,
           OnChip(Shift(l, Minus(q, p)))
    PROVE  Shift(l, Minus(q, p)) \in CoreSites
<1> DEFINE s == Shift(l, Minus(q, p))
<1>1. l \in Triples /\ Minus(q, p) \in Triples /\ s \in Triples
  BY CoreSiteFacts, ShiftFacts
<1>2. s[1] \in 1 .. NX /\ s[2] \in 1 .. NY
  BY DEF OnChip
<1>3. s[3] = l[3] + (q[3] - p[3])
  BY DEF Shift, Minus
<1>4. s[3] = 0
  BY <1>3, CoreSiteFacts
<1>5. s = <<s[1], s[2], 0>>
  BY <1>1, <1>4, TripleFacts
<1> HIDE DEF s
<1>6. <<s[1], s[2], 0>> \in CoreSites
  BY <1>2, CoreSiteOf
<1> QED BY <1>5, <1>6 DEF s

LEMMA SwapGoes ==
    ASSUME IInv, pc \in Swapping, moved = {}, NEW b \in Movable,
           NEW to \in FindTo(b), ~Aborted(b, to)
    PROVE  Going(b, to)
<1>1. b \in Blocks \ fixed /\ loc[b] \in Sites /\ grid[loc[b]] = b /\ loc[b] \in Triples
  BY AtRest DEF Movable
<1>2. to \in Sites /\ to \in Triples /\ TypeAt(to) = BlockType[b] /\ CellOf(to) # CellOf(loc[b])
  BY SiteFacts DEF FindTo, LegalSites
<1>3. ASSUME InMacro(b)
      PROVE  \E m \in DOMAIN Macros :
                Movers(b) = BlocksOf(m) /\ b \in BlocksOf(m) /\ to \in CoreSites
  <2>1. MacroOf(b) \in DOMAIN Macros /\ b \in BlocksOf(MacroOf(b))
    BY <1>3 DEF InMacro, MacroOf
  <2>2. BlockType[b] # IoType
    BY <2>1, MacroAtRest
  <2> QED BY <1>2, <1>3, <2>1, <2>2, SiteFacts DEF Movers
<1>4. ASSUME NEW c \in Movers(b)
      PROVE  /\ c \in Blocks \ fixed /\ loc[c] \in Sites /\ grid[loc[c]] = c
             /\ loc[c] \in Triples /\ Target(b, to, c) \in Sites
             /\ ~InMacro(b) => c = b /\ Target(b, to, c) = to
             /\ InMacro(b) => InMacro(c) /\ Target(b, to, c) \in CoreSites
  <2>1. CASE InMacro(b)
    <3>1. PICK m \in DOMAIN Macros : Movers(b) = BlocksOf(m) /\ b \in BlocksOf(m) /\ to \in CoreSites
      BY <1>3, <2>1
    <3>2. c \in Blocks \ fixed /\ loc[c] \in CoreSites /\ loc[b] \in CoreSites /\ InMacro(c)
      BY <3>1, MacroAtRest
    <3>3. OnChip(Target(b, to, c))
      BY <2>1 DEF Aborted, Fails
    <3>4. Target(b, to, c) \in CoreSites
      BY <3>1, <3>2, <3>3, TargetInCore DEF Target
    <3> QED BY <2>1, <3>2, <3>4, AtRest, CoreSiteFacts
  <2>2. CASE ~InMacro(b)
    <3>1. c = b
      BY <2>2 DEF Movers
    <3>2. Target(b, to, c) = to
      BY <1>1, <1>2, <3>1, TargetOfPicked DEF Target
    <3> QED BY <1>1, <1>2, <2>2, <3>1, <3>2
  <2> QED BY <2>1, <2>2
<1>5. ASSUME NEW c \in Movers(b), NEW d \in Movers(b), Target(b, to, c) = Target(b, to, d)
      PROVE  c = d
  <2>1. loc[c] \in Triples /\ loc[d] \in Triples /\ Minus(to, loc[b]) \in Triples
    BY <1>1, <1>2, <1>4, ShiftFacts
  <2>2. loc[c] = loc[d]
    BY <1>5, <2>1, ShiftInjective DEF Target
  <2> QED BY <1>4, <2>2
<1>6. ASSUME NEW c \in Movers(b), NEW d \in Movers(b) PROVE Target(b, to, c) # loc[d]
  <2> SUFFICES ASSUME Target(b, to, c) = loc[d] PROVE FALSE
    OBVIOUS
  <2>1. grid[Target(b, to, c)] = d /\ d # Empty
    BY <1>4, EmptyFacts
  <2>2. CASE InMacro(b)
    BY <1>4, <2>1, <2>2 DEF Aborted, Fails
  <2>3. CASE ~InMacro(b)
    BY <1>2, <1>4, <2>3
  <2> QED BY <2>2, <2>3
<1>7. ASSUME NEW c \in Movers(b), grid[Target(b, to, c)] # Empty
      PROVE  LET o == grid[Target(b, to, c)] IN
             o \in Blocks \ fixed /\ o \notin Movers(b) /\ ~InMacro(o) /\ loc[o] = Target(b, to, c)
  <2> DEFINE o == grid[Target(b, to, c)]
  <2>1. Target(b, to, c) \in Sites /\ o \in Blocks
    BY <1>4, <1>7, AtRest
  <2>2. ~InMacro(o)
    BY <1>7 DEF Aborted, Fails
  <2>3. TypeAt(Target(b, to, c)) # IoType \/ fixed = {}
    <3>1. CASE InMacro(b)
      BY <1>4, <3>1, CoreSiteFacts
    <3>2. CASE ~InMacro(b)
      BY <1>1, <1>2, <1>4, <3>2, AtRest
    <3> QED BY <3>1, <3>2
  <2>4. o \notin fixed
    BY <2>1, <2>3 DEF IInv, Fixity
  <2>5. loc[o] = Target(b, to, c)
    BY <1>7, <2>1, <2>4, AtRest
  <2>6. o \notin Movers(b)
    BY <1>6, <2>5
  <2> QED BY <2>1, <2>2, <2>4, <2>5, <2>6
<1>8. b \in Movers(b)
  BY <1>3 DEF Movers
<1>9. Movers(b) \subseteq Blocks \ fixed
  BY <1>4
<1> QED BY <1>4, <1>5, <1>6, <1>7, <1>8, <1>9 DEF Going

(* The two entries a mover makes, and what they hold.                      *)
Mover(b, to, c) == [blk |-> c, old |-> loc[c], new |-> Target(b, to, c),
                    to_empty |-> grid[Target(b, to, c)] = Empty]
Displaced(b, to, c) == [blk |-> grid[Target(b, to, c)], old |-> Target(b, to, c),
                        new |-> loc[c], to_empty |-> FALSE]

LEMMA MovesCases ==
    ASSUME NEW b, NEW to
    PROVE  /\ \A c \in Movers(b) :
                /\ Mover(b, to, c) \in Moves(b, to)
                /\ grid[Target(b, to, c)] # Empty => Displaced(b, to, c) \in Moves(b, to)
           /\ \A m \in Moves(b, to) : \E c \in Movers(b) :
                \/ m = Mover(b, to, c)
                \/ m = Displaced(b, to, c) /\ grid[Target(b, to, c)] # Empty
BY DEF Moves, MovesOf, Mover, Displaced

MovesOK(b, to, M) ==
    /\ \A m \in M :
        /\ m \in [blk : Blocks, old : Triples, new : Triples, to_empty : BOOLEAN]
        /\ m.blk \notin fixed /\ m.old \in Sites /\ m.new \in Sites
        /\ grid[m.old] = m.blk /\ loc[m.blk] = m.old
        /\ IF m.blk \in Movers(b) THEN m.new = Target(b, to, m.blk)
                                  ELSE ~InMacro(m.blk)
        /\ IF m.to_empty
           THEN grid[m.new] = Empty /\ \A n \in M : n.new # m.old
           ELSE /\ \E n \in M : n.old = m.new
                /\ \E n \in M : n.new = m.old
    /\ \A m, n \in M : m.blk = n.blk \/ m.new = n.new => m = n
    /\ \A c \in Movers(b) : \E m \in M : m.blk = c
    /\ M # {}

LEMMA MovesFacts ==
    ASSUME IInv, NEW b, NEW to, Going(b, to)
    PROVE  MovesOK(b, to, Moves(b, to))
<1> DEFINE M == Moves(b, to)
           at(c) == Target(b, to, c)
<1>1. ASSUME NEW c \in Movers(b)
      PROVE  LET m == Mover(b, to, c) IN
             /\ m \in M /\ m.blk = c /\ m.old = loc[c] /\ m.new = at(c)
             /\ m.to_empty = (grid[at(c)] = Empty)
             /\ m \in [blk : Blocks, old : Triples, new : Triples, to_empty : BOOLEAN]
             /\ m.blk \notin fixed /\ m.old \in Sites /\ m.new \in Sites
             /\ grid[m.old] = m.blk /\ loc[m.blk] = m.old
  <2>1. Mover(b, to, c) \in M
    BY MovesCases
  <2>2. c \in Blocks \ fixed /\ loc[c] \in Sites /\ at(c) \in Sites /\ grid[loc[c]] = c
    BY DEF Going
  <2>3. loc[c] \in Triples /\ at(c) \in Triples
    BY <2>2, SiteFacts
  <2> QED BY <2>1, <2>2, <2>3 DEF Mover
<1>2. ASSUME NEW c \in Movers(b), grid[at(c)] # Empty
      PROVE  LET m == Displaced(b, to, c) IN
             /\ m \in M /\ m.blk = grid[at(c)] /\ m.old = at(c) /\ m.new = loc[c]
             /\ m.to_empty = FALSE /\ m.blk \notin Movers(b) /\ ~InMacro(m.blk)
             /\ m \in [blk : Blocks, old : Triples, new : Triples, to_empty : BOOLEAN]
             /\ m.blk \notin fixed /\ m.old \in Sites /\ m.new \in Sites
             /\ grid[m.old] = m.blk /\ loc[m.blk] = m.old
  <2>1. Displaced(b, to, c) \in M
    BY <1>2, MovesCases
  <2>2. /\ loc[c] \in Sites /\ at(c) \in Sites
        /\ grid[at(c)] \in Blocks \ fixed /\ grid[at(c)] \notin Movers(b)
        /\ ~InMacro(grid[at(c)]) /\ loc[grid[at(c)]] = at(c)
    BY <1>2 DEF Going
  <2>3. loc[c] \in Triples /\ at(c) \in Triples
    BY <2>2, SiteFacts
  <2> QED BY <2>1, <2>2, <2>3 DEF Displaced
<1>3. \A m \in M : \E c \in Movers(b) :
                \/ m = Mover(b, to, c)
                \/ m = Displaced(b, to, c) /\ grid[at(c)] # Empty
  BY MovesCases
<1>4. \A c, d \in Movers(b) : /\ at(c) = at(d) => c = d
                              /\ loc[c] = loc[d] => c = d
                              /\ at(c) # loc[d]
  BY DEF Going
<1> HIDE DEF M, at
<1>5. ASSUME NEW m \in M
      PROVE  IF m.to_empty
             THEN grid[m.new] = Empty /\ \A n \in M : n.new # m.old
             ELSE /\ \E n \in M : n.old = m.new
                  /\ \E n \in M : n.new = m.old
  <2>1. PICK c \in Movers(b) : \/ m = Mover(b, to, c)
                               \/ m = Displaced(b, to, c) /\ grid[at(c)] # Empty
    BY <1>3
  <2>2. CASE m = Mover(b, to, c) /\ grid[at(c)] = Empty
    <3>1. m.to_empty = TRUE /\ grid[m.new] = Empty /\ m.old = loc[c]
      BY <1>1, <2>2
    <3>2. ASSUME NEW n \in M PROVE n.new # loc[c]
      <4>1. PICK d \in Movers(b) : \/ n = Mover(b, to, d)
                                   \/ n = Displaced(b, to, d) /\ grid[at(d)] # Empty
        BY <1>3
      <4>2. CASE n = Mover(b, to, d)
        BY <4>2, <1>1, <1>4
      <4>3. CASE n = Displaced(b, to, d) /\ grid[at(d)] # Empty
        <5>1. n.new = loc[d] /\ d # c
          BY <4>3, <1>2, <2>2
        <5> QED BY <5>1, <1>4
      <4> QED BY <4>1, <4>2, <4>3
    <3> QED BY <3>1, <3>2
  <2>3. CASE grid[at(c)] # Empty
    <3> DEFINE p == Mover(b, to, c)
               q == Displaced(b, to, c)
    <3>1. p \in M /\ p.old = loc[c] /\ p.new = at(c) /\ p.to_empty = FALSE
      BY <1>1, <2>3
    <3>2. q \in M /\ q.old = at(c) /\ q.new = loc[c] /\ q.to_empty = FALSE
      BY <1>2, <2>3
    <3>3. m = p \/ m = q
      BY <2>1
    <3> HIDE DEF p, q
    <3> QED BY <3>1, <3>2, <3>3
  <2> QED BY <2>1, <2>2, <2>3
<1>6. ASSUME NEW m \in M, NEW n \in M, m.blk = n.blk \/ m.new = n.new
      PROVE  m = n
  <2>1. PICK c \in Movers(b) : \/ m = Mover(b, to, c)
                               \/ m = Displaced(b, to, c) /\ grid[at(c)] # Empty
    BY <1>3
  <2>2. PICK d \in Movers(b) : \/ n = Mover(b, to, d)
                               \/ n = Displaced(b, to, d) /\ grid[at(d)] # Empty
    BY <1>3
  <2>3. CASE m = Mover(b, to, c) /\ n = Mover(b, to, d)
    BY <1>1, <1>4, <1>6, <2>3
  <2>4. CASE m = Mover(b, to, c) /\ n = Displaced(b, to, d) /\ grid[at(d)] # Empty
    <3>1. m.blk \in Movers(b) /\ m.new = at(c)
      BY <1>1, <2>4
    <3>2. n.blk \notin Movers(b) /\ n.new = loc[d]
      BY <1>2, <2>4
    <3> QED BY <3>1, <3>2, <1>4, <1>6
  <2>5. CASE m = Displaced(b, to, c) /\ grid[at(c)] # Empty /\ n = Mover(b, to, d)
    <3>1. n.blk \in Movers(b) /\ n.new = at(d)
      BY <1>1, <2>5
    <3>2. m.blk \notin Movers(b) /\ m.new = loc[c]
      BY <1>2, <2>5
    <3> QED BY <3>1, <3>2, <1>4, <1>6
  <2>6. CASE m = Displaced(b, to, c) /\ grid[at(c)] # Empty
             /\ n = Displaced(b, to, d) /\ grid[at(d)] # Empty
    <3>1. loc[m.blk] = at(c) /\ m.new = loc[c] /\ loc[n.blk] = at(d) /\ n.new = loc[d]
      BY <1>2, <2>6
    <3>2. c = d
      BY <1>4, <1>6, <3>1
    <3> QED BY <2>6, <3>2
  <2> QED BY <2>1, <2>2, <2>3, <2>4, <2>5, <2>6
<1>7. \A c \in Movers(b) : \E m \in M : m.blk = c
  BY <1>1
<1>8. ASSUME NEW m \in M
      PROVE  /\ m \in [blk : Blocks, old : Triples, new : Triples, to_empty : BOOLEAN]
             /\ m.blk \notin fixed /\ m.old \in Sites /\ m.new \in Sites
             /\ grid[m.old] = m.blk /\ loc[m.blk] = m.old
             /\ IF m.blk \in Movers(b) THEN m.new = Target(b, to, m.blk)
                                       ELSE ~InMacro(m.blk)
  <2>1. PICK c \in Movers(b) : \/ m = Mover(b, to, c)
                               \/ m = Displaced(b, to, c) /\ grid[at(c)] # Empty
    BY <1>3
  <2>2. CASE m = Mover(b, to, c)
    <3>1. m.blk = c /\ m.new = at(c)
      BY <1>1, <2>2
    <3> QED BY <1>1, <2>2, <3>1 DEF at
  <2>3. CASE m = Displaced(b, to, c) /\ grid[at(c)] # Empty
    BY <1>2, <2>3
  <2> QED BY <2>1, <2>2, <2>3
<1>9. M # {}
  BY <1>1 DEF Going
<1> QED BY <1>5, <1>6, <1>7, <1>8, <1>9 DEF MovesOK, M

(* A shape is kept when head and member shift alike.                       *)
LEMMA ShiftsCommute ==
    ASSUME NEW a \in Triples, NEW o \in Triples, NEW d \in Triples
    PROVE  Shift(Shift(a, o), d) = Shift(Shift(a, d), o)
<1>1. \A i, j, k \in Int : (i + j) + k = (i + k) + j
  OBVIOUS
<1>2. /\ a[1] \in Int /\ a[2] \in Int /\ a[3] \in Int
      /\ o[1] \in Int /\ o[2] \in Int /\ o[3] \in Int
      /\ d[1] \in Int /\ d[2] \in Int /\ d[3] \in Int
  BY TripleFacts
<1>3. /\ (a[1] + o[1]) + d[1] = (a[1] + d[1]) + o[1]
      /\ (a[2] + o[2]) + d[2] = (a[2] + d[2]) + o[2]
      /\ (a[3] + o[3]) + d[3] = (a[3] + d[3]) + o[3]
  BY <1>1, <1>2
<1> QED BY <1>3 DEF Shift

LEMMA ProposeStep ==
    ASSUME IInv, NEW b \in Blocks, NEW to \in Sites, Propose(b, to)
    PROVE  IInv'
<1> USE DEF lists, file
<1>1. pc \in Swapping /\ moved = {} /\ b \in Movable
  BY DEF Propose, Swapping
<1>2. CASE Stop("assert")
  BY <1>1, <1>2, StopStep
<1>3. CASE ~Stop("assert")
  <2>1. /\ to \in FindTo(b) /\ ~Aborted(b, to)
        /\ moved' = Moves(b, to) /\ loc' = NewLoc(moved')
        /\ UNCHANGED <<pc, grid, usage, lists, imacro, file, fixed, sub>>
    BY <1>3 DEF Propose
  <2>2. MovesOK(b, to, moved')
    BY <1>1, <2>1, SwapGoes, MovesFacts
  <2>3. /\ OldLoc = loc /\ imacro > Len(Macros)
        /\ \A x \in Blocks : Placed(x) /\ loc[x] \in Triples
    BY <1>1, AtRest
  <2>4. ASSUME NEW m \in moved' PROVE loc'[m.blk] = m.new /\ OldLoc'[m.blk] = loc[m.blk]
    <3>1. m.blk \in Blocks /\ m.old = loc[m.blk] /\ (CHOOSE n \in moved' : n.blk = m.blk) = m
      BY <2>2 DEF MovesOK
    <3>2. loc'[m.blk] = m.new
      BY <2>1, <3>1 DEF NewLoc
    <3>3. OldLoc'[m.blk] = m.old
      BY <3>1 DEF OldLoc
    <3> QED BY <3>1, <3>2, <3>3
  <2>5. ASSUME NEW x \in Blocks, \A m \in moved' : m.blk # x
        PROVE  loc'[x] = loc[x] /\ OldLoc'[x] = loc[x]
    <3>1. loc'[x] = loc[x]
      BY <2>1, <2>5 DEF NewLoc
    <3> QED BY <2>5, <3>1 DEF OldLoc
  <2>6. OldLoc' = loc
    <3>1. \A x \in Blocks : OldLoc'[x] = loc[x]
      BY <2>4, <2>5
    <3>2. OldLoc' = [x \in Blocks |-> OldLoc'[x]] /\ loc = [x \in Blocks |-> loc[x]]
      BY DEF IInv, TypeOK, OldLoc
    <3> QED BY <3>1, <3>2
  <2>7. loc' \in [Blocks -> Triples] /\ \A x \in Blocks : Placed(x)'
    <3>1. ASSUME NEW x \in Blocks PROVE loc'[x] \in Triples /\ loc'[x][1] # -1
      <4>1. CASE \A m \in moved' : m.blk # x
        BY <4>1, <2>3, <2>5 DEF Placed
      <4>2. CASE \E m \in moved' : m.blk = x
        <5>1. PICK m \in moved' : m.blk = x
          BY <4>2
        <5>2. m.new \in Sites
          BY <2>2 DEF MovesOK
        <5> QED BY <2>4, <5>1, <5>2, SiteFacts
      <4> QED BY <4>1, <4>2
    <3>2. loc' = [x \in Blocks |-> loc'[x]]
      BY <2>1 DEF NewLoc
    <3> QED BY <3>1, <3>2 DEF Placed
  <2>8. TypeOK'
    <3>1. moved' \subseteq [blk : Blocks, old : Triples, new : Triples, to_empty : BOOLEAN]
      BY <2>2 DEF MovesOK
    <3> QED BY <2>1, <2>7, <3>1 DEF IInv, TypeOK, Triples
  <2>9. \A x \in Blocks : Held(x)' = Held(x)
    BY <2>3, <2>6 DEF Held
  <2>10. BlocksStand'
    <3>1. /\ \A x \in Blocks \ fixed : Held(x) \in Sites /\ grid[Held(x)] = x
          /\ \A x \in fixed : x \in Blocks /\ \E s \in Sites : grid[s] = x /\ CellOf(s) = CellOf(Held(x))
      BY <2>3 DEF IInv, TypeOK, BlocksStand
    <3>2. fixed' = fixed /\ grid' = grid
      BY <2>1
    <3>3. \A x \in Blocks \ fixed' : Held(x)' \in Sites /\ grid'[Held(x)'] = x
      BY <2>9, <3>1, <3>2
    <3>4. \A x \in fixed' : Placed(x)' /\ \E s \in Sites : grid'[s] = x /\ CellOf(s) = CellOf(Held(x)')
      BY <2>7, <2>9, <3>1, <3>2
    <3> QED BY <3>3, <3>4 DEF BlocksStand
  <2>11. GridHolds'
    <3>1. /\ \A s \in Sites : grid[s] # Empty =>
                grid[s] \in Blocks /\ (grid[s] \notin fixed => Held(grid[s]) = s)
          /\ \A s, r \in Sites : grid[s] # Empty /\ grid[s] = grid[r] => s = r
      BY DEF IInv, TypeOK, GridHolds
    <3>2. fixed' = fixed /\ grid' = grid
      BY <2>1
    <3>3. ASSUME NEW s \in Sites, grid'[s] # Empty
          PROVE  Placed(grid[s])' /\ (grid'[s] \notin fixed' => Held(grid[s])' = s)
      <4>1. grid[s] \in Blocks /\ (grid[s] \notin fixed => Held(grid[s]) = s)
        BY <3>1, <3>2, <3>3
      <4>2. loc'[grid[s]][1] # -1 /\ OldLoc'[grid[s]] = OldLoc[grid[s]]
        BY <2>3, <2>6, <2>7, <4>1 DEF Placed
      <4> QED BY <3>2, <4>1, <4>2 DEF Placed, Held
    <3> QED BY <3>1, <3>2, <3>3 DEF GridHolds
  <2>12. UsageExact'
    BY <2>1 DEF IInv, UsageExact, UsedIn
  <2>13. ShapesAt(loc)'
    <3> SUFFICES ASSUME NEW m \in DOMAIN Macros, NEW k \in Members(m)
                 PROVE  /\ loc'[Blk(m, k)] \in CoreSites
                        /\ loc'[Blk(m, k)] = MemberSite(m, k, loc'[Blk(m, 1)])
      BY DEF ShapesAt, Blk
    <3>1. /\ loc[Blk(m, k)] \in CoreSites /\ loc[Blk(m, 1)] \in CoreSites
          /\ loc[Blk(m, k)] = Shift(loc[Blk(m, 1)], Macros[m][k].offset)
          /\ Macros[m][k].offset \in Triples /\ 1 \in Members(m)
          /\ Blk(m, k) \in BlocksOf(m) /\ Blk(m, 1) \in BlocksOf(m) /\ BlocksOf(m) \subseteq Blocks
      BY <1>1, MembersOf, MacroAtRest
    <3>2. CASE BlocksOf(m) \cap Movers(b) = {}
      <4>1. ASSUME NEW c \in BlocksOf(m) PROVE \A n \in moved' : n.blk # c
        <5> SUFFICES ASSUME NEW n \in moved', n.blk = c PROVE FALSE
          OBVIOUS
        <5>1. InMacro(c)
          BY DEF InMacro
        <5> QED BY <2>2, <3>2, <5>1 DEF MovesOK
      <4>2. loc'[Blk(m, k)] = loc[Blk(m, k)] /\ loc'[Blk(m, 1)] = loc[Blk(m, 1)]
        BY <2>5, <3>1, <4>1
      <4> QED BY <3>1, <4>2 DEF MemberSite
    <3>3. CASE BlocksOf(m) \cap Movers(b) # {}
      <4>1. InMacro(b) /\ BlocksOf(m) = Movers(b) /\ b \in BlocksOf(m)
        <5>1. PICK c \in BlocksOf(m) : c \in Movers(b)
          BY <3>3
        <5>2. InMacro(c)
          BY DEF InMacro
        <5>3. InMacro(b)
          BY <5>1, <5>2 DEF Movers
        <5>4. MacroOf(b) \in DOMAIN Macros /\ b \in BlocksOf(MacroOf(b)) /\ Movers(b) = BlocksOf(MacroOf(b))
          BY <5>3 DEF InMacro, MacroOf, Movers
        <5>5. MacroOf(b) = m
          BY <5>1, <5>4, MembersOf
        <5> QED BY <5>3, <5>4, <5>5
      <4>2. ASSUME NEW c \in BlocksOf(m)
            PROVE  loc'[c] = Target(b, to, c) /\ loc'[c] \in CoreSites
        <5>1. PICK n \in moved' : n.blk = c
          BY <2>2, <4>1 DEF MovesOK
        <5>2. loc'[c] = Target(b, to, c)
          BY <2>2, <2>4, <4>1, <5>1 DEF MovesOK
        <5>3. loc[b] \in CoreSites /\ loc[c] \in CoreSites /\ BlockType[b] # IoType
          BY <1>1, <4>1, MacroAtRest
        <5>4. to \in CoreSites
          BY <2>1, <5>3, SiteFacts DEF FindTo, LegalSites
        <5>5. OnChip(Target(b, to, c))
          BY <2>1, <4>1 DEF Aborted, Fails
        <5>6. Target(b, to, c) \in CoreSites
          BY <5>3, <5>4, <5>5, TargetInCore DEF Target
        <5> QED BY <5>2, <5>6
      <4>3. Minus(to, loc[b]) \in Triples /\ loc[Blk(m, 1)] \in Triples
        BY <2>3, <3>1, SiteFacts, ShiftFacts, CoreSiteFacts
      <4>4. loc'[Blk(m, k)] = Shift(Shift(loc[Blk(m, 1)], Macros[m][k].offset), Minus(to, loc[b]))
        BY <3>1, <4>2 DEF Target
      <4>5. loc'[Blk(m, k)] = Shift(Shift(loc[Blk(m, 1)], Minus(to, loc[b])), Macros[m][k].offset)
        BY <3>1, <4>3, <4>4, ShiftsCommute
      <4> QED BY <3>1, <4>2, <4>5 DEF MemberSite, Target
    <3> QED BY <3>2, <3>3
  <2>14. ShapesAt(OldLoc)'
    BY <2>1, <2>3, <2>6 DEF IInv, Shapes, ShapesAt
  <2>15. SwapOK'
    <3>1. ASSUME NEW m \in moved'
          PROVE  /\ m.blk \notin fixed /\ m.old \in Sites /\ m.new \in Sites
                 /\ grid[m.old] = m.blk /\ loc'[m.blk] = m.new
                 /\ IF m.to_empty
                    THEN grid[m.new] = Empty /\ \A n \in moved' : n.new # m.old
                    ELSE /\ \E n \in moved' : n.old = m.new
                         /\ \E n \in moved' : n.new = m.old
      BY <2>2, <2>4 DEF MovesOK
    <3>2. \A m, n \in moved' : m.blk = n.blk \/ m.new = n.new => m = n
      BY <2>2 DEF MovesOK
    <3> QED BY <2>1, <3>1, <3>2 DEF SwapOK
  <2>16. Fixity'
    BY <2>1, <2>3 DEF IInv, Fixity, Initial
  <2>17. Phases' /\ Lists'
    BY <1>1, <2>1, <2>3, <2>7 DEF Phases, Lists, Initial, Swapping, Over
  <2> QED BY <2>8, <2>10, <2>11, <2>12, <2>13, <2>14, <2>15, <2>16, <2>17 DEF IInv, Shapes
<1> QED BY <1>2, <1>3

-----------------------------------------------------------------------------
(* The end of a swap.                                                      *)
LEMMA SameSize ==
    ASSUME NEW S, IsFiniteSet(S), NEW T, NEW f \in [S -> T],
           \A x, y \in S : f[x] = f[y] => x = y,
           \A t \in T : \E x \in S : f[x] = t
    PROVE  IsFiniteSet(T) /\ Cardinality(T) = Cardinality(S)
<1>1. f \in Surjection(S, T)
  BY DEF Surjection
<1>2. f \in Injection(S, T)
  BY DEF Injection, IsInjective
<1> QED BY <1>1, <1>2, FS_Surjection

(* During a swap: where the moved blocks were, and that the others stay.   *)
LEMMA InSwap ==
    ASSUME IInv, moved # {}
    PROVE  /\ pc \in Swapping /\ imacro > Len(Macros)
           /\ \A b \in Blocks : Placed(b)
           /\ \A m \in moved : OldLoc[m.blk] = m.old /\ m.blk \in Blocks \ fixed
           /\ \A b \in Blocks : (\A m \in moved : m.blk # b) => OldLoc[b] = loc[b]
           /\ OldLoc \in [Blocks -> Triples]
<1>1. pc \in Swapping /\ imacro > Len(Macros) /\ \A b \in Blocks : Placed(b)
  BY DEF IInv, Phases
<1>2. ASSUME NEW m \in moved PROVE OldLoc[m.blk] = m.old /\ m.blk \in Blocks \ fixed
  <2>1. m.blk \in Blocks \ fixed /\ (CHOOSE n \in moved : n.blk = m.blk) = m
    BY DEF IInv, TypeOK, SwapOK
  <2> QED BY <2>1 DEF OldLoc
<1>3. \A b \in Blocks : (\A m \in moved : m.blk # b) => OldLoc[b] = loc[b]
  BY DEF OldLoc
<1>4. OldLoc \in [Blocks -> Triples]
  <2>1. ASSUME NEW b \in Blocks PROVE OldLoc[b] \in Triples
    <3>1. CASE \A m \in moved : m.blk # b
      BY <3>1, <1>3 DEF IInv, TypeOK, Triples
    <3>2. CASE \E m \in moved : m.blk = b
      BY <3>2, <1>2 DEF IInv, TypeOK, Triples
    <3> QED BY <3>1, <3>2
  <2> QED BY <2>1 DEF OldLoc
<1> QED BY <1>1, <1>2, <1>3, <1>4

(* What Accept leaves in the grid.                                         *)
LEMMA AcceptGrid ==
    ASSUME IInv, Accept
    PROVE  /\ \A m \in moved : grid'[m.new] = m.blk
           /\ \A s \in Sites : (\A m \in moved : m.new # s) =>
                IF \E m \in moved : m.old = s
                THEN grid'[s] = Empty /\ \E m \in moved : m.old = s /\ m.to_empty
                ELSE grid'[s] = grid[s]
           /\ \A s \in Sites : grid[s] # Empty /\ (\A m \in moved : m.blk # grid[s]) =>
                grid'[s] = grid[s] /\ \A m \in moved : m.new # s /\ m.old # s
           /\ grid' \in [Sites -> Blocks \cup {Empty}]
<1>1. grid' = [s \in Sites |->
                 IF \E m \in moved : m.new = s
                 THEN (CHOOSE m \in moved : m.new = s).blk
                 ELSE IF \E m \in moved : m.to_empty /\ m.old = s
                 THEN Empty ELSE grid[s]]
  BY DEF Accept
<1>2. ASSUME NEW m \in moved PROVE grid'[m.new] = m.blk
  <2>1. m.new \in Sites /\ (CHOOSE n \in moved : n.new = m.new) = m
    BY DEF IInv, SwapOK
  <2> QED BY <1>1, <2>1
<1>3. ASSUME NEW s \in Sites, \A m \in moved : m.new # s
      PROVE  IF \E m \in moved : m.old = s
             THEN grid'[s] = Empty /\ \E m \in moved : m.old = s /\ m.to_empty
             ELSE grid'[s] = grid[s]
  <2>1. CASE \E m \in moved : m.old = s
    <3>1. PICK m \in moved : m.old = s
      BY <2>1
    <3>2. m.to_empty
      BY <1>3, <3>1 DEF IInv, TypeOK, SwapOK
    <3> QED BY <1>1, <1>3, <3>1, <3>2
  <2>2. CASE \A m \in moved : m.old # s
    BY <1>1, <1>3, <2>2
  <2> QED BY <2>1, <2>2
<1>4. ASSUME NEW s \in Sites, grid[s] # Empty, \A m \in moved : m.blk # grid[s]
      PROVE  grid'[s] = grid[s] /\ \A m \in moved : m.new # s /\ m.old # s
  <2>1. ASSUME NEW m \in moved PROVE m.old # s
    BY <1>4 DEF IInv, SwapOK
  <2>2. ASSUME NEW m \in moved, m.new = s PROVE FALSE
    <3>1. CASE m.to_empty
      BY <1>4, <2>2, <3>1 DEF IInv, SwapOK
    <3>2. CASE ~m.to_empty
      <4>1. PICK n \in moved : n.old = m.new
        BY <3>2 DEF IInv, SwapOK
      <4> QED BY <2>1, <2>2, <4>1
    <3> QED BY <3>1, <3>2
  <2> QED BY <1>1, <2>1, <2>2
<1>5. grid' \in [Sites -> Blocks \cup {Empty}]
  <2>1. ASSUME NEW s \in Sites PROVE grid'[s] \in Blocks \cup {Empty}
    <3>1. CASE \E m \in moved : m.new = s
      BY <3>1, <1>2, InSwap
    <3>2. CASE \A m \in moved : m.new # s
      BY <3>2, <1>3 DEF IInv, TypeOK
    <3> QED BY <3>1, <3>2
  <2> QED BY <1>1, <2>1
<1> QED BY <1>2, <1>3, <1>4, <1>5

(* usage after Accept: as many come to empty places of a cell as usage     *)
(* says, and as many places of it are left empty.                          *)
LEMMA AcceptUsage ==
    ASSUME IInv, Accept, NEW c \in Cells
    PROVE  usage'[c] = Cardinality(UsedIn(c)') /\ usage'[c] \in Int
<1> DEFINE In    == {m \in moved : m.to_empty /\ CellOf(m.new) = c}
           Out   == {m \in moved : m.to_empty /\ CellOf(m.old) = c}
           Taken == {m.new : m \in In}
           Left  == {m.old : m \in Out}
<1>0. moved # {}
  BY DEF Accept
<1>1. usage'[c] = usage[c] + Cardinality(In) - Cardinality(Out)
  BY DEF Accept
<1>2. /\ \A m \in moved : m.new \in Sites /\ m.old \in Sites /\ grid[m.old] = m.blk
      /\ \A m, n \in moved : m.new = n.new => m = n
      /\ \A m, n \in moved : m.old = n.old => m = n
  BY DEF IInv, SwapOK
<1>3. IsFiniteSet(moved)
  <2> DEFINE f == [m \in moved |-> m.new]
  <2>1. f \in Injection(moved, Sites)
    BY <1>2 DEF Injection, IsInjective
  <2> QED BY <2>1, SitesFinite, FS_Injection
<1>4. IsFiniteSet(In) /\ IsFiniteSet(Out)
  BY <1>3, FS_Subset
<1>5. IsFiniteSet(Taken) /\ Cardinality(Taken) = Cardinality(In)
  <2> DEFINE f == [m \in In |-> m.new]
  <2>1. f \in [In -> Taken] /\ (\A x, y \in In : f[x] = f[y] => x = y) /\ \A t \in Taken : \E x \in In : f[x] = t
    BY <1>2
  <2> HIDE DEF f, In, Taken
  <2> QED BY <1>4, <2>1, SameSize
<1>6. IsFiniteSet(Left) /\ Cardinality(Left) = Cardinality(Out)
  <2> DEFINE f == [m \in Out |-> m.old]
  <2>1. f \in [Out -> Left] /\ (\A x, y \in Out : f[x] = f[y] => x = y) /\ \A t \in Left : \E x \in Out : f[x] = t
    BY <1>2
  <2> HIDE DEF f, Out, Left
  <2> QED BY <1>4, <2>1, SameSize
<1>7. ASSUME NEW s \in Sites, CellOf(s) = c
      PROVE  /\ s \in UsedIn(c)' <=> (s \in UsedIn(c) /\ s \notin Left) \/ s \in Taken
             /\ s \in Left => s \in UsedIn(c)
             /\ s \in Taken => s \notin UsedIn(c)
  <2>1. (s \in UsedIn(c) <=> grid[s] # Empty) /\ (s \in UsedIn(c)' <=> grid'[s] # Empty)
    BY <1>7 DEF UsedIn
  <2>2. /\ s \in Taken <=> \E m \in moved : m.to_empty /\ m.new = s
        /\ s \in Left <=> \E m \in moved : m.to_empty /\ m.old = s
    BY <1>7
  <2> HIDE DEF Taken, Left
  <2>3. s \in Left => grid[s] # Empty
    BY <1>0, <1>2, <2>2, InSwap, EmptyFacts
  <2>4. s \in Taken => grid[s] = Empty
    BY <2>2 DEF IInv, SwapOK
  <2>5. CASE \E m \in moved : m.new = s
    <3>1. PICK m \in moved : m.new = s
      BY <2>5
    <3>2. grid'[s] # Empty
      BY <1>0, <3>1, AcceptGrid, InSwap, EmptyFacts
    <3>3. CASE m.to_empty
      BY <2>1, <2>2, <2>3, <2>4, <3>1, <3>2, <3>3
    <3>4. CASE ~m.to_empty
      <4>1. PICK n \in moved : n.old = s
        BY <3>1, <3>4 DEF IInv, SwapOK
      <4>2. grid[s] # Empty
        BY <1>0, <1>2, <4>1, InSwap, EmptyFacts
      <4>3. s \notin Left
        BY <2>2, <3>1 DEF IInv, SwapOK
      <4> QED BY <2>1, <2>4, <3>2, <4>2, <4>3
    <3> QED BY <3>3, <3>4
  <2>6. CASE \A m \in moved : m.new # s
    <3>1. s \notin Taken
      BY <2>2, <2>6
    <3>2. CASE \E m \in moved : m.old = s
      <4>1. grid'[s] = Empty /\ s \in Left
        BY <2>2, <2>6, <3>2, AcceptGrid
      <4> QED BY <2>1, <2>3, <3>1, <4>1
    <3>3. CASE \A m \in moved : m.old # s
      <4>1. grid'[s] = grid[s] /\ s \notin Left
        BY <2>2, <2>6, <3>3, AcceptGrid
      <4> QED BY <2>1, <3>1, <4>1
    <3> QED BY <3>2, <3>3
  <2> QED BY <2>1, <2>3, <2>4, <2>5, <2>6
<1>8. \A s : s \in UsedIn(c) \/ s \in UsedIn(c)' \/ s \in Taken \/ s \in Left => s \in Sites /\ CellOf(s) = c
  BY <1>2 DEF UsedIn
<1> HIDE DEF Taken, Left, In, Out
<1>9. /\ UsedIn(c)' = (UsedIn(c) \ Left) \cup Taken
      /\ UsedIn(c) \cap Left = Left /\ (UsedIn(c) \ Left) \cap Taken = {}
  BY <1>7, <1>8
<1>10. /\ IsFiniteSet(UsedIn(c) \ Left)
       /\ Cardinality(UsedIn(c) \ Left) = Cardinality(UsedIn(c)) - Cardinality(Left)
  BY <1>9, UsedInFinite, FS_Difference
<1>11. Cardinality(UsedIn(c)') = Cardinality(UsedIn(c) \ Left) + Cardinality(Taken) - Cardinality({})
  BY <1>5, <1>9, <1>10, FS_Union
<1>12. usage[c] = Cardinality(UsedIn(c)) /\ Cardinality({}) = 0
       /\ Cardinality(UsedIn(c)) \in Nat /\ Cardinality(In) \in Nat /\ Cardinality(Out) \in Nat
  BY <1>4, UsedInFinite, FS_EmptySet, FS_CardinalityType DEF IInv, UsageExact
<1> QED BY <1>1, <1>5, <1>6, <1>10, <1>11, <1>12

LEMMA AcceptStep ==
    ASSUME IInv, Accept
    PROVE  IInv'
<1> USE DEF lists, file
<1>1. /\ moved # {} /\ moved' = {}
      /\ UNCHANGED <<pc, loc, lists, imacro, file, fixed, sub>>
  BY DEF Accept
<1>2. /\ pc \in Swapping /\ imacro > Len(Macros) /\ \A b \in Blocks : Placed(b) /\ Placed(b)'
  BY <1>1, InSwap DEF Placed
<1>3. TypeOK'
  <2>1. usage' \in [Cells -> Int]
    <3>1. \A c \in Cells : usage'[c] \in Int
      BY AcceptUsage
    <3>2. usage' = [c \in Cells |-> usage'[c]]
      BY DEF Accept
    <3> QED BY <3>1, <3>2
  <2>2. grid' \in [Sites -> Blocks \cup {Empty}]
    BY AcceptGrid
  <2> QED BY <1>1, <2>1, <2>2 DEF IInv, TypeOK
<1>4. OldLoc' = loc' /\ SwapOK' /\ loc' = loc
  BY <1>1, <1>3, StillLocNext
<1>5. \A m \in moved : m.blk \in Blocks \ fixed /\ m.new \in Sites /\ loc[m.blk] = m.new /\ grid'[m.new] = m.blk
  BY <1>1, InSwap, AcceptGrid DEF IInv, SwapOK
<1>6. ASSUME NEW b \in Blocks, \A m \in moved : m.blk # b
      PROVE  Held(b) = loc[b] /\ \A s \in Sites : grid[s] = b => grid'[s] = b
  <2>1. Held(b) = loc[b]
    BY <1>1, <1>6, InSwap DEF Held
  <2>2. ASSUME NEW s \in Sites, grid[s] = b PROVE grid'[s] = b
    BY <1>6, <2>2, AcceptGrid, EmptyFacts
  <2> QED BY <2>1, <2>2
<1>7. BlocksStand'
  <2>1. ASSUME NEW b \in Blocks \ fixed PROVE loc[b] \in Sites /\ grid'[loc[b]] = b
    <3>1. CASE \E m \in moved : m.blk = b
      BY <1>5, <3>1
    <3>2. CASE \A m \in moved : m.blk # b
      <4>1. Held(b) \in Sites /\ grid[Held(b)] = b
        BY <1>2 DEF IInv, BlocksStand
      <4> QED BY <1>6, <3>2, <4>1
    <3> QED BY <3>1, <3>2
  <2>2. ASSUME NEW b \in fixed PROVE \E s \in Sites : grid'[s] = b /\ CellOf(s) = CellOf(loc[b])
    <3>1. b \in Blocks /\ \A m \in moved : m.blk # b
      BY <1>5 DEF IInv, TypeOK
    <3>2. PICK s \in Sites : grid[s] = b /\ CellOf(s) = CellOf(Held(b))
      BY DEF IInv, BlocksStand
    <3> QED BY <1>6, <3>1, <3>2
  <2>3. \A b \in fixed : b \in Blocks
    BY DEF IInv, TypeOK
  <2> QED BY <1>1, <1>2, <1>4, <2>1, <2>2, <2>3 DEF BlocksStand, Held
<1>8. ASSUME NEW s \in Sites, grid'[s] # Empty
      PROVE  \/ \E m \in moved : m.new = s /\ grid'[s] = m.blk
             \/ /\ grid[s] # Empty /\ grid'[s] = grid[s] /\ grid[s] \in Blocks
                /\ \A m \in moved : m.blk # grid[s]
  <2>1. CASE \E m \in moved : m.new = s
    BY <1>5, <2>1
  <2>2. CASE \A m \in moved : m.new # s
    <3>1. \A m \in moved : m.old # s
      BY <1>8, <2>2, AcceptGrid
    <3>2. grid'[s] = grid[s] /\ grid[s] # Empty
      BY <1>8, <2>2, <3>1, AcceptGrid
    <3>3. \A m \in moved : m.blk # grid[s]
      <4>1. ASSUME NEW m \in moved, m.blk = grid[s] PROVE FALSE
        <5>1. m.old \in Sites /\ grid[m.old] = grid[s] /\ m.old # s
          BY <3>1, <4>1 DEF IInv, SwapOK
        <5> QED BY <3>2, <5>1 DEF IInv, GridHolds
      <4> QED BY <4>1
    <3> QED BY <3>2, <3>3 DEF IInv, TypeOK
  <2> QED BY <2>1, <2>2
<1>9. GridHolds'
  <2>1. ASSUME NEW s \in Sites, grid'[s] # Empty
        PROVE  grid'[s] \in Blocks /\ (grid'[s] \notin fixed => loc[grid'[s]] = s)
    <3>1. CASE \E m \in moved : m.new = s /\ grid'[s] = m.blk
      BY <1>5, <3>1
    <3>2. CASE /\ grid[s] # Empty /\ grid'[s] = grid[s] /\ grid[s] \in Blocks
               /\ \A m \in moved : m.blk # grid[s]
      <4>1. grid[s] \notin fixed => Held(grid[s]) = s
        BY <3>2 DEF IInv, GridHolds
      <4> QED BY <1>6, <3>2, <4>1
    <3> QED BY <1>8, <2>1, <3>1, <3>2
  <2>2. ASSUME NEW s \in Sites, NEW r \in Sites, grid'[s] # Empty, grid'[s] = grid'[r]
        PROVE  s = r
    <3>1. CASE \E m \in moved : m.new = s /\ grid'[s] = m.blk
      <4>1. PICK m \in moved : m.new = s /\ grid'[s] = m.blk
        BY <3>1
      <4>2. PICK n \in moved : n.new = r /\ grid'[r] = n.blk
        BY <1>8, <2>2, <4>1
      <4>3. m.blk = n.blk
        BY <2>2, <4>1, <4>2
      <4>4. m = n
        BY <4>3 DEF IInv, SwapOK
      <4> QED BY <4>1, <4>2, <4>4
    <3>2. CASE /\ grid[s] # Empty /\ grid'[s] = grid[s]
               /\ \A m \in moved : m.blk # grid[s]
      <4>1. grid'[r] = grid[r]
        BY <1>8, <2>2, <3>2
      <4> QED BY <2>2, <3>2, <4>1 DEF IInv, GridHolds
    <3> QED BY <1>8, <2>2, <3>1, <3>2
  <2>3. ASSUME NEW s \in Sites, grid'[s] # Empty
        PROVE  Placed(grid[s])' /\ (grid'[s] \notin fixed' => Held(grid[s])' = s)
    <3>1. grid'[s] \in Blocks /\ (grid'[s] \notin fixed => loc[grid'[s]] = s)
      BY <2>1, <2>3
    <3>2. loc'[grid'[s]][1] # -1
      BY <1>2, <1>4, <3>1 DEF Placed
    <3> QED BY <1>1, <1>4, <3>1, <3>2 DEF Placed, Held
  <2> QED BY <2>2, <2>3 DEF GridHolds
<1>10. Shapes'
  BY <1>1, <1>4 DEF IInv, Shapes, ShapesAt
<1>11. UsageExact'
  BY AcceptUsage DEF UsageExact
<1>12. Fixity'
  <2>1. ASSUME NEW s \in Sites, grid'[s] \in fixed PROVE TypeAt(s) = IoType
    <3>1. grid'[s] \in Blocks /\ grid'[s] # Empty
      BY <2>1, EmptyFacts DEF IInv, TypeOK
    <3>2. grid[s] = grid'[s]
      BY <1>5, <1>8, <2>1, <3>1
    <3> QED BY <2>1, <3>2 DEF IInv, Fixity
  <2> QED BY <1>1, <1>2, <2>1 DEF IInv, Fixity, Initial
<1>13. Phases' /\ Lists'
  BY <1>1, <1>2 DEF Phases, Lists, Initial, Swapping, Over
<1> QED BY <1>3, <1>4, <1>7, <1>9, <1>10, <1>11, <1>12, <1>13 DEF IInv

LEMMA RejectStep ==
    ASSUME IInv, Reject
    PROVE  IInv'
<1> USE DEF lists, file
<1>1. /\ moved # {} /\ moved' = {} /\ loc' = OldLoc
      /\ UNCHANGED <<pc, grid, usage, lists, imacro, file, fixed, sub>>
  BY DEF Reject
<1>2. pc \in Swapping /\ imacro > Len(Macros) /\ \A b \in Blocks : Placed(b)
  BY <1>1, InSwap
<1>3. TypeOK'
  <2>1. loc' \in [Blocks -> Triples]
    BY <1>1, InSwap
  <2> QED BY <1>1, <2>1 DEF IInv, TypeOK, Triples
<1>4. OldLoc' = OldLoc /\ SwapOK'
  BY <1>1, <1>3, StillLocNext
<1>5. ASSUME NEW b \in Blocks PROVE loc'[b][1] # -1 /\ Held(b)' = Held(b)
  <2>1. OldLoc[b][1] # -1
    <3>1. CASE \E m \in moved : m.blk = b
      <4>1. PICK m \in moved : m.blk = b
        BY <3>1
      <4>2. OldLoc[b] = m.old /\ m.old \in Sites
        BY <1>1, <4>1, InSwap DEF IInv, SwapOK
      <4> QED BY <4>2, SiteFacts
    <3>2. CASE \A m \in moved : m.blk # b
      BY <1>1, <1>2, <3>2, InSwap DEF Placed
    <3> QED BY <3>1, <3>2
  <2> QED BY <1>1, <1>4, <2>1 DEF Held
<1>6. BlocksStand'
  <2>1. /\ \A b \in Blocks \ fixed : Held(b) \in Sites /\ grid[Held(b)] = b
        /\ \A b \in fixed : b \in Blocks /\ \E s \in Sites : grid[s] = b /\ CellOf(s) = CellOf(Held(b))
    BY <1>2 DEF IInv, TypeOK, BlocksStand
  <2>2. fixed' = fixed /\ grid' = grid
    BY <1>1
  <2>3. \A b \in Blocks \ fixed' : Held(b)' \in Sites /\ grid'[Held(b)'] = b
    BY <1>5, <2>1, <2>2
  <2>4. \A b \in fixed' : Placed(b)' /\ \E s \in Sites : grid'[s] = b /\ CellOf(s) = CellOf(Held(b)')
    BY <1>5, <2>1, <2>2 DEF Placed
  <2> QED BY <2>3, <2>4 DEF BlocksStand
<1>7. GridHolds'
  <2>1. \A s \in Sites : grid[s] # Empty =>
                grid[s] \in Blocks /\ (grid[s] \notin fixed => Held(grid[s]) = s)
    BY DEF IInv, TypeOK, GridHolds
  <2>2. fixed' = fixed /\ grid' = grid
    BY <1>1
  <2>3. ASSUME NEW s \in Sites, grid'[s] # Empty
        PROVE  Placed(grid[s])' /\ (grid'[s] \notin fixed' => Held(grid[s])' = s)
    <3>1. grid[s] \in Blocks /\ (grid[s] \notin fixed => OldLoc[grid[s]] = s)
      BY <2>1, <2>2, <2>3 DEF Held
    <3>2. loc'[grid[s]][1] # -1
      BY <1>5, <3>1
    <3> QED BY <1>1, <1>4, <2>2, <3>1, <3>2 DEF Placed, Held
  <2>4. \A s, r \in Sites : grid'[s] # Empty /\ grid'[s] = grid'[r] => s = r
    BY <2>2 DEF IInv, GridHolds
  <2> QED BY <2>3, <2>4 DEF GridHolds
<1>8. Shapes'
  BY <1>1, <1>4 DEF IInv, Shapes, ShapesAt
<1>9. UsageExact'
  BY <1>1 DEF IInv, UsageExact, UsedIn
<1>10. Fixity'
  BY <1>1, <1>2 DEF IInv, Fixity, Initial
<1>11. Phases' /\ Lists'
  BY <1>1, <1>2, <1>5 DEF Phases, Lists, Initial, Swapping, Over, Placed
<1> QED BY <1>3, <1>4, <1>6, <1>7, <1>8, <1>9, <1>10, <1>11 DEF IInv

(* Steps of pc alone, and of sub.                                          *)
LEMMA BeginFreezeStep ==
    ASSUME IInv, BeginFreeze
    PROVE  IInv'
<1> USE DEF BeginFreeze, lists, file
<1>1. TypeOK'
  BY DEF IInv, TypeOK
<1>2. BlocksStand' /\ GridHolds' /\ Shapes' /\ SwapOK' /\ UsageExact'
  BY FrameStep
<1>3. Fixity' /\ Phases' /\ Lists'
  BY DEF IInv, Fixity, Phases, Lists, Placed, Initial, Swapping, Over
<1> QED BY <1>1, <1>2, <1>3 DEF IInv

LEMMA FinishStep ==
    ASSUME IInv, NEW costs_agree \in BOOLEAN, Finish(costs_agree)
    PROVE  IInv'
<1> USE DEF lists, file
<1>1. moved = {} /\ pc = "freeze"
  BY DEF Finish
<1>2. CASE Stop("check_failed")
  BY <1>1, <1>2, StopStep
<1>3. CASE ~Stop("check_failed")
  <2>1. pc' = "placed" /\ UNCHANGED <<loc, grid, usage, lists, imacro, file, fixed, moved, sub>>
    BY <1>3 DEF Finish
  <2>2. TypeOK'
    BY <2>1 DEF IInv, TypeOK
  <2>3. BlocksStand' /\ GridHolds' /\ Shapes' /\ SwapOK' /\ UsageExact'
    BY <2>1, FrameStep
  <2>4. Fixity' /\ Phases' /\ Lists'
    BY <1>1, <2>1 DEF IInv, Fixity, Phases, Lists, Placed, Initial, Swapping, Over
  <2> QED BY <2>2, <2>3, <2>4 DEF IInv
<1> QED BY <1>2, <1>3

LEMMA PostPlaceSyncStep ==
    ASSUME IInv, PostPlaceSync
    PROVE  IInv'
<1> USE DEF PostPlaceSync, lists, file
<1>1. TypeOK'
  <2>1. \A b \in Blocks : loc[b][3] \in Int
    BY TripleFacts DEF IInv, TypeOK, Triples
  <2>2. sub' \in [Blocks -> Int]
    BY <2>1
  <2> QED BY <2>2 DEF IInv, TypeOK
<1>2. BlocksStand' /\ GridHolds' /\ Shapes' /\ SwapOK' /\ UsageExact'
  BY FrameStep
<1>3. Fixity' /\ Phases' /\ Lists'
  BY DEF IInv, Fixity, Phases, Lists, Placed, Initial, Swapping, Over
<1> QED BY <1>1, <1>2, <1>3 DEF IInv

LEMMA StutterStep ==
    ASSUME IInv, UNCHANGED vars
    PROVE  IInv'
<1> USE DEF vars, lists, file
<1>1. TypeOK'
  BY DEF IInv, TypeOK
<1>2. BlocksStand' /\ GridHolds' /\ Shapes' /\ SwapOK' /\ UsageExact'
  BY FrameStep
<1>3. Fixity' /\ Phases'
  BY DEF IInv, Fixity, Phases, Placed, Initial
<1>4. Lists'
  <2>1. \A t \in Types : ListOK(t) => ListOK(t)'
    BY DEF ListOK
  <2> QED BY <2>1 DEF IInv, Lists, AllFree, Initial
<1> QED BY <1>1, <1>2, <1>3, <1>4 DEF IInv

(* A macro that fails half way: every block that moved is put back where   *)
(* it was, the displaced ones too, so that nothing changes at all.         *)
LEMMA AbortKeeps ==
    ASSUME IInv, NEW b \in Blocks, NEW to \in Sites, Abort(b, to)
    PROVE  UNCHANGED vars
<1> DEFINE part == MovesOf(b, to, Begun(b, to))
<1>1. pc \in Swapping /\ moved = {} /\ b \in Movable /\ to \in FindTo(b)
  BY DEF Abort, Swapping
<1>2. ASSUME NEW c \in Begun(b, to)
      PROVE  /\ c \in Blocks /\ Target(b, to, c) \in CoreSites
  <2>1. InMacro(b) /\ c \in Movers(b)
    BY DEF Begun
  <2>2. MacroOf(b) \in DOMAIN Macros /\ Movers(b) = BlocksOf(MacroOf(b)) /\ b \in BlocksOf(MacroOf(b))
    BY <2>1 DEF InMacro, MacroOf, Movers
  <2>3. /\ c \in Blocks /\ loc[c] \in CoreSites /\ loc[b] \in CoreSites
        /\ BlockType[b] # IoType
    BY <1>1, <2>1, <2>2, MacroAtRest
  <2>4. to \in CoreSites
    BY <1>1, <2>3, SiteFacts DEF FindTo, LegalSites
  <2>5. PICK k \in Members(MacroOf(b)) :
            /\ Macros[MacroOf(b)][k].blk = c
            /\ \A j \in 1 .. k : ~Fails(b, to, Macros[MacroOf(b)][j].blk)
    BY DEF Begun
  <2>6. k \in 1 .. k
    BY DEF Members
  <2>7. OnChip(Target(b, to, c))
    BY <2>1, <2>5, <2>6 DEF Fails
  <2> QED BY <2>3, <2>4, <2>7, TargetInCore DEF Target
<1>3. ASSUME NEW m \in part PROVE m.old = loc[m.blk]
  <2>1. PICK c \in Begun(b, to) :
            \/ m = Mover(b, to, c)
            \/ m = Displaced(b, to, c) /\ grid[Target(b, to, c)] # Empty
    BY DEF MovesOf, Mover, Displaced
  <2>2. CASE m = Mover(b, to, c)
    BY <2>2 DEF Mover
  <2>3. CASE m = Displaced(b, to, c) /\ grid[Target(b, to, c)] # Empty
    <3> DEFINE o == grid[Target(b, to, c)]
    <3>1. Target(b, to, c) \in Sites /\ TypeAt(Target(b, to, c)) # IoType
      BY <1>2, CoreSiteFacts
    <3>2. o \in Blocks
      BY <1>1, <2>3, <3>1, AtRest
    <3>3. o \notin fixed
      BY <3>1, <3>2 DEF IInv, Fixity
    <3>4. loc[o] = Target(b, to, c)
      BY <1>1, <2>3, <3>1, <3>3, AtRest
    <3> QED BY <2>3, <3>4 DEF Displaced
  <2> QED BY <2>1, <2>2, <2>3
<1> HIDE DEF part
<1>4. PutBack(part) = [c \in Blocks |-> loc[c]]
  <2>1. ASSUME NEW c \in Blocks PROVE PutBack(part)[c] = loc[c]
    <3>1. CASE \E m \in part : m.blk = c
      <4> DEFINE m == CHOOSE m \in part : m.blk = c
      <4>1. m \in part /\ m.blk = c
        BY <3>1
      <4>2. PutBack(part)[c] = m.old
        BY <3>1 DEF PutBack
      <4> QED BY <1>3, <4>1, <4>2
    <3>2. CASE ~\E m \in part : m.blk = c
      BY <3>2 DEF PutBack, NewLoc
    <3> QED BY <3>1, <3>2
  <2>2. PutBack(part) = [c \in Blocks |-> PutBack(part)[c]]
    BY DEF PutBack
  <2> QED BY <2>1, <2>2
<1>5. loc' = loc
  <2>1. loc' = PutBack(part)
    BY DEF Abort, part
  <2>2. loc = [c \in Blocks |-> loc[c]]
    BY DEF IInv, TypeOK
  <2> QED BY <1>4, <2>1, <2>2
<1> QED BY <1>5 DEF Abort, vars

LEMMA AbortStep ==
    ASSUME IInv, NEW b \in Blocks, NEW to \in Sites, Abort(b, to)
    PROVE  IInv'
BY AbortKeeps, StutterStep

-----------------------------------------------------------------------------
(* What follows for the specification.                                     *)

LEMMA NextIInv == IInv /\ [Next]_vars => IInv'
<1> SUFFICES ASSUME IInv, [Next]_vars PROVE IInv'
  OBVIOUS
<1>1. CASE PlaceMacro BY <1>1, PlaceMacroStep
<1>2. CASE MacrosPlaced BY <1>2, MacrosPlacedStep
<1>3. CASE CompactEntry BY <1>3, CompactEntryStep
<1>4. CASE CompactNextType BY <1>4, CompactNextTypeStep
<1>5. CASE PlaceBlock BY <1>5, PlaceBlockStep
<1>6. CASE OpenPadFile BY <1>6, OpenPadFileStep
<1>7. CASE ReadPadLine BY <1>7, ReadPadLineStep
<1>8. CASE LoadLegalPlacements BY <1>8, LoadLegalPlacementsStep
<1>9. ASSUME NEW b \in Blocks, NEW to \in Sites, Propose(b, to) PROVE IInv'
  BY <1>9, ProposeStep
<1>16. ASSUME NEW b \in Blocks, NEW to \in Sites, Abort(b, to) PROVE IInv'
  BY <1>16, AbortStep
<1>10. CASE Accept BY <1>10, AcceptStep
<1>11. CASE Reject BY <1>11, RejectStep
<1>12. CASE BeginFreeze BY <1>12, BeginFreezeStep
<1>13. CASE PostPlaceSync BY <1>13, PostPlaceSyncStep
<1>14. ASSUME NEW costs_agree \in BOOLEAN, Finish(costs_agree) PROVE IInv'
  BY <1>14, FinishStep
<1>15. CASE Ended \/ UNCHANGED vars BY <1>15, StutterStep DEF Ended
<1> QED
  BY <1>1, <1>2, <1>3, <1>4, <1>5, <1>6, <1>7, <1>8, <1>9, <1>10, <1>11,
     <1>12, <1>13, <1>14, <1>15, <1>16 DEF Next

(* The inductive invariant holds in every state of every run, whatever is  *)
(* drawn and whatever the pad file says.                                   *)
THEOREM InductiveInvariant == Spec => []IInv
<1>1. Init => IInv
  BY InitIInv
<1>2. IInv /\ [Next]_vars => IInv'
  BY NextIInv
<1> QED BY <1>1, <1>2, PTL DEF Spec

(* The tables of try_place keep their types.                               *)
THEOREM TypeCorrect == Spec => []TypeOK
<1>1. IInv => TypeOK
  BY DEF IInv
<1> QED BY <1>1, InductiveInvariant, PTL

(* block[] and grid[][] agree, before, during and after every swap.        *)
THEOREM TablesAgree == Spec => []SitesAgree
<1>1. IInv => SitesAgree
  <2> SUFFICES ASSUME IInv, NEW b \in Blocks
               PROVE  IF Placed(b)
                      THEN \E s \in Sites :
                            /\ \A r \in Sites : grid[r] = b <=> r = s
                            /\ IF b \in fixed THEN CellOf(s) = CellOf(Held(b)) ELSE s = Held(b)
                      ELSE \A s \in Sites : grid[s] # b
    BY DEF SitesAgree
  <2>0. b # Empty
    BY EmptyFacts
  <2>1. ASSUME NEW s \in Sites, grid[s] = b PROVE Placed(b) /\ \A r \in Sites : grid[r] = b => r = s
    BY <2>0, <2>1 DEF IInv, GridHolds
  <2>2. CASE Placed(b) /\ b \in fixed
    <3>1. PICK s \in Sites : grid[s] = b /\ CellOf(s) = CellOf(Held(b))
      BY <2>2 DEF IInv, BlocksStand
    <3> QED BY <2>1, <2>2, <3>1
  <2>3. CASE Placed(b) /\ b \notin fixed
    <3>1. Held(b) \in Sites /\ grid[Held(b)] = b
      BY <2>3 DEF IInv, BlocksStand
    <3> QED BY <2>1, <2>3, <3>1
  <2>4. CASE ~Placed(b)
    BY <2>1, <2>4
  <2> QED BY <2>2, <2>3, <2>4
<1> QED BY <1>1, InductiveInvariant, PTL

(* usage counts the blocks of every cell, pads and swaps included.         *)
THEOREM UsageIsExact == Spec => []UsageExact
<1>1. IInv => UsageExact
  BY DEF IInv
<1> QED BY <1>1, InductiveInvariant, PTL

(* Together: the grid tells the truth at every step of every swap.         *)
THEOREM GridIsExact == Spec => []GridExact
<1>1. SitesAgree /\ UsageExact => GridExact
  BY DEF GridExact
<1> QED BY <1>1, TablesAgree, UsageIsExact, PTL

(* A placed macro never loses its shape, whatever swaps are drawn.         *)
THEOREM MacrosStayIntact == Spec => []MacrosIntact
<1>1. IInv => MacrosIntact
  BY DEF IInv, Shapes, ShapesAt, MacrosIntact
<1> QED BY <1>1, InductiveInvariant, PTL

(* While blocks are put down, legal_pos lists the free positions, once.    *)
THEOREM FreeListsExact == Spec => []FreeListExact
<1>1. IInv => FreeListExact
  <2> SUFFICES ASSUME IInv, pc = "blocks", NEW t \in Types
               PROVE  /\ {legal[t][i] : i \in 1 .. free[t]} = {s \in LegalSites(t) : grid[s] = Empty}
                      /\ \A i, j \in 1 .. free[t] : legal[t][i] = legal[t][j] => i = j
    BY DEF FreeListExact
  <2>1. ListOK(t) /\ AllFree(t, free[t]) /\ free[t] \in Int
    BY DEF IInv, TypeOK, Lists, Initial
  <2>2. \A i \in 1 .. free[t] : legal[t][i] \in LegalSites(t) /\ grid[legal[t][i]] = Empty
    BY <2>1 DEF ListOK, AllFree
  <2>3. \A s \in LegalSites(t) : grid[s] = Empty => \E i \in 1 .. free[t] : legal[t][i] = s
    BY <2>1 DEF ListOK
  <2>4. \A i, j \in 1 .. free[t] : legal[t][i] = legal[t][j] => i = j
    BY <2>1 DEF ListOK
  <2> QED BY <2>2, <2>3, <2>4
<1> QED BY <1>1, InductiveInvariant, PTL

(* Once post_place_sync is over, the pins follow the coordinates.          *)
Synced ==
    pc = "synced" => sub = [b \in Blocks |-> IF loc[b][3] > 0 THEN loc[b][3] ELSE 0]

(* The nets of a block the placer put down end on the pins of the          *)
(* sub-block at which the grid holds it: no two blocks of a cell share     *)
(* pins, however many swaps moved them.                                    *)
THEOREM PinsFollow == Spec => []PinsFollowSite
<1>1. Init => Synced
  BY DEF Init, Synced
<1>2. IInv /\ Synced /\ [Next]_vars => Synced'
  <2> SUFFICES ASSUME IInv, Synced, [Next]_vars PROVE Synced'
    OBVIOUS
  <2> USE DEF Synced
  <2>1. CASE PlaceMacro \/ MacrosPlaced \/ CompactEntry \/ CompactNextType
    BY <2>1 DEF PlaceMacro, MacrosPlaced, CompactEntry, CompactNextType, Stop
  <2>2. CASE PlaceBlock \/ OpenPadFile
    BY <2>2 DEF PlaceBlock, OpenPadFile, Stop
  <2>3. CASE ReadPadLine \/ LoadLegalPlacements
    BY <2>3 DEF ReadPadLine, LoadLegalPlacements, Stop, PadsRead
  <2>4. ASSUME NEW b \in Blocks, NEW to \in Sites, Propose(b, to) PROVE Synced'
    BY <2>4 DEF Propose, Stop
  <2>9. ASSUME NEW b \in Blocks, NEW to \in Sites, Abort(b, to) PROVE Synced'
    BY <2>9 DEF Abort
  <2>5. CASE Accept \/ Reject
    BY <2>5 DEF Accept, Reject, IInv, Phases, Swapping
  <2>6. CASE BeginFreeze \/ PostPlaceSync
    BY <2>6 DEF BeginFreeze, PostPlaceSync
  <2>7. ASSUME NEW costs_agree \in BOOLEAN, Finish(costs_agree) PROVE Synced'
    BY <2>7 DEF Finish, Stop
  <2>8. CASE Ended \/ UNCHANGED vars
    BY <2>8 DEF Ended, vars
  <2> QED BY <2>1, <2>2, <2>3, <2>4, <2>5, <2>6, <2>7, <2>8, <2>9 DEF Next
<1>3. IInv /\ Synced => PinsFollowSite
  <2> SUFFICES ASSUME IInv, Synced, pc = "synced", NEW b \in Blocks \ fixed
               PROVE  grid[<<loc[b][1], loc[b][2], sub[b]>>] = b
    BY DEF PinsFollowSite
  <2>1. moved = {} /\ Placed(b)
    BY DEF IInv, Phases, Swapping, Over
  <2>2. loc[b] \in Sites /\ grid[loc[b]] = b
    BY <2>1, StillLoc DEF IInv, BlocksStand, Held
  <2>3. loc[b] = <<loc[b][1], loc[b][2], loc[b][3]>> /\ loc[b][3] \in Int /\ loc[b][3] >= 0
    BY <2>2, SiteFacts, TripleFacts
  <2>4. sub[b] = loc[b][3]
    BY <2>3 DEF Synced
  <2> QED BY <2>2, <2>3, <2>4
<1>4. Spec => []Synced
  BY <1>1, <1>2, InductiveInvariant, PTL DEF Spec
<1> QED BY <1>3, <1>4, InductiveInvariant, PTL

-----------------------------------------------------------------------------
(***************************************************************************)
(* What the placement costs: sums over nets and connections, boxes kept    *)
(* pin by pin, and the change a swap makes.                                *)
(***************************************************************************)
-----------------------------------------------------------------------------
(* Sums over finite sets, as Total builds them.                            *)

LEMMA LeastNatural ==
    ASSUME NEW S, S \subseteq Nat, S # {}
    PROVE  \E m \in S : \A k \in S : m <= k
<1> DEFINE R == OpToRel(<, Nat)
<1>1. \A x, y \in Nat : <<x, y>> \in R <=> x < y
  BY DEF OpToRel
<1>2. IsWellFoundedOn(R, Nat)
  BY NatLessThanWellFounded
<1> HIDE DEF R
<1>3. PICK x \in S : \A y \in S : ~ (<<y, x>> \in R)
  BY <1>2, WFMin
<1>4. \A k \in S : k \in Nat /\ x \in Nat
  OBVIOUS
<1>5. \A k \in S : ~ (k < x)
  BY <1>1, <1>3, <1>4
<1> QED BY <1>4, <1>5

LEMMA NaturalsFromZero ==
    ASSUME NEW S, 0 \in S, \A n \in Nat : n \in S => n + 1 \in S
    PROVE  Nat \subseteq S
<1> SUFFICES ASSUME ~ (Nat \subseteq S) PROVE FALSE
  OBVIOUS
<1> DEFINE T == Nat \ S
<1>1. T # {} /\ T \subseteq Nat
  OBVIOUS
<1>2. PICK m \in T : \A k \in T : m <= k
  <2> HIDE DEF T
  <2> QED BY <1>1, LeastNatural
<1>3. m \in Nat /\ m # 0
  OBVIOUS
<1>4. m - 1 \in Nat /\ m - 1 \in S
  BY <1>2, <1>3
<1> QED BY <1>3, <1>4

(* A property a set has when it has it without any one of its elements     *)
(* holds of every part of a finite set.                                    *)
LEMMA PartByPart ==
    ASSUME NEW S, IsFiniteSet(S), NEW P,
           \A T \in SUBSET S : (\A x \in T : T \ {x} \in P) => T \in P
    PROVE  \A T \in SUBSET S : T \in P
<1> DEFINE Bad  == (SUBSET S) \ P
           Size == {Cardinality(T) : T \in Bad}
<1> SUFFICES ASSUME Bad # {} PROVE FALSE
  OBVIOUS
<1>1. \A T \in SUBSET S : IsFiniteSet(T) /\ Cardinality(T) \in Nat
  BY FS_Subset, FS_CardinalityType
<1>2. Size \subseteq Nat /\ Size # {}
  BY <1>1
<1>3. PICK n \in Size : \A k \in Size : n <= k
  <2> HIDE DEF Size
  <2> QED BY <1>2, LeastNatural
<1>4. PICK T \in Bad : n = Cardinality(T)
  OBVIOUS
<1>5. PICK x \in T : T \ {x} \in Bad
  BY <1>4
<1>6. Cardinality(T \ {x}) = Cardinality(T) - 1
  BY <1>1, <1>4, <1>5, FS_RemoveElement
<1>7. Cardinality(T) - 1 \in Size
  BY <1>5, <1>6
<1>8. Cardinality(T) \in Nat /\ Cardinality(T) <= Cardinality(T) - 1
  BY <1>1, <1>3, <1>4, <1>7
<1> QED BY <1>8

(* g sums f over every part of S.                                          *)
Sums(g, S, f) ==
    /\ g \in [SUBSET S -> Int]
    /\ g[{}] = 0
    /\ \A T \in SUBSET S : \A x \in T : g[T] = f[x] + g[T \ {x}]

Pick(T) == CHOOSE x \in T : TRUE

(* The recursion of a fold, and that a function solves it.                 *)
Folds(g, D, f) == g = [T \in D |-> IF T = {} THEN 0 ELSE f[Pick(T)] + g[T \ {Pick(T)}]]

LEMMA FoldExists ==
    ASSUME NEW S, IsFiniteSet(S), NEW f
    PROVE  \E g : Folds(g, SUBSET S, f)
<1> DEFINE Level(n) == {T \in SUBSET S : Cardinality(T) <= n}
           Done == {n \in Nat : \E g : Folds(g, Level(n), f)}
<1>1. \A T \in SUBSET S : IsFiniteSet(T) /\ Cardinality(T) \in Nat /\ Cardinality(T) <= Cardinality(S)
  BY FS_Subset, FS_CardinalityType
<1>2. 0 \in Done
  <2>1. \A T \in Level(0) : T = {}
    BY <1>1, FS_EmptySet
  <2>2. [T \in Level(0) |-> 0] = [T \in Level(0) |-> IF T = {} THEN 0 ELSE f[Pick(T)] + [R \in Level(0) |-> 0][T \ {Pick(T)}]]
    <3> HIDE DEF Level
    <3> QED BY <2>1
  <2>3. Folds([T \in Level(0) |-> 0], Level(0), f)
    <3> HIDE DEF Level
    <3> QED BY <2>2 DEF Folds
  <2> QED BY <2>3
<1>3. ASSUME NEW n \in Nat, n \in Done PROVE n + 1 \in Done
  <2>1. PICK g : Folds(g, Level(n), f)
    BY <1>3
  <2> DEFINE value(T) == IF T = {} THEN 0 ELSE f[Pick(T)] + g[T \ {Pick(T)}]
             h == [T \in Level(n + 1) |-> value(T)]
  <2>2. \A T \in Level(n) : g[T] = value(T)
    <3>1. g = [T \in Level(n) |-> value(T)]
      BY <2>1 DEF Folds
    <3> HIDE DEF value, Level
    <3> QED BY <3>1
  <2>3. ASSUME NEW T \in Level(n + 1), T # {}
        PROVE  T \ {Pick(T)} \in Level(n) /\ T \ {Pick(T)} \in Level(n + 1)
    <3>1. Pick(T) \in T
      BY <2>3 DEF Pick
    <3>2. Cardinality(T \ {Pick(T)}) = Cardinality(T) - 1
      BY <1>1, <3>1, FS_RemoveElement
    <3>3. Cardinality(T) \in Nat /\ Cardinality(T) <= n + 1 /\ T \ {Pick(T)} \in SUBSET S
      BY <1>1
    <3> QED BY <3>2, <3>3
  <2>4. \A T \in Level(n + 1) : T # {} => h[T \ {Pick(T)}] = g[T \ {Pick(T)}]
    <3> HIDE DEF value, Level
    <3> QED BY <2>2, <2>3
  <2>5. h = [T \in Level(n + 1) |-> IF T = {} THEN 0 ELSE f[Pick(T)] + h[T \ {Pick(T)}]]
    <3>1. \A T \in Level(n + 1) : value(T) = IF T = {} THEN 0 ELSE f[Pick(T)] + h[T \ {Pick(T)}]
      <4> HIDE DEF h, Level
      <4> QED BY <2>4
    <3>2. h = [T \in Level(n + 1) |-> value(T)]
      OBVIOUS
    <3> HIDE DEF value, h, Level
    <3> QED BY <3>1, <3>2
  <2>6. Folds(h, Level(n + 1), f)
    <3> HIDE DEF h, Level
    <3> QED BY <2>5 DEF Folds
  <2> QED
    <3> HIDE DEF h, Level
    <3> QED BY <2>6
<1>4. Nat \subseteq Done
  <2> HIDE DEF Done
  <2> QED BY <1>2, <1>3, NaturalsFromZero
<1>5. Cardinality(S) \in Nat
  BY <1>1
<1>6. Level(Cardinality(S)) = SUBSET S
  BY <1>1
<1> QED
  <2> HIDE DEF Level
  <2> QED BY <1>4, <1>5, <1>6

LEMMA TotalIsFold ==
    ASSUME NEW S, IsFiniteSet(S), NEW f, DOMAIN f = S
    PROVE  \E g : Folds(g, SUBSET S, f) /\ Total(f) = g[S]
<1> DEFINE g == CHOOSE h : Folds(h, SUBSET S, f)
<1>1. Folds(g, SUBSET S, f)
  BY FoldExists
<1>2. Total(f) = g[S]
  BY DEF Total, SumFunction, SumFunctionOnSet, FoldFunctionOnSet, MapThenFoldSet, Folds, Pick
<1> QED BY <1>1, <1>2

(* The order in which a fold picks the elements does not matter.           *)
LEMMA FoldSums ==
    ASSUME NEW S, IsFiniteSet(S), NEW f \in [S -> Int], NEW g, Folds(g, SUBSET S, f)
    PROVE  Sums(g, S, f)
<1> DEFINE value(T) == IF T = {} THEN 0 ELSE f[Pick(T)] + g[T \ {Pick(T)}]
<1>1. g = [T \in SUBSET S |-> value(T)]
  BY DEF Folds
<1>2. \A T \in SUBSET S : g[T] = value(T)
  <2> HIDE DEF value
  <2> QED BY <1>1
<1>3. g[{}] = 0
  BY <1>2
<1>4. \A T \in SUBSET S : T # {} => Pick(T) \in T /\ g[T] = f[Pick(T)] + g[T \ {Pick(T)}]
  BY <1>2 DEF Pick
<1> HIDE DEF value
<1>5. \A T \in SUBSET S : g[T] \in Int
  <2> DEFINE P == {T \in SUBSET S : g[T] \in Int}
  <2>1. ASSUME NEW T \in SUBSET S, \A x \in T : T \ {x} \in P PROVE T \in P
    <3>1. CASE T = {}
      BY <1>3, <3>1
    <3>2. CASE T # {}
      <4>1. Pick(T) \in T /\ f[Pick(T)] \in Int /\ g[T \ {Pick(T)}] \in Int
        BY <1>4, <2>1, <3>2
      <4>2. g[T] = f[Pick(T)] + g[T \ {Pick(T)}]
        BY <1>4, <3>2
      <4>3. g[T] \in Int
        BY <4>1, <4>2
      <4> QED BY <4>3
    <3> QED BY <3>1, <3>2
  <2>2. \A T \in SUBSET S : T \in P
    <3> HIDE DEF P
    <3> QED BY <2>1, PartByPart
  <2> QED BY <2>2
<1>6. \A T \in SUBSET S : \A x \in T : g[T] = f[x] + g[T \ {x}]
  <2> DEFINE P == {T \in SUBSET S : \A x \in T : g[T] = f[x] + g[T \ {x}]}
  <2>1. ASSUME NEW T \in SUBSET S, \A x \in T : T \ {x} \in P, NEW x \in T
        PROVE  g[T] = f[x] + g[T \ {x}]
    <3> DEFINE p == Pick(T)
    <3>1. p \in T /\ g[T] = f[p] + g[T \ {p}]
      BY <1>4
    <3> HIDE DEF p
    <3>2. CASE x = p
      BY <3>1, <3>2
    <3>3. CASE x # p
      <4>1. g[T \ {p}] = f[x] + g[(T \ {p}) \ {x}]
        BY <2>1, <3>1, <3>3
      <4>2. g[T \ {x}] = f[p] + g[(T \ {x}) \ {p}]
        BY <2>1, <3>1, <3>3
      <4>3. (T \ {p}) \ {x} = (T \ {x}) \ {p}
        OBVIOUS
      <4>4. f[x] \in Int /\ f[p] \in Int /\ g[(T \ {x}) \ {p}] \in Int
        BY <1>5, <3>1
      <4>5. \A i, j, k \in Int : i + (j + k) = j + (i + k)
        OBVIOUS
      <4>6. g[T] = f[p] + (f[x] + g[(T \ {x}) \ {p}])
        BY <3>1, <4>1, <4>3
      <4>7. f[x] + g[T \ {x}] = f[x] + (f[p] + g[(T \ {x}) \ {p}])
        BY <4>2
      <4> QED BY <4>4, <4>5, <4>6, <4>7
    <3> QED BY <3>2, <3>3
  <2>2. \A T \in SUBSET S : (\A x \in T : T \ {x} \in P) => T \in P
    BY <2>1
  <2>3. \A T \in SUBSET S : T \in P
    <3> HIDE DEF P
    <3> QED BY <2>2, PartByPart
  <2> QED BY <2>3
<1>7. g \in [SUBSET S -> Int]
  BY <1>1, <1>5
<1> QED BY <1>3, <1>6, <1>7 DEF Sums

(* Total adds up a function, whatever part of its domain comes first.      *)
LEMMA TotalSums ==
    ASSUME NEW S, IsFiniteSet(S), NEW f \in [S -> Int]
    PROVE  \E g : Sums(g, S, f) /\ Total(f) = g[S]
<1>1. DOMAIN f = S
  OBVIOUS
<1>2. PICK g : Folds(g, SUBSET S, f) /\ Total(f) = g[S]
  BY <1>1, TotalIsFold
<1> QED BY <1>2, FoldSums

LEMMA TotalInt ==
    ASSUME NEW S, IsFiniteSet(S), NEW f \in [S -> Int]
    PROVE  Total(f) \in Int
<1>1. PICK g : Sums(g, S, f) /\ Total(f) = g[S]
  BY TotalSums
<1> QED BY <1>1 DEF Sums

(* A sum over one set is that over another where the functions agree.      *)
LEMMA SumsAgree ==
    ASSUME NEW S, IsFiniteSet(S), NEW f, NEW g, Sums(g, S, f),
           NEW R \in SUBSET S, NEW e, NEW h, Sums(h, R, e),
           \A x \in R : e[x] = f[x]
    PROVE  h[R] = g[R]
<1> DEFINE P == {T \in SUBSET R : h[T] = g[T]}
<1>1. ASSUME NEW T \in SUBSET R, \A x \in T : T \ {x} \in P PROVE T \in P
  <2>1. CASE T = {}
    BY <2>1 DEF Sums
  <2>2. CASE T # {}
    <3>1. PICK x : x \in T
      BY <2>2
    <3>2. h[T] = e[x] + h[T \ {x}] /\ g[T] = f[x] + g[T \ {x}] /\ e[x] = f[x]
      BY <3>1 DEF Sums
    <3> QED BY <1>1, <3>1, <3>2
  <2> QED BY <2>1, <2>2
<1>2. IsFiniteSet(R)
  BY FS_Subset
<1>3. \A T \in SUBSET R : T \in P
  <2> HIDE DEF P
  <2> QED BY <1>1, <1>2, PartByPart
<1> QED BY <1>3

(* The total changes by the sum of the changes.                            *)
LEMMA TotalOfChanges ==
    ASSUME NEW S, IsFiniteSet(S), NEW f \in [S -> Int], NEW g \in [S -> Int],
           NEW A \in SUBSET S, \A x \in S \ A : g[x] = f[x]
    PROVE  Total(f) + Total([x \in A |-> g[x] - f[x]]) = Total(g)
<1> DEFINE d == [x \in A |-> g[x] - f[x]]
<1>1. d \in [A -> Int] /\ \A x \in A : d[x] = g[x] - f[x]
  OBVIOUS
<1> HIDE DEF d
<1>2. IsFiniteSet(A)
  BY FS_Subset
<1>3. PICK F : Sums(F, S, f) /\ Total(f) = F[S]
  BY TotalSums
<1>4. PICK G : Sums(G, S, g) /\ Total(g) = G[S]
  BY TotalSums
<1>5. PICK D : Sums(D, A, d) /\ Total(d) = D[A]
  BY <1>1, <1>2, TotalSums
<1> DEFINE P == {T \in SUBSET S : F[T] + D[T \cap A] = G[T]}
<1>6. ASSUME NEW T \in SUBSET S, \A x \in T : T \ {x} \in P PROVE T \in P
  <2>1. CASE T = {}
    <3>1. T \cap A = {}
      BY <2>1
    <3> QED BY <1>3, <1>4, <1>5, <2>1, <3>1 DEF Sums
  <2>2. CASE T # {}
    <3>1. PICK x : x \in T
      BY <2>2
    <3>2. F[T] = f[x] + F[T \ {x}] /\ F[T \ {x}] \in Int
      BY <1>3, <3>1 DEF Sums
    <3>3. G[T] = g[x] + G[T \ {x}] /\ G[T \ {x}] \in Int
      BY <1>4, <3>1 DEF Sums
    <3>4. F[T \ {x}] + D[(T \ {x}) \cap A] = G[T \ {x}]
      BY <1>6, <3>1
    <3>5. D[(T \ {x}) \cap A] \in Int /\ f[x] \in Int /\ g[x] \in Int
      BY <1>5, <3>1 DEF Sums
    <3>6. CASE x \in A
      <4>1. x \in T \cap A /\ (T \cap A) \ {x} = (T \ {x}) \cap A
        BY <3>1, <3>6
      <4>2. D[T \cap A] = d[x] + D[(T \ {x}) \cap A]
        BY <1>5, <4>1 DEF Sums
      <4>3. d[x] = g[x] - f[x]
        BY <1>1, <3>6
      <4> QED BY <3>2, <3>3, <3>4, <3>5, <4>2, <4>3
    <3>7. CASE x \notin A
      <4>1. T \cap A = (T \ {x}) \cap A
        BY <3>7
      <4>2. g[x] = f[x]
        BY <3>1, <3>7
      <4> DEFINE F1 == F[T \ {x}]
                 G1 == G[T \ {x}]
                 D1 == D[(T \ {x}) \cap A]
      <4>3. /\ F[T] = g[x] + F1 /\ D[T \cap A] = D1 /\ G[T] = g[x] + G1
            /\ F1 + D1 = G1 /\ F1 \in Int /\ G1 \in Int /\ D1 \in Int /\ g[x] \in Int
        BY <3>2, <3>3, <3>4, <3>5, <4>1, <4>2
      <4> HIDE DEF F1, G1, D1
      <4>4. F[T] + D[T \cap A] = G[T]
        BY <4>3
      <4> QED BY <4>4
    <3> QED BY <3>6, <3>7
  <2> QED BY <2>1, <2>2
<1>7. \A T \in SUBSET S : T \in P
  <2> HIDE DEF P
  <2> QED BY <1>6, PartByPart
<1>8. F[S] + D[S \cap A] = G[S] /\ S \cap A = A
  BY <1>7
<1> QED BY <1>3, <1>4, <1>5, <1>8 DEF d

(* Disjoint parts, each added up, make the whole.                          *)
LEMMA SumsJoin ==
    ASSUME NEW S, IsFiniteSet(S), NEW f \in [S -> Int], NEW g, Sums(g, S, f),
           NEW A \in SUBSET S, NEW B \in SUBSET S, A \cap B = {}
    PROVE  g[A \cup B] = g[A] + g[B]
<1> DEFINE P == {T \in SUBSET A : g[T \cup B] = g[T] + g[B]}
<1>1. ASSUME NEW T \in SUBSET A, \A x \in T : T \ {x} \in P PROVE T \in P
  <2>1. CASE T = {}
    <3>1. T \cup B = B /\ g[B] \in Int /\ g[T] = 0
      BY <2>1 DEF Sums
    <3>2. g[T] + g[B] = g[B]
      BY <3>1
    <3>3. g[T \cup B] = g[T] + g[B]
      BY <3>1, <3>2
    <3> QED BY <3>3
  <2>2. CASE T # {}
    <3>1. PICK x : x \in T
      BY <2>2
    <3>2. (T \cup B) \ {x} = (T \ {x}) \cup B /\ x \in T \cup B /\ T \cup B \in SUBSET S /\ T \in SUBSET S
      BY <3>1
    <3>3. g[T \cup B] = f[x] + g[(T \ {x}) \cup B]
      BY <3>2 DEF Sums
    <3>4. g[T] = f[x] + g[T \ {x}]
      BY <3>1, <3>2 DEF Sums
    <3>5. f[x] \in Int /\ g[T \ {x}] \in Int /\ g[B] \in Int
      BY <3>1 DEF Sums
    <3>6. g[(T \ {x}) \cup B] = g[T \ {x}] + g[B]
      BY <1>1, <3>1
    <3>7. \A i, j, k \in Int : i + (j + k) = (i + j) + k
      OBVIOUS
    <3>8. g[T \cup B] = g[T] + g[B]
      BY <3>3, <3>4, <3>5, <3>6, <3>7
    <3> QED BY <3>8
  <2> QED BY <2>1, <2>2
<1>2. IsFiniteSet(A)
  BY FS_Subset
<1>3. \A T \in SUBSET A : T \in P
  <2> HIDE DEF P
  <2> QED BY <1>1, <1>2, PartByPart
<1> QED BY <1>3

LEMMA TotalOfParts ==
    ASSUME NEW S, IsFiniteSet(S), NEW C, IsFiniteSet(C), NEW A \in [S -> SUBSET C],
           \A p, q \in S : p # q => A[p] \cap A[q] = {},
           NEW U \in SUBSET C, U = UNION {A[p] : p \in S}, NEW f \in [U -> Int]
    PROVE  Total([p \in S |-> Total([c \in A[p] |-> f[c]])]) = Total(f)
<1>1. IsFiniteSet(U)
  BY FS_Subset
<1>2. PICK F : Sums(F, U, f) /\ Total(f) = F[U]
  BY <1>1, TotalSums
<1> DEFINE e == [p \in S |-> Total([c \in A[p] |-> f[c]])]
<1>3. ASSUME NEW p \in S PROVE A[p] \in SUBSET U /\ e[p] = F[A[p]]
  <2>1. A[p] \in SUBSET U
    OBVIOUS
  <2>2. IsFiniteSet(A[p])
    BY <1>1, <2>1, FS_Subset
  <2> DEFINE r == [c \in A[p] |-> f[c]]
  <2>3. r \in [A[p] -> Int] /\ \A c \in A[p] : r[c] = f[c]
    BY <2>1
  <2>4. e[p] = Total(r)
    OBVIOUS
  <2> HIDE DEF r, e
  <2>5. PICK R : Sums(R, A[p], r) /\ Total(r) = R[A[p]]
    BY <2>2, <2>3, TotalSums
  <2>6. R[A[p]] = F[A[p]]
    BY <1>1, <1>2, <2>1, <2>3, <2>5, SumsAgree
  <2> QED BY <2>1, <2>4, <2>5, <2>6
<1>4. e \in [S -> Int]
  <2>1. \A p \in S : F[A[p]] \in Int
    BY <1>2, <1>3 DEF Sums
  <2>2. e = [p \in S |-> e[p]]
    OBVIOUS
  <2> HIDE DEF e
  <2> QED BY <1>3, <2>1, <2>2
<1> HIDE DEF e
<1>5. PICK E : Sums(E, S, e) /\ Total(e) = E[S]
  BY <1>4, TotalSums
<1> DEFINE J(T) == UNION {A[p] : p \in T}
           P == {T \in SUBSET S : E[T] = F[J(T)]}
<1>6. ASSUME NEW T \in SUBSET S, \A x \in T : T \ {x} \in P PROVE T \in P
  <2>1. CASE T = {}
    <3>1. J(T) = {}
      BY <2>1
    <3> QED BY <1>2, <1>5, <2>1, <3>1 DEF Sums
  <2>2. CASE T # {}
    <3>1. PICK x : x \in T
      BY <2>2
    <3>2. E[T] = e[x] + E[T \ {x}]
      BY <1>5, <3>1 DEF Sums
    <3>3. E[T \ {x}] = F[J(T \ {x})]
      BY <1>6, <3>1
    <3>4. J(T) = A[x] \cup J(T \ {x})
      BY <3>1
    <3>5. J(T \ {x}) \in SUBSET U
      OBVIOUS
    <3>6. A[x] \cap J(T \ {x}) = {}
      BY <3>1
    <3>7. F[A[x] \cup J(T \ {x})] = F[A[x]] + F[J(T \ {x})]
      <4> DEFINE A1 == A[x]
                 B1 == J(T \ {x})
      <4>1. A1 \in SUBSET U /\ B1 \in SUBSET U /\ A1 \cap B1 = {}
        BY <1>3, <3>1, <3>5, <3>6
      <4> HIDE DEF A1, B1
      <4>2. F[A1 \cup B1] = F[A1] + F[B1]
        BY <1>1, <1>2, <4>1, SumsJoin
      <4> QED BY <4>2 DEF A1, B1
    <3> HIDE DEF J
    <3>8. E[T] = F[J(T)]
      BY <1>3, <3>1, <3>2, <3>3, <3>4, <3>7
    <3> QED BY <3>8
  <2> QED BY <2>1, <2>2
<1>7. \A T \in SUBSET S : T \in P
  <2> HIDE DEF P
  <2> QED BY <1>6, PartByPart
<1>8. E[S] = F[U]
  BY <1>7
<1> QED BY <1>2, <1>5, <1>8 DEF e

-----------------------------------------------------------------------------
(* Bounding boxes.                                                         *)

LEMMA Counted ==
    ASSUME NEW D, IsFiniteSet(D), NEW U \in SUBSET D, NEW W \in SUBSET D, NEW k \in D, k \notin U,
           \A j \in D : j \in W <=> j \in U \/ j = k
    PROVE  Cardinality(W) = Cardinality(U) + 1
<1>1. IsFiniteSet(U)
  BY FS_Subset
<1>2. W = U \cup {k}
  OBVIOUS
<1> QED BY <1>1, <1>2, FS_AddElement

(* Where values vs over D are least, and how often.                        *)
LowIs(lo, nlo, D, vs) ==
    /\ lo \in Int /\ \E k \in D : vs[k] = lo
    /\ \A k \in D : lo <= vs[k]
    /\ nlo = Cardinality({k \in D : vs[k] = lo})

LEMMA LowEnd ==
    ASSUME NEW D, IsFiniteSet(D), NEW vs \in [D -> Int], NEW k \in D, NEW new \in Int,
           NEW lo, NEW nlo, LowIs(lo, nlo, D, vs)
    PROVE  LET ws == [vs EXCEPT ![k] = new] IN
           /\ new < vs[k] =>
                LowIs(IF new < lo THEN new ELSE lo,
                      IF new < lo THEN 1 ELSE IF new = lo THEN nlo + 1 ELSE nlo, D, ws)
           /\ new > vs[k] /\ ~(vs[k] = lo /\ nlo = 1) =>
                LowIs(lo, IF vs[k] = lo THEN nlo - 1 ELSE nlo, D, ws)
<1> DEFINE ws == [vs EXCEPT ![k] = new]
           old == vs[k]
<1>1. /\ lo \in Int /\ old \in Int /\ ws \in [D -> Int] /\ ws[k] = new
      /\ \A j \in D : vs[j] \in Int /\ lo <= vs[j]
      /\ \A j \in D : j # k => ws[j] = vs[j]
      /\ nlo = Cardinality({j \in D : vs[j] = lo})
  BY DEF LowIs
<1>2. PICK i \in D : vs[i] = lo
  BY DEF LowIs
<1>3. CASE new < old
  <2>1. CASE new < lo
    <3>1. \A j \in D : new <= ws[j] /\ (ws[j] = new => j = k)
      BY <1>1, <2>1
    <3>2. {j \in D : ws[j] = new} = {k}
      BY <1>1, <3>1
    <3>3. Cardinality({k}) = 1
      BY FS_Singleton
    <3>4. LowIs(new, 1, D, ws)
      <4> HIDE DEF ws
      <4> QED BY <1>1, <3>1, <3>2, <3>3 DEF LowIs
    <3> QED BY <1>1, <1>3, <2>1, <3>4
  <2>2. CASE new = lo
    <3>1. \A j \in D : lo <= ws[j]
      BY <1>1, <2>2
    <3>2. \A j \in D : ws[j] = lo <=> vs[j] = lo \/ j = k
      BY <1>1, <1>3, <2>2
    <3>3. Cardinality({j \in D : ws[j] = lo}) = nlo + 1
      <4> DEFINE U == {j \in D : vs[j] = lo}
                 W == {j \in D : ws[j] = lo}
      <4>1. U \in SUBSET D /\ W \in SUBSET D /\ \A j \in D : j \in W <=> j \in U \/ j = k
        BY <3>2
      <4>2. k \notin U
        BY <1>1, <1>3, <2>2
      <4>3. nlo = Cardinality(U)
        BY <1>1
      <4> HIDE DEF U, W
      <4>4. Cardinality(W) = nlo + 1
        BY <4>1, <4>2, <4>3, Counted
      <4> QED BY <4>4 DEF W
    <3>4. LowIs(lo, nlo + 1, D, ws)
      <4> HIDE DEF ws
      <4> QED BY <1>1, <2>2, <3>1, <3>3 DEF LowIs
    <3>5. ~(new < lo)
      BY <1>1, <2>2
    <3> QED BY <1>1, <1>3, <2>2, <3>4, <3>5
  <2>3. CASE lo < new
    <3>1. \A j \in D : lo <= ws[j]
      BY <1>1, <2>3
    <3>2. \A j \in D : ws[j] = lo <=> vs[j] = lo
      BY <1>1, <1>3, <2>3
    <3>3. LowIs(lo, nlo, D, ws)
      <4>1. {j \in D : ws[j] = lo} = {j \in D : vs[j] = lo}
        BY <3>2
      <4> HIDE DEF ws
      <4> QED BY <1>1, <1>2, <3>1, <3>2, <4>1 DEF LowIs
    <3>4. ~(new < lo) /\ new # lo
      BY <1>1, <2>3
    <3> QED BY <1>1, <1>3, <2>3, <3>3, <3>4
  <2> QED BY <1>1, <2>1, <2>2, <2>3
<1>4. CASE new > old /\ ~(old = lo /\ nlo = 1)
  <2>0. lo <= old
    BY <1>1
  <2>1. \A j \in D : lo <= ws[j]
    BY <1>1, <1>4, <2>0
  <2>2. CASE old = lo
    <3>1. \A j \in D : vs[j] = lo <=> ws[j] = lo \/ j = k
      BY <1>1, <1>4, <2>2
    <3>2. ws[k] # lo
      BY <1>1, <1>4, <2>2
    <3>3. nlo = Cardinality({j \in D : ws[j] = lo}) + 1
      <4> DEFINE U == {j \in D : vs[j] = lo}
                 W == {j \in D : ws[j] = lo}
      <4>1. U \in SUBSET D /\ W \in SUBSET D /\ \A j \in D : j \in U <=> j \in W \/ j = k
        BY <3>1
      <4>2. k \notin W
        BY <3>2
      <4>3. nlo = Cardinality(U)
        BY <1>1
      <4> HIDE DEF U, W
      <4>4. nlo = Cardinality(W) + 1
        BY <4>1, <4>2, <4>3, Counted
      <4> QED BY <4>4 DEF W
    <3>4. Cardinality({j \in D : ws[j] = lo}) \in Nat
      BY FS_Subset, FS_CardinalityType
    <3>5. Cardinality({j \in D : ws[j] = lo}) # 0
      <4> HIDE DEF ws
      <4> QED BY <1>4, <2>2, <3>3
    <3>6. \E j \in D : ws[j] = lo
      <4> HIDE DEF ws
      <4>1. {j \in D : ws[j] = lo} # {}
        BY <3>5, FS_EmptySet
      <4> QED BY <4>1
    <3>7. nlo - 1 = Cardinality({j \in D : ws[j] = lo})
      <4> HIDE DEF ws
      <4> QED BY <3>3, <3>4
    <3>8. LowIs(lo, nlo - 1, D, ws)
      <4> HIDE DEF ws
      <4> QED BY <1>1, <2>1, <3>6, <3>7 DEF LowIs
    <3> QED BY <1>1, <1>4, <2>2, <3>8
  <2>3. CASE old # lo
    <3>1. \A j \in D : ws[j] = lo <=> vs[j] = lo
      BY <1>1, <1>4, <2>0, <2>3
    <3>2. {j \in D : ws[j] = lo} = {j \in D : vs[j] = lo}
      BY <3>1
    <3>3. LowIs(lo, nlo, D, ws)
      <4> HIDE DEF ws
      <4> QED BY <1>1, <1>2, <2>1, <3>1, <3>2 DEF LowIs
    <3> QED BY <1>1, <1>4, <2>3, <3>3
  <2> QED BY <2>2, <2>3
<1> QED
  <2>1. (new < old) => ~(new > old)
    BY <1>1
  <2> HIDE DEF ws
  <2> QED BY <1>3, <1>4, <2>1 DEF ws

(* And where they are greatest, and how often.                        *)
HighIs(hi, nhi, D, vs) ==
    /\ hi \in Int /\ \E k \in D : vs[k] = hi
    /\ \A k \in D : hi >= vs[k]
    /\ nhi = Cardinality({k \in D : vs[k] = hi})

LEMMA HighEnd ==
    ASSUME NEW D, IsFiniteSet(D), NEW vs \in [D -> Int], NEW k \in D, NEW new \in Int,
           NEW hi, NEW nhi, HighIs(hi, nhi, D, vs)
    PROVE  LET ws == [vs EXCEPT ![k] = new] IN
           /\ new > vs[k] =>
                HighIs(IF new > hi THEN new ELSE hi,
                      IF new > hi THEN 1 ELSE IF new = hi THEN nhi + 1 ELSE nhi, D, ws)
           /\ new < vs[k] /\ ~(vs[k] = hi /\ nhi = 1) =>
                HighIs(hi, IF vs[k] = hi THEN nhi - 1 ELSE nhi, D, ws)
<1> DEFINE ws == [vs EXCEPT ![k] = new]
           old == vs[k]
<1>1. /\ hi \in Int /\ old \in Int /\ ws \in [D -> Int] /\ ws[k] = new
      /\ \A j \in D : vs[j] \in Int /\ hi >= vs[j]
      /\ \A j \in D : j # k => ws[j] = vs[j]
      /\ nhi = Cardinality({j \in D : vs[j] = hi})
  BY DEF HighIs
<1>2. PICK i \in D : vs[i] = hi
  BY DEF HighIs
<1>3. CASE new > old
  <2>1. CASE new > hi
    <3>1. \A j \in D : new >= ws[j] /\ (ws[j] = new => j = k)
      BY <1>1, <2>1
    <3>2. {j \in D : ws[j] = new} = {k}
      BY <1>1, <3>1
    <3>3. Cardinality({k}) = 1
      BY FS_Singleton
    <3>4. HighIs(new, 1, D, ws)
      <4> HIDE DEF ws
      <4> QED BY <1>1, <3>1, <3>2, <3>3 DEF HighIs
    <3> QED BY <1>1, <1>3, <2>1, <3>4
  <2>2. CASE new = hi
    <3>1. \A j \in D : hi >= ws[j]
      BY <1>1, <2>2
    <3>2. \A j \in D : ws[j] = hi <=> vs[j] = hi \/ j = k
      BY <1>1, <1>3, <2>2
    <3>3. Cardinality({j \in D : ws[j] = hi}) = nhi + 1
      <4> DEFINE U == {j \in D : vs[j] = hi}
                 W == {j \in D : ws[j] = hi}
      <4>1. U \in SUBSET D /\ W \in SUBSET D /\ \A j \in D : j \in W <=> j \in U \/ j = k
        BY <3>2
      <4>2. k \notin U
        BY <1>1, <1>3, <2>2
      <4>3. nhi = Cardinality(U)
        BY <1>1
      <4> HIDE DEF U, W
      <4>4. Cardinality(W) = nhi + 1
        BY <4>1, <4>2, <4>3, Counted
      <4> QED BY <4>4 DEF W
    <3>4. HighIs(hi, nhi + 1, D, ws)
      <4> HIDE DEF ws
      <4> QED BY <1>1, <2>2, <3>1, <3>3 DEF HighIs
    <3>5. ~(new > hi)
      BY <1>1, <2>2
    <3> QED BY <1>1, <1>3, <2>2, <3>4, <3>5
  <2>3. CASE hi > new
    <3>1. \A j \in D : hi >= ws[j]
      BY <1>1, <2>3
    <3>2. \A j \in D : ws[j] = hi <=> vs[j] = hi
      BY <1>1, <1>3, <2>3
    <3>3. HighIs(hi, nhi, D, ws)
      <4>1. {j \in D : ws[j] = hi} = {j \in D : vs[j] = hi}
        BY <3>2
      <4> HIDE DEF ws
      <4> QED BY <1>1, <1>2, <3>1, <3>2, <4>1 DEF HighIs
    <3>4. ~(new > hi) /\ new # hi
      BY <1>1, <2>3
    <3> QED BY <1>1, <1>3, <2>3, <3>3, <3>4
  <2> QED BY <1>1, <2>1, <2>2, <2>3
<1>4. CASE new < old /\ ~(old = hi /\ nhi = 1)
  <2>0. hi >= old
    BY <1>1
  <2>1. \A j \in D : hi >= ws[j]
    BY <1>1, <1>4, <2>0
  <2>2. CASE old = hi
    <3>1. \A j \in D : vs[j] = hi <=> ws[j] = hi \/ j = k
      BY <1>1, <1>4, <2>2
    <3>2. ws[k] # hi
      BY <1>1, <1>4, <2>2
    <3>3. nhi = Cardinality({j \in D : ws[j] = hi}) + 1
      <4> DEFINE U == {j \in D : vs[j] = hi}
                 W == {j \in D : ws[j] = hi}
      <4>1. U \in SUBSET D /\ W \in SUBSET D /\ \A j \in D : j \in U <=> j \in W \/ j = k
        BY <3>1
      <4>2. k \notin W
        BY <3>2
      <4>3. nhi = Cardinality(U)
        BY <1>1
      <4> HIDE DEF U, W
      <4>4. nhi = Cardinality(W) + 1
        BY <4>1, <4>2, <4>3, Counted
      <4> QED BY <4>4 DEF W
    <3>4. Cardinality({j \in D : ws[j] = hi}) \in Nat
      BY FS_Subset, FS_CardinalityType
    <3>5. Cardinality({j \in D : ws[j] = hi}) # 0
      <4> HIDE DEF ws
      <4> QED BY <1>4, <2>2, <3>3
    <3>6. \E j \in D : ws[j] = hi
      <4> HIDE DEF ws
      <4>1. {j \in D : ws[j] = hi} # {}
        BY <3>5, FS_EmptySet
      <4> QED BY <4>1
    <3>7. nhi - 1 = Cardinality({j \in D : ws[j] = hi})
      <4> HIDE DEF ws
      <4> QED BY <3>3, <3>4
    <3>8. HighIs(hi, nhi - 1, D, ws)
      <4> HIDE DEF ws
      <4> QED BY <1>1, <2>1, <3>6, <3>7 DEF HighIs
    <3> QED BY <1>1, <1>4, <2>2, <3>8
  <2>3. CASE old # hi
    <3>1. \A j \in D : ws[j] = hi <=> vs[j] = hi
      BY <1>1, <1>4, <2>0, <2>3
    <3>2. {j \in D : ws[j] = hi} = {j \in D : vs[j] = hi}
      BY <3>1
    <3>3. HighIs(hi, nhi, D, ws)
      <4> HIDE DEF ws
      <4> QED BY <1>1, <1>2, <2>1, <3>1, <3>2 DEF HighIs
    <3> QED BY <1>1, <1>4, <2>3, <3>3
  <2> QED BY <2>2, <2>3
<1> QED
  <2>1. (new > old) => ~(new < old)
    BY <1>1
  <2> HIDE DEF ws
  <2> QED BY <1>3, <1>4, <2>1 DEF ws

Spans == [lo : Int, hi : Int, nlo : Int, nhi : Int]

IsSpan(s, D, vs) ==
    /\ s \in Spans
    /\ LowIs(s.lo, s.nlo, D, vs) /\ HighIs(s.hi, s.nhi, D, vs)

(* A span kept by increments stays right until it asks for a fresh one.    *)
LEMMA SpanStep ==
    ASSUME NEW D, IsFiniteSet(D), NEW vs \in [D -> Int], NEW k \in D, NEW new \in Int,
           NEW s, IsSpan(s, D, vs)
    PROVE  \/ UpdateSpan(s, vs[k], new) = NoSpan
           \/ IsSpan(UpdateSpan(s, vs[k], new), D, [vs EXCEPT ![k] = new])
<1> DEFINE ws == [vs EXCEPT ![k] = new]
           old == vs[k]
           u == UpdateSpan(s, old, new)
<1>1. /\ LowIs(s.lo, s.nlo, D, vs) /\ HighIs(s.hi, s.nhi, D, vs)
      /\ s.lo \in Int /\ s.hi \in Int /\ s.nlo \in Int /\ s.nhi \in Int /\ old \in Int
  BY DEF IsSpan, Spans
<1>2. CASE new < old
  <2>1. CASE old = s.hi /\ s.nhi = 1
    BY <1>2, <2>1 DEF UpdateSpan
  <2>2. CASE ~(old = s.hi /\ s.nhi = 1)
    <3> DEFINE lo == IF new < s.lo THEN new ELSE s.lo
               nlo == IF new < s.lo THEN 1 ELSE IF new = s.lo THEN s.nlo + 1 ELSE s.nlo
               nhi == IF old = s.hi THEN s.nhi - 1 ELSE s.nhi
    <3>1. u = [lo |-> lo, nlo |-> nlo, hi |-> s.hi, nhi |-> nhi]
      BY <1>2, <2>2 DEF UpdateSpan
    <3>2. LowIs(lo, nlo, D, ws)
      BY <1>1, <1>2, LowEnd
    <3>3. HighIs(s.hi, nhi, D, ws)
      BY <1>1, <1>2, <2>2, HighEnd
    <3>4. lo \in Int /\ nlo \in Int /\ nhi \in Int
      BY <1>1
    <3> HIDE DEF lo, nlo, nhi, ws, u
    <3>5. u \in Spans /\ u.lo = lo /\ u.nlo = nlo /\ u.hi = s.hi /\ u.nhi = nhi
      BY <1>1, <3>1, <3>4 DEF Spans
    <3>6. IsSpan(u, D, ws)
      BY <3>2, <3>3, <3>5 DEF IsSpan
    <3> QED BY <3>6 DEF ws, u
  <2> QED BY <2>1, <2>2
<1>3. CASE new > old
  <2>1. CASE old = s.lo /\ s.nlo = 1
    BY <1>1, <1>3, <2>1 DEF UpdateSpan
  <2>2. CASE ~(old = s.lo /\ s.nlo = 1)
    <3> DEFINE hi == IF new > s.hi THEN new ELSE s.hi
               nhi == IF new > s.hi THEN 1 ELSE IF new = s.hi THEN s.nhi + 1 ELSE s.nhi
               nlo == IF old = s.lo THEN s.nlo - 1 ELSE s.nlo
    <3>1. u = [lo |-> s.lo, nlo |-> nlo, hi |-> hi, nhi |-> nhi]
      BY <1>1, <1>3, <2>2 DEF UpdateSpan
    <3>2. HighIs(hi, nhi, D, ws)
      BY <1>1, <1>3, HighEnd
    <3>3. LowIs(s.lo, nlo, D, ws)
      BY <1>1, <1>3, <2>2, LowEnd
    <3>4. hi \in Int /\ nlo \in Int /\ nhi \in Int
      BY <1>1
    <3> HIDE DEF hi, nlo, nhi, ws, u
    <3>5. u \in Spans /\ u.lo = s.lo /\ u.nlo = nlo /\ u.hi = hi /\ u.nhi = nhi
      BY <1>1, <3>1, <3>4 DEF Spans
    <3>6. IsSpan(u, D, ws)
      BY <3>2, <3>3, <3>5 DEF IsSpan
    <3> QED BY <3>6 DEF ws, u
  <2> QED BY <2>1, <2>2
<1>4. CASE new = old
  <2>1. u = s /\ ws = vs
    BY <1>1, <1>4 DEF UpdateSpan
  <2> QED BY <2>1
<1> QED BY <1>1, <1>2, <1>3, <1>4

LEMMA Extremes ==
    ASSUME NEW S, S # {}, NEW n \in Nat, S \subseteq 0 .. n
    PROVE  /\ Min(S) \in S /\ \A x \in S : Min(S) <= x
           /\ Max(S) \in S /\ \A x \in S : x <= Max(S)
<1>1. S \subseteq Nat /\ \A x \in S : x \in Nat /\ x <= n
  OBVIOUS
<1>2. \E x \in S : \A y \in S : x <= y
  BY <1>1, LeastNatural
<1> DEFINE T == {n - x : x \in S}
<1>3. T \subseteq Nat /\ T # {}
  <2>1. \A x \in S : n - x \in Nat
    BY <1>1
  <2>2. \E x \in S : n - x \in T
    OBVIOUS
  <2> QED BY <2>1, <2>2
<1>4. PICK t \in T : \A k \in T : t <= k
  <2> HIDE DEF T
  <2> QED BY <1>3, LeastNatural
<1>5. PICK x \in S : t = n - x
  OBVIOUS
<1>6. ASSUME NEW y \in S PROVE x >= y
  <2>1. n - y \in T
    OBVIOUS
  <2>2. n - x <= n - y
    BY <1>4, <1>5, <2>1
  <2> QED BY <1>1, <2>2
<1>7. Min(S) \in S /\ \A y \in S : Min(S) <= y
  BY <1>2 DEF Min
<1>8. Max(S) \in S /\ \A y \in S : Max(S) >= y
  BY <1>6 DEF Max
<1>9. \A y \in S : y <= Max(S)
  BY <1>1, <1>8
<1> QED BY <1>7, <1>8, <1>9

(* SpanOf is the span, and the only one.                                   *)
LEMMA SpanOfIsSpan ==
    ASSUME NEW D, IsFiniteSet(D), D # {}, NEW n \in Nat, NEW vs \in [D -> 1 .. n]
    PROVE  /\ IsSpan(SpanOf(vs), D, vs)
           /\ \A s : IsSpan(s, D, vs) => s = SpanOf(vs)
<1> DEFINE V == {vs[k] : k \in D}
           lo == Min(V)
           hi == Max(V)
<1>1. V # {} /\ V \subseteq 0 .. n /\ DOMAIN vs = D
  OBVIOUS
<1>2. lo \in V /\ hi \in V /\ \A x \in V : lo <= x /\ x <= hi
  <2> HIDE DEF V
  <2> QED BY <1>1, Extremes
<1>3. /\ lo \in Int /\ hi \in Int /\ (\E k \in D : vs[k] = lo) /\ (\E k \in D : vs[k] = hi)
      /\ \A k \in D : lo <= vs[k] /\ vs[k] <= hi /\ hi >= vs[k]
  <2> HIDE DEF lo, hi
  <2>1. V \subseteq Int
    BY <1>1
  <2>2. \A k \in D : vs[k] \in V /\ vs[k] \in Int
    OBVIOUS
  <2>3. (\E k \in D : vs[k] = lo) /\ (\E k \in D : vs[k] = hi)
    BY <1>2
  <2> HIDE DEF V
  <2>4. lo \in Int /\ hi \in Int
    BY <1>2, <2>1
  <2> QED BY <1>2, <2>2, <2>3, <2>4
<1> DEFINE nlo == Cardinality({k \in D : vs[k] = lo})
           nhi == Cardinality({k \in D : vs[k] = hi})
<1>4. SpanOf(vs) = [lo |-> lo, hi |-> hi, nlo |-> nlo, nhi |-> nhi]
  BY <1>1 DEF SpanOf
<1>5. nlo \in Int /\ nhi \in Int
  <2> HIDE DEF lo, hi
  <2> QED BY FS_Subset, FS_CardinalityType
<1>6. LowIs(lo, nlo, D, vs) /\ HighIs(hi, nhi, D, vs)
  <2> HIDE DEF lo, hi
  <2> QED BY <1>3 DEF LowIs, HighIs
<1> HIDE DEF lo, hi, nlo, nhi
<1>7. IsSpan(SpanOf(vs), D, vs)
  BY <1>3, <1>4, <1>5, <1>6 DEF IsSpan, Spans
<1>8. ASSUME NEW s, IsSpan(s, D, vs) PROVE s = SpanOf(vs)
  <2>1. s = [lo |-> s.lo, hi |-> s.hi, nlo |-> s.nlo, nhi |-> s.nhi]
    BY <1>8 DEF IsSpan, Spans
  <2>2. LowIs(s.lo, s.nlo, D, vs) /\ HighIs(s.hi, s.nhi, D, vs)
    BY <1>8 DEF IsSpan
  <2>3. s.lo = lo
    BY <1>3, <2>2 DEF LowIs
  <2>4. s.hi = hi
    BY <1>3, <2>2 DEF HighIs
  <2>5. s.nlo = nlo /\ s.nhi = nhi
    BY <2>2, <2>3, <2>4 DEF LowIs, HighIs, nlo, nhi
  <2> QED BY <1>4, <2>1, <2>3, <2>4, <2>5
<1> QED BY <1>7, <1>8

(* Coordinates on the grid, which is all the costs look at.                *)
OnGrid(l) ==
    /\ l \in [Blocks -> Triples]
    /\ \A b \in Blocks : l[b][1] \in 0 .. NX + 1 /\ l[b][2] \in 0 .. NY + 1

LEMMA PinFacts ==
    ASSUME NEW n \in Nets
    PROVE  /\ Len(NetPins[n]) \in Nat /\ Len(NetPins[n]) >= 2
           /\ IsFiniteSet(Pins(n)) /\ Pins(n) # {} /\ 1 \in Pins(n)
           /\ \A k \in Pins(n) : NetPins[n][k].blk \in Blocks /\ NetPins[n][k].height \in Nat
<1>1. NetPins[n] \in Seq([blk : Blocks, height : Nat])
  BY NetsAssumption DEF Nets
<1>2. Len(NetPins[n]) \in Nat /\ Len(NetPins[n]) >= 2
  BY <1>1, NetsAssumption
<1>3. \A k \in Pins(n) : NetPins[n][k] \in [blk : Blocks, height : Nat]
  <2> DEFINE s == NetPins[n]
  <2>1. Pins(n) = 1 .. Len(s) /\ s \in Seq([blk : Blocks, height : Nat])
    BY <1>1 DEF Pins
  <2> HIDE DEF s
  <2>2. \A k \in 1 .. Len(s) : s[k] \in [blk : Blocks, height : Nat]
    BY <2>1, ElementOfSeq
  <2> QED BY <2>1, <2>2 DEF s
<1>4. IsFiniteSet(Pins(n)) /\ 1 \in Pins(n)
  <2> DEFINE m == Len(NetPins[n])
  <2>1. Pins(n) = 1 .. m /\ m \in Nat /\ m >= 2
    BY <1>2 DEF Pins
  <2> HIDE DEF m
  <2>2. m \in Int /\ 1 \in Int /\ 1 \in 1 .. m
    BY <2>1
  <2>3. IsFiniteSet(1 .. m)
    BY <2>2, FS_Interval
  <2> QED BY <2>1, <2>2, <2>3
<1> QED BY <1>2, <1>3, <1>4

LEMMA ClipFacts ==
    ASSUME NEW n \in Nat \ {0}, NEW v \in Int
    PROVE  /\ Clip(v, n) \in 1 .. n
           /\ \A w \in Int : v <= w => Clip(v, n) <= Clip(w, n)
BY DEF Clip

PinXs(l, n) == [k \in Pins(n) |-> PinX(l, n, k)]
PinYs(l, n) == [k \in Pins(n) |-> PinY(l, n, k)]

LEMMA PinValues ==
    ASSUME NEW l, OnGrid(l), NEW n \in Nets
    PROVE  /\ \A k \in Pins(n) :
                /\ At(l, n, k)[1] \in Nat /\ At(l, n, k)[2] + NetPins[n][k].height \in Nat
                /\ PinX(l, n, k) \in 1 .. NX /\ PinY(l, n, k) \in 1 .. NY
           /\ PinXs(l, n) \in [Pins(n) -> 1 .. NX] /\ PinYs(l, n) \in [Pins(n) -> 1 .. NY]
<1>1. ASSUME NEW k \in Pins(n)
      PROVE  /\ At(l, n, k)[1] \in Nat /\ At(l, n, k)[2] + NetPins[n][k].height \in Nat
             /\ PinX(l, n, k) \in 1 .. NX /\ PinY(l, n, k) \in 1 .. NY
  <2> DEFINE h == NetPins[n][k].height
             x == At(l, n, k)[1]
             y == At(l, n, k)[2]
  <2>1. NetPins[n][k].blk \in Blocks /\ h \in Nat
    BY PinFacts
  <2>2. x \in 0 .. NX + 1 /\ y \in 0 .. NY + 1 /\ NX \in Nat \ {0} /\ NY \in Nat \ {0}
    BY <2>1, GridAssumption DEF OnGrid, At
  <2> HIDE DEF h, x, y
  <2>3. x \in Nat /\ x \in Int /\ y + h \in Nat /\ y + h \in Int
    BY <2>1, <2>2
  <2>4. Clip(x, NX) \in 1 .. NX /\ Clip(y + h, NY) \in 1 .. NY
    BY <2>2, <2>3, ClipFacts
  <2> QED BY <2>3, <2>4 DEF PinX, PinY, h, x, y
<1> QED BY <1>1 DEF PinXs, PinYs

(* A box got from scratch has the right spans.                             *)
LEMMA ScratchFacts ==
    ASSUME NEW l, OnGrid(l), NEW n \in Nets
    PROVE  LET b == get_bb_from_scratch(l, n) IN
           /\ b = [x |-> SpanOf(PinXs(l, n)), y |-> SpanOf(PinYs(l, n))]
           /\ IsSpan(b.x, Pins(n), PinXs(l, n)) /\ IsSpan(b.y, Pins(n), PinYs(l, n))
           /\ \A s, t : IsSpan(s, Pins(n), PinXs(l, n)) /\ IsSpan(t, Pins(n), PinYs(l, n))
                            => [x |-> s, y |-> t] = b
<1> DEFINE b == get_bb_from_scratch(l, n)
<1>1. b = [x |-> SpanOf(PinXs(l, n)), y |-> SpanOf(PinYs(l, n))]
  BY DEF get_bb_from_scratch, PinXs, PinYs
<1>2. /\ PinXs(l, n) \in [Pins(n) -> 1 .. NX] /\ PinYs(l, n) \in [Pins(n) -> 1 .. NY]
      /\ NX \in Nat /\ NY \in Nat
  BY PinValues, GridAssumption
<1>3. IsFiniteSet(Pins(n)) /\ Pins(n) # {}
  BY PinFacts
<1>4. /\ IsSpan(SpanOf(PinXs(l, n)), Pins(n), PinXs(l, n))
      /\ \A s : IsSpan(s, Pins(n), PinXs(l, n)) => s = SpanOf(PinXs(l, n))
  BY <1>2, <1>3, SpanOfIsSpan
<1>5. /\ IsSpan(SpanOf(PinYs(l, n)), Pins(n), PinYs(l, n))
      /\ \A s : IsSpan(s, Pins(n), PinYs(l, n)) => s = SpanOf(PinYs(l, n))
  BY <1>2, <1>3, SpanOfIsSpan
<1>6. b.x = SpanOf(PinXs(l, n)) /\ b.y = SpanOf(PinYs(l, n))
  BY <1>1
<1> HIDE DEF b
<1> QED BY <1>1, <1>4, <1>5, <1>6 DEF b

LEMMA Bounded ==
    ASSUME NEW S, IsFiniteSet(S), S \subseteq Nat
    PROVE  \E n \in Nat : S \subseteq 0 .. n
<1> DEFINE P == {T \in SUBSET S : \E n \in Nat : T \subseteq 0 .. n}
<1>1. ASSUME NEW T \in SUBSET S, \A x \in T : T \ {x} \in P PROVE T \in P
  <2>1. CASE T = {}
    <3>1. T \subseteq 0 .. 0
      BY <2>1
    <3> QED BY <3>1
  <2>2. CASE T # {}
    <3>1. PICK x : x \in T
      BY <2>2
    <3>2. PICK n \in Nat : T \ {x} \subseteq 0 .. n
      BY <1>1, <3>1
    <3>3. x \in Nat
      BY <3>1
    <3>4. T \subseteq 0 .. n + x
      <4>1. ASSUME NEW y \in T PROVE y \in 0 .. n + x
        <5>1. CASE y = x
          BY <3>2, <3>3, <5>1
        <5>2. CASE y # x
          <6>1. y \in 0 .. n
            BY <3>2, <5>2
          <6> QED BY <3>3, <6>1
        <5> QED BY <5>1, <5>2
      <4> QED BY <4>1
    <3>5. n + x \in Nat
      BY <3>3
    <3> QED BY <3>4, <3>5
  <2> QED BY <2>1, <2>2
<1>2. \A T \in SUBSET S : T \in P
  <2> HIDE DEF P
  <2> QED BY <1>1, PartByPart
<1> QED BY <1>2

(* Clipping the ends is the same as taking the ends of what is clipped.    *)
LEMMA ClippedEnds ==
    ASSUME NEW D, IsFiniteSet(D), D # {}, NEW us \in [D -> Nat], NEW n \in Nat \ {0},
           NEW vs \in [D -> 1 .. n], \A k \in D : vs[k] = Clip(us[k], n),
           NEW S, S = {us[k] : k \in D}
    PROVE  SpanOf(vs).lo = Clip(Min(S), n) /\ SpanOf(vs).hi = Clip(Max(S), n)
<1>1. IsFiniteSet(S) /\ S \subseteq Nat /\ S # {}
  <2>1. us \in Surjection(D, S)
    BY DEF Surjection
  <2>2. S # {} /\ S \subseteq Nat /\ IsFiniteSet(S)
    BY <2>1, FS_Surjection
  <2> QED BY <2>1, <2>2
<1>2. PICK m \in Nat : S \subseteq 0 .. m
  BY <1>1, Bounded
<1>3. /\ Min(S) \in S /\ \A x \in S : Min(S) <= x
      /\ Max(S) \in S /\ \A x \in S : x <= Max(S)
  BY <1>1, <1>2, Extremes
<1>4. IsSpan(SpanOf(vs), D, vs)
  BY SpanOfIsSpan
<1> DEFINE s == SpanOf(vs)
           lo == Min(S)
           hi == Max(S)
<1>5. LowIs(s.lo, s.nlo, D, vs) /\ HighIs(s.hi, s.nhi, D, vs) /\ s.lo \in Int /\ s.hi \in Int
  BY <1>4 DEF IsSpan, Spans
<1>6. PICK i \in D : us[i] = lo
  BY <1>3
<1>7. PICK j \in D : us[j] = hi
  BY <1>3
<1>8. \A k \in D : us[k] \in Int /\ lo <= us[k] /\ us[k] <= hi /\ lo \in Int /\ hi \in Int
  BY <1>1, <1>3
<1> HIDE DEF s, lo, hi
<1>9. \A k \in D : Clip(lo, n) <= vs[k] /\ vs[k] <= Clip(hi, n) /\ vs[k] \in Int
  BY <1>8, ClipFacts
<1>10. vs[i] = Clip(lo, n) /\ vs[j] = Clip(hi, n) /\ Clip(lo, n) \in Int /\ Clip(hi, n) \in Int
  BY <1>6, <1>7, <1>8, ClipFacts
<1>11. PICK a \in D : vs[a] = s.lo /\ s.lo <= vs[i]
  BY <1>5 DEF LowIs
<1>12. PICK c \in D : vs[c] = s.hi /\ s.hi >= vs[j]
  BY <1>5 DEF HighIs
<1>13. s.lo = Clip(lo, n)
  BY <1>5, <1>9, <1>10, <1>11
<1>14. s.hi = Clip(hi, n)
  BY <1>5, <1>9, <1>10, <1>12
<1> QED BY <1>13, <1>14 DEF s, lo, hi

(* The simple box of a small net is right where it says something.         *)
LEMMA SmallBox ==
    ASSUME NEW l, OnGrid(l), NEW n \in Nets
    PROVE  LET b == get_non_updateable_bb(l, n)
               c == get_bb_from_scratch(l, n)
           IN  <<b.x.lo, b.x.hi, b.y.lo, b.y.hi>> = <<c.x.lo, c.x.hi, c.y.lo, c.y.hi>>
<1> DEFINE b == get_non_updateable_bb(l, n)
           c == get_bb_from_scratch(l, n)
           D == Pins(n)
           xs == [k \in D |-> At(l, n, k)[1]]
           ys == [k \in D |-> At(l, n, k)[2] + NetPins[n][k].height]
           X == {At(l, n, k)[1] : k \in D}
           Y == {At(l, n, k)[2] + NetPins[n][k].height : k \in D}
<1>1. IsFiniteSet(D) /\ D # {} /\ NX \in Nat \ {0} /\ NY \in Nat \ {0}
  BY PinFacts, GridAssumption
<1>2. /\ xs \in [D -> Nat] /\ PinXs(l, n) \in [D -> 1 .. NX]
      /\ \A k \in D : PinXs(l, n)[k] = Clip(xs[k], NX)
  BY PinValues DEF PinXs, PinX
<1>3. /\ ys \in [D -> Nat] /\ PinYs(l, n) \in [D -> 1 .. NY]
      /\ \A k \in D : PinYs(l, n)[k] = Clip(ys[k], NY)
  BY PinValues DEF PinYs, PinY
<1>4. X = {xs[k] : k \in D} /\ Y = {ys[k] : k \in D}
  OBVIOUS
<1>5. /\ b.x.lo = Clip(Min(X), NX) /\ b.x.hi = Clip(Max(X), NX)
      /\ b.y.lo = Clip(Min(Y), NY) /\ b.y.hi = Clip(Max(Y), NY)
  BY DEF get_non_updateable_bb, NoSpan
<1>6. c.x = SpanOf(PinXs(l, n)) /\ c.y = SpanOf(PinYs(l, n))
  BY DEF get_bb_from_scratch, PinXs, PinYs
<1> HIDE DEF b, c, D, xs, ys, X, Y
<1>7. c.x.lo = Clip(Min(X), NX) /\ c.x.hi = Clip(Max(X), NX)
  BY <1>1, <1>2, <1>4, <1>6, ClippedEnds
<1>8. c.y.lo = Clip(Min(Y), NY) /\ c.y.hi = Clip(Max(Y), NY)
  BY <1>1, <1>3, <1>4, <1>6, ClippedEnds
<1> QED BY <1>5, <1>7, <1>8 DEF b, c

NetCost(l, n) == get_net_cost(n, get_bb_from_scratch(l, n))

LEMMA CostFacts ==
    ASSUME NEW l, OnGrid(l), NEW n \in Nets
    PROVE  /\ NetCost(l, n) \in Nat
           /\ \A b : SameBox(n, b, get_bb_from_scratch(l, n)) => get_net_cost(n, b) = NetCost(l, n)
<1> DEFINE c == get_bb_from_scratch(l, n)
<1>1. IsSpan(c.x, Pins(n), PinXs(l, n)) /\ IsSpan(c.y, Pins(n), PinYs(l, n))
  BY ScratchFacts
<1>2. Crossing[n] \in Nat
  BY CostsAssumption
<1> HIDE DEF c
<1>3. ASSUME NEW s, NEW D, NEW N, NEW vs \in [D -> 1 .. N], IsSpan(s, D, vs) PROVE s.hi - s.lo + 1 \in Nat
  <2>1. PICK k \in D : vs[k] = s.lo
    BY <1>3 DEF IsSpan, LowIs
  <2>2. s.lo \in Int /\ s.hi \in Int /\ s.hi >= s.lo
    BY <1>3, <2>1 DEF IsSpan, HighIs, Spans
  <2> QED BY <2>2
<1>4. c.x.hi - c.x.lo + 1 \in Nat /\ c.y.hi - c.y.lo + 1 \in Nat
  BY <1>1, <1>3, PinValues
<1>5. \A i, j, k \in Nat : k * (i + j) \in Nat
  OBVIOUS
<1>6. Crossing[n] * ((c.x.hi - c.x.lo + 1) + (c.y.hi - c.y.lo + 1)) \in Nat
  BY <1>2, <1>4, <1>5
<1>7. \A b : SameBox(n, b, c) => get_net_cost(n, b) = get_net_cost(n, c)
  BY DEF SameBox, get_net_cost
<1> QED BY <1>6, <1>7 DEF NetCost, get_net_cost, c

(* The recursion of UpdatedNet has a solution.                             *)
NetStep(n, mv, mp, l, s, k) ==
    IF <<n, k>> \notin mp THEN s
    ELSE IF Large(n) THEN update_bb(s, l, n, k, MoveOf(mv, <<n, k>>))
    ELSE [s EXCEPT !.new = get_non_updateable_bb(l, n)]

NetSteps(st, D, n, mv, mp, l) ==
    st = [k \in D |-> IF k = 0 THEN [new |-> ts_box[n], flag |-> bb_updated_before[n]]
                      ELSE NetStep(n, mv, mp, l, st[k - 1], k)]

LEMMA NetStepsExist ==
    ASSUME NEW n, NEW mv, NEW mp, NEW l, NEW m \in Nat
    PROVE  \E st : NetSteps(st, 0 .. m, n, mv, mp, l)
<1> DEFINE Done == {k \in Nat : \E st : NetSteps(st, 0 .. k, n, mv, mp, l)}
           a == [new |-> ts_box[n], flag |-> bb_updated_before[n]]
           step(s, k) == NetStep(n, mv, mp, l, s, k)
<1>1. 0 \in Done
  <2> DEFINE st == [k \in 0 .. 0 |-> a]
  <2>1. \A k \in 0 .. 0 : k = 0
    OBVIOUS
  <2>2. st = [k \in 0 .. 0 |-> IF k = 0 THEN a ELSE step(st[k - 1], k)]
    <3> HIDE DEF a, step
    <3> QED BY <2>1
  <2>3. NetSteps(st, 0 .. 0, n, mv, mp, l)
    <3> HIDE DEF st
    <3> QED BY <2>2 DEF NetSteps
  <2> QED
    <3> HIDE DEF st
    <3> QED BY <2>3
<1>2. ASSUME NEW k \in Nat, k \in Done PROVE k + 1 \in Done
  <2>1. PICK g : NetSteps(g, 0 .. k, n, mv, mp, l)
    BY <1>2
  <2> DEFINE value(j) == IF j = 0 THEN a ELSE step(g[j - 1], j)
             h == [j \in 0 .. k + 1 |-> value(j)]
  <2>2. \A j \in 0 .. k : g[j] = value(j)
    <3>1. g = [j \in 0 .. k |-> value(j)]
      BY <2>1 DEF NetSteps
    <3> HIDE DEF value
    <3> QED BY <3>1
  <2>3. \A j \in 0 .. k + 1 : j # 0 => j - 1 \in 0 .. k /\ j - 1 \in 0 .. k + 1
    OBVIOUS
  <2>4. \A j \in 0 .. k + 1 : j # 0 => h[j - 1] = g[j - 1]
    <3> HIDE DEF value
    <3> QED BY <2>2, <2>3
  <2>5. h = [j \in 0 .. k + 1 |-> IF j = 0 THEN a ELSE step(h[j - 1], j)]
    <3>1. \A j \in 0 .. k + 1 : value(j) = IF j = 0 THEN a ELSE step(h[j - 1], j)
      <4> HIDE DEF h, a, step
      <4> QED BY <2>4
    <3>2. h = [j \in 0 .. k + 1 |-> value(j)]
      OBVIOUS
    <3> HIDE DEF h, a, step, value
    <3> QED BY <3>1, <3>2
  <2>6. NetSteps(h, 0 .. k + 1, n, mv, mp, l)
    <3> HIDE DEF h
    <3> QED BY <2>5 DEF NetSteps
  <2> QED
    <3> HIDE DEF h
    <3> QED BY <2>6
<1>3. Nat \subseteq Done
  <2> HIDE DEF Done
  <2> QED BY <1>1, <1>2, NaturalsFromZero
<1> QED BY <1>3

LEMMA UpdatedNetSteps ==
    ASSUME NEW n \in Nets, NEW mv, NEW mp, NEW l
    PROVE  \E st : /\ st[0] = [new |-> ts_box[n], flag |-> bb_updated_before[n]]
                   /\ \A k \in Pins(n) : st[k] = NetStep(n, mv, mp, l, st[k - 1], k)
                   /\ UpdatedNet(n, mv, mp, l) = st[Len(NetPins[n])]
<1> DEFINE N == Len(NetPins[n])
           st == CHOOSE g : NetSteps(g, 0 .. N, n, mv, mp, l)
           a == [new |-> ts_box[n], flag |-> bb_updated_before[n]]
           value(k) == IF k = 0 THEN a ELSE NetStep(n, mv, mp, l, st[k - 1], k)
<1>1. N \in Nat
  BY PinFacts
<1>2. NetSteps(st, 0 .. N, n, mv, mp, l)
  <2> HIDE DEF N
  <2> QED BY <1>1, NetStepsExist
<1>3. UpdatedNet(n, mv, mp, l) = st[N]
  BY DEF UpdatedNet, NetSteps, NetStep
<1> HIDE DEF st
<1>4. \A k \in 0 .. N : st[k] = value(k)
  <2>1. st = [k \in 0 .. N |-> value(k)]
    BY <1>2 DEF NetSteps
  <2> HIDE DEF value, N
  <2> QED BY <2>1
<1>5. \A k \in Pins(n) : k \in 0 .. N /\ k # 0
  BY <1>1 DEF Pins
<1>6. 0 \in 0 .. N
  BY <1>1
<1> QED BY <1>3, <1>4, <1>5, <1>6

(* Moves mv lead from locations o to l.                                    *)
LeadsTo(mv, o, l) ==
    /\ \A m \in mv : m.blk \in Blocks /\ m.old = o[m.blk] /\ m.new = l[m.blk]
    /\ \A b \in Blocks : (\A m \in mv : m.blk # b) => l[b] = o[b]

LEMMA PinMoves ==
    ASSUME NEW mv, NEW o, NEW l, LeadsTo(mv, o, l), NEW n \in Nets, NEW k \in Pins(n)
    PROVE  /\ <<n, k>> \notin MovedPins(mv) => PinX(l, n, k) = PinX(o, n, k) /\ PinY(l, n, k) = PinY(o, n, k)
           /\ <<n, k>> \in MovedPins(mv) =>
                LET m == MoveOf(mv, <<n, k>>)
                    h == NetPins[n][k].height
                IN  /\ Clip(m.old[1], NX) = PinX(o, n, k) /\ Clip(m.new[1], NX) = PinX(l, n, k)
                    /\ Clip(m.old[2] + h, NY) = PinY(o, n, k) /\ Clip(m.new[2] + h, NY) = PinY(l, n, k)
<1> DEFINE b == NetPins[n][k].blk
<1>1. BlockOf(<<n, k>>) = b /\ b \in Blocks
  BY PinFacts DEF BlockOf
<1>2. <<n, k>> \in AllPins
  BY DEF AllPins
<1>3. <<n, k>> \in MovedPins(mv) <=> \E m \in mv : m.blk = b
  BY <1>1, <1>2 DEF MovedPins
<1>4. CASE <<n, k>> \notin MovedPins(mv)
  <2>1. l[b] = o[b]
    BY <1>1, <1>3, <1>4 DEF LeadsTo
  <2> QED BY <1>4, <2>1 DEF PinX, PinY, At
<1>5. CASE <<n, k>> \in MovedPins(mv)
  <2> DEFINE m == MoveOf(mv, <<n, k>>)
  <2>1. m \in mv /\ m.blk = b
    BY <1>1, <1>3, <1>5 DEF MoveOf
  <2>2. m.old = o[b] /\ m.new = l[b]
    BY <2>1 DEF LeadsTo
  <2> QED BY <1>5, <2>2 DEF PinX, PinY, At
<1> QED BY <1>4, <1>5

(* Where the pins are when the first k of a net have been looked at.       *)
PartXs(l, o, n, k) == [j \in Pins(n) |-> IF j <= k THEN PinX(l, n, j) ELSE PinX(o, n, j)]
PartYs(l, o, n, k) == [j \in Pins(n) |-> IF j <= k THEN PinY(l, n, j) ELSE PinY(o, n, j)]

(* What update_bb has made of a box by then.                               *)
Midway(s, n, mp, l, o, k) ==
    \/ /\ s.flag = "NOT_UPDATED_YET"
       /\ \A j \in 1 .. k : <<n, j>> \notin mp
    \/ /\ s.flag = "UPDATED_ONCE"
       /\ IsSpan(s.new.x, Pins(n), PartXs(l, o, n, k)) /\ IsSpan(s.new.y, Pins(n), PartYs(l, o, n, k))
       /\ s.new = [x |-> s.new.x, y |-> s.new.y]
    \/ /\ s.flag = "GOT_FROM_SCRATCH"
       /\ s.new = get_bb_from_scratch(l, n)

LEMMA PartFacts ==
    ASSUME NEW n \in Nets, NEW l, NEW o, OnGrid(l), OnGrid(o), NEW k \in Pins(n)
    PROVE  /\ PartXs(l, o, n, k - 1) \in [Pins(n) -> Int] /\ PartYs(l, o, n, k - 1) \in [Pins(n) -> Int]
           /\ PartXs(l, o, n, k) = [PartXs(l, o, n, k - 1) EXCEPT ![k] = PinX(l, n, k)]
           /\ PartYs(l, o, n, k) = [PartYs(l, o, n, k - 1) EXCEPT ![k] = PinY(l, n, k)]
           /\ PartXs(l, o, n, k - 1)[k] = PinX(o, n, k) /\ PartYs(l, o, n, k - 1)[k] = PinY(o, n, k)
           /\ PinX(l, n, k) \in Int /\ PinY(l, n, k) \in Int
<1>1. \A j \in Pins(n) : /\ PinX(l, n, j) \in Int /\ PinY(l, n, j) \in Int
                         /\ PinX(o, n, j) \in Int /\ PinY(o, n, j) \in Int
  <2>1. \A j \in Pins(n) : /\ PinX(l, n, j) \in 1 .. NX /\ PinY(l, n, j) \in 1 .. NY
                           /\ PinX(o, n, j) \in 1 .. NX /\ PinY(o, n, j) \in 1 .. NY
    BY PinValues
  <2> QED BY <2>1
<1>2. \A j \in Pins(n) : j \in Int /\ k \in Int /\ (j <= k <=> j <= k - 1 \/ j = k) /\ ~(k <= k - 1)
  BY PinFacts DEF Pins
<1> QED BY <1>1, <1>2 DEF PartXs, PartYs

LEMMA MidwayStep ==
    ASSUME NEW n \in Nets, Large(n), NEW l, NEW o, OnGrid(l), OnGrid(o),
           NEW mv, LeadsTo(mv, o, l), box[n] = get_bb_from_scratch(o, n),
           NEW k \in Pins(n), NEW s, Midway(s, n, MovedPins(mv), l, o, k - 1)
    PROVE  Midway(NetStep(n, mv, MovedPins(mv), l, s, k), n, MovedPins(mv), l, o, k)
<1> DEFINE mp == MovedPins(mv)
           t == NetStep(n, mv, mp, l, s, k)
           X(j) == PartXs(l, o, n, j)
           Y(j) == PartYs(l, o, n, j)
<1>1. /\ X(k - 1) \in [Pins(n) -> Int] /\ Y(k - 1) \in [Pins(n) -> Int]
      /\ X(k) = [X(k - 1) EXCEPT ![k] = PinX(l, n, k)]
      /\ Y(k) = [Y(k - 1) EXCEPT ![k] = PinY(l, n, k)]
      /\ X(k - 1)[k] = PinX(o, n, k) /\ Y(k - 1)[k] = PinY(o, n, k)
      /\ PinX(l, n, k) \in Int /\ PinY(l, n, k) \in Int
  BY PartFacts
<1>2. k \in Nat /\ k >= 1 /\ \A j \in 1 .. k : j \in 1 .. k - 1 \/ j = k
  BY PinFacts DEF Pins
<1>3. CASE <<n, k>> \notin mp
  <2>1. t = s
    BY <1>3 DEF NetStep
  <2>2. PinX(l, n, k) = PinX(o, n, k) /\ PinY(l, n, k) = PinY(o, n, k)
    BY <1>3, PinMoves
  <2> HIDE DEF X, Y
  <2>3. X(k) = X(k - 1) /\ Y(k) = Y(k - 1)
    BY <1>1, <2>2
  <2>4. s.flag = "NOT_UPDATED_YET" /\ (\A j \in 1 .. k - 1 : <<n, j>> \notin mp)
            => \A j \in 1 .. k : <<n, j>> \notin mp
    BY <1>2, <1>3
  <2> QED BY <2>1, <2>3, <2>4 DEF Midway, X, Y
<1>4. CASE <<n, k>> \in mp
  <2>1. t = update_bb(s, l, n, k, MoveOf(mv, <<n, k>>))
    BY <1>4 DEF NetStep
  <2> DEFINE cur == IF s.flag = "NOT_UPDATED_YET" THEN box[n] ELSE s.new
             x == UpdateSpan(cur.x, PinX(o, n, k), PinX(l, n, k))
             y == UpdateSpan(cur.y, PinY(o, n, k), PinY(l, n, k))
  <2>2. t = IF s.flag = "GOT_FROM_SCRATCH" THEN s
            ELSE IF x = NoSpan \/ y = NoSpan
            THEN [new |-> get_bb_from_scratch(l, n), flag |-> "GOT_FROM_SCRATCH"]
            ELSE [new |-> [x |-> x, y |-> y], flag |-> "UPDATED_ONCE"]
    BY <1>4, <2>1, PinMoves DEF update_bb
  <2>3. CASE s.flag = "GOT_FROM_SCRATCH"
    <3>1. t = s /\ s.new = get_bb_from_scratch(l, n)
      BY <2>2, <2>3 DEF Midway
    <3> QED BY <2>3, <3>1 DEF Midway
  <2>4. CASE s.flag # "GOT_FROM_SCRATCH"
    <3>1. IsSpan(cur.x, Pins(n), X(k - 1)) /\ IsSpan(cur.y, Pins(n), Y(k - 1))
      <4>1. CASE s.flag = "NOT_UPDATED_YET"
        <5>1. \A j \in 1 .. k - 1 : <<n, j>> \notin mp
          BY <4>1 DEF Midway
        <5>2. \A j \in Pins(n) : j <= k - 1 => j \in 1 .. k - 1
          BY <1>2, PinFacts DEF Pins
        <5>3. \A j \in Pins(n) : j <= k - 1 => PinX(l, n, j) = PinX(o, n, j) /\ PinY(l, n, j) = PinY(o, n, j)
          <6>1. ASSUME NEW j \in Pins(n), j <= k - 1
                PROVE  PinX(l, n, j) = PinX(o, n, j) /\ PinY(l, n, j) = PinY(o, n, j)
            <7>1. <<n, j>> \notin MovedPins(mv)
              BY <5>1, <5>2, <6>1
            <7> QED BY <7>1, PinMoves
          <6> QED BY <6>1
        <5>4. X(k - 1) = PinXs(o, n) /\ Y(k - 1) = PinYs(o, n)
          BY <5>3 DEF PartXs, PartYs, PinXs, PinYs
        <5>5. cur = get_bb_from_scratch(o, n)
          BY <4>1
        <5>6. IsSpan(cur.x, Pins(n), PinXs(o, n)) /\ IsSpan(cur.y, Pins(n), PinYs(o, n))
          <6> HIDE DEF cur
          <6> QED BY <5>5, ScratchFacts
        <5> QED BY <5>4, <5>6
      <4>2. CASE s.flag # "NOT_UPDATED_YET"
        BY <2>4, <4>2 DEF Midway
      <4> QED BY <4>1, <4>2
    <3> HIDE DEF cur, X, Y
    <3>2. IsFiniteSet(Pins(n))
      BY PinFacts
    <3>3. x = NoSpan \/ IsSpan(x, Pins(n), X(k))
      <4> DEFINE vs  == X(k - 1)
                 new == PinX(l, n, k)
                 c   == cur.x
      <4>1. /\ vs \in [Pins(n) -> Int] /\ new \in Int /\ IsSpan(c, Pins(n), vs)
            /\ x = UpdateSpan(c, vs[k], new) /\ X(k) = [vs EXCEPT ![k] = new]
        BY <1>1, <3>1
      <4> HIDE DEF vs, new, c, x
      <4>2. \/ UpdateSpan(c, vs[k], new) = NoSpan
            \/ IsSpan(UpdateSpan(c, vs[k], new), Pins(n), [vs EXCEPT ![k] = new])
        BY <3>2, <4>1, SpanStep
      <4> QED BY <4>1, <4>2
    <3>4. y = NoSpan \/ IsSpan(y, Pins(n), Y(k))
      <4> DEFINE vs  == Y(k - 1)
                 new == PinY(l, n, k)
                 c   == cur.y
      <4>1. /\ vs \in [Pins(n) -> Int] /\ new \in Int /\ IsSpan(c, Pins(n), vs)
            /\ y = UpdateSpan(c, vs[k], new) /\ Y(k) = [vs EXCEPT ![k] = new]
        BY <1>1, <3>1
      <4> HIDE DEF vs, new, c, y
      <4>2. \/ UpdateSpan(c, vs[k], new) = NoSpan
            \/ IsSpan(UpdateSpan(c, vs[k], new), Pins(n), [vs EXCEPT ![k] = new])
        BY <3>2, <4>1, SpanStep
      <4> QED BY <4>1, <4>2
    <3> HIDE DEF x, y, t
    <3>5. CASE x = NoSpan \/ y = NoSpan
      <4>1. t.new = get_bb_from_scratch(l, n) /\ t.flag = "GOT_FROM_SCRATCH"
        BY <2>2, <2>4, <3>5
      <4> QED BY <4>1 DEF Midway, t
    <3>6. CASE ~(x = NoSpan \/ y = NoSpan)
      <4>1. t.new = [x |-> x, y |-> y] /\ t.flag = "UPDATED_ONCE" /\ t.new.x = x /\ t.new.y = y
        BY <2>2, <2>4, <3>6
      <4>2. IsSpan(t.new.x, Pins(n), X(k)) /\ IsSpan(t.new.y, Pins(n), Y(k))
        BY <3>3, <3>4, <3>6, <4>1
      <4>3. Midway(t, n, mp, l, o, k)
        BY <4>1, <4>2 DEF Midway, X, Y
      <4> QED BY <4>3 DEF t
    <3> QED BY <3>5, <3>6
  <2> QED BY <2>3, <2>4
<1> QED BY <1>3, <1>4

(* The box a swap gives a net with a moved pin is that of its pins.        *)
LEMMA UpdatedBox ==
    ASSUME NEW n \in Nets, NEW l, NEW o, OnGrid(l), OnGrid(o),
           NEW mv, LeadsTo(mv, o, l), Large(n) => box[n] = get_bb_from_scratch(o, n),
           bb_updated_before[n] = "NOT_UPDATED_YET",
           NEW i \in Pins(n), <<n, i>> \in MovedPins(mv)
    PROVE  SameBox(n, UpdatedNet(n, mv, MovedPins(mv), l).new, get_bb_from_scratch(l, n))
<1> DEFINE mp == MovedPins(mv)
           N == Len(NetPins[n])
           a == [new |-> ts_box[n], flag |-> bb_updated_before[n]]
<1>1. PICK st : /\ st[0] = a
                /\ \A k \in Pins(n) : st[k] = NetStep(n, mv, mp, l, st[k - 1], k)
                /\ UpdatedNet(n, mv, mp, l) = st[N]
  BY UpdatedNetSteps
<1>2. N \in Nat /\ N >= 2 /\ Pins(n) = 1 .. N
  BY PinFacts DEF Pins
<1> HIDE DEF mp, N
<1>3. CASE Large(n)
  <2> DEFINE Good == {k \in Nat : k <= N => Midway(st[k], n, mp, l, o, k)}
  <2>1. 0 \in Good
    <3>1. st[0].flag = "NOT_UPDATED_YET" /\ \A j \in 1 .. 0 : <<n, j>> \notin mp
      BY <1>1
    <3> QED BY <3>1 DEF Midway
  <2>2. ASSUME NEW k \in Nat, k \in Good PROVE k + 1 \in Good
    <3>1. SUFFICES ASSUME k + 1 <= N PROVE Midway(st[k + 1], n, mp, l, o, k + 1)
      OBVIOUS
    <3> DEFINE j == k + 1
    <3>2. j \in Pins(n) /\ j - 1 = k /\ k <= N
      BY <1>2, <3>1
    <3>3. Midway(st[j - 1], n, mp, l, o, j - 1) /\ st[j] = NetStep(n, mv, mp, l, st[j - 1], j)
      BY <1>1, <2>2, <3>2
    <3> HIDE DEF j
    <3>4. Midway(st[j], n, mp, l, o, j)
      BY <1>3, <3>2, <3>3, MidwayStep DEF mp
    <3> QED BY <3>4 DEF j
  <2>3. Nat \subseteq Good
    <3> HIDE DEF Good
    <3> QED BY <2>1, <2>2, NaturalsFromZero
  <2>4. Midway(st[N], n, mp, l, o, N)
    BY <1>2, <2>3
  <2>5. PartXs(l, o, n, N) = PinXs(l, n) /\ PartYs(l, o, n, N) = PinYs(l, n)
    <3>1. \A j \in Pins(n) : j <= N
      BY <1>2
    <3> QED BY <3>1 DEF PartXs, PartYs, PinXs, PinYs
  <2>6. ~(\A j \in 1 .. N : <<n, j>> \notin mp)
    BY <1>2 DEF mp
  <2>7. st[N].new = get_bb_from_scratch(l, n)
    <3>1. CASE st[N].flag = "GOT_FROM_SCRATCH"
      BY <2>4, <3>1 DEF Midway
    <3>2. CASE st[N].flag # "GOT_FROM_SCRATCH"
      <4> DEFINE b == st[N].new
      <4>1. /\ IsSpan(b.x, Pins(n), PinXs(l, n)) /\ IsSpan(b.y, Pins(n), PinYs(l, n))
            /\ b = [x |-> b.x, y |-> b.y]
        BY <2>4, <2>5, <2>6, <3>2 DEF Midway
      <4> HIDE DEF b
      <4>2. [x |-> b.x, y |-> b.y] = get_bb_from_scratch(l, n)
        BY <4>1, ScratchFacts
      <4> QED BY <4>1, <4>2 DEF b
    <3> QED BY <3>1, <3>2
  <2> QED BY <1>1, <2>7 DEF SameBox, mp
<1>4. CASE ~Large(n)
  <2> DEFINE Rec(s) == s = [new |-> s.new, flag |-> s.flag]
             new == get_non_updateable_bb(l, n)
             Good == {k \in Nat : k <= N => /\ Rec(st[k])
                                            /\ (\E j \in 1 .. k : <<n, j>> \in mp) => st[k].new = new}
  <2>1. 0 \in Good
    <3>1. Rec(st[0]) /\ ~\E j \in 1 .. 0 : <<n, j>> \in mp
      BY <1>1
    <3> QED BY <3>1
  <2>2. ASSUME NEW k \in Nat, k \in Good PROVE k + 1 \in Good
    <3>1. SUFFICES ASSUME k + 1 <= N
                   PROVE  /\ Rec(st[k + 1])
                          /\ (\E j \in 1 .. k + 1 : <<n, j>> \in mp) => st[k + 1].new = new
      OBVIOUS
    <3>2. k + 1 \in Pins(n) /\ (k + 1) - 1 = k /\ k <= N /\ \A j \in 1 .. k + 1 : j \in 1 .. k \/ j = k + 1
      BY <1>2, <3>1
    <3>3. Rec(st[k]) /\ ((\E j \in 1 .. k : <<n, j>> \in mp) => st[k].new = new)
      BY <2>2, <3>2
    <3>4. st[k + 1] = IF <<n, k + 1>> \notin mp THEN st[k] ELSE [st[k] EXCEPT !.new = new]
      BY <1>1, <1>4, <3>2 DEF NetStep
    <3>5. CASE <<n, k + 1>> \notin mp
      <4>1. st[k + 1] = st[k]
        BY <3>4, <3>5
      <4> HIDE DEF new
      <4> QED BY <3>2, <3>3, <3>5, <4>1
    <3>6. CASE <<n, k + 1>> \in mp
      <4> HIDE DEF new
      <4>1. st[k + 1] = [new |-> new, flag |-> st[k].flag]
        BY <3>3, <3>4, <3>6
      <4>2. Rec(st[k + 1]) /\ st[k + 1].new = new
        BY <4>1
      <4> QED BY <4>2
    <3> QED BY <3>5, <3>6
  <2>3. Nat \subseteq Good
    <3> HIDE DEF Good
    <3> QED BY <2>1, <2>2, NaturalsFromZero
  <2>4. st[N].new = new
    <3>1. i \in 1 .. N /\ <<n, i>> \in mp /\ N \in Good
      BY <1>2, <2>3 DEF mp
    <3> HIDE DEF new, Rec
    <3> QED BY <1>2, <3>1
  <2>5. SameBox(n, new, get_bb_from_scratch(l, n))
    BY <1>4, SmallBox DEF SameBox
  <2> HIDE DEF new
  <2> QED BY <1>1, <2>4, <2>5 DEF mp
<1> QED BY <1>3, <1>4

-----------------------------------------------------------------------------
(* Connections.                                                            *)

LEMMA FiniteParts ==
    IsFiniteSet(Nets) /\ IsFiniteSet(AllPins) /\ IsFiniteSet(Conns) /\ Conns \subseteq AllPins
<1>1. Nets = 1 .. Len(NetPins) /\ Len(NetPins) \in Nat
  BY NetsAssumption DEF Nets
<1>2. IsFiniteSet(Nets)
  <2> DEFINE N == Len(NetPins)
  <2>1. N \in Int /\ 1 \in Int /\ Nets = 1 .. N
    BY <1>1
  <2> HIDE DEF N
  <2> QED BY <2>1, FS_Interval
<1> DEFINE part == [n \in Nets |-> {n} \X Pins(n)]
           parts == {{n} \X Pins(n) : n \in Nets}
<1>3. IsFiniteSet(parts)
  <2>1. part \in Surjection(Nets, parts)
    BY DEF Surjection
  <2> HIDE DEF part, parts
  <2> QED BY <1>2, <2>1, FS_Surjection
<1>4. ASSUME NEW n \in Nets PROVE IsFiniteSet({n} \X Pins(n))
  <2>1. IsFiniteSet({n}) /\ IsFiniteSet(Pins(n))
    BY PinFacts, FS_Singleton
  <2> QED BY <2>1, FS_Product
<1>5. IsFiniteSet(UNION parts)
  <2>1. \A T \in parts : IsFiniteSet(T)
    BY <1>4
  <2> HIDE DEF parts
  <2> QED BY <1>3, <2>1, FS_UNION
<1>6. IsFiniteSet(AllPins)
  BY <1>5 DEF AllPins
<1>7. Conns \subseteq AllPins
  <2>1. \A n \in Nets : Sinks(n) \subseteq Pins(n)
    BY PinFacts DEF Sinks, Pins
  <2> QED BY <2>1 DEF Conns, AllPins
<1> QED BY <1>2, <1>6, <1>7, FS_Subset

LEMMA ConnFacts ==
    ASSUME NEW c \in Conns
    PROVE  /\ c[1] \in Nets /\ c[2] \in Sinks(c[1]) /\ c = <<c[1], c[2]>>
           /\ c[2] \in Pins(c[1]) /\ 1 \in Pins(c[1]) /\ c[2] # 1
<1>1. c[1] \in Nets /\ c[2] \in Sinks(c[1]) /\ c = <<c[1], c[2]>>
  BY DEF Conns
<1>2. \A n \in Nets : 1 \in Pins(n) /\ \A k \in Sinks(n) : k \in Pins(n) /\ k # 1
  BY PinFacts DEF Sinks, Pins
<1> QED BY <1>1, <1>2

LEMMA DelayFacts ==
    ASSUME NEW l, OnGrid(l), NEW c \in Conns
    PROVE  comp_td_point_to_point_delay(l, c) \in Nat
<1> DEFINE s == At(l, c[1], 1)
           t == At(l, c[1], c[2])
<1>1. /\ s[1] \in 0 .. NX + 1 /\ s[2] \in 0 .. NY + 1
      /\ t[1] \in 0 .. NX + 1 /\ t[2] \in 0 .. NY + 1
  BY ConnFacts, PinFacts DEF OnGrid, At
<1>2. NX \in Nat /\ NY \in Nat
  BY GridAssumption
<1> HIDE DEF s, t
<1>3. Abs(t[1] - s[1]) \in 0 .. NX + 1
  BY <1>1, <1>2 DEF Abs
<1>4. Abs(t[2] - s[2]) \in 0 .. NY + 1
  BY <1>1, <1>2 DEF Abs
<1>5. ASSUME NEW j \in Kinds, NEW k \in Kinds
      PROVE  Delay[j][k][Abs(t[1] - s[1])][Abs(t[2] - s[2])] \in Nat
  <2>1. Delay[j] \in [Kinds -> [0 .. NX + 1 -> [0 .. NY + 1 -> Nat]]]
    BY CostsAssumption
  <2>2. Delay[j][k] \in [0 .. NX + 1 -> [0 .. NY + 1 -> Nat]]
    BY <2>1
  <2>3. Delay[j][k][Abs(t[1] - s[1])] \in [0 .. NY + 1 -> Nat]
    BY <1>3, <2>2
  <2> QED BY <1>4, <2>3
<1> DEFINE from == Kind(BlockOf(<<c[1], 1>>))
           goal == Kind(BlockOf(c))
<1>6. from \in Kinds /\ goal \in Kinds
  BY DEF Kind, Kinds
<1>7. comp_td_point_to_point_delay(l, c) = Delay[from][goal][Abs(t[1] - s[1])][Abs(t[2] - s[2])]
  BY DEF comp_td_point_to_point_delay, s, t
<1> HIDE DEF from, goal
<1> QED BY <1>5, <1>6, <1>7

LEMMA TimingTypes ==
    ASSUME NEW l, OnGrid(l), NEW cr \in Criticalities
    PROVE  DelaysAt(l) \in [Conns -> Int] /\ TimingsAt(l, cr) \in [Conns -> Int]
<1>1. ASSUME NEW c \in Conns
      PROVE  /\ comp_td_point_to_point_delay(l, c) \in Int
             /\ cr[c] * comp_td_point_to_point_delay(l, c) \in Int
  <2>1. cr[c] \in Nat /\ comp_td_point_to_point_delay(l, c) \in Nat
    BY DelayFacts, CostsAssumption
  <2> QED BY <2>1
<1> QED BY <1>1 DEF DelaysAt, TimingsAt

(* A swap looks once at each connection whose ends it moves.               *)
LEMMA ChangedConns ==
    ASSUME NEW mv, NEW o, NEW l, LeadsTo(mv, o, l), NEW mp, mp = MovedPins(mv)
    PROVE  /\ mp \subseteq AllPins /\ AllChanged(mp) \subseteq Conns
           /\ \A p \in mp : PinConns(mp, p) \subseteq Conns
           /\ \A p, q \in mp : p # q => PinConns(mp, p) \cap PinConns(mp, q) = {}
           /\ \A c \in Conns \ AllChanged(mp) :
                comp_td_point_to_point_delay(l, c) = comp_td_point_to_point_delay(o, c)
<1>1. mp \subseteq AllPins
  BY DEF MovedPins
<1>2. ASSUME NEW p \in mp
      PROVE  /\ p[1] \in Nets /\ p[2] \in Pins(p[1]) /\ p = <<p[1], p[2]>>
             /\ p[2] # 1 => p \in Conns
  <2>1. p[1] \in Nets /\ p[2] \in Pins(p[1]) /\ p = <<p[1], p[2]>>
    BY <1>1 DEF AllPins
  <2>2. p[2] # 1 => p[2] \in Sinks(p[1])
    BY <2>1, PinFacts DEF Pins, Sinks
  <2> QED BY <2>1, <2>2 DEF Conns
<1>3. \A p \in mp : PinConns(mp, p) \subseteq Conns
  <2>1. \A n \in Nets : {n} \X Sinks(n) \subseteq Conns
    BY DEF Conns
  <2> QED BY <1>2, <2>1 DEF PinConns
<1>4. ASSUME NEW p \in mp, NEW q \in mp, p # q, NEW c \in PinConns(mp, p), c \in PinConns(mp, q)
      PROVE  FALSE
  <2>1. c[1] = p[1] /\ c[1] = q[1]
    BY <1>4 DEF PinConns
  <2>2. CASE p[2] = 1 /\ q[2] = 1
    BY <1>2, <1>4, <2>1, <2>2
  <2>3. CASE p[2] # 1 /\ q[2] # 1
    BY <1>4, <2>3 DEF PinConns
  <2>4. CASE p[2] = 1 /\ q[2] # 1
    <3>1. <<q[1], 1>> = p
      BY <1>2, <2>1, <2>4
    <3> QED BY <1>4, <2>4, <3>1 DEF PinConns
  <2>5. CASE p[2] # 1 /\ q[2] = 1
    <3>1. <<p[1], 1>> = q
      BY <1>2, <2>1, <2>5
    <3> QED BY <1>4, <2>5, <3>1 DEF PinConns
  <2> QED BY <2>2, <2>3, <2>4, <2>5
<1>5. ASSUME NEW c \in Conns, c \notin AllChanged(mp)
      PROVE  comp_td_point_to_point_delay(l, c) = comp_td_point_to_point_delay(o, c)
  <2> DEFINE n == c[1]
             k == c[2]
             d == <<n, 1>>
  <2>1. n \in Nets /\ k \in Sinks(n) /\ c = <<n, k>> /\ k \in Pins(n) /\ 1 \in Pins(n) /\ k # 1
    BY ConnFacts
  <2>2. d \notin mp
    <3>1. SUFFICES ASSUME d \in mp PROVE FALSE
      OBVIOUS
    <3>2. PinConns(mp, d) = {n} \X Sinks(n)
      BY DEF PinConns
    <3>3. c \in PinConns(mp, d)
      BY <2>1, <3>2
    <3> QED BY <1>5, <3>1, <3>3 DEF AllChanged
  <2>3. c \notin mp
    <3>1. SUFFICES ASSUME c \in mp PROVE FALSE
      OBVIOUS
    <3>2. PinConns(mp, c) = {c}
      BY <2>1, <2>2 DEF PinConns
    <3> QED BY <1>5, <3>1, <3>2 DEF AllChanged
  <2>4. ASSUME NEW j \in Pins(n), <<n, j>> \notin mp PROVE At(l, n, j) = At(o, n, j)
    <3>1. <<n, j>> \in AllPins /\ BlockOf(<<n, j>>) = NetPins[n][j].blk /\ NetPins[n][j].blk \in Blocks
      BY <2>1, PinFacts DEF AllPins, BlockOf
    <3>2. \A m \in mv : m.blk # NetPins[n][j].blk
      BY <2>4, <3>1 DEF MovedPins
    <3>3. l[NetPins[n][j].blk] = o[NetPins[n][j].blk]
      BY <3>1, <3>2 DEF LeadsTo
    <3> QED BY <3>3 DEF At
  <2>5. At(l, n, 1) = At(o, n, 1) /\ At(l, n, k) = At(o, n, k)
    BY <2>1, <2>2, <2>3, <2>4
  <2> QED BY <2>5 DEF comp_td_point_to_point_delay
<1> QED BY <1>1, <1>3, <1>4, <1>5 DEF AllChanged

(* The change is the sum over the connections that change.                 *)
LEMMA ChangeIsTotal ==
    ASSUME NEW mv, NEW o, NEW l, LeadsTo(mv, o, l), NEW mp, mp = MovedPins(mv),
           NEW f \in [AllChanged(mp) -> Int]
    PROVE  Change(mp, f) = Total(f)
<1> DEFINE A == [p \in mp |-> PinConns(mp, p)]
           U == AllChanged(mp)
           sums == [p \in mp |-> Total([c \in PinConns(mp, p) |-> f[c]])]
<1>1. /\ mp \subseteq AllPins /\ U \in SUBSET Conns /\ A \in [mp -> SUBSET Conns]
      /\ \A p, q \in mp : p # q => A[p] \cap A[q] = {}
  BY ChangedConns
<1>2. U = UNION {A[p] : p \in mp}
  BY DEF AllChanged
<1>3. IsFiniteSet(mp) /\ IsFiniteSet(Conns)
  BY <1>1, FiniteParts, FS_Subset
<1>4. [p \in mp |-> Total([c \in A[p] |-> f[c]])] = sums
  OBVIOUS
<1>5. Change(mp, f) = Total(sums)
  BY DEF Change
<1> HIDE DEF A, U, sums
<1>6. f \in [U -> Int]
  BY DEF U
<1>7. Total([p \in mp |-> Total([c \in A[p] |-> f[c]])]) = Total(f)
  BY <1>1, <1>2, <1>3, <1>6, TotalOfParts
<1> QED BY <1>4, <1>5, <1>7

(* A net no pin of which moves keeps its box.                              *)
LEMMA UnmovedNet ==
    ASSUME NEW mv, NEW o, NEW l, LeadsTo(mv, o, l), NEW n \in Nets,
           n \notin {p[1] : p \in MovedPins(mv)}
    PROVE  get_bb_from_scratch(l, n) = get_bb_from_scratch(o, n)
<1>1. ASSUME NEW k \in Pins(n) PROVE PinX(l, n, k) = PinX(o, n, k) /\ PinY(l, n, k) = PinY(o, n, k)
  <2>1. <<n, k>> \notin MovedPins(mv)
    OBVIOUS
  <2> QED BY <2>1, PinMoves
<1>2. PinXs(l, n) = PinXs(o, n) /\ PinYs(l, n) = PinYs(o, n)
  BY <1>1 DEF PinXs, PinYs
<1> QED BY <1>2 DEF get_bb_from_scratch, PinXs, PinYs

-----------------------------------------------------------------------------
(* The costs.                                                              *)

(* Boxes and costs are those of locations o.                               *)
BoxesAt(o) ==
    /\ \A n \in Nets : SameBox(n, box[n], get_bb_from_scratch(o, n))
    /\ net_cost = [n \in Nets |-> NetCost(o, n)]
    /\ bb_cost = TrueBb(o)

DelayCostsAt(o) ==
    /\ ptp_delay = DelaysAt(o) /\ ptp_timing = TimingsAt(o, crit)
    /\ td_cost = Total(TimingsAt(o, crit)) /\ delay_cost = Total(DelaysAt(o))

(* Between two swaps nothing is marked.                                    *)
Idle ==
    /\ bb_updated_before = [n \in Nets |-> "NOT_UPDATED_YET"]
    /\ temp_net_cost = Unmarked /\ delta = NoDelta

MarkedNets == {p[1] : p \in MovedPins(moved)}

(* A swap under way from o to l has been weighed.                          *)
BoxesWeighed(o, l) ==
    /\ \A n \in MarkedNets : /\ SameBox(n, ts_box[n], get_bb_from_scratch(l, n))
                             /\ temp_net_cost[n] = NetCost(l, n)
    /\ \A n \in Nets \ MarkedNets : /\ temp_net_cost[n] = -1
                                    /\ bb_updated_before[n] = "NOT_UPDATED_YET"
    /\ bb_cost + delta.bb = TrueBb(l)

DelaysWeighed(l) ==
    /\ \A c \in AllChanged(MovedPins(moved)) :
            /\ temp_delay[c] = comp_td_point_to_point_delay(l, c)
            /\ temp_timing[c] = crit[c] * comp_td_point_to_point_delay(l, c)
    /\ td_cost + delta.td = Total(TimingsAt(l, crit))
    /\ delay_cost + delta.delay = Total(DelaysAt(l))

CostIInv ==
    /\ IInv
    /\ crit \in Criticalities
    /\ moved = {} => Idle
    /\ Costed => BoxesAt(OldLoc) /\ DelayCostsAt(OldLoc)
    /\ moved # {} => BoxesWeighed(OldLoc, loc) /\ DelaysWeighed(loc)

LEMMA SiteOnGrid ==
    ASSUME NEW s \in Sites
    PROVE  s[1] \in 0 .. NX + 1 /\ s[2] \in 0 .. NY + 1
<1>1. \/ \E c \in Core : s = <<c[1], c[2], 0>>
      \/ \E c \in Ring, z \in 0 .. IoCapacity - 1 : s = <<c[1], c[2], z>>
  BY DEF Sites
<1>2. \A c \in Core \cup Ring : c[1] \in 0 .. NX + 1 /\ c[2] \in 0 .. NY + 1
  BY GridAssumption DEF Core, Ring
<1> QED BY <1>1, <1>2

(* Once the costs are kept every block is on the grid, and so is where a   *)
(* swap takes it.                                                          *)
LEMMA BlocksOnGrid ==
    ASSUME IInv, Costed
    PROVE  OnGrid(loc) /\ OnGrid(OldLoc)
<1>1. \A b \in Blocks : Placed(b)
  BY DEF IInv, Phases, Swapping, Over, Costed
<1>2. OldLoc \in [Blocks -> Triples] /\ loc \in [Blocks -> Triples]
  <2>1. loc \in [Blocks -> Triples]
    BY DEF IInv, TypeOK, Triples
  <2>2. moved = {} => OldLoc = loc
    BY StillLoc DEF IInv
  <2> QED BY <2>1, <2>2, InSwap
<1>3. ASSUME NEW b \in Blocks PROVE OldLoc[b][1] \in 0 .. NX + 1 /\ OldLoc[b][2] \in 0 .. NY + 1
  <2>1. CASE b \in fixed
    <3>1. PICK s \in Sites : CellOf(s) = CellOf(OldLoc[b])
      BY <2>1 DEF IInv, BlocksStand, Held
    <3>2. s[1] = OldLoc[b][1] /\ s[2] = OldLoc[b][2]
      BY <3>1 DEF CellOf
    <3> QED BY <3>2, SiteOnGrid
  <2>2. CASE b \notin fixed
    <3>1. OldLoc[b] \in Sites
      BY <1>1, <2>2 DEF IInv, BlocksStand, Held
    <3> QED BY <3>1, SiteOnGrid
  <2> QED BY <2>1, <2>2
<1>4. ASSUME NEW b \in Blocks PROVE loc[b][1] \in 0 .. NX + 1 /\ loc[b][2] \in 0 .. NY + 1
  <2>1. CASE \E m \in moved : m.blk = b
    <3>1. PICK m \in moved : m.blk = b
      BY <2>1
    <3>2. loc[b] \in Sites
      BY <3>1 DEF IInv, SwapOK
    <3> QED BY <3>2, SiteOnGrid
  <2>2. CASE \A m \in moved : m.blk # b
    <3>1. OldLoc[b] = loc[b]
      BY <2>2 DEF OldLoc
    <3> QED BY <1>3, <3>1
  <2> QED BY <2>1, <2>2
<1> QED BY <1>2, <1>3, <1>4 DEF OnGrid

LEMMA BlocksOnGridNext == (IInv => (Costed => OnGrid(loc) /\ OnGrid(OldLoc)))'
<1>1. IInv => (Costed => OnGrid(loc) /\ OnGrid(OldLoc))
  BY BlocksOnGrid
<1> QED BY <1>1, PTL

LEMMA SwapLeads ==
    ASSUME IInv, moved # {}
    PROVE  LeadsTo(moved, OldLoc, loc)
<1>1. /\ \A m \in moved : OldLoc[m.blk] = m.old /\ m.blk \in Blocks
      /\ \A b \in Blocks : (\A m \in moved : m.blk # b) => OldLoc[b] = loc[b]
  BY InSwap
<1>2. \A m \in moved : loc[m.blk] = m.new
  BY DEF IInv, SwapOK
<1> QED BY <1>1, <1>2 DEF LeadsTo

LEMMA MarkedFacts == MarkedNets \subseteq Nets
BY DEF MarkedNets, MovedPins, AllPins

(* A step outside a swap that leaves the costs and the blocks alone.       *)
LEMMA QuietStep ==
    ASSUME CostIInv, IInv', UNCHANGED costs, moved = {}, moved' = {},
           Costed' => Costed /\ loc' = loc
    PROVE  CostIInv'
<1> USE DEF costs, box_vars, td_vars
<1>1. crit' \in Criticalities /\ Idle'
  BY DEF CostIInv, Idle
<1>2. ASSUME Costed' PROVE BoxesAt(OldLoc)' /\ DelayCostsAt(OldLoc)'
  <2>1. OldLoc = loc /\ OldLoc' = loc'
    BY StillLoc, StillLocNext DEF CostIInv, IInv
  <2>2. OldLoc' = OldLoc
    BY <1>2, <2>1
  <2>3. BoxesAt(OldLoc) /\ DelayCostsAt(OldLoc)
    BY <1>2 DEF CostIInv
  <2>4. BoxesAt(OldLoc)'
    BY <2>2, <2>3 DEF BoxesAt
  <2>5. DelayCostsAt(OldLoc)'
    BY <2>2, <2>3 DEF DelayCostsAt
  <2> QED BY <2>4, <2>5
<1> QED BY <1>1, <1>2 DEF CostIInv

LEMMA CostInitIInv == CostInit => CostIInv
<1> SUFFICES ASSUME CostInit PROVE CostIInv
  OBVIOUS
<1>1. IInv
  BY InitIInv DEF CostInit
<1>2. moved = {} /\ ~Costed
  BY DEF CostInit, Init, Costed
<1>3. crit \in Criticalities /\ Idle
  BY DEF CostInit, Idle
<1> QED BY <1>1, <1>2, <1>3 DEF CostIInv

LEMMA StartCostsStep ==
    ASSUME CostIInv, StartCosts
    PROVE  CostIInv'
<1>1. IInv /\ IInv' /\ LoadLegalPlacements
  BY LoadLegalPlacementsStep DEF CostIInv, StartCosts
<1>2. pc \in {"blocks", "pads"} /\ loc' = loc /\ moved' = moved
  BY <1>1 DEF LoadLegalPlacements, PadsRead, Stop
<1>3. moved = {} /\ moved' = {}
  BY <1>1, <1>2 DEF IInv, Phases, Swapping
<1>4. CASE pc' # "anneal"
  <2>1. UNCHANGED costs
    BY <1>4 DEF StartCosts
  <2>2. ~Costed'
    BY <1>1, <1>4 DEF LoadLegalPlacements, Stop, Costed
  <2> QED BY <1>1, <1>3, <2>1, <2>2, QuietStep
<1>5. CASE pc' = "anneal"
  <2>1. UNCHANGED <<crit, delta>> /\ comp_bb_cost /\ comp_td_costs(crit)
    BY <1>5 DEF StartCosts
  <2>2. OldLoc' = loc' /\ loc' = loc
    BY <1>1, <1>2, <1>3, StillLocNext DEF IInv
  <2>3. OnGrid(loc)
    <3>1. Costed'
      BY <1>5 DEF Costed
    <3>2. OnGrid(loc)'
      BY <1>1, <3>1, BlocksOnGridNext
    <3> QED BY <2>2, <3>2 DEF OnGrid
  <2> DEFINE boxes == [n \in Nets |-> IF Large(n) THEN get_bb_from_scratch(loc, n)
                                                  ELSE get_non_updateable_bb(loc, n)]
             cost == [n \in Nets |-> get_net_cost(n, boxes[n])]
  <2>4. box' = boxes /\ net_cost' = cost /\ bb_cost' = Total(cost)
    BY <2>1 DEF comp_bb_cost
  <2>5. ASSUME NEW n \in Nets PROVE SameBox(n, boxes[n], get_bb_from_scratch(loc, n))
    <3>1. CASE Large(n)
      BY <3>1 DEF SameBox
    <3>2. CASE ~Large(n)
      BY <2>3, <3>2, SmallBox DEF SameBox
    <3> QED BY <3>1, <3>2
  <2>6. \A n \in Nets : get_net_cost(n, boxes[n]) = NetCost(loc, n)
    <3> HIDE DEF boxes
    <3> QED BY <2>3, <2>5, CostFacts
  <2> HIDE DEF boxes
  <2>7. cost = [n \in Nets |-> NetCost(loc, n)]
    BY <2>6
  <2>8. BoxesAt(OldLoc)'
    <3>1. \A n \in Nets : SameBox(n, box'[n], get_bb_from_scratch(OldLoc', n))
      BY <2>2, <2>4, <2>5
    <3>2. net_cost' = [n \in Nets |-> NetCost(OldLoc', n)] /\ bb_cost' = TrueBb(OldLoc')
      BY <2>2, <2>4, <2>7 DEF TrueBb, NetCost
    <3> QED BY <3>1, <3>2 DEF BoxesAt
  <2>9. DelayCostsAt(OldLoc)'
    <3>1. /\ ptp_delay' = DelaysAt(loc) /\ ptp_timing' = TimingsAt(loc, crit)
          /\ td_cost' = Total(TimingsAt(loc, crit)) /\ delay_cost' = Total(DelaysAt(loc))
          /\ crit' = crit
      BY <2>1 DEF comp_td_costs
    <3> QED BY <2>2, <3>1 DEF DelayCostsAt
  <2>10. Idle' /\ crit' \in Criticalities
    BY <1>3, <2>1 DEF CostIInv, Idle, comp_bb_cost
  <2> QED BY <1>1, <1>3, <2>8, <2>9, <2>10 DEF CostIInv
<1> QED BY <1>4, <1>5

LEMMA RecomputeStep ==
    ASSUME CostIInv, RecomputeCriticalities
    PROVE  CostIInv'
<1>1. Costed /\ moved = {} /\ UNCHANGED <<vars, box_vars, delta>>
  BY DEF RecomputeCriticalities, Costed
<1>2. PICK cr \in Criticalities : crit' = cr /\ comp_td_costs(cr)
  BY DEF RecomputeCriticalities
<1>3. IInv /\ IInv' /\ moved' = {}
  BY <1>1, StutterStep DEF CostIInv, vars
<1>4. OldLoc = loc /\ OldLoc' = loc' /\ loc' = loc
  BY <1>1, <1>3, StillLoc, StillLocNext DEF IInv, vars
<1>5. BoxesAt(OldLoc)'
  <2>1. BoxesAt(OldLoc)
    BY <1>1 DEF CostIInv
  <2> QED BY <1>1, <1>4, <2>1 DEF BoxesAt, box_vars
<1>6. DelayCostsAt(OldLoc)'
  <2>1. /\ ptp_delay' = DelaysAt(loc) /\ ptp_timing' = TimingsAt(loc, cr)
        /\ td_cost' = Total(TimingsAt(loc, cr)) /\ delay_cost' = Total(DelaysAt(loc))
    BY <1>2 DEF comp_td_costs
  <2> QED BY <1>2, <1>4, <2>1 DEF DelayCostsAt
<1>7. Idle'
  BY <1>1 DEF CostIInv, Idle, box_vars
<1> QED BY <1>2, <1>3, <1>5, <1>6, <1>7 DEF CostIInv

(* A proposed swap leads from where the blocks are to where it takes them. *)
LEMMA ProposeLeads ==
    ASSUME IInv, NEW b \in Blocks, NEW to \in Sites, Propose(b, to), moved' # {}
    PROVE  /\ pc \in Swapping /\ pc' = pc /\ moved = {}
           /\ OldLoc = loc /\ OldLoc' = loc /\ LeadsTo(moved', loc, loc')
<1>1. pc \in Swapping /\ moved = {} /\ b \in Movable
  BY DEF Propose, Swapping
<1>2. ~Stop("assert")
  BY <1>1 DEF Stop
<1>3. /\ to \in FindTo(b) /\ ~Aborted(b, to)
      /\ moved' = Moves(b, to) /\ loc' = NewLoc(moved') /\ pc' = pc
  BY <1>2 DEF Propose
<1>4. MovesOK(b, to, moved')
  BY <1>1, <1>3, SwapGoes, MovesFacts
<1>5. OldLoc = loc
  BY <1>1, AtRest
<1>6. ASSUME NEW m \in moved'
      PROVE  /\ m.blk \in Blocks /\ m.old = loc[m.blk] /\ m.new = loc'[m.blk]
             /\ OldLoc'[m.blk] = loc[m.blk]
  <2>1. m.blk \in Blocks /\ m.old = loc[m.blk] /\ (CHOOSE n \in moved' : n.blk = m.blk) = m
    BY <1>4 DEF MovesOK
  <2>2. loc'[m.blk] = m.new
    BY <1>3, <2>1 DEF NewLoc
  <2>3. OldLoc'[m.blk] = m.old
    BY <2>1 DEF OldLoc
  <2> QED BY <2>1, <2>2, <2>3
<1>7. ASSUME NEW x \in Blocks, \A m \in moved' : m.blk # x
      PROVE  loc'[x] = loc[x] /\ OldLoc'[x] = loc[x]
  <2>1. loc'[x] = loc[x]
    BY <1>3, <1>7 DEF NewLoc
  <2> QED BY <1>7, <2>1 DEF OldLoc
<1>8. OldLoc' = loc
  <2>1. \A x \in Blocks : OldLoc'[x] = loc[x]
    BY <1>6, <1>7
  <2>2. OldLoc' = [x \in Blocks |-> OldLoc'[x]] /\ loc = [x \in Blocks |-> loc[x]]
    BY DEF IInv, TypeOK, OldLoc
  <2> QED BY <2>1, <2>2
<1>9. LeadsTo(moved', loc, loc')
  BY <1>6, <1>7 DEF LeadsTo
<1> QED BY <1>1, <1>3, <1>5, <1>8, <1>9

(* What the evaluation of moves mv from o to l comes to.                   *)
LEMMA WeighedBoxes ==
    ASSUME NEW mv, NEW o, NEW l, OnGrid(o), OnGrid(l), LeadsTo(mv, o, l),
           Idle, BoxesAt(o), NEW e, e = Evaluation(mv, l)
    PROVE  LET marked == {p[1] : p \in MovedPins(mv)} IN
           /\ DOMAIN e.up = marked /\ DOMAIN e.cost = marked
           /\ \A n \in marked : /\ SameBox(n, e.up[n].new, get_bb_from_scratch(l, n))
                                /\ e.cost[n] = NetCost(l, n)
           /\ bb_cost + e.delta.bb = TrueBb(l)
<1> DEFINE mp == MovedPins(mv)
           marked == {p[1] : p \in mp}
           up == [n \in marked |-> UpdatedNet(n, mv, mp, l)]
           cost == [n \in marked |-> get_net_cost(n, up[n].new)]
<1>1. marked \subseteq Nets
  BY DEF MovedPins, AllPins
<1>2. AffectedNets(mp) = marked
  <2>1. \A n \in Nets : temp_net_cost[n] = -1
    BY DEF Idle, Unmarked
  <2> HIDE DEF mp
  <2>2. \A n \in marked : temp_net_cost[n] < 0
    BY <1>1, <2>1
  <2> QED BY <2>2 DEF AffectedNets
<1>3. e.up = up /\ e.cost = cost /\ e.delta.bb = Total([n \in marked |-> cost[n] - net_cost[n]])
  BY <1>2 DEF Evaluation
<1>4. ASSUME NEW n \in marked
      PROVE  /\ SameBox(n, up[n].new, get_bb_from_scratch(l, n))
             /\ cost[n] = NetCost(l, n)
  <2>1. n \in Nets
    BY <1>1
  <2>2. PICK p \in mp : p[1] = n
    OBVIOUS
  <2>3. p[2] \in Pins(n) /\ <<n, p[2]>> \in mp
    BY <2>2 DEF MovedPins, AllPins
  <2>4. Large(n) => box[n] = get_bb_from_scratch(o, n)
    BY <2>1 DEF BoxesAt, SameBox
  <2>5. bb_updated_before[n] = "NOT_UPDATED_YET"
    BY <2>1 DEF Idle
  <2>6. SameBox(n, UpdatedNet(n, mv, mp, l).new, get_bb_from_scratch(l, n))
    BY <2>1, <2>3, <2>4, <2>5, UpdatedBox
  <2>7. get_net_cost(n, UpdatedNet(n, mv, mp, l).new) = NetCost(l, n)
    <3> HIDE DEF mp
    <3> QED BY <2>1, <2>6, CostFacts
  <2> HIDE DEF mp
  <2> QED BY <2>6, <2>7
<1> HIDE DEF up, cost, mp, marked
<1> DEFINE f == [n \in Nets |-> NetCost(o, n)]
           g == [n \in Nets |-> NetCost(l, n)]
<1>5. f \in [Nets -> Int] /\ g \in [Nets -> Int]
  <2>1. \A n \in Nets : NetCost(o, n) \in Int /\ NetCost(l, n) \in Int
    <3>1. \A n \in Nets : NetCost(o, n) \in Nat /\ NetCost(l, n) \in Nat
      BY CostFacts
    <3> QED BY <3>1
  <2> QED BY <2>1
<1>6. \A n \in Nets \ marked : g[n] = f[n]
  <2>1. \A n \in Nets \ marked : get_bb_from_scratch(l, n) = get_bb_from_scratch(o, n)
    BY UnmovedNet DEF marked, mp
  <2> QED BY <2>1 DEF NetCost
<1>7. \A n \in marked : cost[n] - net_cost[n] = g[n] - f[n]
  BY <1>1, <1>4 DEF BoxesAt
<1>8. Total(f) = TrueBb(o) /\ Total(g) = TrueBb(l)
  BY DEF TrueBb, NetCost
<1> HIDE DEF f, g
<1>9. Total(f) + Total([n \in marked |-> g[n] - f[n]]) = Total(g)
  BY <1>1, <1>5, <1>6, FiniteParts, TotalOfChanges
<1>10. [n \in marked |-> cost[n] - net_cost[n]] = [n \in marked |-> g[n] - f[n]]
  BY <1>7
<1>11. bb_cost = Total(f)
  BY <1>8 DEF BoxesAt
<1>12. bb_cost + e.delta.bb = TrueBb(l)
  BY <1>3, <1>8, <1>9, <1>10, <1>11
<1>13. DOMAIN e.up = marked /\ DOMAIN e.cost = marked
  BY <1>3 DEF up, cost
<1> QED BY <1>3, <1>4, <1>12, <1>13 DEF marked, mp

LEMMA WeighedDelays ==
    ASSUME NEW mv, NEW o, NEW l, OnGrid(o), OnGrid(l), LeadsTo(mv, o, l),
           DelayCostsAt(o), crit \in Criticalities, NEW e, e = Evaluation(mv, l)
    PROVE  LET set == AllChanged(MovedPins(mv)) IN
           /\ DOMAIN e.delay = set /\ DOMAIN e.timing = set
           /\ \A c \in set : /\ e.delay[c] = comp_td_point_to_point_delay(l, c)
                             /\ e.timing[c] = crit[c] * comp_td_point_to_point_delay(l, c)
           /\ td_cost + e.delta.td = Total(TimingsAt(l, crit))
           /\ delay_cost + e.delta.delay = Total(DelaysAt(l))
<1> DEFINE mp == MovedPins(mv)
           set == AllChanged(mp)
           delay == [c \in set |-> comp_td_point_to_point_delay(l, c)]
           timing == [c \in set |-> crit[c] * delay[c]]
           dd == [c \in set |-> delay[c] - ptp_delay[c]]
           dt == [c \in set |-> timing[c] - ptp_timing[c]]
<1>1. /\ e.delay = delay /\ e.timing = timing
      /\ e.delta.delay = Change(mp, dd) /\ e.delta.td = Change(mp, dt)
  BY DEF Evaluation
<1>2. /\ set \in SUBSET Conns
      /\ \A c \in Conns \ set : comp_td_point_to_point_delay(l, c) = comp_td_point_to_point_delay(o, c)
  BY ChangedConns
<1> DEFINE fd == DelaysAt(o)
           gd == DelaysAt(l)
           ft == TimingsAt(o, crit)
           gt == TimingsAt(l, crit)
<1>3. /\ fd \in [Conns -> Int] /\ gd \in [Conns -> Int]
      /\ ft \in [Conns -> Int] /\ gt \in [Conns -> Int]
  BY TimingTypes
<1>4. \A c \in set : delay[c] = gd[c] /\ timing[c] = gt[c]
  BY <1>2 DEF DelaysAt, TimingsAt
<1>5. \A c \in Conns \ set : gd[c] = fd[c] /\ gt[c] = ft[c]
  BY <1>2 DEF DelaysAt, TimingsAt
<1>6. ptp_delay = fd /\ ptp_timing = ft /\ td_cost = Total(ft) /\ delay_cost = Total(fd)
  BY DEF DelayCostsAt
<1>7. \A c \in set : delay[c] = comp_td_point_to_point_delay(l, c) /\ timing[c] = crit[c] * comp_td_point_to_point_delay(l, c)
  OBVIOUS
<1>8. DOMAIN delay = set /\ DOMAIN timing = set
  OBVIOUS
<1> HIDE DEF fd, gd, ft, gt, delay, timing
<1>9. dd = [c \in set |-> gd[c] - fd[c]] /\ dt = [c \in set |-> gt[c] - ft[c]]
  BY <1>4, <1>6
<1>10. dd \in [set -> Int] /\ dt \in [set -> Int]
  <2>1. \A c \in set : gd[c] - fd[c] \in Int /\ gt[c] - ft[c] \in Int
    BY <1>2, <1>3
  <2> HIDE DEF set
  <2> QED BY <1>9, <2>1
<1> HIDE DEF dd, dt
<1>11. Change(mp, dd) = Total(dd) /\ Change(mp, dt) = Total(dt)
  BY <1>10, ChangeIsTotal
<1> HIDE DEF mp, set
<1>12. Total(fd) + Total([c \in set |-> gd[c] - fd[c]]) = Total(gd)
  BY <1>2, <1>3, <1>5, FiniteParts, TotalOfChanges
<1>13. Total(ft) + Total([c \in set |-> gt[c] - ft[c]]) = Total(gt)
  BY <1>2, <1>3, <1>5, FiniteParts, TotalOfChanges
<1>14. td_cost + e.delta.td = Total(gt) /\ delay_cost + e.delta.delay = Total(gd)
  BY <1>1, <1>6, <1>9, <1>11, <1>12, <1>13
<1> QED BY <1>1, <1>7, <1>8, <1>14 DEF mp, set, gd, gt

(* The first phase of a swap: costs are weighed, nothing is committed.     *)
LEMMA ProposeSwapStep ==
    ASSUME CostIInv, NEW b \in Blocks, NEW to \in Sites, ProposeSwap(b, to)
    PROVE  CostIInv'
<1>1. IInv /\ IInv' /\ Propose(b, to)
  BY ProposeStep DEF CostIInv, ProposeSwap
<1>2. pc \in Swapping /\ moved = {} /\ Costed
  BY <1>1 DEF Propose, Swapping, Costed
<1>3. CASE moved' = {}
  <2>1. UNCHANGED costs
    BY <1>3 DEF ProposeSwap
  <2>2. loc' = loc
    <3>1. CASE Stop("assert")
      BY <3>1 DEF Stop
    <3>2. CASE ~Stop("assert")
      <4>1. loc' = NewLoc({})
        BY <1>1, <1>3, <3>2 DEF Propose
      <4>2. NewLoc({}) = loc
        BY <1>1 DEF NewLoc, IInv, TypeOK
      <4> QED BY <4>1, <4>2
    <3> QED BY <3>1, <3>2
  <2> QED BY <1>1, <1>2, <1>3, <2>1, <2>2, QuietStep
<1>4. CASE moved' # {}
  <2>1. pc' = pc /\ OldLoc = loc /\ OldLoc' = loc /\ LeadsTo(moved', loc, loc')
    BY <1>1, <1>4, ProposeLeads
  <2>2. Costed'
    BY <1>2, <2>1 DEF Costed
  <2>3. OnGrid(loc)
    BY <1>1, <1>2, BlocksOnGrid
  <2>4. OnGrid(loc')
    <3>1. OnGrid(loc)'
      BY <1>1, <2>2, BlocksOnGridNext
    <3> QED BY <3>1 DEF OnGrid
  <2>5. Idle /\ BoxesAt(loc) /\ DelayCostsAt(loc) /\ crit \in Criticalities
    BY <1>2, <2>1 DEF CostIInv
  <2>6. Evaluate
    BY <1>4 DEF ProposeSwap
  <2> DEFINE e == Evaluation(moved', loc')
             set == AllChanged(MovedPins(moved'))
  <2>7. /\ ts_box' = [n \in Nets |-> IF n \in DOMAIN e.up THEN e.up[n].new ELSE ts_box[n]]
        /\ bb_updated_before' = [n \in Nets |-> IF n \in DOMAIN e.up THEN e.up[n].flag
                                                                     ELSE bb_updated_before[n]]
        /\ temp_net_cost' = Overwritten(Nets, temp_net_cost, e.cost)
        /\ temp_delay' = Overwritten(Conns, temp_delay, e.delay)
        /\ temp_timing' = Overwritten(Conns, temp_timing, e.timing)
        /\ delta' = e.delta
        /\ UNCHANGED <<box, net_cost, bb_cost, crit, ptp_delay, ptp_timing, td_cost, delay_cost>>
    BY <2>6, Zenon DEF Evaluate
  <2>8. MarkedNets' = {p[1] : p \in MovedPins(moved')} /\ MarkedNets' \subseteq Nets
    BY DEF MarkedNets, MovedPins, AllPins
  <2> HIDE DEF e
  <2>9. /\ DOMAIN e.up = MarkedNets' /\ DOMAIN e.cost = MarkedNets'
        /\ \A n \in MarkedNets' : /\ SameBox(n, e.up[n].new, get_bb_from_scratch(loc', n))
                                  /\ e.cost[n] = NetCost(loc', n)
        /\ bb_cost + e.delta.bb = TrueBb(loc')
    BY <2>1, <2>3, <2>4, <2>5, <2>8, WeighedBoxes DEF e
  <2>10. /\ DOMAIN e.delay = set /\ DOMAIN e.timing = set
         /\ \A c \in set : /\ e.delay[c] = comp_td_point_to_point_delay(loc', c)
                           /\ e.timing[c] = crit[c] * comp_td_point_to_point_delay(loc', c)
         /\ td_cost + e.delta.td = Total(TimingsAt(loc', crit))
         /\ delay_cost + e.delta.delay = Total(DelaysAt(loc'))
    BY <2>1, <2>3, <2>4, <2>5, WeighedDelays DEF e
  <2>11. /\ BoxesAt(OldLoc)' /\ DelayCostsAt(OldLoc)' /\ crit' \in Criticalities
    <3>1. BoxesAt(OldLoc)'
      <4>1. /\ \A n \in Nets : SameBox(n, box'[n], get_bb_from_scratch(OldLoc', n))
            /\ net_cost' = [n \in Nets |-> NetCost(OldLoc', n)]
            /\ bb_cost' = TrueBb(OldLoc')
        BY <2>1, <2>5, <2>7 DEF BoxesAt
      <4> QED BY <4>1 DEF BoxesAt
    <3>2. DelayCostsAt(OldLoc)'
      BY <2>1, <2>5, <2>7 DEF DelayCostsAt
    <3> QED BY <2>5, <2>7, <3>1, <3>2
  <2>12. BoxesWeighed(OldLoc, loc)'
    <3>1. ASSUME NEW n \in MarkedNets'
          PROVE  /\ SameBox(n, ts_box'[n], get_bb_from_scratch(loc', n))
                 /\ temp_net_cost'[n] = NetCost(loc', n)
      <4>1. ts_box'[n] = e.up[n].new
        BY <2>7, <2>8, <2>9
      <4>2. temp_net_cost'[n] = e.cost[n]
        BY <2>7, <2>8, <2>9 DEF Overwritten
      <4> QED BY <2>9, <4>1, <4>2
    <3>2. ASSUME NEW n \in Nets \ MarkedNets'
          PROVE  temp_net_cost'[n] = -1 /\ bb_updated_before'[n] = "NOT_UPDATED_YET"
      <4>1. temp_net_cost[n] = -1 /\ bb_updated_before[n] = "NOT_UPDATED_YET"
        BY <2>5 DEF Idle, Unmarked
      <4>2. temp_net_cost'[n] = temp_net_cost[n]
        BY <2>7, <2>9 DEF Overwritten
      <4> QED BY <2>7, <2>9, <4>1, <4>2
    <3>3. bb_cost' + delta'.bb = TrueBb(loc')
      BY <2>7, <2>9
    <3> QED BY <3>1, <3>2, <3>3 DEF BoxesWeighed
  <2>13. DelaysWeighed(loc)'
    <3>1. ASSUME NEW c \in set
          PROVE  /\ temp_delay'[c] = comp_td_point_to_point_delay(loc', c)
                 /\ temp_timing'[c] = crit'[c] * comp_td_point_to_point_delay(loc', c)
      <4>1. c \in Conns
        BY <2>1, ChangedConns
      <4> HIDE DEF set
      <4>2. temp_delay'[c] = e.delay[c] /\ temp_timing'[c] = e.timing[c]
        BY <2>7, <2>10, <4>1 DEF Overwritten
      <4> QED BY <2>7, <2>10, <4>2
    <3>2. /\ td_cost' + delta'.td = Total(TimingsAt(loc', crit'))
          /\ delay_cost' + delta'.delay = Total(DelaysAt(loc'))
      BY <2>7, <2>10
    <3> QED BY <3>1, <3>2 DEF DelaysWeighed
  <2> QED BY <1>1, <1>4, <2>11, <2>12, <2>13 DEF CostIInv
<1> QED BY <1>3, <1>4

(* A swap under way costs what it costs from OldLoc to loc.                *)
LEMMA WeighedSwap ==
    ASSUME CostIInv, moved # {}
    PROVE  /\ IInv /\ Costed /\ OnGrid(loc) /\ OnGrid(OldLoc)
           /\ LeadsTo(moved, OldLoc, loc)
           /\ BoxesAt(OldLoc) /\ DelayCostsAt(OldLoc)
           /\ BoxesWeighed(OldLoc, loc) /\ DelaysWeighed(loc)
           /\ Marked = MarkedNets
<1>1. IInv /\ Costed
  BY InSwap DEF CostIInv, Swapping, Costed
<1>2. OnGrid(loc) /\ OnGrid(OldLoc) /\ LeadsTo(moved, OldLoc, loc)
  BY <1>1, BlocksOnGrid, SwapLeads
<1>3. /\ BoxesAt(OldLoc) /\ DelayCostsAt(OldLoc)
      /\ BoxesWeighed(OldLoc, loc) /\ DelaysWeighed(loc)
  BY <1>1 DEF CostIInv
<1>4. \A n \in MarkedNets : n \in Nets /\ temp_net_cost[n] >= 0
  <2>1. \A n \in Nets : NetCost(loc, n) \in Nat
    BY <1>2, CostFacts
  <2>2. \A n \in MarkedNets : n \in Nets /\ temp_net_cost[n] = NetCost(loc, n)
    BY <1>3, MarkedFacts DEF BoxesWeighed
  <2> QED BY <2>1, <2>2
<1>5. \A n \in Nets \ MarkedNets : ~(temp_net_cost[n] >= 0)
  <2>1. \A n \in Nets \ MarkedNets : temp_net_cost[n] = -1
    BY <1>3 DEF BoxesWeighed
  <2> QED BY <2>1
<1> QED BY <1>1, <1>2, <1>3, <1>4, <1>5 DEF Marked

LEMMA FlagsReset ==
    ASSUME CostIInv, moved # {}, ResetFlags
    PROVE  Idle'
<1>1. \A n \in Nets : bb_updated_before'[n] = "NOT_UPDATED_YET"
  <2>1. \A n \in Nets \ Marked : bb_updated_before[n] = "NOT_UPDATED_YET"
    BY WeighedSwap DEF BoxesWeighed
  <2> QED BY <2>1 DEF ResetFlags
<1>2. bb_updated_before' = [n \in Nets |-> "NOT_UPDATED_YET"]
  <2>1. bb_updated_before' = [n \in Nets |-> bb_updated_before'[n]]
    BY DEF ResetFlags
  <2> QED BY <1>1, <2>1
<1> QED BY <1>2 DEF ResetFlags, Idle, Unmarked, NoDelta

(* Undone: the costs are still those of where the blocks go back to.       *)
LEMMA RejectSwapStep ==
    ASSUME CostIInv, RejectSwap
    PROVE  CostIInv'
<1>1. Reject /\ ResetFlags /\ moved # {} /\ moved' = {} /\ loc' = OldLoc
  BY DEF RejectSwap, Reject
<1>2. IInv' /\ Idle'
  BY <1>1, RejectStep, FlagsReset DEF CostIInv
<1>3. OldLoc' = OldLoc
  BY <1>1, <1>2, StillLocNext DEF IInv
<1>4. BoxesAt(OldLoc) /\ DelayCostsAt(OldLoc) /\ crit \in Criticalities
  BY <1>1, WeighedSwap DEF CostIInv
<1>5. UNCHANGED <<box, net_cost, bb_cost, crit, ptp_delay, ptp_timing, td_cost, delay_cost>>
  BY DEF RejectSwap
<1>6. BoxesAt(OldLoc)'
  BY <1>3, <1>4, <1>5 DEF BoxesAt
<1>7. DelayCostsAt(OldLoc)'
  BY <1>3, <1>4, <1>5 DEF DelayCostsAt
<1> QED BY <1>1, <1>2, <1>4, <1>5, <1>6, <1>7 DEF CostIInv

(* Kept: the boxes, costs and delays weighed become those of the placement.*)
LEMMA AcceptSwapStep ==
    ASSUME CostIInv, AcceptSwap
    PROVE  CostIInv'
<1> DEFINE set == AllChanged(MovedPins(moved))
<1>1. Accept /\ ResetFlags /\ moved # {} /\ moved' = {} /\ loc' = loc
  BY DEF AcceptSwap, Accept
<1>2. IInv' /\ Idle'
  BY <1>1, AcceptStep, FlagsReset DEF CostIInv
<1>3. OldLoc' = loc
  BY <1>1, <1>2, StillLocNext DEF IInv
<1>4. /\ OnGrid(loc) /\ OnGrid(OldLoc) /\ LeadsTo(moved, OldLoc, loc)
      /\ BoxesAt(OldLoc) /\ DelayCostsAt(OldLoc)
      /\ BoxesWeighed(OldLoc, loc) /\ DelaysWeighed(loc) /\ Marked = MarkedNets
  BY <1>1, WeighedSwap
<1>5. crit \in Criticalities /\ crit' = crit
  BY DEF CostIInv, AcceptSwap
<1>6. ASSUME NEW n \in Nets \ Marked
      PROVE  get_bb_from_scratch(loc, n) = get_bb_from_scratch(OldLoc, n)
  BY <1>4, UnmovedNet DEF MarkedNets
<1>7. BoxesAt(OldLoc)'
  <2>1. ASSUME NEW n \in Nets
        PROVE  SameBox(n, box'[n], get_bb_from_scratch(loc, n)) /\ net_cost'[n] = NetCost(loc, n)
    <3>1. CASE n \in Marked
      <4>1. box'[n] = ts_box[n] /\ net_cost'[n] = temp_net_cost[n]
        BY <3>1 DEF AcceptSwap
      <4> QED BY <1>4, <3>1, <4>1 DEF BoxesWeighed
    <3>2. CASE n \notin Marked
      <4>1. box'[n] = box[n] /\ net_cost'[n] = net_cost[n]
        BY <3>2 DEF AcceptSwap
      <4>2. SameBox(n, box[n], get_bb_from_scratch(OldLoc, n)) /\ net_cost[n] = NetCost(OldLoc, n)
        BY <1>4 DEF BoxesAt
      <4> QED BY <1>6, <3>2, <4>1, <4>2 DEF NetCost
    <3> QED BY <3>1, <3>2
  <2>2. net_cost' = [n \in Nets |-> NetCost(loc, n)]
    <3>1. net_cost' = [n \in Nets |-> net_cost'[n]]
      BY DEF AcceptSwap
    <3> QED BY <2>1, <3>1
  <2>3. bb_cost' = TrueBb(loc)
    BY <1>4 DEF AcceptSwap, BoxesWeighed
  <2>4. /\ \A n \in Nets : SameBox(n, box'[n], get_bb_from_scratch(OldLoc', n))
        /\ net_cost' = [n \in Nets |-> NetCost(OldLoc', n)]
        /\ bb_cost' = TrueBb(OldLoc')
    BY <1>3, <2>1, <2>2, <2>3
  <2> QED BY <2>4 DEF BoxesAt
<1>8. DelayCostsAt(OldLoc)'
  <2>1. ASSUME NEW c \in Conns
        PROVE  /\ ptp_delay'[c] = comp_td_point_to_point_delay(loc, c)
               /\ ptp_timing'[c] = crit[c] * comp_td_point_to_point_delay(loc, c)
    <3>1. CASE c \in set
      <4>1. ptp_delay'[c] = temp_delay[c] /\ ptp_timing'[c] = temp_timing[c]
        BY <3>1 DEF AcceptSwap, update_td_cost
      <4> QED BY <1>4, <3>1, <4>1 DEF DelaysWeighed
    <3>2. CASE c \notin set
      <4>1. ptp_delay'[c] = ptp_delay[c] /\ ptp_timing'[c] = ptp_timing[c]
        BY <3>2 DEF AcceptSwap, update_td_cost
      <4>2. /\ ptp_delay[c] = comp_td_point_to_point_delay(OldLoc, c)
            /\ ptp_timing[c] = crit[c] * comp_td_point_to_point_delay(OldLoc, c)
        BY <1>4 DEF DelayCostsAt, DelaysAt, TimingsAt
      <4>3. comp_td_point_to_point_delay(loc, c) = comp_td_point_to_point_delay(OldLoc, c)
        BY <1>4, <3>2, ChangedConns
      <4> QED BY <4>1, <4>2, <4>3
    <3> QED BY <3>1, <3>2
  <2>2. ptp_delay' = [c \in Conns |-> ptp_delay'[c]] /\ ptp_timing' = [c \in Conns |-> ptp_timing'[c]]
    BY DEF AcceptSwap, update_td_cost
  <2>3. ptp_delay' = DelaysAt(loc) /\ ptp_timing' = TimingsAt(loc, crit)
    BY <2>1, <2>2 DEF DelaysAt, TimingsAt
  <2>4. td_cost' = Total(TimingsAt(loc, crit)) /\ delay_cost' = Total(DelaysAt(loc))
    BY <1>4 DEF AcceptSwap, DelaysWeighed
  <2> QED BY <1>3, <1>5, <2>3, <2>4 DEF DelayCostsAt
<1> QED BY <1>1, <1>2, <1>5, <1>7, <1>8 DEF CostIInv

(* The steps before the costs are first computed, and those between swaps  *)
(* that only look at them.                                                 *)
LEMMA QuietSteps ==
    ASSUME CostIInv, UNCHANGED costs,
           \/ PlaceMacro \/ MacrosPlaced \/ CompactEntry \/ CompactNextType
           \/ PlaceBlock \/ OpenPadFile \/ ReadPadLine
           \/ BeginFreeze \/ Finish(CostsAgree) \/ PostPlaceSync \/ Ended
    PROVE  CostIInv'
<1>1. IInv
  BY DEF CostIInv
<1>2. CostsAgree \in BOOLEAN
  BY DEF CostsAgree
<1>3. IInv'
  BY <1>1, <1>2, PlaceMacroStep, MacrosPlacedStep, CompactEntryStep, CompactNextTypeStep,
     PlaceBlockStep, OpenPadFileStep, ReadPadLineStep, BeginFreezeStep, FinishStep,
     PostPlaceSyncStep, StutterStep DEF Ended
<1>4. ASSUME pc \in {"macros", "compact", "blocks", "pads"} PROVE moved = {}
  BY <1>1, <1>4 DEF IInv, Phases, Swapping
<1>5. CASE PlaceMacro
  <2>1. moved = {} /\ moved' = {} /\ ~Costed'
    BY <1>4, <1>5 DEF PlaceMacro, PutMacro, Stop, Costed
  <2> QED BY <1>3, <2>1, QuietStep
<1>6. CASE MacrosPlaced
  <2>1. moved = {} /\ moved' = {} /\ ~Costed'
    BY <1>4, <1>6 DEF MacrosPlaced, Costed
  <2> QED BY <1>3, <2>1, QuietStep
<1>7. CASE CompactEntry
  <2>1. moved = {} /\ moved' = {} /\ ~Costed'
    BY <1>4, <1>7 DEF CompactEntry, Costed
  <2> QED BY <1>3, <2>1, QuietStep
<1>8. CASE CompactNextType
  <2>1. moved = {} /\ moved' = {} /\ ~Costed'
    BY <1>4, <1>8 DEF CompactNextType, Costed
  <2> QED BY <1>3, <2>1, QuietStep
<1>9. CASE PlaceBlock
  <2>1. moved = {} /\ moved' = {} /\ ~Costed'
    BY <1>4, <1>9 DEF PlaceBlock, Stop, Costed
  <2> QED BY <1>3, <2>1, QuietStep
<1>10. CASE OpenPadFile
  <2>1. moved = {} /\ moved' = {} /\ ~Costed'
    BY <1>4, <1>10 DEF OpenPadFile, Costed
  <2> QED BY <1>3, <2>1, QuietStep
<1>11. CASE ReadPadLine
  <2>1. moved = {} /\ moved' = {} /\ ~Costed'
    BY <1>4, <1>11 DEF ReadPadLine, Stop, Costed
  <2> QED BY <1>3, <2>1, QuietStep
<1>12. CASE BeginFreeze
  <2>1. moved = {} /\ moved' = {} /\ Costed /\ loc' = loc
    BY <1>12 DEF BeginFreeze, Costed
  <2> QED BY <1>3, <2>1, QuietStep
<1>13. CASE Finish(CostsAgree)
  <2>1. moved = {} /\ moved' = {} /\ Costed /\ loc' = loc
    BY <1>13 DEF Finish, Stop, Costed
  <2> QED BY <1>3, <2>1, QuietStep
<1>14. CASE PostPlaceSync
  <2>1. moved = {} /\ moved' = moved /\ Costed /\ loc' = loc
    BY <1>1, <1>14 DEF PostPlaceSync, Costed, IInv, Phases, Swapping
  <2> QED BY <1>3, <2>1, QuietStep
<1>15. CASE Ended
  <2>1. moved = {} /\ UNCHANGED vars
    BY <1>1, <1>15 DEF Ended, IInv, Phases, Swapping
  <2>2. moved' = moved /\ loc' = loc /\ Costed' = Costed
    BY <2>1 DEF vars, Costed
  <2> QED BY <1>3, <2>1, <2>2, QuietStep
<1> QED BY <1>5, <1>6, <1>7, <1>8, <1>9, <1>10, <1>11, <1>12, <1>13, <1>14, <1>15

(* Nothing that costs are computed from changes.                           *)
LEMMA CostStutter ==
    ASSUME CostIInv, UNCHANGED <<vars, costs>>
    PROVE  CostIInv'
<1> USE DEF costs, box_vars, td_vars
<1>1. IInv'
  BY StutterStep DEF CostIInv
<1>2. moved' = moved /\ loc' = loc /\ Costed' = Costed /\ OldLoc' = OldLoc
  BY DEF vars, Costed, OldLoc
<1>3. crit' \in Criticalities /\ (moved' = {} => Idle')
  BY <1>2 DEF CostIInv, Idle
<1>4. Costed' => BoxesAt(OldLoc)' /\ DelayCostsAt(OldLoc)'
  <2>1. BoxesAt(OldLoc) => BoxesAt(OldLoc)'
    BY <1>2 DEF BoxesAt
  <2>2. DelayCostsAt(OldLoc) => DelayCostsAt(OldLoc)'
    BY <1>2 DEF DelayCostsAt
  <2> QED BY <1>2, <2>1, <2>2 DEF CostIInv
<1>5. moved' # {} => BoxesWeighed(OldLoc, loc)' /\ DelaysWeighed(loc)'
  <2>1. BoxesWeighed(OldLoc, loc) => BoxesWeighed(OldLoc, loc)'
    BY <1>2 DEF BoxesWeighed, MarkedNets
  <2>2. DelaysWeighed(loc) => DelaysWeighed(loc)'
    BY <1>2 DEF DelaysWeighed
  <2> QED BY <1>2, <2>1, <2>2 DEF CostIInv
<1> QED BY <1>1, <1>3, <1>4, <1>5 DEF CostIInv

LEMMA CostNextIInv == CostIInv /\ [CostNext]_cvars => CostIInv'
<1> SUFFICES ASSUME CostIInv, [CostNext]_cvars PROVE CostIInv'
  OBVIOUS
<1>1. CASE /\ \/ PlaceMacro \/ MacrosPlaced \/ CompactEntry \/ CompactNextType
              \/ PlaceBlock \/ OpenPadFile \/ ReadPadLine
              \/ BeginFreeze \/ Finish(CostsAgree) \/ PostPlaceSync \/ Ended
           /\ UNCHANGED costs
  BY <1>1, QuietSteps
<1>2. CASE StartCosts BY <1>2, StartCostsStep
<1>3. CASE RecomputeCriticalities BY <1>3, RecomputeStep
<1>4. ASSUME NEW b \in Blocks, NEW to \in Sites, ProposeSwap(b, to) PROVE CostIInv'
  BY <1>4, ProposeSwapStep
<1>5. ASSUME NEW b \in Blocks, NEW to \in Sites, Abort(b, to), UNCHANGED costs PROVE CostIInv'
  BY <1>5, AbortKeeps, CostStutter DEF CostIInv
<1>6. CASE AcceptSwap BY <1>6, AcceptSwapStep
<1>7. CASE RejectSwap BY <1>7, RejectSwapStep
<1>8. CASE UNCHANGED cvars BY <1>8, CostStutter DEF cvars
<1> QED BY <1>1, <1>2, <1>3, <1>4, <1>5, <1>6, <1>7, <1>8 DEF CostNext

LEMMA CostTotals ==
    ASSUME NEW l, OnGrid(l), crit \in Criticalities
    PROVE  TrueBb(l) \in Int /\ Total(TimingsAt(l, crit)) \in Int /\ Total(DelaysAt(l)) \in Int
<1> DEFINE f == [n \in Nets |-> NetCost(l, n)]
<1>1. f \in [Nets -> Int] /\ TrueBb(l) = Total(f)
  <2>1. \A n \in Nets : NetCost(l, n) \in Nat
    BY CostFacts
  <2>2. \A n \in Nets : NetCost(l, n) \in Int
    BY <2>1
  <2> QED BY <2>2 DEF TrueBb, NetCost
<1> HIDE DEF f
<1>2. Total(f) \in Int
  BY <1>1, FiniteParts, TotalInt
<1> QED BY <1>1, <1>2, FiniteParts, TimingTypes, TotalInt

(* What the placer keeps of boxes, costs and delays, with the marks of the *)
(* swap under way, holds in every state of every run.                      *)
THEOREM CostInvariant == CostSpec => []CostIInv
<1>1. CostInit => CostIInv
  BY CostInitIInv
<1>2. CostIInv /\ [CostNext]_cvars => CostIInv'
  BY CostNextIInv
<1> QED BY <1>1, <1>2, PTL DEF CostSpec

(* Keeping costs does not change where blocks go: each step of the placer  *)
(* with its costs is one of the placer.                                    *)
THEOREM CostsFollowPlacer == CostSpec => Spec
<1>1. CostInit => Init
  BY DEF CostInit
<1>2. [CostNext]_cvars => [Next]_vars
  <2> SUFFICES ASSUME [CostNext]_cvars PROVE [Next]_vars
    OBVIOUS
  <2>1. CostsAgree \in BOOLEAN
    BY DEF CostsAgree
  <2>2. CASE CostNext
    BY <2>1, <2>2 DEF CostNext, Next, StartCosts, RecomputeCriticalities, ProposeSwap,
                      AcceptSwap, RejectSwap
  <2>3. CASE UNCHANGED cvars
    BY <2>3 DEF cvars
  <2> QED BY <2>2, <2>3
<1> QED BY <1>1, <1>2, PTL DEF CostSpec, Spec

(* The costs try_place adds changes to are those of the placement computed *)
(* anew, boxes and connections too, and so are the changes by which        *)
(* try_swap judges a swap, however many pins it moves.                     *)
THEOREM CostsAreExact == CostSpec => []CostsExact
<1>1. CostIInv => CostsExact
  <2> SUFFICES ASSUME CostIInv, Costed PROVE CostsExact
    BY DEF CostsExact, BoxesExact
  <2>1. IInv /\ BoxesAt(OldLoc) /\ DelayCostsAt(OldLoc)
    BY DEF CostIInv
  <2>2. CASE moved = {}
    <3>1. OldLoc = loc /\ MovedPins(moved) = {} /\ delta = NoDelta
      BY <2>1, <2>2, StillLoc DEF IInv, CostIInv, Idle, MovedPins
    <3>2. BoxesExact
      BY <2>1, <3>1 DEF BoxesExact, BoxesAt
    <3>3. /\ bb_cost = TrueBb(OldLoc) /\ td_cost = Total(TimingsAt(OldLoc, crit))
          /\ delay_cost = Total(DelaysAt(OldLoc)) /\ ptp_delay = DelaysAt(OldLoc)
      BY <2>1 DEF BoxesAt, DelayCostsAt
    <3>4. bb_cost \in Int /\ td_cost \in Int /\ delay_cost \in Int
      <4>1. OnGrid(loc)
        BY <2>1, BlocksOnGrid
      <4> QED BY <2>1, <3>1, <3>3, <4>1, CostTotals DEF CostIInv
    <3>5. delta.bb = 0 /\ delta.td = 0 /\ delta.delay = 0
      BY <3>1 DEF NoDelta
    <3> QED BY <3>1, <3>2, <3>3, <3>4, <3>5 DEF CostsExact
  <2>3. CASE moved # {}
    <3>1. BoxesWeighed(OldLoc, loc) /\ DelaysWeighed(loc)
      BY <2>3 DEF CostIInv
    <3>2. BoxesExact
      BY <2>1, <3>1 DEF BoxesExact, BoxesAt, BoxesWeighed, MarkedNets
    <3> QED BY <2>1, <3>1, <3>2 DEF CostsExact, BoxesAt, DelayCostsAt, BoxesWeighed, DelaysWeighed
  <2> QED BY <2>2, <2>3
<1> QED BY <1>1, CostInvariant, PTL

-----------------------------------------------------------------------------
(***************************************************************************)
(* The array the placer works on: the search for its size.                 *)
(***************************************************************************)
(* A quotient of at least one.                                             *)
LEMMA DivPositive ==
    ASSUME NEW a \in Nat, NEW b \in Nat \ {0}, a >= b
    PROVE  a \div b \in Nat \ {0}
<1> DEFINE q == a \div b
<1>1. q \in Int /\ a - b * q < b /\ a - b * q >= 0
  OBVIOUS
<1> QED BY <1>1

(* Positive products.                                                      *)
LEMMA TimesPositive ==
    ASSUME NEW a \in Nat \ {0}, NEW b \in Nat \ {0}
    PROVE  a * b \in Nat /\ a * b >= a /\ a * b >= b
OBVIOUS

LEMMA NintPositive ==
    ASSUME NEW p \in Nat, NEW q \in Nat \ {0}, p >= q
    PROVE  Nint(p, q) \in Nat \ {0}
<1>1. 2 * p + q \in Nat /\ 2 * q \in Nat \ {0} /\ 2 * p + q >= 2 * q
  OBVIOUS
<1> QED BY <1>1, DivPositive DEF Nint

(* Both sides of an array are positive, and one of them is its size.       *)
LEMMA SidesPositive ==
    ASSUME NEW s \in Setups, NEW c \in Nat \ {0}
    PROVE  /\ WidthOf(s, c) \in Nat \ {0} /\ HeightOf(s, c) \in Nat \ {0}
           /\ WidthOf(s, c) = c \/ HeightOf(s, c) = c
<1> DEFINE n == s.aspect[1]
           d == s.aspect[2]
<1>1. n \in Nat \ {0} /\ d \in Nat \ {0}
  BY SetupsAssumption
<1>2. CASE Wide(s)
  <2>1. c * n \in Nat /\ c * n >= n BY <1>1, TimesPositive
  <2>2. c * n >= d BY <1>1, <1>2, <2>1 DEF Wide
  <2>3. Nint(c * n, d) \in Nat \ {0} BY <1>1, <2>1, <2>2, NintPositive
  <2> QED BY <1>2, <2>3 DEF WidthOf, HeightOf
<1>3. CASE ~Wide(s)
  <2>1. c * d \in Nat /\ c * d >= d BY <1>1, TimesPositive
  <2>2. c * d >= n BY <1>1, <1>3, <2>1 DEF Wide
  <2>3. Nint(c * d, n) \in Nat \ {0} BY <1>1, <2>1, <2>2, NintPositive
  <2> QED BY <1>3, <2>3 DEF WidthOf, HeightOf
<1> QED BY <1>2, <1>3

(* The middle of an interval lies in it, and strictly below its end.       *)
LEMMA MidpointBetween ==
    ASSUME NEW l \in Nat, NEW h \in Nat, l <= h
    PROVE  /\ Midpoint(l, h) \in Nat
           /\ l <= Midpoint(l, h) /\ Midpoint(l, h) <= h
<1>1. (h - l) \div 2 \in Nat /\ (h - l) \div 2 <= h - l
  OBVIOUS
<1> QED BY <1>1 DEF Midpoint

-----------------------------------------------------------------------------
(* The inductive invariant, one lemma per kind of step.                    *)

LEMMA SizingStarts == SizingInit => SizingIInv
<1> SUFFICES ASSUME SizingInit PROVE SizingIInv
  OBVIOUS
<1>1. setup \in Setups /\ setup.num_blocks \in Nat /\ setup.auto \in BOOLEAN
  BY SetupsAssumption DEF SizingInit
<1>2. current \in Nat \ {0}
  BY <1>1 DEF SizingInit
<1>3. SizingTypeOK
  BY <1>1, <1>2, MaxShortAssumption DEF SizingInit, SizingTypeOK, None
<1>4. SearchInv
  BY <1>1, <1>2 DEF SizingInit, SearchInv, None
<1> QED BY <1>3, <1>4 DEF SizingIInv

(* What an iteration may rely on.                                          *)
LEMMA GenerateTypes ==
    ASSUME SizingIInv, Generate
    PROVE  nx' \in Nat \ {0} /\ ny' \in Nat \ {0} /\ nx' < MaxShort /\ ny' < MaxShort
<1>1. setup \in Setups /\ current \in Nat \ {0}
  BY DEF SizingIInv, SizingTypeOK
<1> QED BY <1>1, SidesPositive DEF Generate, Allocatable

(* What the search knows while it goes on.                                 *)
LEMMA Sizing ==
    ASSUME SizingIInv, phase = "sizing"
    PROVE  /\ setup \in Setups /\ setup.auto
           /\ low \in Nat \ {0} /\ current \in Nat \ {0} /\ low <= current
           /\ high = None => low = 1
           /\ high # None => high \in Nat \ {0} /\ FitsAt(high) /\ current <= high
           /\ low > 1 => ~FitsAt(low) \/ ~FitsAt(low - 1)
BY DEF SizingIInv, SizingTypeOK, SearchInv

LEMMA ShrinkKeepsIInv ==
    ASSUME SizingIInv, Shrink
    PROVE  SizingIInv'
<1> USE DEF None
<1>1. phase = "sizing" /\ phase' = "sizing" /\ setup' = setup
  BY DEF Shrink, Searching
<1>2. /\ low \in Nat \ {0} /\ current \in Nat \ {0} /\ low <= current
      /\ low' = low /\ high' = current /\ FitsAt(current)
  BY <1>1, Sizing DEF Shrink
<1>3. current' \in Nat \ {0} /\ low <= current' /\ current' <= current
  BY <1>2, MidpointBetween DEF Shrink
<1>4. SizingTypeOK'
  BY <1>1, <1>2, <1>3, GenerateTypes DEF SizingIInv, SizingTypeOK, Shrink
<1>5. FitsAt(high)' /\ (low > 1 => ~FitsAt(low)' \/ ~FitsAt(low - 1)')
  BY <1>1, <1>2, Sizing DEF FitsAt
<1>6. SearchInv'
  BY <1>1, <1>2, <1>3, <1>5, Sizing DEF SearchInv
<1> QED BY <1>4, <1>6 DEF SizingIInv

LEMMA DoubleKeepsIInv ==
    ASSUME SizingIInv, Double
    PROVE  SizingIInv'
<1> USE DEF None
<1>1. phase = "sizing" /\ setup' = setup /\ low' = low /\ high' = high /\ high = None
  BY DEF Double, Searching
<1>2. phase' \in {"sizing", "too_large"} /\ current' = current * 2
  BY DEF Double
<1>3. current' \in Nat \ {0} /\ low = 1 /\ low <= current'
  BY <1>1, <1>2, Sizing
<1>4. SizingTypeOK'
  BY <1>1, <1>2, <1>3, GenerateTypes DEF SizingIInv, SizingTypeOK, Double
<1>5. SearchInv'
  BY <1>1, <1>2, <1>3, Sizing DEF SearchInv
<1> QED BY <1>4, <1>5 DEF SizingIInv

LEMMA GrowKeepsIInv ==
    ASSUME SizingIInv, Grow
    PROVE  SizingIInv'
<1> USE DEF None
<1>1. phase = "sizing" /\ phase' = "sizing" /\ setup' = setup /\ high' = high /\ high # None
  BY DEF Grow, Searching
<1>2. /\ low \in Nat \ {0} /\ current \in Nat \ {0} /\ high \in Nat \ {0}
      /\ low <= current /\ current <= high /\ FitsAt(high) /\ ~FitsAt(current)
  BY <1>1, Sizing DEF Grow
<1>3. current < high
  BY <1>2
<1>4. low' \in Nat \ {0} /\ low' <= high /\ (low' = current \/ low' = current + 1)
  BY <1>2, <1>3 DEF Grow
<1>5. current' \in Nat \ {0} /\ low' <= current' /\ current' <= high
  BY <1>1, <1>2, <1>4, MidpointBetween DEF Grow
<1>6. SizingTypeOK'
  BY <1>1, <1>2, <1>4, <1>5, GenerateTypes DEF SizingIInv, SizingTypeOK, Grow
<1>7. FitsAt(high)' /\ (~FitsAt(low') \/ ~FitsAt(low' - 1))
  <2>1. FitsAt(high)' BY <1>1, <1>2 DEF FitsAt
  <2>2. ~FitsAt(current) BY <1>2
  <2>3. CASE low' = current BY <2>1, <2>2, <2>3
  <2>4. CASE low' = current + 1
    <3>1. current \in Nat BY <1>2
    <3>2. low' - 1 = current BY <2>4, <3>1
    <3> QED BY <2>1, <2>2, <3>2
  <2> QED BY <1>4, <2>3, <2>4
<1>8. (~FitsAt(low') \/ ~FitsAt(low' - 1)) => (~FitsAt(low)' \/ ~FitsAt(low - 1)')
  BY <1>1 DEF FitsAt
<1>9. SearchInv'
  BY <1>1, <1>4, <1>5, <1>7, <1>8, Sizing DEF SearchInv
<1> QED BY <1>6, <1>9 DEF SizingIInv

LEMMA AutoSizedKeepsIInv ==
    ASSUME SizingIInv, AutoSized
    PROVE  SizingIInv'
<1> USE DEF None
<1>1. /\ phase = "sizing" /\ phase' = "sized" /\ setup' = setup
      /\ current' = current /\ low' = low /\ high' = high
  BY DEF AutoSized
<1>2. nx' = WidthOf(setup, current) /\ ny' = HeightOf(setup, current) /\ Generate
  BY DEF AutoSized, Generate
<1>3. high # None /\ ~(low < high)
  BY DEF AutoSized, Searching
<1>4. low = high
  BY <1>1, <1>3, Sizing
<1>5. SizingTypeOK'
  BY <1>1, <1>2, GenerateTypes DEF SizingIInv, SizingTypeOK
<1>6. SearchInv'
  BY <1>1, <1>2, <1>4, Sizing DEF SearchInv, FitsAt
<1> QED BY <1>5, <1>6 DEF SizingIInv

LEMMA FixedSizeKeepsIInv ==
    ASSUME SizingIInv, FixedSize
    PROVE  SizingIInv'
<1>1. setup \in Setups /\ phase = "fixed" /\ ~setup.auto
  BY DEF SizingIInv, SizingTypeOK, SearchInv, FixedSize
<1>2. setup.W \in Nat \ {0} /\ setup.H \in Nat \ {0}
  BY <1>1, SetupsAssumption
<1>3. SizingTypeOK'
  BY <1>2 DEF SizingIInv, SizingTypeOK, FixedSize, Allocatable
<1>4. SearchInv'
  BY <1>1 DEF FixedSize, SearchInv
<1> QED BY <1>3, <1>4 DEF SizingIInv

LEMMA SizeTooLargeKeepsIInv ==
    ASSUME SizingIInv, SizeTooLarge
    PROVE  SizingIInv'
<1>1. setup \in Setups /\ current \in Nat \ {0}
  BY DEF SizingIInv, SizingTypeOK
<1>2. nx' \in Nat \ {0} /\ ny' \in Nat \ {0}
  BY <1>1, SidesPositive DEF SizeTooLarge
<1> QED BY <1>2 DEF SizingIInv, SizingTypeOK, SearchInv, SizeTooLarge

(* The final check never rejects a size the search ended on.               *)
LEMMA FinalCheckKeepsIInv ==
    ASSUME SizingIInv, FinalCheck
    PROVE  SizingIInv'
<1> USE DEF None
<1>1. /\ phase = "sized" /\ phase' \in {"ready", "rejected"}
      /\ UNCHANGED <<setup, current, low, high, nx, ny>>
  BY DEF FinalCheck
<1>2. SizingTypeOK'
  BY <1>1 DEF SizingIInv, SizingTypeOK
<1>3. setup.auto => phase' = "ready"
  <2> SUFFICES ASSUME setup.auto PROVE Fits(setup, nx, ny)
    BY DEF FinalCheck
  <2>1. low \in Nat /\ high \in Nat \cup {None} /\ current \in Nat BY DEF SizingIInv, SizingTypeOK
  <2>2. low = high /\ low <= current /\ (high # None => FitsAt(high) /\ current <= high)
    BY <1>1 DEF SizingIInv, SearchInv
  <2>3. FitsAt(high) /\ current = high BY <2>1, <2>2
  <2>4. nx = WidthOf(setup, current) /\ ny = HeightOf(setup, current)
    BY <1>1 DEF SizingIInv, SearchInv
  <2> QED BY <2>3, <2>4 DEF FitsAt
<1>4. SearchInv'
  BY <1>1, <1>3 DEF SizingIInv, SearchInv, FitsAt
<1> QED BY <1>2, <1>4 DEF SizingIInv

LEMMA SizingGoesOn == SizingIInv /\ [SizingNext]_sizing_vars => SizingIInv'
<1> SUFFICES ASSUME SizingIInv, [SizingNext]_sizing_vars PROVE SizingIInv'
  OBVIOUS
<1>1. CASE UNCHANGED sizing_vars
  BY <1>1 DEF SizingIInv, SizingTypeOK, SearchInv, FitsAt, sizing_vars
<1>2. CASE SizingEnded
  BY <1>2, <1>1 DEF SizingEnded
<1>3. CASE SizingNext
  BY <1>2, <1>3, ShrinkKeepsIInv, DoubleKeepsIInv, GrowKeepsIInv, AutoSizedKeepsIInv,
     FixedSizeKeepsIInv, SizeTooLargeKeepsIInv, FinalCheckKeepsIInv DEF SizingNext
<1> QED BY <1>1, <1>3

-----------------------------------------------------------------------------
(* Every reachable state of the search satisfies the invariant.            *)
THEOREM SizingInvariant == SizingSpec => []SizingIInv
BY SizingStarts, SizingGoesOn, PTL DEF SizingSpec

(* The coordinates of a grid that is kept are positive and are shorts.     *)
THEOREM SizingTypeCorrect == SizingSpec => []SizingTypeOK
<1>1. SizingIInv => SizingTypeOK
  BY DEF SizingIInv
<1> QED BY <1>1, SizingInvariant, PTL

(* What the invariant says of the size the search ends on.                 *)
LEMMA EndOfSearch ==
    ASSUME SizingIInv, setup.auto, phase = "ready"
    PROVE  /\ setup \in Setups /\ current \in Nat \ {0} /\ current = low /\ FitsAt(current)
           /\ nx = WidthOf(setup, current) /\ ny = HeightOf(setup, current)
           /\ current > 1 => ~FitsAt(current - 1)
<1> USE DEF None
<1>1. setup \in Setups /\ low \in Nat \ {0} /\ high \in Nat \cup {None} /\ current \in Nat \ {0}
  BY DEF SizingIInv, SizingTypeOK
<1>2. low = high /\ low <= current /\ (high # None => FitsAt(high) /\ current <= high)
  BY DEF SizingIInv, SearchInv
<1>3. current = low /\ current = high /\ FitsAt(current)
  BY <1>1, <1>2
<1>4. nx = WidthOf(setup, current) /\ ny = HeightOf(setup, current)
  BY DEF SizingIInv, SearchInv
<1>5. low > 1 => ~FitsAt(low) \/ ~FitsAt(low - 1)
  BY DEF SizingIInv, SearchInv
<1>6. current > 1 => ~FitsAt(current - 1)
  BY <1>3, <1>5
<1> QED BY <1>1, <1>3, <1>4, <1>6

(* The search never ends on a size that the final check rejects, and the   *)
(* netlist does not fit the size right below the one it ends on.           *)
THEOREM SearchIsTight == SizingSpec => []SizeIsTight
<1>1. SizingIInv => SizeIsTight
  <2> SUFFICES ASSUME SizingIInv PROVE SizeIsTight
    OBVIOUS
  <2>1. SizingTypeOK /\ (setup.auto => phase # "rejected")
    BY DEF SizingIInv, SearchInv
  <2>2. ASSUME setup.auto, phase = "ready"
        PROVE  setup.chain <= ny /\ FitsAt(current) /\ (current > 1 => ~FitsAt(current - 1))
    BY <2>2, EndOfSearch DEF FitsAt, Fits
  <2> QED BY <2>1, <2>2 DEF SizeIsTight
<1> QED BY <1>1, SizingInvariant, PTL

(* Where larger arrays hold what smaller ones do, no smaller array than    *)
(* the one the search ends on holds the netlist.                           *)
THEOREM SearchFindsSmallest == SizingSpec => []SmallestFits
<1>1. SizingIInv => SmallestFits
  <2> SUFFICES ASSUME SizingIInv, setup.auto, phase = "ready", Monotone,
                      NEW c \in Sizes, FitsAt(c), ~(current <= c)
               PROVE  FALSE
    BY DEF SmallestFits
  <2>1. current \in Nat \ {0} /\ c \in Nat \ {0}
    BY EndOfSearch, MaxShortAssumption DEF Sizes
  <2>2. current > 1 /\ c <= current - 1
    BY <2>1
  <2>3. current - 1 \in Sizes
    <3>1. nx < MaxShort /\ ny < MaxShort BY DEF SizingIInv, SizingTypeOK
    <3>2. nx = current \/ ny = current
      BY EndOfSearch, SidesPositive
    <3> QED BY <2>1, <2>2, <3>1, <3>2, MaxShortAssumption DEF Sizes
  <2>4. FitsAt(current - 1) BY <2>2, <2>3 DEF Monotone
  <2>5. ~FitsAt(current - 1) BY <2>2, EndOfSearch
  <2> QED BY <2>4, <2>5
<1> QED BY <1>1, SizingInvariant, PTL
=============================================================================
