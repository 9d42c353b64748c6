------------------------------- MODULE Placer -------------------------------
(***************************************************************************)
(* Where the complex blocks stand while the placer works:                  *)
(* vpr7_rram/vpr/SRC/place/place.c, with read_user_pad_loc of              *)
(* base/read_place.c and post_place_sync of base/place_and_route.c.        *)
(*                                                                         *)
(* Two tables tell where a block is: its own coordinates (loc) and the     *)
(* grid.  The initial placement puts the macros down, drops the occupied   *)
(* entries from the lists of legal positions, puts every other block on a  *)
(* listed position, and restores the lists.  A swap changes the            *)
(* coordinates when it is proposed and the grid when it is accepted.       *)
(* Where a random number picks a position, any one may be picked: the      *)
(* range limit and the number of tries only make some choices rarer.       *)
(***************************************************************************)
EXTENDS Integers, Sequences, FiniteSets

CONSTANTS
    NX, NY,         \* size of the array inside the ring of pads
    NumTypes,       \* block types are 1 .. NumTypes
    IoType,         \* the type of the pads
    EmptyType,      \* what is left of a column too short for its type
    IoCapacity,     \* pads per cell of the ring
    CellType,       \* [Cells -> Types \cup {EmptyType}]
    Offset,         \* [Cells -> row of a tall block the cell holds]
    LegalPos,       \* [Types -> its legal positions, in grid order]
    Blocks,         \* block numbers
    BlockType,      \* [Blocks -> Types]
    Macros,         \* sequence of macros, each of [blk, offset] members
    PadLocTypes,    \* what pad_loc_type may be: "RANDOM", "USER"
    PadFile         \* lines of the pad file: [blk, site]

Empty    == -1                          \* EMPTY and OPEN
Unplaced == <<-1, -1, -1>>
Types    == 1 .. NumTypes
Core     == (1 .. NX) \X (1 .. NY)
Ring     == ({0, NX + 1} \X (1 .. NY)) \cup ((1 .. NX) \X {0, NY + 1})
Cells    == Core \cup Ring

CellOf(s) == <<s[1], s[2]>>

(* The entries of grid[x][y].blocks: one in the core, even where the cell  *)
(* is of EMPTY_TYPE, and the capacity of the pads in the ring.             *)
Sites == {<<c[1], c[2], 0>> : c \in Core}
    \cup {<<c[1], c[2], z>> : c \in Ring, z \in 0 .. IoCapacity - 1}

TypeAt(s) == CellType[CellOf(s)]

LegalSites(t) == {s \in Sites : TypeAt(s) = t /\ Offset[CellOf(s)] = 0}

NumLegalPos(t) == Len(LegalPos[t])

Shift(s, o) == <<s[1] + o[1], s[2] + o[2], s[3] + o[3]>>
Minus(s, r) == <<s[1] - r[1], s[2] - r[2], s[3] - r[3]>>

Members(m)  == 1 .. Len(Macros[m])
BlocksOf(m) == {Macros[m][k].blk : k \in Members(m)}
InMacro(b)  == \E m \in DOMAIN Macros : b \in BlocksOf(m)
MacroOf(b)  == CHOOSE m \in DOMAIN Macros : b \in BlocksOf(m)

ASSUME GridAssumption ==
    /\ NX \in Nat \ {0} /\ NY \in Nat \ {0}
    /\ NumTypes \in Nat /\ IoCapacity \in Nat \ {0}
    /\ IoType \in Types /\ EmptyType \notin Types
    /\ CellType \in [Cells -> Types \cup {EmptyType}]
    /\ \A c \in Ring : CellType[c] = IoType
    /\ \A c \in Core : CellType[c] # IoType
    /\ Offset \in [Cells -> Nat]

(* LegalPos[t] lists every legal position of type t once.                  *)
ASSUME LegalPosAssumption ==
    /\ LegalPos \in [Types -> Seq(Sites)]
    /\ \A t \in Types :
        /\ {LegalPos[t][i] : i \in 1 .. NumLegalPos(t)} = LegalSites(t)
        /\ \A i, j \in 1 .. NumLegalPos(t) :
                LegalPos[t][i] = LegalPos[t][j] => i = j

ASSUME BlocksAssumption ==
    /\ Blocks \subseteq Nat /\ IsFiniteSet(Blocks)
    /\ BlockType \in [Blocks -> Types]

(* A macro is a chain of blocks of one core type, its head at offset 0; no *)
(* block is in two of them.                                                *)
ASSUME MacrosAssumption ==
    /\ Macros \in Seq(Seq([blk : Blocks, offset : Int \X Int \X Int]))
    /\ \A m \in DOMAIN Macros :
        /\ Macros[m] # <<>>
        /\ Macros[m][1].offset = <<0, 0, 0>>
        /\ \A k \in Members(m) :
            /\ BlockType[Macros[m][k].blk] = BlockType[Macros[m][1].blk]
            /\ BlockType[Macros[m][k].blk] # IoType
        /\ \A k, l \in Members(m) : k # l =>
            /\ Macros[m][k].blk # Macros[m][l].blk
            /\ Macros[m][k].offset # Macros[m][l].offset
    /\ \A m, n \in DOMAIN Macros : m # n => BlocksOf(m) \cap BlocksOf(n) = {}

(* Nothing in the program checks that the lines name different sites.      *)
ASSUME PadAssumption ==
    /\ PadLocTypes \subseteq {"RANDOM", "USER"}
    /\ PadFile \in Seq([blk : {b \in Blocks : BlockType[b] = IoType},
                        site : Sites])
    /\ \A i, j \in DOMAIN PadFile :
            PadFile[i].site = PadFile[j].site => i = j

VARIABLES
    pc,             \* where try_place is
    loc,            \* [Blocks -> x, y, z]
    grid,           \* [Sites -> block or Empty]
    usage,          \* [Cells -> Nat]
    legal,          \* legal_pos: [Types -> Seq(Sites)]
    free,           \* free_locations: [Types -> entries worth considering]
    imacro,         \* next macro
    itype, ichoice, \* entry of legal_pos under review
    pad_loc_type,   \* whether the user places the pads
    iline,          \* next line of the pad file
    fixed,          \* isFixed
    moved,          \* blocks_affected: set of [blk, old, new, to_empty]
    sub             \* sub-block whose pins a block's nets are on

lists == <<legal, free, itype, ichoice>>
file  == <<pad_loc_type, iline>>
vars  == <<pc, loc, grid, usage, lists, imacro, file, fixed, moved, sub>>
-----------------------------------------------------------------------------
(* Initial placement.                                                      *)
Init ==
    /\ pc = "macros"
    /\ loc = [b \in Blocks |-> Unplaced]
    /\ grid = [s \in Sites |-> Empty]
    /\ usage = [c \in Cells |-> 0]
    /\ legal = LegalPos
    /\ free = [t \in Types |-> NumLegalPos(t)]
    /\ pad_loc_type \in PadLocTypes
    /\ imacro = 1 /\ itype = 1 /\ ichoice = 1 /\ iline = 1
    /\ fixed = {} /\ moved = {}
    /\ sub = [b \in Blocks |-> 0]

Placed(b) == loc[b][1] # -1

(* exit(1) or a failed assertion.                                          *)
Stop(why) ==
    /\ pc' = why
    /\ UNCHANGED <<loc, grid, usage, lists, imacro, file, fixed, moved, sub>>

MemberSite(m, k, head) == Shift(head, Macros[m][k].offset)

MacroCanBePlaced(m, head) ==
    \A k \in Members(m) :
        LET s == MemberSite(m, k, head) IN
        /\ s \in Sites
        /\ TypeAt(s) = BlockType[Macros[m][1].blk]
        /\ grid[s] = Empty

(* Block of macro m that stands at s when the head stands at head.         *)
MemberAt(m, head, s) ==
    Macros[m][CHOOSE k \in Members(m) : MemberSite(m, k, head) = s].blk

HeadChoices(m) ==
    LET t == BlockType[Macros[m][1].blk]
    IN  {i \in 1 .. free[t] : MacroCanBePlaced(m, legal[t][i])}

PutMacro(m, head) ==
    LET taken == {MemberSite(m, k, head) : k \in Members(m)} IN
    /\ loc' = [b \in Blocks |->
                 IF b \in BlocksOf(m)
                 THEN MemberSite(m, CHOOSE k \in Members(m) :
                                        Macros[m][k].blk = b, head)
                 ELSE loc[b]]
    /\ grid' = [s \in Sites |-> IF s \in taken THEN MemberAt(m, head, s)
                                               ELSE grid[s]]
    /\ usage' = [c \in Cells |->
                   usage[c] + Cardinality({s \in taken : CellOf(s) = c})]

(* A few random heads are tried, then every one: a macro fails only when   *)
(* it fits nowhere.                                                        *)
PlaceMacro ==
    /\ pc = "macros" /\ imacro <= Len(Macros)
    /\ IF \/ free[BlockType[Macros[imacro][1].blk]] < Len(Macros[imacro])
          \/ HeadChoices(imacro) = {}
       THEN Stop("no_room")
       ELSE /\ \E i \in HeadChoices(imacro) :
                    PutMacro(imacro,
                             legal[BlockType[Macros[imacro][1].blk]][i])
            /\ imacro' = imacro + 1
            /\ UNCHANGED <<pc, lists, file, fixed, moved, sub>>

MacrosPlaced ==
    /\ pc = "macros" /\ imacro > Len(Macros)
    /\ pc' = "compact"
    /\ UNCHANGED <<loc, grid, usage, lists, imacro, file, fixed, moved, sub>>

(* One entry of the lists: an occupied one is overwritten by the last and  *)
(* looked at again.                                                        *)
CompactEntryMovesOn ==      \* mutant: an overwritten entry is not looked at
    /\ pc = "compact" /\ itype <= NumTypes /\ ichoice <= free[itype]
    /\ IF grid[legal[itype][ichoice]] # Empty
       THEN /\ legal' = [legal EXCEPT ![itype][ichoice] =
                                         legal[itype][free[itype]]]
            /\ free' = [free EXCEPT ![itype] = @ - 1]
       ELSE UNCHANGED <<legal, free>>
    /\ ichoice' = ichoice + 1
    /\ UNCHANGED <<pc, loc, grid, usage, itype, imacro, file, fixed, moved,
                   sub>>

CompactEntry ==
    /\ pc = "compact" /\ itype <= NumTypes /\ ichoice <= free[itype]
    /\ IF grid[legal[itype][ichoice]] # Empty
       THEN /\ legal' = [legal EXCEPT ![itype][ichoice] =
                                         legal[itype][free[itype]]]
            /\ free' = [free EXCEPT ![itype] = @ - 1]
            /\ UNCHANGED ichoice
       ELSE /\ ichoice' = ichoice + 1
            /\ UNCHANGED <<legal, free>>
    /\ UNCHANGED <<pc, loc, grid, usage, itype, imacro, file, fixed, moved,
                   sub>>

CompactNextType ==
    /\ pc = "compact" /\ itype <= NumTypes /\ ichoice > free[itype]
    /\ itype' = itype + 1 /\ ichoice' = 1
    /\ pc' = IF itype = NumTypes THEN "blocks" ELSE pc
    /\ UNCHANGED <<loc, grid, usage, legal, free, imacro, file, fixed, moved,
                   sub>>

(* Pads wait for the pad file when the user gives one.                     *)
LeftToPlace ==
    {b \in Blocks : ~Placed(b) /\ ~(BlockType[b] = IoType /\ pad_loc_type = "USER")}

PlaceBlock ==
    /\ pc = "blocks"
    /\ \E b \in LeftToPlace :
        LET t == BlockType[b] IN
        /\ \A c \in LeftToPlace : b <= c
        /\ IF free[t] <= 0 THEN Stop("no_room")
           ELSE \E i \in 1 .. free[t] :
              LET s == legal[t][i] IN
              IF grid[s] # Empty THEN Stop("assert")
              ELSE /\ grid' = [grid EXCEPT ![s] = b]
                   /\ usage' = [usage EXCEPT ![CellOf(s)] = @ + 1]
                   /\ loc' = [loc EXCEPT ![b] = s]
                   /\ legal' = [legal EXCEPT ![t][i] = legal[t][free[t]]]
                   /\ free' = [free EXCEPT ![t] = @ - 1]
                   /\ UNCHANGED <<pc, itype, ichoice, imacro, file, fixed,
                                  moved, sub>>

(* read_user_pad_loc marks the pads as not seen and their sites as open.   *)
OpenPadFile ==
    /\ pc = "blocks" /\ LeftToPlace = {} /\ pad_loc_type = "USER"
    /\ pc' = "pads"
    /\ loc' = [b \in Blocks |->
                 IF BlockType[b] = IoType THEN <<-1, loc[b][2], loc[b][3]>>
                                          ELSE loc[b]]
    /\ grid' = [s \in Sites |-> IF TypeAt(s) = IoType THEN Empty ELSE grid[s]]
    /\ UNCHANGED <<usage, lists, imacro, file, fixed, moved, sub>>

(* A line gives the block its x and y, and the grid its z.                 *)
ReadPadLine ==
    /\ pc = "pads" /\ iline <= Len(PadFile)
    /\ LET b == PadFile[iline].blk
           s == PadFile[iline].site IN
       IF Placed(b) \/ TypeAt(s) # IoType THEN Stop("bad_pad_file")
       ELSE /\ loc' = [loc EXCEPT ![b] = <<s[1], s[2], @[3]>>]
            /\ fixed' = fixed \cup {b}
            /\ grid' = [grid EXCEPT ![s] = b]
            /\ usage' = [usage EXCEPT ![CellOf(s)] = @ + 1]
            /\ iline' = iline + 1
            /\ UNCHANGED <<pc, lists, pad_loc_type, imacro, moved, sub>>

PadsRead == pc = "pads" /\ iline > Len(PadFile)

(* End of initial_placement: the lists are restored.                       *)
LoadLegalPlacements ==
    /\ \/ pc = "blocks" /\ LeftToPlace = {} /\ pad_loc_type # "USER"
       \/ PadsRead
    /\ IF \E b \in Blocks : ~Placed(b) THEN Stop("bad_pad_file")
       ELSE /\ pc' = "anneal"
            /\ legal' = LegalPos
            /\ free' = [t \in Types |-> NumLegalPos(t)]
            /\ itype' = 1 /\ ichoice' = 1
            /\ UNCHANGED <<loc, grid, usage, imacro, file, fixed, moved, sub>>
-----------------------------------------------------------------------------
(* Swaps.                                                                  *)
Movable == Blocks \ fixed

(* find_to: another cell of the block's type, and any z of it.             *)
FindTo(b) == {s \in LegalSites(BlockType[b]) : CellOf(s) # CellOf(loc[b])}

(* The whole macro moves with its member.                                  *)
Movers(b) == IF InMacro(b) THEN BlocksOf(MacroOf(b)) ELSE {b}

Target(b, to, c) == Shift(loc[c], Minus(to, loc[b]))

OnChip(s) == s[1] \in 1 .. NX /\ s[2] \in 1 .. NY /\ s[3] >= 0

AbortedForHead(b, to) ==    \* mutant: looks at the block that was picked
    \/ InMacro(b) /\ \E c \in Movers(b) : ~OnChip(Target(b, to, c))
    \/ grid[to] # Empty /\ InMacro(grid[to])

(* A member leaves the chip, or would change places with a macro.          *)
Fails(b, to, c) ==
    \/ InMacro(b) /\ ~OnChip(Target(b, to, c))
    \/ LET o == grid[Target(b, to, c)] IN o # Empty /\ InMacro(o)

Aborted(b, to) == \E c \in Movers(b) : Fails(b, to, c)

(* setup_blocks_affected for the movers cs: each goes to its target and    *)
(* takes the block there, if any, to the place it leaves.                  *)
MovesOf(b, to, cs) ==
    {[blk |-> c, old |-> loc[c], new |-> Target(b, to, c),
      to_empty |-> grid[Target(b, to, c)] = Empty] : c \in cs}
    \cup
    {[blk |-> grid[Target(b, to, c)], old |-> Target(b, to, c),
      new |-> loc[c], to_empty |-> FALSE] :
        c \in {d \in cs : grid[Target(b, to, d)] # Empty}}

Moves(b, to) == MovesOf(b, to, Movers(b))

(* The members of the macro that have moved when the first one fails.      *)
Begun(b, to) ==
    {c \in Movers(b) : InMacro(b) /\
        \E k \in Members(MacroOf(b)) :
            /\ Macros[MacroOf(b)][k].blk = c
            /\ \A j \in 1 .. k : ~Fails(b, to, Macros[MacroOf(b)][j].blk)}

(* Each member is asserted to stand on a cell of its type before its move  *)
(* is set up.                                                              *)
Misplaced(b, to) ==
    InMacro(b) /\ \E k \in Members(MacroOf(b)) :
        LET Member(j) == Macros[MacroOf(b)][j].blk IN
        /\ TypeAt(loc[Member(k)]) # BlockType[Member(k)]
        /\ \A j \in 1 .. k - 1 : ~Fails(b, to, Member(j))

NewLoc(moves) ==
    [b \in Blocks |-> IF \E m \in moves : m.blk = b
                      THEN (CHOOSE m \in moves : m.blk = b).new ELSE loc[b]]
OldLoc ==
    [b \in Blocks |-> IF \E m \in moved : m.blk = b
                      THEN (CHOOSE m \in moved : m.blk = b).old ELSE loc[b]]

(* The coordinates after the moves of part were made and undone.           *)
PutBack(part) ==
    [b \in Blocks |-> IF \E m \in part : m.blk = b
                      THEN (CHOOSE m \in part : m.blk = b).old
                      ELSE NewLoc(part)[b]]

(* The first half of try_swap: the coordinates change, the grid does not.  *)
(* A swap that finds nowhere to go leaves all as it was.                   *)
Propose(b, to) ==
    /\ pc \in {"anneal", "freeze"} /\ moved = {}
    /\ b \in Movable
    /\ IF TypeAt(loc[b]) # BlockType[b] THEN Stop("assert")
       ELSE /\ to \in FindTo(b)
            /\ IF Misplaced(b, to) THEN Stop("assert")
               ELSE /\ ~Aborted(b, to)
                    /\ moved' = Moves(b, to)
                    /\ loc' = NewLoc(moved')
                    /\ UNCHANGED <<pc, grid, usage, lists, imacro, file, fixed, sub>>

(* A swap found impossible half way.                                       *)
Abort(b, to) ==
    /\ pc \in {"anneal", "freeze"} /\ moved = {}
    /\ b \in Movable /\ TypeAt(loc[b]) = BlockType[b]
    /\ to \in FindTo(b) /\ Aborted(b, to) /\ ~Misplaced(b, to)
    /\ loc' = PutBack(MovesOf(b, to, Begun(b, to)))
    /\ UNCHANGED <<pc, grid, usage, lists, imacro, file, fixed, moved, sub>>

AcceptKeepsOld ==       \* mutant: the places left are not emptied
    /\ moved # {}
    /\ grid' = [s \in Sites |->
                  IF \E m \in moved : m.new = s
                  THEN (CHOOSE m \in moved : m.new = s).blk ELSE grid[s]]
    /\ moved' = {}
    /\ UNCHANGED <<pc, loc, usage, lists, imacro, file, fixed, sub>>

(* The second half, kept: no place is both left empty and taken, so the    *)
(* order in which the moved blocks enter the grid does not matter.         *)
Accept ==
    /\ moved # {}
    /\ grid' = [s \in Sites |->
                  IF \E m \in moved : m.new = s
                  THEN (CHOOSE m \in moved : m.new = s).blk
                  ELSE IF \E m \in moved : m.to_empty /\ m.old = s
                  THEN Empty ELSE grid[s]]
    /\ usage' = [c \in Cells |->
          usage[c]
            + Cardinality({m \in moved : m.to_empty /\ CellOf(m.new) = c})
            - Cardinality({m \in moved : m.to_empty /\ CellOf(m.old) = c})]
    /\ moved' = {}
    /\ UNCHANGED <<pc, loc, lists, imacro, file, fixed, sub>>

(* The second half, undone.                                                *)
Reject ==
    /\ moved # {}
    /\ loc' = OldLoc
    /\ moved' = {}
    /\ UNCHANGED <<pc, grid, usage, lists, imacro, file, fixed, sub>>

(* exit_crit holds.  Without a block that may move, the first try_swap     *)
(* looks for one for ever.                                                 *)
BeginFreeze ==
    /\ pc = "anneal" /\ moved = {} /\ Movable # {}
    /\ pc' = "freeze"
    /\ UNCHANGED <<loc, grid, usage, lists, imacro, file, fixed, moved, sub>>

UsedIn(c) == {s \in Sites : CellOf(s) = c /\ grid[s] # Empty}

(* check_place, but for the costs, which it recomputes too (costs_agree).  *)
(* Blocks and grid are compared in x and y only.                           *)
CheckPlace ==
    /\ \A c \in Cells :
        /\ usage[c] <= IF c \in Ring THEN IoCapacity
                       ELSE IF CellType[c] = EmptyType THEN 0 ELSE 1
        /\ CellType[c] # EmptyType => usage[c] = Cardinality(UsedIn(c))
    /\ \A s \in Sites : grid[s] # Empty /\ TypeAt(s) # EmptyType =>
        /\ BlockType[grid[s]] = TypeAt(s)
        /\ CellOf(loc[grid[s]]) = CellOf(s)
    /\ \A b \in Blocks :
        Cardinality({s \in Sites : grid[s] = b /\ TypeAt(s) # EmptyType}) = 1
    /\ \A m \in DOMAIN Macros : \A k \in Members(m) :
        LET s == MemberSite(m, k, loc[Macros[m][1].blk]) IN
        loc[Macros[m][k].blk] = s /\ grid[s] = Macros[m][k].blk

Finish(costs_agree) ==
    /\ pc = "freeze" /\ moved = {}
    /\ IF CheckPlace /\ costs_agree
       THEN /\ pc' = "placed"
            /\ UNCHANGED <<loc, grid, usage, lists, imacro, file, fixed,
                           moved, sub>>
       ELSE Stop("check_failed")

(* The nets of a block with z > 0 move to the pins of that sub-block.      *)
PostPlaceSync ==
    /\ pc = "placed"
    /\ sub' = [b \in Blocks |-> IF loc[b][3] > 0 THEN loc[b][3] ELSE 0]
    /\ pc' = "synced"
    /\ UNCHANGED <<loc, grid, usage, lists, imacro, file, fixed, moved>>

Ended ==
    /\ pc \in {"synced", "no_room", "bad_pad_file", "assert", "check_failed"}
    /\ UNCHANGED vars

Next ==
    \/ PlaceMacro \/ MacrosPlaced \/ CompactEntry \/ CompactNextType
    \/ PlaceBlock \/ OpenPadFile \/ ReadPadLine \/ LoadLegalPlacements
    \/ \E b \in Blocks, to \in Sites : Propose(b, to) \/ Abort(b, to)
    \/ Accept \/ Reject \/ BeginFreeze \/ PostPlaceSync
    \/ \E costs_agree \in BOOLEAN : Finish(costs_agree)
    \/ Ended

Spec == Init /\ [][Next]_vars
-----------------------------------------------------------------------------
(* Where the grid has, or should have, a block: a proposed swap is not in  *)
(* the grid yet.                                                           *)
Held(b) == OldLoc[b]

TypeOK ==
    /\ pc \in {"macros", "compact", "blocks", "pads", "anneal", "freeze",
               "placed", "synced", "no_room", "bad_pad_file", "assert",
               "check_failed"}
    /\ loc \in [Blocks -> Int \X Int \X Int]
    /\ grid \in [Sites -> Blocks \cup {Empty}]
    /\ usage \in [Cells -> Int]
    /\ legal \in [Types -> Seq(Sites)]
    /\ free \in [Types -> Int]
    /\ imacro \in Nat \ {0} /\ iline \in Nat \ {0}
    /\ itype \in Nat \ {0} /\ ichoice \in Nat \ {0}
    /\ pad_loc_type \in PadLocTypes
    /\ fixed \subseteq Blocks
    /\ moved \subseteq [blk : Blocks, old : Int \X Int \X Int,
                         new : Int \X Int \X Int, to_empty : BOOLEAN]
    /\ sub \in [Blocks -> Int]

(* The two tables agree, whatever sequence of macros, blocks and swaps,    *)
(* accepted, refused or aborted, came before: a placed block is one entry  *)
(* of the grid, the one its coordinates (those before a swap under way)    *)
(* name.  Of a pad the user placed only x and y say where it is, and that  *)
(* is all check_place looks at, once, when the placement is over.          *)
SitesAgree ==
    \A b \in Blocks :
        IF Placed(b)
        THEN \E s \in Sites :
                /\ \A r \in Sites : grid[r] = b <=> r = s
                /\ IF b \in fixed THEN CellOf(s) = CellOf(Held(b))
                                  ELSE s = Held(b)
        ELSE \A s \in Sites : grid[s] # b

(* usage, raised and lowered only when a swap goes to an empty place,      *)
(* counts the blocks of a cell.                                            *)
UsageExact == \A c \in Cells : usage[c] = Cardinality(UsedIn(c))

(* The grid tells the truth: which block is where, and how many a cell     *)
(* has, at every step of every swap.                                       *)
GridExact == SitesAgree /\ UsageExact

(* Every placed macro keeps its shape, before, during and after a swap,    *)
(* its own or one that displaces blocks: no block of a macro ever moves    *)
(* without the others.                                                     *)
MacrosIntact ==
    \A m \in DOMAIN Macros : m < imacro =>
        \A k \in Members(m) :
            loc[Macros[m][k].blk] = MemberSite(m, k, loc[Macros[m][1].blk])

(* While blocks are put down one by one, the entries of legal_pos still    *)
(* worth considering are the free legal positions, each once: the removal  *)
(* that looks at the same entry again, and the overwriting by the last     *)
(* entry, lose none and keep no occupied one.                              *)
FreeListExact ==
    pc = "blocks" => \A t \in Types :
        /\ {legal[t][i] : i \in 1 .. free[t]} =
                {s \in LegalSites(t) : grid[s] = Empty}
        /\ \A i, j \in 1 .. free[t] : legal[t][i] = legal[t][j] => i = j

(* After post_place_sync the nets of a block the placer put down are on    *)
(* the pins of the sub-block at which the grid holds it, so that no two    *)
(* blocks of a cell share pins.                                            *)
PinsFollowSite ==
    pc = "synced" =>
        \A b \in Blocks \ fixed : grid[<<loc[b][1], loc[b][2], sub[b]>>] = b
=============================================================================
