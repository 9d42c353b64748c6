----------------------------- MODULE DeviceGrid -----------------------------
(***************************************************************************)
(* The size of the array of blocks: vpr_init_pre_place_and_route           *)
(* (base/vpr_api.c) searches for it, or takes it from the architecture,    *)
(* and alloc_and_load_grid (base/SetupGrid.c) fills it column by column.   *)
(*                                                                         *)
(* One iteration of the search is one step.  A setup holds what the        *)
(* architecture and the packed netlist say; fractions (the aspect ratio,   *)
(* a relative column) are pairs <<numerator, denominator>>.  Which tiles   *)
(* hold what is left out: only the numbers of instances are compared.      *)
(***************************************************************************)
EXTENDS Integers, FiniteSets, Sequences

CONSTANTS
    Setups,     \* architectures with a packed netlist
    BlockTypes,      \* block types but EMPTY_TYPE
    IOType, FillType,
    MaxShort    \* 32767: coordinates are shorts

(* columns: the grid_loc_defs of the other types, in the order of          *)
(* type_descriptors; blocks: how many of each type the netlist has; chain: *)
(* the longest placement macro.                                            *)
ASSUME SetupsAssumption ==
    \A s \in Setups :
        /\ s.auto \in BOOLEAN
        /\ s.W \in Nat \ {0} /\ s.H \in Nat \ {0}
        /\ s.aspect \in (Nat \ {0}) \X (Nat \ {0})
        /\ s.io_capacity \in Nat /\ s.chain \in Nat
        /\ s.height \in [BlockTypes -> Nat \ {0}]
        /\ s.blocks \in [BlockTypes -> Nat] /\ s.num_blocks \in Nat \ {0}
        /\ s.fill_priority \in Int

ASSUME TypesAssumption == IOType \in BlockTypes /\ FillType \in BlockTypes \ {IOType}

ASSUME MaxShortAssumption == MaxShort \in Nat /\ MaxShort > 1

VARIABLES setup, phase, current, low, high, nx, ny

sizing_vars == <<setup, phase, current, low, high, nx, ny>>

-----------------------------------------------------------------------------
Nint(p, q) == (2 * p + q) \div (2 * q)          \* nint(p / q)

Wide(s) == s.aspect[1] >= s.aspect[2]           \* Aspect >= 1.0

(* The array whose smaller side is c.                                      *)
WidthOf(s, c)  == IF Wide(s) THEN Nint(c * s.aspect[1], s.aspect[2]) ELSE c
HeightOf(s, c) == IF Wide(s) THEN c ELSE Nint(c * s.aspect[2], s.aspect[1])

(* alloc_and_load_grid exits on coordinates that are no shorts.            *)
Allocatable(w, h) == w < MaxShort /\ h < MaxShort

(* find_type_col: does the definition d name column x of w?                *)
Matches(d, x, w) ==
    \/ /\ d.kind = "repeat"
       /\ LET start == IF d.start < 0 THEN d.start + w + 1 ELSE d.start
          IN  x = start \/ (d.repeat > 0 /\ x > start /\ start > 0
                            /\ (x - start) % d.repeat = 0)
    \/ /\ d.kind = "rel"
       /\ Nint(d.rel[1] * w, d.rel[2]) = x

(* Of the matching definitions above the priority of FILL_TYPE, the first  *)
(* of the highest priority gives the column its type.                      *)
TypeOfColumn(s, x, w) ==
    LET defs  == s.columns
        above == {i \in DOMAIN defs : Matches(defs[i], x, w) /\ defs[i].priority > s.fill_priority}
        first == {i \in above : \A j \in above :
                     \/ defs[j].priority < defs[i].priority
                     \/ defs[j].priority = defs[i].priority /\ i <= j}
    IN  IF above = {} THEN FillType ELSE defs[CHOOSE i \in first : TRUE].type

(* num_instances_type: I/O on the four sides; in a column, as many blocks  *)
(* as have their full height inside.                                       *)
Instances(s, t, w, h) ==
    IF t = IOType THEN 2 * s.io_capacity * (w + h)
    ELSE Cardinality({x \in 1 .. w : TypeOfColumn(s, x, w) = t}) * (h \div s.height[t])

(* Every block has a location, and the longest chain, which is placed      *)
(* vertically, is no longer than a column.                                 *)
Fits(s, w, h) ==
    /\ \A t \in BlockTypes : s.blocks[t] <= Instances(s, t, w, h)
    /\ s.chain <= h

FitsAt(c) == Fits(setup, WidthOf(setup, c), HeightOf(setup, c))

-----------------------------------------------------------------------------
None == -1

(* current starts at nint(sqrt(num_blocks)).                               *)
SizingInit ==
    /\ setup \in Setups
    /\ phase = IF setup.auto THEN "sizing" ELSE "fixed"
    /\ \E k \in 1 .. setup.num_blocks :
           /\ (2 * k - 1) * (2 * k - 1) <= 4 * setup.num_blocks
           /\ 4 * setup.num_blocks < (2 * k + 1) * (2 * k + 1)
           /\ current = k
    /\ low = 1 /\ high = None
    /\ nx = 1 /\ ny = 1                 \* what the packer left

(* Mutants: the search ends at the first size that fits, or one early.     *)
SearchingOnce  == phase = "sizing" /\ high = None
SearchingShort == phase = "sizing" /\ (high = None \/ low + 1 < high)

Searching == phase = "sizing" /\ (high = None \/ low < high)

(* An iteration generates the grid of the current size; a size whose       *)
(* coordinates are no shorts ends the program.                             *)
Generate ==
    /\ nx' = WidthOf(setup, current)
    /\ ny' = HeightOf(setup, current)
    /\ Allocatable(nx', ny')

SizeTooLarge ==
    /\ phase = "sizing"
    /\ ~Allocatable(WidthOf(setup, current), HeightOf(setup, current))
    /\ nx' = WidthOf(setup, current) /\ ny' = HeightOf(setup, current)
    /\ phase' = "too_large"
    /\ UNCHANGED <<setup, current, low, high>>

Midpoint(l, h) == l + (h - l) \div 2

(* The netlist fits: look for something smaller.                           *)
Shrink ==
    /\ Searching /\ Generate
    /\ FitsAt(current)
    /\ high' = current
    /\ current' = Midpoint(low, current)
    /\ UNCHANGED <<setup, phase, low>>

(* It does not, and nothing did so far: double.                            *)
Double ==
    /\ Searching /\ Generate
    /\ ~FitsAt(current) /\ high = None
    /\ current' = current * 2
    /\ phase' = IF current' > MaxShort THEN "too_large" ELSE "sizing"
    /\ UNCHANGED <<setup, low, high>>

(* Mutant: low is raised before the size is.                               *)
GrowLate ==
    /\ Searching /\ Generate
    /\ ~FitsAt(current) /\ high # None
    /\ low' = current
    /\ current' = Midpoint(low', high)
    /\ UNCHANGED <<setup, phase, high>>

(* It does not, and a larger size did.  A size that failed before is not   *)
(* tried again: low moves past it.                                         *)
Grow ==
    /\ Searching /\ Generate
    /\ ~FitsAt(current) /\ high # None
    /\ low' = IF low = current THEN current + 1 ELSE current
    /\ current' = Midpoint(low', high)
    /\ UNCHANGED <<setup, phase, high>>

(* The last grid is generated once more.                                   *)
AutoSized ==
    /\ phase = "sizing" /\ ~Searching
    /\ Generate
    /\ phase' = "sized"
    /\ UNCHANGED <<setup, current, low, high>>

FixedSize ==
    /\ phase = "fixed"
    /\ nx' = setup.W /\ ny' = setup.H
    /\ phase' = IF Allocatable(nx', ny') THEN "sized" ELSE "too_large"
    /\ UNCHANGED <<setup, current, low, high>>

(* The netlist is compared with the grid again, whatever gave its size.    *)
FinalCheck ==
    /\ phase = "sized"
    /\ phase' = IF Fits(setup, nx, ny) THEN "ready" ELSE "rejected"
    /\ UNCHANGED <<setup, current, low, high, nx, ny>>

SizingEnded == phase \in {"ready", "rejected", "too_large"} /\ UNCHANGED sizing_vars

SizingNext ==
    \/ SizeTooLarge \/ Shrink \/ Double \/ Grow \/ AutoSized
    \/ FixedSize \/ FinalCheck
    \/ SizingEnded

SizingSpec == SizingInit /\ [][SizingNext]_sizing_vars
SizingFairSpec == SizingSpec /\ WF_sizing_vars(SizingNext)       \* a sequential program does not stop

-----------------------------------------------------------------------------
(* Coordinates are shorts: a grid that is kept has no larger ones.         *)
SizingTypeOK ==
    /\ setup \in Setups
    /\ phase \in {"sizing", "fixed", "sized", "ready", "rejected", "too_large"}
    /\ current \in Nat \ {0} /\ low \in Nat \ {0}
    /\ high \in (Nat \ {0}) \cup {None}
    /\ nx \in Nat \ {0} /\ ny \in Nat \ {0}
    /\ phase # "too_large" => nx < MaxShort /\ ny < MaxShort

(* The search never ends on a size that fails: the final check is there    *)
(* for sizes from the architecture.  And the size it ends on is the        *)
(* smallest one or one below which the netlist does not fit.  Coordinates  *)
(* stay in the range of their short type.                                  *)
SizeIsTight ==
    /\ SizingTypeOK
    /\ setup.auto => phase # "rejected"
    /\ setup.auto /\ phase = "ready" =>
           /\ setup.chain <= ny /\ FitsAt(current)
           /\ current > 1 => ~FitsAt(current - 1)

Sizes == 1 .. MaxShort - 1      \* what can be allocated at most

(* Larger sizes hold what smaller ones do: not so where a column is counted *)
(* from the right or at a relative place.                                  *)
Monotone ==
    \A b, c \in Sizes : b <= c /\ FitsAt(b) => FitsAt(c)

(* Where larger arrays hold what smaller ones do, the search finds the     *)
(* smallest array that holds the netlist.                                  *)
SmallestFits ==
    setup.auto /\ phase = "ready" /\ Monotone =>
        \A c \in Sizes : FitsAt(c) => current <= c

(* The search ends.                                                        *)
SizingEnds == <>(phase \in {"ready", "rejected", "too_large"})

-----------------------------------------------------------------------------
(* The inductive invariant of the search: high fits, what is just below    *)
(* low, if anything, does not, and current stays between them.             *)
SearchInv ==
    /\ phase = "sizing" => setup.auto
    /\ setup.auto /\ phase # "too_large" =>
           /\ phase \in {"sizing", "sized", "ready"}
           /\ low <= current
           /\ high = None => low = 1
           /\ high # None => FitsAt(high) /\ current <= high
           /\ low > 1 => ~FitsAt(low) \/ ~FitsAt(low - 1)
           /\ phase \in {"sized", "ready"} =>
                  /\ low = high
                  /\ nx = WidthOf(setup, current) /\ ny = HeightOf(setup, current)

SizingIInv == SizingTypeOK /\ SearchInv
=============================================================================
